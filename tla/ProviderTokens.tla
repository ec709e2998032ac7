--------------------------- MODULE ProviderTokens ---------------------------
(***************************************************************************)
(* The token of each provider, encrypted in its row and in the clear in the*)
(* provider cache, and the calls of ProviderService as far as they go for  *)
(* it: a check on the cache, a statement, the cache, the answer, each a    *)
(* step of its own with nothing locked between.  ProviderRegistry has the  *)
(* other columns, tables and statements.                                   *)
(***************************************************************************)
EXTENDS AdminCalls

CONSTANTS
    Providers,
    Seeds,    \* values of ECC_CRYPTO_SEED
    Secrets,  \* tokens in the clear
    NoToken   \* there is no provider

ASSUME TokenAssumption ==
    NoToken \notin Providers \union Secrets \union [seed : Seeds, secret : Secrets]

VARIABLES
    tokens,  \* column auth_token, [Providers -> Encrypted or NoToken]
    held,    \* auth_token in the provider cache, [Providers -> Token]
    job,     \* [Admins -> Job]: the call in progress and its locals
    given    \* history: [Providers -> the tokens it may have, see AnswerToken]

tokenVars == <<tokens, held, job, given>>

(***************************************************************************)
(* AES-GCM authenticates: a token is read under its own seed or not at all.*)
(***************************************************************************)
Encrypted == [seed : Seeds, secret : Secrets]

encrypt(s, secret) == [seed |-> s, secret |-> secret]

Decrypts(s, row) == row # NoToken => row.seed = s

Plain(row) == IF row = NoToken THEN NoToken ELSE row.secret

(***************************************************************************)
(* `token' is what the call gives the provider, NoToken for a delete;      *)
(* `rivals' is history, the tokens of the calls on the same provider that  *)
(* were in progress at some time while this one was.                       *)
(***************************************************************************)
Token == Secrets \union {NoToken}

Step == {"idle", "insert", "delete", "cache", "answer"}

Job == [step : Step, provider : Providers \union {NoToken}, token : Token,
        rivals : SUBSET Token]

NoJob == [step |-> "idle", provider |-> NoToken, token |-> NoToken, rivals |-> {}]

TokensTypeOK ==
    /\ tokens \in [Providers -> Encrypted \union {NoToken}]
    /\ held \in [Providers -> Token]
    /\ job \in [Admins -> Job]
    /\ \A a \in Admins : job[a] = NoJob \/ job[a].provider \in Providers
    /\ given \in [Providers -> SUBSET Token]

TokensInit ==
    /\ tokens = [p \in Providers |-> NoToken]
    /\ held = [p \in Providers |-> NoToken]
    /\ job = [a \in Admins |-> NoJob]
    /\ given = [p \in Providers |-> {NoToken}]

CallsOn(p) == {a \in Admins : job[a].provider = p}

-----------------------------------------------------------------------------
(***************************************************************************)
(* From here on the provider may come to have the token asked for, even if *)
(* the call fails.                                                         *)
(***************************************************************************)
BeginToken(a, p, token, step) ==
    /\ job[a] = NoJob
    /\ CountCall
    /\ job' = [b \in Admins |->
                 IF b = a
                 THEN [step |-> step, provider |-> p, token |-> token,
                       rivals |-> {job[c].token : c \in CallsOn(p)}]
                 ELSE IF b \in CallsOn(p)
                      THEN [job[b] EXCEPT !.rivals = @ \union {token}] ELSE job[b]]
    /\ given' = [given EXCEPT ![p] = @ \union {token}]
    /\ UNCHANGED <<tokens, held>>

(***************************************************************************)
(* create_provider wants no entry in the cache; update_provider wants one, *)
(* and writes the token it found there back if it is given no other.       *)
(***************************************************************************)
CreateProvider(a, p, secret) ==
    /\ held[p] = NoToken
    /\ BeginToken(a, p, secret, "insert")

UpdateProvider(a, p, secret) ==
    /\ held[p] # NoToken
    /\ BeginToken(a, p, secret, "insert")

DeleteProvider(a, p) ==
    /\ held[p] # NoToken
    /\ BeginToken(a, p, NoToken, "delete")

Advance(a, step) == job' = [job EXCEPT ![a].step = step]

(***************************************************************************)
(* INSERT OR REPLACE INTO providers, and DELETE, which wants a row.        *)
(***************************************************************************)
InsertRow(a, s) ==
    /\ job[a].step = "insert"
    /\ tokens' = [tokens EXCEPT ![job[a].provider] = encrypt(s, job[a].token)]
    /\ Advance(a, "cache")
    /\ UNCHANGED <<calls, held, given>>

DeleteRow(a) ==
    /\ job[a].step = "delete"
    /\ tokens[job[a].provider] # NoToken
    /\ tokens' = [tokens EXCEPT ![job[a].provider] = NoToken]
    /\ Advance(a, "cache")
    /\ UNCHANGED <<calls, held, given>>

KeepsDeleted(a) ==   \* mutant: a deleted provider stays in the cache
    /\ job[a].step = "cache"
    /\ held' = IF job[a].token = NoToken THEN held
               ELSE [held EXCEPT ![job[a].provider] = job[a].token]
    /\ Advance(a, "answer")
    /\ UNCHANGED <<calls, tokens, given>>

(***************************************************************************)
(* cache.set and cache.remove.                                             *)
(***************************************************************************)
CacheToken(a) ==
    /\ job[a].step = "cache"
    /\ held' = [held EXCEPT ![job[a].provider] = job[a].token]
    /\ Advance(a, "answer")
    /\ UNCHANGED <<calls, tokens, given>>

Done(a) == job' = [job EXCEPT ![a] = NoJob]

(***************************************************************************)
(* The call returns Ok: from now on the provider has its token, or that of *)
(* a call which overlapped with it; what was there before is gone.         *)
(***************************************************************************)
AnswerToken(a) ==
    /\ job[a].step = "answer"
    /\ given' = [given EXCEPT ![job[a].provider] = {job[a].token} \union job[a].rivals]
    /\ Done(a)
    /\ UNCHANGED <<calls, tokens, held>>

(***************************************************************************)
(* A statement fails, the DELETE finds no row, or one of the statements    *)
(* between the row and the cache of a save fails; what was written stays.  *)
(***************************************************************************)
FailToken(a) ==
    /\ \/ job[a].step \in {"insert", "delete"}
       \/ job[a].step = "cache" /\ job[a].token # NoToken
    /\ Done(a)
    /\ UNCHANGED <<calls, tokens, held, given>>

TokenCall(a, s) ==
    \/ \E p \in Providers :
           \/ \E secret \in Secrets :
                  CreateProvider(a, p, secret) \/ UpdateProvider(a, p, secret)
           \/ DeleteProvider(a, p)
    \/ InsertRow(a, s)
    \/ DeleteRow(a)
    \/ CacheToken(a)
    \/ AnswerToken(a)
    \/ FailToken(a)
=============================================================================
