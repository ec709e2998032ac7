------------------------------- MODULE Startup -------------------------------
(***************************************************************************)
(* The life of the process against what is on disk: main reads the         *)
(* providers, whose tokens are encrypted under a key derived from          *)
(* ECC_CRYPTO_SEED, writes the built-in presets, one statement each, and   *)
(* then serves the administrators' calls.  Each of these steps may fail,   *)
(* which ends the process; it may be killed at any point, and started      *)
(* again, with another seed.                                               *)
(***************************************************************************)
EXTENDS PresetStore, ProviderTokens, Sequences

CONSTANTS
    Builtins,  \* names in presets.json, in its order
    Original,  \* what presets.json says under a name
    MaxStarts  \* bound: starts in a behaviour

ASSUME StartupAssumption ==
    /\ Builtins \in Seq(Names)
    /\ Original \in Bodies
    /\ MaxStarts \in Nat

VARIABLES
    stage,    \* how far main has come
    seed,     \* ECC_CRYPTO_SEED of this start
    seeded,   \* how many built-in presets it has written
    starts    \* starts so far

mainVars == <<stage, seed, seeded, starts>>
vars == <<presetVars, tokenVars, calls, mainVars>>

-----------------------------------------------------------------------------
BuiltinNames == {Builtins[i] : i \in 1..Len(Builtins)}

TypeOK ==
    /\ PresetsTypeOK
    /\ TokensTypeOK
    /\ calls \in 0..MaxCalls
    /\ stage \in {"down", "loading", "seeding", "serving"}
    /\ seed \in Seeds
    /\ seeded \in 0..Len(Builtins)
    /\ starts \in 0..MaxStarts

Init ==
    /\ presets = [n \in Names |-> NoPreset]
    /\ pc = [a \in Admins |-> "idle"]
    /\ call = [a \in Admins |-> NoCall]
    /\ calls = 0
    /\ rivals = [a \in Admins |-> {}]
    /\ told = [n \in Names |-> NoPreset]
    /\ TokensInit
    /\ stage = "down"
    /\ seed \in Seeds
    /\ seeded = 0
    /\ starts = 0

-----------------------------------------------------------------------------
(***************************************************************************)
(* What a start does to the built-in presets is left open: the code writes *)
(* them all over, DDD_DESIGN.md 414 wants edited ones to stay.             *)
(***************************************************************************)
Start(s) ==
    /\ stage = "down"
    /\ starts < MaxStarts
    /\ starts' = starts + 1
    /\ stage' = "loading"
    /\ seed' = s
    /\ seeded' = 0
    /\ held' = [p \in Providers |-> NoToken]
    /\ told' = [n \in Names |-> IF n \in BuiltinNames THEN Unknown ELSE told[n]]
    /\ UNCHANGED <<presets, pc, call, rivals, tokens, job, given, calls>>

(***************************************************************************)
(* load_all_from_db: the first token that cannot be decrypted is an error, *)
(* and ProviderRepo::new fails, see Stop.                                  *)
(***************************************************************************)
SkipsUnreadable ==   \* mutant: a provider that cannot be decrypted is left out
    /\ stage = "loading"
    /\ held' = [p \in Providers |->
                    IF Decrypts(seed, tokens[p]) THEN Plain(tokens[p]) ELSE NoToken]
    /\ stage' = "seeding"
    /\ UNCHANGED <<presetVars, tokens, job, given, calls, seed, seeded, starts>>

LoadProviders ==
    /\ stage = "loading"
    /\ \A p \in Providers : Decrypts(seed, tokens[p])
    /\ held' = [p \in Providers |-> Plain(tokens[p])]
    /\ stage' = "seeding"
    /\ UNCHANGED <<presetVars, tokens, job, given, calls, seed, seeded, starts>>

(***************************************************************************)
(* sync_presets, one INSERT OR REPLACE after the other.                    *)
(***************************************************************************)
ClearsFirst ==   \* mutant: DELETE FROM presets before the first one
    /\ stage = "seeding"
    /\ seeded < Len(Builtins)
    /\ seeded' = seeded + 1
    /\ presets' = [n \in Names |-> IF n = Builtins[seeded + 1] THEN Original
                                   ELSE IF seeded = 0 THEN NoPreset ELSE presets[n]]
    /\ UNCHANGED <<pc, call, rivals, told, tokenVars, calls, stage, seed, starts>>

SeedPreset ==
    /\ stage = "seeding"
    /\ seeded < Len(Builtins)
    /\ seeded' = seeded + 1
    /\ presets' = [presets EXCEPT ![Builtins[seeded + 1]] = Original]
    /\ UNCHANGED <<pc, call, rivals, told, tokenVars, calls, stage, seed, starts>>

Serve ==
    /\ stage = "seeding"
    /\ seeded = Len(Builtins)
    /\ stage' = "serving"
    /\ UNCHANGED <<presetVars, tokenVars, calls, seed, seeded, starts>>

(***************************************************************************)
(* The process is killed, or a step of main fails and it panics.           *)
(***************************************************************************)
Stop ==
    /\ stage # "down"
    /\ stage' = "down"
    /\ DropCalls
    /\ job' = [a \in Admins |-> NoJob]
    /\ UNCHANGED <<tokens, held, given, seed, seeded, starts>>

-----------------------------------------------------------------------------
HandlePreset(a) ==
    /\ stage = "serving"
    /\ job[a] = NoJob
    /\ PresetCall(a)
    /\ UNCHANGED <<tokenVars, mainVars>>

HandleProvider(a) ==
    /\ stage = "serving"
    /\ pc[a] = "idle"
    /\ TokenCall(a, seed)
    /\ UNCHANGED <<presetVars, mainVars>>

Next ==
    \/ \E s \in Seeds : Start(s)
    \/ LoadProviders
    \/ SeedPreset
    \/ Serve
    \/ Stop
    \/ \E a \in Admins : HandlePreset(a) \/ HandleProvider(a)

Spec == Init /\ [][Next]_vars

-----------------------------------------------------------------------------
(***************************************************************************)
(* What an administrator was last told of a preset is what the table has,  *)
(* for as long as no call on it is in progress: through overlapping calls, *)
(* failed statements, kills between a check and its write, and any number  *)
(* of starts, finished or not, for presets of the administrators' own; for *)
(* built-in ones until the next start, which is not judged here.           *)
(***************************************************************************)
KnownPresetsStay ==
    \A n \in Names \ CalledFor : told[n] # Unknown => presets[n] = told[n]

(***************************************************************************)
(* No sequence of starts, under whatever seeds, and of saves leaves tokens *)
(* on disk that no single seed can read: there is always a seed under      *)
(* which a start succeeds and brings back, for every provider, the token   *)
(* last acknowledged, or that of a call that overlapped or failed since.   *)
(***************************************************************************)
OneSeedReadsAll ==
    \E s \in Seeds : \A p \in Providers :
        /\ Decrypts(s, tokens[p])
        /\ Plain(tokens[p]) \in given[p]

(***************************************************************************)
(* While the servers are up, calls to a provider carry the token that was  *)
(* last acknowledged for it, whichever process took it, or that of a call  *)
(* that overlapped or that has begun or failed since: row and cache are    *)
(* written apart, and calls overlap between the two, but no token comes    *)
(* back that an acknowledged call has replaced, and no deleted provider.   *)
(***************************************************************************)
ServesGivenTokens ==
    stage = "serving" => \A p \in Providers : held[p] \in given[p]
=============================================================================
