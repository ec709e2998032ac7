---------------------------- MODULE QuotaService ----------------------------
(***************************************************************************)
(* The quota cache that the dashboard shows.  A round lists the providers  *)
(* with a coding plan, queries all of them at once and then replaces the   *)
(* whole cache.  main runs the first round itself, before it opens its     *)
(* ports; a background task runs the later ones, while administrators go   *)
(* on changing the providers.  A start of the process is Init.             *)
(***************************************************************************)
EXTENDS Naturals

CONSTANTS
    Names,      \* provider names
    Adapters,   \* quota_adapter, what a query needs to know
    NoAdapter,  \* None
    NoInfo,     \* no entry of a HashMap
    Pending,    \* a query that join_all waits for
    MaxEdits    \* bound: changes of the providers in a behaviour

(***************************************************************************)
(* `check' is response_mapping.error_check: absent, or a value that its    *)
(* field must have, or (not_equal) must not have.  `paths' says whether    *)
(* every json path of the mapping is well formed.                          *)
(***************************************************************************)
ASSUME QuotaAssumption ==
    /\ \A a \in Adapters : /\ a.check \in {"none", "equal", "not_equal"}
                           /\ a.paths \in {"sound", "broken"}
    /\ NoAdapter \notin Adapters
    /\ MaxEdits \in Nat

VARIABLES
    provider,  \* ProviderRepo::cache, [Names -> Provider]
    main,      \* what main is doing
    stage,     \* what the task that runs the rounds is doing
    listed,    \* `coding', the providers the round queries
    found,     \* the results of the round so far
    cache,     \* QuotaService::cache
    edits,     \* changes of the providers so far
    unlisted,  \* history: names changed since the round listed them
    outdated   \* history: names changed since the cache's round listed them

vars == <<provider, main, stage, listed, found, cache, edits, unlisted, outdated>>

-----------------------------------------------------------------------------
(***************************************************************************)
(* A name without a provider is like one without a coding plan.            *)
(***************************************************************************)
Provider == [is_coding_plan : BOOLEAN, adapter : Adapters \union {NoAdapter}]

Unplanned == [is_coding_plan |-> FALSE, adapter |-> NoAdapter]

(***************************************************************************)
(* QuotaInfo: `adapter' stands for the tiers or the error text that a      *)
(* query with that adapter brought back.                                   *)
(***************************************************************************)
Info == [adapter : Adapters \union {NoAdapter}, success : BOOLEAN]

ASSUME MarkAssumption == NoInfo \notin Info /\ Pending \notin Info /\ NoInfo # Pending

(***************************************************************************)
(* What a query may meet: a broken connection; an error status, `split' if *)
(* the 200th byte of its text is inside a character; a text that is no     *)
(* JSON; a document whose error_check field is the value of the adapter,   *)
(* another value, or not there.                                            *)
(***************************************************************************)
Documents == {"same", "other", "missing"}

Answers == Documents \union {"lost", "refused", "split", "text"}

TypeOK ==
    /\ provider \in [Names -> Provider]
    /\ main \in {"refresh", "listen", "serve", "down"}
    /\ stage \in {"first", "querying", "waiting", "dead"}
    /\ listed \in [Names -> Provider]
    /\ found \in [Names -> Info \union {NoInfo, Pending}]
    /\ cache \in [Names -> Info \union {NoInfo}]
    /\ edits \in 0..MaxEdits
    /\ unlisted \subseteq Names
    /\ outdated \subseteq Names

Init ==
    /\ provider \in [Names -> Provider]
    /\ main = "refresh"
    /\ stage = "first"
    /\ listed = [n \in Names |-> Unplanned]
    /\ found = [n \in Names |-> NoInfo]
    /\ cache = [n \in Names |-> NoInfo]
    /\ edits = 0
    /\ unlisted = {}
    /\ outdated = Names

-----------------------------------------------------------------------------
(***************************************************************************)
(* A round begins: at once for main, at a tick of the interval for the     *)
(* task.  list() reads the provider cache and cannot fail.                 *)
(***************************************************************************)
FirstRoundOnly == stage = "first"   \* mutant: the task does not loop

RoundDue == stage \in {"first", "waiting"}

Coding(n) == IF provider[n].is_coding_plan THEN provider[n] ELSE Unplanned

List ==
    /\ RoundDue
    /\ stage' = "querying"
    /\ listed' = [n \in Names |-> Coding(n)]
    /\ found' = [n \in Names |->
                    IF provider[n].is_coding_plan THEN Pending ELSE NoInfo]
    /\ unlisted' = {}
    /\ UNCHANGED <<provider, main, cache, edits, outdated>>

(***************************************************************************)
(* query_one, by what the upstream answers.  With not_equal the code takes *)
(* a field that has the adapter's value for an error.                      *)
(***************************************************************************)
Rejects(adapter, answer) ==
    \/ adapter.check = "not_equal" /\ answer = "same"
    \/ adapter.check = "equal" /\ answer = "other"

Result(adapter, answer) ==
    [adapter |-> adapter,
     success |-> answer \in Documents /\ ~Rejects(adapter, answer)]

Found(n, info) ==
    /\ stage = "querying"
    /\ found[n] = Pending
    /\ found' = [found EXCEPT ![n] = info]
    /\ UNCHANGED <<provider, main, stage, listed, cache, edits, unlisted, outdated>>

NotConfigured(n) ==
    /\ listed[n].adapter = NoAdapter
    /\ Found(n, [adapter |-> NoAdapter, success |-> FALSE])

Answered(n) ==
    /\ listed[n].adapter # NoAdapter
    /\ \E answer \in Answers \ {"split"} :
           Found(n, Result(listed[n].adapter, answer))

(***************************************************************************)
(* A slice out of range panics: the 200th byte of an error text, or a path *)
(* like "limits[" if the document has what stands before it.  All queries  *)
(* of a round are polled by one task, which ends, and main with it if it   *)
(* runs the first round.                                                   *)
(***************************************************************************)
MayPanic(adapter, answer) ==
    \/ answer = "split"
    \/ adapter.paths = "broken" /\ answer \in Documents

Panic(n) ==
    /\ stage = "querying"
    /\ found[n] = Pending
    /\ listed[n].adapter # NoAdapter
    /\ \E answer \in Answers : MayPanic(listed[n].adapter, answer)
    /\ stage' = "dead"
    /\ main' = IF main = "refresh" THEN "down" ELSE main
    /\ listed' = [m \in Names |-> Unplanned]
    /\ found' = [m \in Names |-> NoInfo]
    /\ UNCHANGED <<provider, cache, edits, unlisted, outdated>>

Query(n) == NotConfigured(n) \/ Answered(n) \/ Panic(n)

(***************************************************************************)
(* The round ends when every query has: the cache becomes its results.     *)
(***************************************************************************)
SomeFound == \E n \in Names : found[n] # Pending   \* mutant: waits for one only

AllSucceeded ==   \* mutant: what was not found is waited for
    \A n \in Names :
        found[n] # Pending /\ (IF found[n] = NoInfo THEN TRUE ELSE found[n].success)

RoundComplete == \A n \in Names : found[n] # Pending

Extended ==   \* mutant: the results are added to the cache
    [n \in Names |-> IF found[n] = NoInfo THEN cache[n] ELSE found[n]]

Refreshed == found

Store ==
    /\ stage = "querying"
    /\ RoundComplete
    /\ cache' = Refreshed
    /\ stage' = "waiting"
    /\ main' = IF main = "refresh" THEN "listen" ELSE main
    /\ listed' = [n \in Names |-> Unplanned]
    /\ found' = [n \in Names |-> NoInfo]
    /\ outdated' = unlisted
    /\ UNCHANGED <<provider, edits, unlisted>>

(***************************************************************************)
(* main opens its ports; from then on administrators change providers.     *)
(***************************************************************************)
Listen ==
    /\ main = "listen"
    /\ main' = "serve"
    /\ UNCHANGED <<provider, stage, listed, found, cache, edits, unlisted, outdated>>

Change(n) ==
    /\ main = "serve"
    /\ edits < MaxEdits
    /\ \E p \in Provider \ {provider[n]} : provider' = [provider EXCEPT ![n] = p]
    /\ edits' = edits + 1
    /\ unlisted' = unlisted \union {n}
    /\ outdated' = outdated \union {n}
    /\ UNCHANGED <<main, stage, listed, found, cache>>

Next ==
    \/ List
    \/ \E n \in Names : Query(n)
    \/ Store
    \/ Listen
    \/ \E n \in Names : Change(n)

Spec == Init /\ [][Next]_vars

(***************************************************************************)
(* The timer fires, the executor runs main and the task, and the upstreams *)
(* answer in the end, which no timeout of the code enforces.               *)
(***************************************************************************)
FairSpec ==
    /\ Spec
    /\ WF_vars(List)
    /\ \A n \in Names : WF_vars(Query(n))
    /\ WF_vars(Store)
    /\ WF_vars(Listen)

-----------------------------------------------------------------------------
(***************************************************************************)
(* What the admin server answers for a name (get, get_all).                *)
(***************************************************************************)
Shown(n) == cache[n]

Describes(info, p) ==
    IF p.is_coding_plan THEN info \in Info /\ info.adapter = p.adapter
    ELSE info = NoInfo

(***************************************************************************)
(* The dashboard is never more than one round behind: a provider that has  *)
(* not changed since the round in the cache listed it is shown with what   *)
(* its present adapter brought back, and one that is gone, or has lost its *)
(* plan, is not shown.  A round that was under way at the time of a change *)
(* must not be taken for a later one.                                      *)
(***************************************************************************)
CacheFollowsProviders ==
    \A n \in Names \ outdated : Describes(Shown(n), provider[n])

(***************************************************************************)
(* Each change reaches the cache in the end, unless the refresher's task   *)
(* has panicked: no failed or unconfigured query holds up the rounds.      *)
(***************************************************************************)
ChangesAppear ==
    \A n \in Names : n \in outdated ~> n \notin outdated \/ stage = "dead"

(***************************************************************************)
(* The start comes to an end: the ports are opened, whatever the upstreams *)
(* answer to the queries that main waits for, unless one makes it panic.   *)
(***************************************************************************)
StartEnds == <>(main \in {"serve", "down"})

(***************************************************************************)
(* What the comment of spawn promises: quota data are refreshed            *)
(* periodically, for as long as the gateway serves.                        *)
(***************************************************************************)
RefreshedPeriodically ==
    \A n \in Names : main = "serve" /\ n \in outdated ~> n \notin outdated

-----------------------------------------------------------------------------
(***************************************************************************)
(* CacheFollowsProviders is not inductive: the round under way must have   *)
(* listed what has not changed since, and have asked for what it listed.   *)
(***************************************************************************)
ListedFollowsProviders ==
    stage = "querying" =>
        \A n \in Names \ unlisted :
            /\ listed[n].is_coding_plan = provider[n].is_coding_plan
            /\ listed[n].is_coding_plan => listed[n].adapter = provider[n].adapter

FoundFollowsListed ==
    stage = "querying" =>
        \A n \in Names :
            /\ found[n] = Pending => listed[n].is_coding_plan
            /\ found[n] # Pending => Describes(found[n], listed[n])

RoundInv ==
    /\ TypeOK
    /\ ListedFollowsProviders
    /\ FoundFollowsListed
    /\ CacheFollowsProviders
=============================================================================
