--------------------------- MODULE ProviderRegistry --------------------------
(***************************************************************************)
(* Where providers are kept: the tables of the database, the provider cache*)
(* that the router reads, and the route cache built from it.  The admin    *)
(* server runs the calls of ProviderService in parallel, on a pool of      *)
(* connections; nothing is locked across a call and save_to_db uses no     *)
(* transaction, so every statement and every access to a cache is a step.  *)
(* The process may be killed at any step and starts again from the tables. *)
(***************************************************************************)
EXTENDS Naturals

CONSTANTS
    Admins,      \* calls that may be in progress at the same time
    Names,       \* provider names
    Models,      \* claude_model of the mappings
    Versions,    \* values that the fields of a provider may have
    NoRow,       \* a row that is not there, a field of no provider
    Unknown,     \* see `acked'
    MaxCalls,    \* bound: calls in a behaviour
    MaxRestarts  \* bound: restarts in a behaviour

ASSUME RegistryAssumption ==
    /\ NoRow \notin Versions
    /\ MaxCalls \in Nat /\ MaxRestarts \in Nat

VARIABLES
    urls,      \* table providers, [Names -> row]
    maps,      \* table model_mappings, [Names -> [Models -> row]]
    prices,    \* table pricing, one row per provider stands for them all
    cache,     \* ProviderRepo::cache, [Names -> Provider]
    routes,    \* RouteRepo::cache, [Models -> set of targets]
    pc,        \* [Admins -> Stage]: the next piece of code of the call
    call,      \* [Admins -> Call]: its parameters and locals
    calls,     \* calls made so far
    restarts,  \* restarts so far
    rivals,    \* history: [Admins -> names of the calls that overlapped]
    acked,     \* history: [Names -> what the last call was told it had done]
    settled    \* history: the routes were last built by a call that ran alone

tables == <<urls, maps, prices>>
history == <<rivals, acked, settled>>
vars == <<tables, cache, routes, pc, call, calls, restarts, history>>

-----------------------------------------------------------------------------
Field == Versions \union {NoRow}

NoMaps == [m \in Models |-> NoRow]

(***************************************************************************)
(* base_url stands for all the columns of the providers table.             *)
(***************************************************************************)
Provider == [url : Field, maps : [Models -> Field], price : Field]

Absent == [url |-> NoRow, maps |-> NoMaps, price |-> NoRow]

Target == [provider : Names, model : Versions]

Stage == {"idle", "replace", "clearMaps", "insertMaps", "clearPrices",
          "insertPrices", "publish", "delete", "evict", "list", "fill"}

(***************************************************************************)
(* `todo' are the mappings yet to be inserted, `listed' is the copy of the *)
(* provider cache that rebuild works on.                                   *)
(***************************************************************************)
Call == [op     : {"none", "create", "update", "delete"},
         name   : Names \union {NoRow},
         draft  : Provider,
         todo   : SUBSET Models,
         listed : [Names -> Provider]]

NewCall(op, p, draft) ==
    [op |-> op, name |-> p, draft |-> draft, todo |-> {},
     listed |-> [q \in Names |-> Absent]]

NoCall == NewCall("none", NoRow, Absent)

TypeOK ==
    /\ urls \in [Names -> Field]
    /\ maps \in [Names -> [Models -> Field]]
    /\ prices \in [Names -> Field]
    /\ cache \in [Names -> Provider]
    /\ routes \in [Models -> SUBSET Target]
    /\ pc \in [Admins -> Stage]
    /\ call \in [Admins -> Call]
    /\ calls \in 0..MaxCalls
    /\ restarts \in 0..MaxRestarts
    /\ rivals \in [Admins -> SUBSET Names]
    /\ acked \in [Names -> Provider \union {Unknown}]
    /\ settled \in BOOLEAN

(***************************************************************************)
(* load_all_from_db for one provider, and RouteRepo::rebuild for a list of *)
(* them; the order of the targets is in ProxyPipeline.                     *)
(***************************************************************************)
Loaded(p) ==
    IF urls[p] = NoRow THEN Absent
    ELSE [url |-> urls[p], maps |-> maps[p], price |-> prices[p]]

EveryTarget(list) ==   \* mutant: a model without a mapping is routed
    [m \in Models |-> {[provider |-> p, model |-> list[p].maps[m]] : p \in Names}]

RoutesOf(list) ==
    [m \in Models |->
        {[provider |-> p, model |-> list[p].maps[m]] :
            p \in {q \in Names : list[q].maps[m] # NoRow}}]

Init ==
    /\ urls = [p \in Names |-> NoRow]
    /\ maps = [p \in Names |-> NoMaps]
    /\ prices = [p \in Names |-> NoRow]
    /\ cache = [p \in Names |-> Absent]
    /\ routes = RoutesOf(cache)
    /\ pc = [a \in Admins |-> "idle"]
    /\ call = [a \in Admins |-> NoCall]
    /\ calls = 0
    /\ restarts = 0
    /\ rivals = [a \in Admins |-> {}]
    /\ acked = [p \in Names |-> Absent]
    /\ settled = TRUE

-----------------------------------------------------------------------------
Goto(a, stage) == pc' = [pc EXCEPT ![a] = stage]

Return(a) ==
    /\ Goto(a, "idle")
    /\ call' = [call EXCEPT ![a] = NoCall]
    /\ rivals' = [rivals EXCEPT ![a] = {}]

Running == {a \in Admins : pc[a] # "idle"}

(***************************************************************************)
(* A call begins with what it reads from the provider cache: create wants  *)
(* nothing under the name, update and delete want a provider, update goes  *)
(* on with the copy it got.  Otherwise the call returns an error and       *)
(* nothing has happened.                                                   *)
(***************************************************************************)
Begin(a, op, p, draft, stage) ==
    /\ pc[a] = "idle"
    /\ calls < MaxCalls
    /\ calls' = calls + 1
    /\ call' = [call EXCEPT ![a] = NewCall(op, p, draft)]
    /\ rivals' = [b \in Admins |->
                    IF b = a THEN {call[c].name : c \in Running}
                    ELSE IF b \in Running THEN rivals[b] \union {p} ELSE rivals[b]]
    /\ acked' = [acked EXCEPT ![p] = Unknown]
    /\ Goto(a, stage)
    /\ UNCHANGED <<tables, cache, routes, restarts, settled>>

Mappings(served, v) == [m \in Models |-> IF m \in served THEN v ELSE NoRow]

Create(a, p, v, served) ==
    /\ cache[p] = Absent
    /\ Begin(a, "create", p,
             [url |-> v, maps |-> Mappings(served, v), price |-> v], "replace")

(***************************************************************************)
(* Each field of the command is an Option; `fields' are those given.       *)
(***************************************************************************)
Updated(old, fields, v, served) ==
    [url   |-> IF "url" \in fields THEN v ELSE old.url,
     maps  |-> IF "maps" \in fields THEN Mappings(served, v) ELSE old.maps,
     price |-> IF "price" \in fields THEN v ELSE old.price]

Update(a, p, fields, v, served) ==
    /\ cache[p] # Absent
    /\ Begin(a, "update", p, Updated(cache[p], fields, v, served), "replace")

Delete(a, p) ==
    /\ cache[p] # Absent
    /\ Begin(a, "delete", p, Absent, "delete")

-----------------------------------------------------------------------------
(***************************************************************************)
(* ProviderRepo::save_to_db, statement by statement.                       *)
(***************************************************************************)
Name(a) == call[a].name

Draft(a) == call[a].draft

ServesEarly(a) ==   \* mutant: each statement is followed by its part of the cache
    /\ pc[a] = "replace"
    /\ urls' = [urls EXCEPT ![Name(a)] = Draft(a).url]
    /\ cache' = [cache EXCEPT ![Name(a)].url = Draft(a).url]
    /\ Goto(a, "clearMaps")
    /\ UNCHANGED <<maps, prices, routes, call, calls, restarts, history>>

ReplaceRow(a) ==
    /\ pc[a] = "replace"
    /\ urls' = [urls EXCEPT ![Name(a)] = Draft(a).url]
    /\ Goto(a, "clearMaps")
    /\ UNCHANGED <<maps, prices, cache, routes, call, calls, restarts, history>>

Served(draft) == {m \in Models : draft.maps[m] # NoRow}

KeepsMaps(a) ==   \* mutant: the old mappings are not deleted
    /\ pc[a] = "clearMaps"
    /\ call' = [call EXCEPT ![a].todo =
                    {m \in Served(Draft(a)) : maps[Name(a)][m] = NoRow}]
    /\ Goto(a, "insertMaps")
    /\ UNCHANGED <<tables, cache, routes, calls, restarts, history>>

ClearMaps(a) ==
    /\ pc[a] = "clearMaps"
    /\ maps' = [maps EXCEPT ![Name(a)] = NoMaps]
    /\ call' = [call EXCEPT ![a].todo = Served(Draft(a))]
    /\ Goto(a, "insertMaps")
    /\ UNCHANGED <<urls, prices, cache, routes, calls, restarts, history>>

(***************************************************************************)
(* INSERT fails on a row that is there: see StatementFails.                *)
(***************************************************************************)
InsertMap(a, m) ==
    /\ pc[a] = "insertMaps"
    /\ m \in call[a].todo
    /\ maps[Name(a)][m] = NoRow
    /\ maps' = [maps EXCEPT ![Name(a)][m] = Draft(a).maps[m]]
    /\ call' = [call EXCEPT ![a].todo = @ \ {m}]
    /\ UNCHANGED <<urls, prices, cache, routes, pc, calls, restarts, history>>

ClearPrices(a) ==
    /\ pc[a] = "insertMaps"
    /\ call[a].todo = {}
    /\ prices' = [prices EXCEPT ![Name(a)] = NoRow]
    /\ Goto(a, IF Draft(a).price = NoRow THEN "publish" ELSE "insertPrices")
    /\ UNCHANGED <<urls, maps, cache, routes, call, calls, restarts, history>>

InsertPrices(a) ==
    /\ pc[a] = "insertPrices"
    /\ prices[Name(a)] = NoRow
    /\ prices' = [prices EXCEPT ![Name(a)] = Draft(a).price]
    /\ Goto(a, "publish")
    /\ UNCHANGED <<urls, maps, cache, routes, call, calls, restarts, history>>

Publish(a) ==
    /\ pc[a] = "publish"
    /\ cache' = [cache EXCEPT ![Name(a)] = Draft(a)]
    /\ Goto(a, "list")
    /\ UNCHANGED <<tables, routes, call, calls, restarts, history>>

(***************************************************************************)
(* ProviderRepo::delete.  Only the provider's own row is deleted; no row   *)
(* is an error, and the cache is left as it is.                            *)
(***************************************************************************)
DeleteRow(a) ==
    /\ pc[a] = "delete"
    /\ urls[Name(a)] # NoRow
    /\ urls' = [urls EXCEPT ![Name(a)] = NoRow]
    /\ Goto(a, "evict")
    /\ UNCHANGED <<maps, prices, cache, routes, call, calls, restarts, history>>

ForgetsRoutes(a) ==   \* mutant: delete does not rebuild the routes
    /\ pc[a] = "evict"
    /\ cache' = [cache EXCEPT ![Name(a)] = Absent]
    /\ Return(a)
    /\ UNCHANGED <<tables, routes, calls, restarts, acked, settled>>

Evict(a) ==
    /\ pc[a] = "evict"
    /\ cache' = [cache EXCEPT ![Name(a)] = Absent]
    /\ Goto(a, "list")
    /\ UNCHANGED <<tables, routes, call, calls, restarts, history>>

(***************************************************************************)
(* RouteRepo::rebuild: copy the provider cache, then replace the route     *)
(* cache by what the copy gives.  The call then returns Ok.                *)
(***************************************************************************)
List(a) ==
    /\ pc[a] = "list"
    /\ call' = [call EXCEPT ![a].listed = cache]
    /\ Goto(a, "fill")
    /\ UNCHANGED <<tables, cache, routes, calls, restarts, history>>

Fill(a) ==
    /\ pc[a] = "fill"
    /\ routes' = RoutesOf(call[a].listed)
    /\ Return(a)
    /\ acked' = [acked EXCEPT ![Name(a)] =
                    IF Name(a) \in rivals[a] THEN Unknown ELSE Draft(a)]
    /\ settled' = (rivals[a] = {})
    /\ UNCHANGED <<tables, cache, calls, restarts>>

(***************************************************************************)
(* A statement fails (the database is locked or full, a mapping is given   *)
(* twice, another call has inserted the row, no row to delete): the call   *)
(* returns the error; what it has written stays.                           *)
(***************************************************************************)
StatementFails(a) ==
    /\ pc[a] \in {"replace", "clearMaps", "insertMaps", "insertPrices", "delete"}
    /\ Return(a)
    /\ UNCHANGED <<tables, cache, routes, calls, restarts, acked, settled>>

(***************************************************************************)
(* The process is killed and main runs again: the calls are gone, the      *)
(* caches are filled from the tables before the servers listen.            *)
(***************************************************************************)
Restart ==
    /\ restarts < MaxRestarts
    /\ restarts' = restarts + 1
    /\ cache' = [p \in Names |-> Loaded(p)]
    /\ routes' = RoutesOf([p \in Names |-> Loaded(p)])
    /\ pc' = [a \in Admins |-> "idle"]
    /\ call' = [a \in Admins |-> NoCall]
    /\ rivals' = [a \in Admins |-> {}]
    /\ settled' = TRUE
    /\ UNCHANGED <<tables, calls, acked>>

Save(a) ==
    \/ ReplaceRow(a)
    \/ ClearMaps(a)
    \/ \E m \in Models : InsertMap(a, m)
    \/ ClearPrices(a)
    \/ InsertPrices(a)
    \/ Publish(a)

Next ==
    \/ \E a \in Admins :
           \/ \E p \in Names, v \in Versions, served \in SUBSET Models :
                  \/ Create(a, p, v, served)
                  \/ \E fields \in SUBSET {"url", "maps", "price"} :
                         Update(a, p, fields, v, served)
           \/ \E p \in Names : Delete(a, p)
           \/ Save(a)
           \/ DeleteRow(a)
           \/ Evict(a)
           \/ List(a)
           \/ Fill(a)
           \/ StatementFails(a)
    \/ Restart

Spec == Init /\ [][Next]_vars

-----------------------------------------------------------------------------
(***************************************************************************)
(* A change that ProviderService acknowledged and that overlapped with no  *)
(* other call on the same provider is what the router sees and what a      *)
(* restart brings back -- whatever half-done saves, failed statements,     *)
(* deletions that left rows behind and restarts came before it, whatever   *)
(* happens to other providers, until the next call on this one.            *)
(***************************************************************************)
AckedIsDurable ==
    \A p \in Names :
        acked[p] # Unknown => cache[p] = acked[p] /\ Loaded(p) = acked[p]

(***************************************************************************)
(* Statement by statement, the registry is a catalog whose entries change  *)
(* at once: what goes on in the tables is seen by no request unless a      *)
(* restart comes in between, no call touches another's provider, and what  *)
(* was promised is found and served after any restart.                     *)
(***************************************************************************)
Catalog ==
    INSTANCE DurableCatalog WITH
        Entries <- Provider, Nothing <- Absent, promised <- acked,
        served <- cache,
        stored <- [p \in Names |-> Loaded(p)],
        asked <- [p \in Names |-> {Draft(a) : a \in {b \in Running : Name(b) = p}}]

ImplementsCatalog == Catalog!Spec

(***************************************************************************)
(* After a restart, or a call that no other call overlapped with, the route*)
(* cache holds what the provider cache gives, as long as no call is in     *)
(* progress: calls that fail half way do not leave it behind.              *)
(***************************************************************************)
RoutesMatchAtRest ==
    settled /\ Running = {} => routes = RoutesOf(cache)

-----------------------------------------------------------------------------
(***************************************************************************)
(* What the documents say, and the code does not do.                       *)
(***************************************************************************)

(***************************************************************************)
(* ARCHITECTURE-ecc-v2.md 454: the route table is visible right after the  *)
(* write.  When every call has returned, it is the providers' table.       *)
(***************************************************************************)
RoutesVisible == Running = {} => routes = RoutesOf(cache)
=============================================================================
