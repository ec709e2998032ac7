---------------------------- MODULE DurableCatalog ----------------------------
(***************************************************************************)
(* What whoever administers providers may rely on, with no tables, rows or *)
(* copies: one entry per provider, changed only by calls on that provider, *)
(* never served but whole as a call has asked for it or as it would be     *)
(* found by a restart, and kept for good once its call has promised it.    *)
(***************************************************************************)
CONSTANTS
    Names,
    Entries,  \* what a provider may be
    Nothing,  \* the entry of a provider that does not exist
    Unknown   \* nothing is promised

VARIABLES
    served,   \* [Names -> Entries]: what requests are served by
    stored,   \* [Names -> Entries]: what a restart would find
    asked,    \* [Names -> SUBSET Entries]: what calls in progress will have
    promised  \* [Names -> Entries \union {Unknown}]: what calls said they had done

catalogVars == <<served, stored, asked, promised>>

Init ==
    /\ served = [p \in Names |-> Nothing]
    /\ stored = [p \in Names |-> Nothing]
    /\ asked = [p \in Names |-> {}]
    /\ promised = [p \in Names |-> Nothing]

Ask(p, e) ==
    /\ promised' = [promised EXCEPT ![p] = Unknown]
    /\ asked' = [asked EXCEPT ![p] = @ \union {e}]
    /\ UNCHANGED <<served, stored>>

(***************************************************************************)
(* A call may store an entry piece by piece, and stop half way.            *)
(***************************************************************************)
Store(p, e) ==
    /\ asked[p] # {}
    /\ promised[p] = Unknown
    /\ stored' = [stored EXCEPT ![p] = e]
    /\ UNCHANGED <<served, asked, promised>>

Serve(p, e) ==
    /\ promised[p] = Unknown
    /\ served' = [served EXCEPT ![p] = e]
    /\ UNCHANGED <<stored, asked, promised>>

Promise(p, e) ==
    /\ asked[p] = {e}
    /\ served[p] = e
    /\ stored[p] = e
    /\ asked' = [asked EXCEPT ![p] = {}]
    /\ promised' = [promised EXCEPT ![p] = e]
    /\ UNCHANGED <<served, stored>>

(***************************************************************************)
(* A call fails, or overlapped with another one on the provider.           *)
(***************************************************************************)
GiveUp(p, e) ==
    /\ asked' = [asked EXCEPT ![p] = @ \ {e}]
    /\ UNCHANGED <<served, stored, promised>>

Restart ==
    /\ served' = stored
    /\ asked' = [p \in Names |-> {}]
    /\ UNCHANGED <<stored, promised>>

Next ==
    \/ \E p \in Names :
           \/ \E e \in asked[p] : Serve(p, e) \/ Promise(p, e) \/ GiveUp(p, e)
           \/ \E e \in Entries : Store(p, e) \/ Ask(p, e)
    \/ Restart

Spec == Init /\ [][Next]_catalogVars

-----------------------------------------------------------------------------
(***************************************************************************)
(* What all this is for: what a call has promised, and none has asked to   *)
(* change since, is served and survives a restart.                         *)
(***************************************************************************)
PromisesKept ==
    \A p \in Names :
        promised[p] # Unknown => served[p] = promised[p] /\ stored[p] = promised[p]
=============================================================================
