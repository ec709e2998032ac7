------------------------- MODULE QuotaServiceProofs -------------------------
(***************************************************************************)
(* The quota cache is never more than a round behind the providers, for    *)
(* any providers, adapters and changes.                                    *)
(***************************************************************************)
EXTENDS QuotaService, TLAPS

-----------------------------------------------------------------------------
(***************************************************************************)
(* Before the first round everything counts as changed.                    *)
(***************************************************************************)
LEMMA InitRoundInv == Init => RoundInv
  BY QuotaAssumption
     DEF Init, RoundInv, TypeOK, Provider, Unplanned, ListedFollowsProviders,
         FoundFollowsListed, CacheFollowsProviders

(***************************************************************************)
(* What a round lists is what the providers are at that moment.            *)
(***************************************************************************)
LEMMA ListKeeps == RoundInv /\ List => RoundInv'
<1> SUFFICES ASSUME RoundInv, List PROVE RoundInv'
  OBVIOUS
<1> USE DEF List
<1>1. \A n \in Names :
         /\ listed'[n].is_coding_plan = provider[n].is_coding_plan
         /\ listed'[n].is_coding_plan => listed'[n] = provider[n]
  BY DEF RoundInv, TypeOK, Provider, Coding, Unplanned
<1>2. \A n \in Names : Coding(n) \in Provider
  BY DEF RoundInv, TypeOK, Coding, Provider, Unplanned
<1>3. TypeOK'
  BY <1>2 DEF RoundInv, TypeOK
<1>4. CacheFollowsProviders'
  BY DEF RoundInv, CacheFollowsProviders, Shown
<1>5. ListedFollowsProviders'
  BY <1>1 DEF ListedFollowsProviders
<1>6. FoundFollowsListed'
  BY <1>1, MarkAssumption DEF FoundFollowsListed, Describes
<1>7. QED
  BY <1>3, <1>4, <1>5, <1>6 DEF RoundInv

(***************************************************************************)
(* A result is about the adapter that the round listed.                    *)
(***************************************************************************)
LEMMA FoundKeeps ==
    ASSUME NEW n \in Names, NEW info \in Info,
           RoundInv, Found(n, info), info.adapter = listed[n].adapter
    PROVE  RoundInv'
<1> USE DEF Found
<1>1. TypeOK'
  BY DEF RoundInv, TypeOK
<1>2. ListedFollowsProviders' /\ CacheFollowsProviders'
  BY DEF RoundInv, ListedFollowsProviders, CacheFollowsProviders, Shown
<1>3. listed[n].is_coding_plan
  BY DEF RoundInv, FoundFollowsListed
<1>4. FoundFollowsListed'
  BY <1>3, MarkAssumption DEF RoundInv, TypeOK, FoundFollowsListed, Describes
<1>5. QED
  BY <1>1, <1>2, <1>4 DEF RoundInv

(***************************************************************************)
(* However a query ends, the round stays sound; a panic abandons it.       *)
(***************************************************************************)
LEMMA QueryKeeps ==
    ASSUME NEW n \in Names, RoundInv, Query(n) PROVE RoundInv'
<1>types. listed[n].adapter \in Adapters \union {NoAdapter}
  BY DEF RoundInv, TypeOK, Provider
<1>1. CASE NotConfigured(n)
  <2>1. [adapter |-> NoAdapter, success |-> FALSE] \in Info
    BY DEF Info
  <2>2. QED
    BY <1>1, <2>1, FoundKeeps DEF NotConfigured
<1>2. CASE Answered(n)
  <2>1. PICK answer \in Answers : Found(n, Result(listed[n].adapter, answer))
    BY <1>2 DEF Answered
  <2>2. /\ Result(listed[n].adapter, answer) \in Info
        /\ Result(listed[n].adapter, answer).adapter = listed[n].adapter
    BY <1>types DEF Result, Info
  <2>3. QED
    BY <2>1, <2>2, FoundKeeps
<1>3. CASE Panic(n)
  <2>1. TypeOK'
    BY <1>3, <1>types DEF Panic, RoundInv, TypeOK, Provider, Unplanned
  <2>2. QED
    BY <1>3, <2>1
       DEF Panic, RoundInv, ListedFollowsProviders, FoundFollowsListed,
           CacheFollowsProviders, Shown
<1>4. QED
  BY <1>1, <1>2, <1>3 DEF Query

(***************************************************************************)
(* The results become the cache: whatever has not changed since the round  *)
(* listed it is described by them.                                         *)
(***************************************************************************)
LEMMA StoreKeeps == RoundInv /\ Store => RoundInv'
<1> SUFFICES ASSUME RoundInv, Store PROVE RoundInv'
  OBVIOUS
<1> USE DEF Store
<1>1. TypeOK'
  BY DEF RoundInv, TypeOK, RoundComplete, Refreshed, Provider, Unplanned
<1>2. CacheFollowsProviders'
  BY DEF RoundInv, CacheFollowsProviders, FoundFollowsListed, RoundComplete,
         ListedFollowsProviders, Describes, Refreshed, Shown
<1>3. QED
  BY <1>1, <1>2 DEF RoundInv, ListedFollowsProviders, FoundFollowsListed

(***************************************************************************)
(* A change spoils what is listed and what is cached for that name only.   *)
(***************************************************************************)
LEMMA ChangeKeeps ==
    ASSUME NEW n \in Names, RoundInv, Change(n) PROVE RoundInv'
<1> USE DEF Change
<1>1. TypeOK'
  BY QuotaAssumption DEF RoundInv, TypeOK
<1>2. \A m \in Names \ {n} : provider'[m] = provider[m]
  BY DEF RoundInv, TypeOK
<1>3. ListedFollowsProviders' /\ CacheFollowsProviders'
  BY <1>2 DEF RoundInv, ListedFollowsProviders, CacheFollowsProviders, Shown
<1>4. FoundFollowsListed'
  BY DEF RoundInv, FoundFollowsListed
<1>5. QED
  BY <1>1, <1>3, <1>4 DEF RoundInv

(***************************************************************************)
(* Every step keeps the invariant.                                         *)
(***************************************************************************)
LEMMA NextRoundInv == RoundInv /\ [Next]_vars => RoundInv'
<1> SUFFICES ASSUME RoundInv, [Next]_vars PROVE RoundInv'
  OBVIOUS
<1>1. CASE Listen
  BY <1>1 DEF Listen, RoundInv, TypeOK, ListedFollowsProviders,
              FoundFollowsListed, CacheFollowsProviders, Shown
<1>2. CASE UNCHANGED vars
  BY <1>2 DEF vars, RoundInv, TypeOK, ListedFollowsProviders,
              FoundFollowsListed, CacheFollowsProviders, Shown
<1>3. QED
  BY <1>1, <1>2, ListKeeps, QueryKeeps, StoreKeeps, ChangeKeeps DEF Next

-----------------------------------------------------------------------------
(***************************************************************************)
(* The invariant of the rounds.                                            *)
(***************************************************************************)
THEOREM RoundInvariant == Spec => []RoundInv
  BY InitRoundInv, NextRoundInv, PTL DEF Spec

(***************************************************************************)
(* Only answers, never unanswered queries, reach the cache.                *)
(***************************************************************************)
THEOREM QuotaTypeCorrect == Spec => []TypeOK
<1>1. RoundInv => TypeOK
  BY DEF RoundInv
<1>2. QED
  BY <1>1, RoundInvariant, PTL

(***************************************************************************)
(* The dashboard is at most one round behind the providers.                *)
(***************************************************************************)
THEOREM CacheAlwaysFollows == Spec => []CacheFollowsProviders
<1>1. RoundInv => CacheFollowsProviders
  BY DEF RoundInv
<1>2. QED
  BY <1>1, RoundInvariant, PTL
=============================================================================
