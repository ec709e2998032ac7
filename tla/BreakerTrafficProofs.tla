------------------------ MODULE BreakerTrafficProofs ------------------------
(***************************************************************************)
(* The circuit breaker keeps its contract, for any number of providers and *)
(* requests, any threshold and any cooldown.                               *)
(***************************************************************************)
EXTENDS BreakerTraffic, CircuitBreakerProofs

(***************************************************************************)
(* The inductive invariant of the breaker.                                 *)
(***************************************************************************)
IInv == TypeOK /\ CircuitsSound

(***************************************************************************)
(* Init: nobody has failed yet.                                            *)
(***************************************************************************)
LEMMA InitIInv == Init => IInv
  BY InitSound DEF Init, IInv, TypeOK, Stage, CircuitsSound

(***************************************************************************)
(* Each action keeps the types; only the two reports and the clock touch   *)
(* the circuits, and they keep them sound.                                 *)
(***************************************************************************)
LEMMA NextIInv == IInv /\ [Next]_vars => IInv'
<1> SUFFICES ASSUME IInv, [Next]_vars PROVE IInv'
  OBVIOUS
<1>sound. ASSUME CircuitsSound',
                 stage' \in [Callers -> Stage], key' \in [Callers -> Keys]
          PROVE  IInv'
  BY <1>sound DEF IInv, TypeOK, CircuitsSound
<1>same. ASSUME UNCHANGED circuits PROVE CircuitsSound'
  BY <1>same DEF IInv, CircuitsSound
<1>types. stage \in [Callers -> Stage] /\ key \in [Callers -> Keys]
  BY DEF IInv, TypeOK
<1>1. ASSUME NEW c \in Callers, NEW k \in Keys, Arrive(c, k) PROVE IInv'
  BY <1>1, <1>sound, <1>same, <1>types DEF Arrive, Stage
<1>2. ASSUME NEW c \in Callers, Admit(c) PROVE IInv'
  BY <1>2, <1>sound, <1>same, <1>types DEF Admit, Stage
<1>3. ASSUME NEW c \in Callers, Refuse(c) PROVE IInv'
  BY <1>3, <1>sound, <1>same, <1>types DEF Refuse, Stage
<1>4. ASSUME NEW c \in Callers, ReportSuccess(c) PROVE IInv'
  <2>1. CircuitsSound'
    BY <1>4, <1>types, SuccessKeepsSound DEF ReportSuccess, IInv
  <2>2. QED
    BY <1>4, <2>1, <1>sound, <1>types DEF ReportSuccess, Stage
<1>5. ASSUME NEW c \in Callers, ReportFailure(c) PROVE IInv'
  <2>1. CircuitsSound'
    BY <1>5, <1>types, FailureKeepsSound DEF ReportFailure, IInv
  <2>2. QED
    BY <1>5, <2>1, <1>sound, <1>types DEF ReportFailure, Stage
<1>6. ASSUME NEW c \in Callers, Leave(c) PROVE IInv'
  BY <1>6, <1>sound, <1>same, <1>types DEF Leave, Stage
<1>7. CASE Elapse
  <2>1. CircuitsSound'
    BY <1>7, ElapseKeepsSound DEF Elapse, IInv
  <2>2. QED
    BY <1>7, <2>1, <1>sound, <1>types DEF Elapse
<1>8. CASE UNCHANGED vars
  BY <1>8, <1>sound, <1>same, <1>types DEF vars
<1>9. QED
  BY <1>1, <1>2, <1>3, <1>4, <1>5, <1>6, <1>7, <1>8 DEF Next

(***************************************************************************)
(* Type correctness and the soundness of every circuit.                    *)
(***************************************************************************)
THEOREM BreakerInvariant == Spec => []IInv
  BY InitIInv, NextIInv, PTL DEF Spec

(***************************************************************************)
(* The opening time and the count of failures of every circuit agree, in   *)
(* whatever order reports come in, for any threshold and cooldown.         *)
(***************************************************************************)
THEOREM AlwaysOpenedByFailures == Spec => []OpenedByFailures
<1>1. IInv => OpenedByFailures
  BY DEF IInv, CircuitsSound, OpenedByFailures
<1>2. QED
  BY <1>1, BreakerInvariant, PTL

-----------------------------------------------------------------------------
(***************************************************************************)
(* Every step of the code is a step of the contract or changes nothing the *)
(* contract speaks of.                                                     *)
(***************************************************************************)
LEMMA InitMaps == Init => Contract!Init
<1> SUFFICES ASSUME Init PROVE Contract!Init
  OBVIOUS
<1>1. Gate = [k \in Keys |-> "closed"] /\ Streak = [k \in Keys |-> 0]
  BY InitMapsCircuits DEF Init
<1>2. Inside = [c \in Callers |-> "nowhere"]
  BY DEF Init, Inside
<1>3. QED
  BY <1>1, <1>2 DEF Contract!Init, Contract!Nowhere

(***************************************************************************)
(* The steps: Arrive and Refuse are stutters, Admit enters, the reports    *)
(* succeed and fail, Leave vanishes, the clock makes cooldowns lapse.      *)
(***************************************************************************)
LEMMA NextMaps == IInv /\ IInv' /\ [Next]_vars => [Contract!Next]_(Contract!contractVars)
<1> SUFFICES ASSUME IInv, IInv', [Next]_vars
             PROVE  [Contract!Next]_(Contract!contractVars)
  OBVIOUS
<1>types. /\ stage \in [Callers -> Stage] /\ key \in [Callers -> Keys]
          /\ stage' \in [Callers -> Stage] /\ key' \in [Callers -> Keys]
  BY DEF IInv, TypeOK
<1>same. ASSUME UNCHANGED circuits, Inside' = Inside
         PROVE  UNCHANGED Contract!contractVars
  BY <1>same, SameCircuits DEF Contract!contractVars
<1>1. ASSUME NEW c \in Callers, NEW k \in Keys, Arrive(c, k)
      PROVE  UNCHANGED Contract!contractVars
  <2>1. Inside' = Inside
    BY <1>1, <1>types DEF Arrive, Inside
  <2>2. QED
    BY <1>1, <1>same, <2>1 DEF Arrive
<1>2. ASSUME NEW c \in Callers, Admit(c)
      PROVE  \E k \in Keys : Contract!Enter(c, k)
  <2>1. Inside[c] = "nowhere" /\ Inside' = [Inside EXCEPT ![c] = key[c]]
    BY <1>2, <1>types DEF Admit, Inside
  <2>2. Gate[key[c]] = "closed"
    BY <1>2, <1>types DEF Admit, Gate
  <2>3. Gate' = Gate /\ Streak' = Streak
    BY <1>2, SameCircuits DEF Admit
  <2>4. QED
    BY <1>types, <2>1, <2>2, <2>3 DEF Contract!Enter, Contract!Nowhere
<1>3. ASSUME NEW c \in Callers, Refuse(c) PROVE UNCHANGED Contract!contractVars
  <2>1. Inside' = Inside
    BY <1>3, <1>types DEF Refuse, Inside
  <2>2. QED
    BY <1>3, <1>same, <2>1 DEF Refuse
<1>4. ASSUME NEW c \in Callers, ReportSuccess(c) PROVE Contract!Succeed(c)
  <2>1. Inside[c] = key[c] /\ Inside' = [Inside EXCEPT ![c] = "nowhere"]
    BY <1>4, <1>types DEF ReportSuccess, Inside
  <2>2. /\ Streak' = [Streak EXCEPT ![key[c]] = 0]
        /\ Gate' = [Gate EXCEPT ![key[c]] = "closed"]
    BY <1>4, <1>types, SuccessMapsToSucceed DEF ReportSuccess, IInv
  <2>3. QED
    BY <1>types, <2>1, <2>2 DEF Contract!Succeed, Contract!Nowhere
<1>5. ASSUME NEW c \in Callers, ReportFailure(c) PROVE Contract!Fail(c)
  <2>1. Inside[c] = key[c] /\ Inside' = [Inside EXCEPT ![c] = "nowhere"]
    BY <1>5, <1>types DEF ReportFailure, Inside
  <2>2. /\ Streak' = [Streak EXCEPT ![key[c]] = NextStreak(@)]
        /\ Gate' = [Gate EXCEPT ![key[c]] =
             IF NextStreak(Streak[key[c]]) = Threshold THEN "open" ELSE @]
    BY <1>5, <1>types, FailureMapsToFail DEF ReportFailure, IInv
  <2>3. QED
    BY <1>types, <2>1, <2>2 DEF Contract!Fail, Contract!Nowhere,
       Contract!NextStreak, NextStreak
<1>6. ASSUME NEW c \in Callers, Leave(c)
      PROVE  Contract!Vanish(c) \/ UNCHANGED Contract!contractVars
  <2>1. Inside' = [Inside EXCEPT ![c] = "nowhere"]
    BY <1>6, <1>types DEF Leave, Inside
  <2>2. Gate' = Gate /\ Streak' = Streak
    BY <1>6, SameCircuits DEF Leave
  <2>3. CASE Inside[c] = "nowhere"
    <3>1. Inside' = Inside
      BY <2>1, <2>3 DEF Inside
    <3>2. QED
      BY <1>6, <1>same, <3>1 DEF Leave
  <2>4. CASE Inside[c] # "nowhere"
    BY <2>1, <2>2, <2>4 DEF Contract!Vanish, Contract!Nowhere
  <2>5. QED
    BY <2>3, <2>4
<1>7. ASSUME Elapse PROVE Contract!Next
  <2>1. Inside' = Inside
    BY <1>7 DEF Elapse, Inside
  <2>2. /\ Streak' = Streak
        /\ \E lapsed \in SUBSET Keys :
             Gate' = [k \in Keys |-> IF k \in lapsed THEN "closed" ELSE Gate[k]]
    BY <1>7, ElapseMapsToLapse DEF Elapse, IInv
  <2>3. Contract!Lapse
    BY <2>1, <2>2 DEF Contract!Lapse
  <2>4. QED
    BY <2>3 DEF Contract!Next
<1>8. ASSUME UNCHANGED vars PROVE UNCHANGED Contract!contractVars
  <2>1. Inside' = Inside
    BY <1>8 DEF vars, Inside
  <2>2. QED
    BY <1>8, <1>same, <2>1 DEF vars
<1>9. QED
  <2>1. ASSUME NEW c \in Callers,
               \/ \E k \in Keys : Arrive(c, k)
               \/ Admit(c) \/ Refuse(c)
               \/ ReportSuccess(c) \/ ReportFailure(c) \/ Leave(c)
        PROVE  Contract!Next \/ UNCHANGED Contract!contractVars
    <3>1. CASE \E k \in Keys : Arrive(c, k)
      BY <3>1, <1>1
    <3>2. CASE Admit(c)
      BY <3>2, <1>2 DEF Contract!Next
    <3>3. CASE Refuse(c)
      BY <3>3, <1>3
    <3>4. CASE ReportSuccess(c)
      BY <3>4, <1>4 DEF Contract!Next
    <3>5. CASE ReportFailure(c)
      BY <3>5, <1>5 DEF Contract!Next
    <3>6. CASE Leave(c)
      BY <3>6, <1>6 DEF Contract!Next
    <3>7. QED
      BY <2>1, <3>1, <3>2, <3>3, <3>4, <3>5, <3>6
  <2>2. CASE Next
    BY <2>1, <2>2, <1>7 DEF Next
  <2>3. CASE UNCHANGED vars
    BY <2>3, <1>8
  <2>4. QED
    BY <2>2, <2>3

(***************************************************************************)
(* The circuit breaker implements its contract: a provider is skipped only *)
(* after Threshold failures with no success between them, nobody enters    *)
(* while it is skipped, any success clears it, and reports about one       *)
(* provider never change another's, whatever the order and delay of the    *)
(* reports.                                                                *)
(***************************************************************************)
THEOREM BreakerRefinesContract == Spec => ImplementsContract
<1>1. Init => Contract!Init
  BY InitMaps
<1>2. IInv /\ IInv' /\ [Next]_vars => [Contract!Next]_(Contract!contractVars)
  BY NextMaps
<1>3. Spec => []IInv
  BY BreakerInvariant
<1>4. QED
  BY <1>1, <1>2, <1>3, PTL DEF Spec, ImplementsContract, Contract!Spec

-----------------------------------------------------------------------------
(***************************************************************************)
(* A request that is not past the gate after its step is no straggler, and *)
(* if it was one before, there are fewer.                                  *)
(***************************************************************************)
LEMMA StragglersOfStep ==
    ASSUME IInv, NEW k \in Keys, NEW c \in Callers, stage'[c] # "inflight",
           \A d \in Callers \ {c} : stage'[d] = stage[d] /\ key'[d] = key[d]
    PROVE  /\ Stragglers(k)' = Stragglers(k) \ {c}
           /\ c \in Stragglers(k) => Stragglers(k)' # Stragglers(k)
  BY DEF Stragglers

(***************************************************************************)
(* A report that is not about this circuit leaves it as it is.             *)
(***************************************************************************)
LEMMA ReportsAboutOthers ==
    ASSUME IInv, NEW k \in Keys, NEW c \in Callers, key[c] # k,
           ReportSuccess(c) \/ ReportFailure(c)
    PROVE  circuits'[k] = circuits[k]
  BY DEF IInv, TypeOK, ReportSuccess, ReportFailure, RecordSuccess, RecordFailure

(***************************************************************************)
(* The cooldown of an open circuit restarts at most as often as there are  *)
(* requests past its gate, however many of them there are.                 *)
(***************************************************************************)
THEOREM StragglersAlwaysRunOut == Spec => StragglersRunOut
<1>1. ASSUME IInv, [Next]_vars, NEW k \in Keys, IsOpen(k)
      PROVE  /\ Stragglers(k)' \subseteq Stragglers(k)
             /\ circuits'[k] \notin {circuits[k], Aged(circuits[k])} =>
                    Stragglers(k)' # Stragglers(k)
  <2>t. /\ stage \in [Callers -> Stage] /\ key \in [Callers -> Keys]
        /\ circuits \in [Keys -> Circuit]
    BY <1>1 DEF IInv, TypeOK
  <2>1. ASSUME NEW c \in Callers, (\E j \in Keys : Arrive(c, j)) \/ Refuse(c) \/ Leave(c)
        PROVE  Stragglers(k)' \subseteq Stragglers(k) /\ circuits' = circuits
    <3>1. /\ stage'[c] # "inflight" /\ circuits' = circuits
          /\ \A d \in Callers \ {c} : stage'[d] = stage[d] /\ key'[d] = key[d]
      BY <2>1, <2>t DEF Arrive, Refuse, Leave
    <3>2. QED
      BY <1>1, <3>1, StragglersOfStep
  <2>2. ASSUME NEW c \in Callers, Admit(c)
        PROVE  Stragglers(k)' = Stragglers(k) /\ circuits' = circuits
    <3>1. key[c] # k
      BY <1>1, <2>2 DEF Admit
    <3>2. /\ key' = key /\ circuits' = circuits
          /\ \A d \in Callers \ {c} : stage'[d] = stage[d]
      BY <2>2, <2>t DEF Admit
    <3>3. QED
      BY <3>1, <3>2 DEF Stragglers
  <2>3. ASSUME NEW c \in Callers, ReportSuccess(c) \/ ReportFailure(c)
        PROVE  /\ Stragglers(k)' \subseteq Stragglers(k)
               /\ circuits'[k] # circuits[k] => Stragglers(k)' # Stragglers(k)
    <3>1. /\ stage[c] = "inflight" /\ stage'[c] # "inflight"
          /\ \A d \in Callers \ {c} : stage'[d] = stage[d] /\ key'[d] = key[d]
      BY <2>3, <2>t DEF ReportSuccess, ReportFailure
    <3>2. circuits'[k] # circuits[k] => c \in Stragglers(k)
      BY <1>1, <2>3, <3>1, ReportsAboutOthers DEF Stragglers
    <3>3. QED
      BY <1>1, <3>1, <3>2, StragglersOfStep
  <2>4. CASE Elapse
    <3>1. Stragglers(k)' = Stragglers(k) /\ circuits'[k] = Aged(circuits[k])
      BY <2>4 DEF Elapse, ElapseCircuits, Stragglers
    <3>2. QED
      BY <3>1
  <2>5. CASE UNCHANGED vars
    BY <2>5 DEF vars, Stragglers
  <2>6. QED
    BY <1>1, <2>1, <2>2, <2>3, <2>4, <2>5 DEF Next
<1>2. IInv /\ [Next]_vars => [OpenCircuitsLoseStragglers]_vars
  BY <1>1 DEF OpenCircuitsLoseStragglers, KeptShutByStragglers
<1>3. QED
  BY <1>2, BreakerInvariant, PTL DEF Spec, StragglersRunOut
=============================================================================
