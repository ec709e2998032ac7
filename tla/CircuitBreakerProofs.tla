------------------------ MODULE CircuitBreakerProofs ------------------------
(***************************************************************************)
(* Facts about the four operations on the circuits, and how each looks to  *)
(* a reader of BreakerContract; BreakerTrafficProofs and the proofs about  *)
(* the pipeline rest on them.                                              *)
(***************************************************************************)
EXTENDS CircuitBreaker, TLAPS

(***************************************************************************)
(* NeverOpened is no time: it cannot be mistaken for an elapsed one.       *)
(***************************************************************************)
LEMMA CircuitFields ==
    ASSUME NEW c \in Circuit
    PROVE  /\ c.failures \in 0..MaxFailures
           /\ c.since \in -1..Cooldown
  BY DEF Circuit, NeverOpened

(***************************************************************************)
(* One more failure keeps an entry of the map well formed and opens it     *)
(* exactly when the threshold is reached (record_failure).                 *)
(***************************************************************************)
LEMMA FailureKeepsCircuit ==
    ASSUME NEW c \in Circuit, CircuitSound(c)
    PROVE  /\ AfterFailure(c) \in Circuit
           /\ CircuitSound(AfterFailure(c))
  BY CircuitFields, BreakerAssumption
     DEF AfterFailure, OneMoreFailure, Circuit, CircuitSound, NeverOpened

(***************************************************************************)
(* The clock neither opens a circuit nor forgets its failures.             *)
(***************************************************************************)
LEMMA AgingKeepsCircuit ==
    ASSUME NEW c \in Circuit, CircuitSound(c)
    PROVE  /\ Aged(c) \in Circuit
           /\ CircuitSound(Aged(c))
           /\ Aged(c).failures = c.failures
  BY CircuitFields, BreakerAssumption
     DEF Aged, Circuit, CircuitSound, NeverOpened

(***************************************************************************)
(* A removed entry is a circuit that never opened (record_success).        *)
(***************************************************************************)
LEMMA NoCircuitSound == NoCircuit \in Circuit /\ CircuitSound(NoCircuit)
  BY BreakerAssumption DEF NoCircuit, Circuit, CircuitSound, NeverOpened

(***************************************************************************)
(* The four operations keep every circuit sound.                           *)
(***************************************************************************)
LEMMA InitSound == CircuitsInit => CircuitsSound
  BY NoCircuitSound DEF CircuitsInit, CircuitsSound

(***************************************************************************)
(* record_success leaves every circuit sound.                              *)
(***************************************************************************)
LEMMA SuccessKeepsSound ==
    ASSUME CircuitsSound, NEW k \in Keys, RecordSuccess(k) PROVE CircuitsSound'
  BY NoCircuitSound DEF CircuitsSound, RecordSuccess

(***************************************************************************)
(* record_failure opens a circuit exactly when its count reaches the       *)
(* threshold, and touches no other.                                        *)
(***************************************************************************)
LEMMA FailureKeepsSound ==
    ASSUME CircuitsSound, NEW k \in Keys, RecordFailure(k) PROVE CircuitsSound'
<1>1. /\ AfterFailure(circuits[k]) \in Circuit
      /\ CircuitSound(AfterFailure(circuits[k]))
  BY FailureKeepsCircuit DEF CircuitsSound
<1>2. QED
  BY <1>1 DEF CircuitsSound, RecordFailure

(***************************************************************************)
(* The passing of time leaves every circuit sound.                         *)
(***************************************************************************)
LEMMA ElapseKeepsSound ==
    ASSUME CircuitsSound, ElapseCircuits PROVE CircuitsSound'
<1>1. \A k \in Keys : Aged(circuits[k]) \in Circuit /\ CircuitSound(Aged(circuits[k]))
  BY AgingKeepsCircuit DEF CircuitsSound
<1>2. QED
  BY <1>1 DEF CircuitsSound, ElapseCircuits

-----------------------------------------------------------------------------
(***************************************************************************)
(* How a streak grows in the contract.                                     *)
(***************************************************************************)
NextStreak(n) == IF n < Threshold THEN n + 1 ELSE n

(***************************************************************************)
(* At first no gate is open and no failure is counted.                     *)
(***************************************************************************)
LEMMA InitMapsCircuits ==
    ASSUME CircuitsInit
    PROVE  Gate = [k \in Keys |-> "closed"] /\ Streak = [k \in Keys |-> 0]
<1>1. NoCircuit.failures = 0 /\ NoCircuit.since = NeverOpened
  BY DEF NoCircuit
<1>2. Capped(0) = 0
  BY BreakerAssumption DEF Capped
<1>3. \A k \in Keys : ~IsOpen(k) /\ Capped(circuits[k].failures) = 0
  BY <1>1, <1>2 DEF CircuitsInit, IsOpen
<1>4. QED
  BY <1>3 DEF Gate, Streak

(***************************************************************************)
(* Where the circuits do not change, neither do gates nor streaks.         *)
(***************************************************************************)
LEMMA SameCircuits ==
    ASSUME UNCHANGED circuits
    PROVE  Gate' = Gate /\ Streak' = Streak
  BY DEF Gate, Streak, IsOpen, Capped

(***************************************************************************)
(* A failure counted in the map is a failure counted by the contract, and  *)
(* the circuit is open right after it iff the contract says so.            *)
(***************************************************************************)
LEMMA FailureMapsToFail ==
    ASSUME CircuitsSound, NEW k \in Keys, RecordFailure(k)
    PROVE  /\ Streak' = [Streak EXCEPT ![k] = NextStreak(@)]
           /\ Gate' = [Gate EXCEPT ![k] =
                IF NextStreak(Streak[k]) = Threshold THEN "open" ELSE @]
<1>1. circuits[k] \in Circuit /\ CircuitSound(circuits[k])
  BY DEF CircuitsSound
<1>2. /\ circuits'[k] = AfterFailure(circuits[k])
      /\ \A j \in Keys \ {k} : circuits'[j] = circuits[j]
  BY DEF RecordFailure, CircuitsSound
<1>3. circuits[k].failures \in 0..MaxFailures
  BY <1>1, CircuitFields
<1>4. circuits'[k].failures = OneMoreFailure(circuits[k].failures)
  BY <1>2 DEF AfterFailure
<1>5. Capped(OneMoreFailure(circuits[k].failures))
        = NextStreak(Capped(circuits[k].failures))
  BY <1>3, BreakerAssumption DEF Capped, OneMoreFailure, NextStreak
<1>6. (IsOpen(k))' <=> \/ OneMoreFailure(circuits[k].failures) >= Threshold
                       \/ IsOpen(k)
  BY <1>1, <1>2, <1>3, BreakerAssumption
     DEF AfterFailure, OneMoreFailure, IsOpen, NeverOpened
<1>7. OneMoreFailure(circuits[k].failures) >= Threshold
        <=> NextStreak(Capped(circuits[k].failures)) = Threshold
  BY <1>3, BreakerAssumption DEF Capped, OneMoreFailure, NextStreak
<1>8. \A j \in Keys \ {k} : (IsOpen(j))' <=> IsOpen(j)
  BY <1>2 DEF IsOpen
<1>9. Streak' = [Streak EXCEPT ![k] = NextStreak(@)]
  BY <1>2, <1>4, <1>5 DEF Streak
<1>10. Gate' = [Gate EXCEPT ![k] =
                IF NextStreak(Streak[k]) = Threshold THEN "open" ELSE @]
  BY <1>6, <1>7, <1>8 DEF Gate, Streak
<1>11. QED
  BY <1>9, <1>10

(***************************************************************************)
(* A success removes the entry: no streak and a closed gate.               *)
(***************************************************************************)
LEMMA SuccessMapsToSucceed ==
    ASSUME CircuitsSound, NEW k \in Keys, RecordSuccess(k)
    PROVE  /\ Streak' = [Streak EXCEPT ![k] = 0]
           /\ Gate' = [Gate EXCEPT ![k] = "closed"]
<1>1. /\ circuits'[k] = NoCircuit
      /\ \A j \in Keys \ {k} : circuits'[j] = circuits[j]
  BY DEF RecordSuccess, CircuitsSound
<1>2. Capped(circuits'[k].failures) = 0
  BY <1>1, BreakerAssumption DEF NoCircuit, Capped
<1>3. ~(IsOpen(k))'
  BY <1>1 DEF IsOpen, NoCircuit, NeverOpened
<1>4. \A j \in Keys \ {k} : (IsOpen(j))' <=> IsOpen(j)
  BY <1>1 DEF IsOpen
<1>5. QED
  BY <1>1, <1>2, <1>3, <1>4 DEF Streak, Gate

(***************************************************************************)
(* Time only closes gates.                                                 *)
(***************************************************************************)
LEMMA ElapseMapsToLapse ==
    ASSUME CircuitsSound, ElapseCircuits
    PROVE  /\ Streak' = Streak
           /\ \E lapsed \in SUBSET Keys :
                Gate' = [k \in Keys |-> IF k \in lapsed THEN "closed" ELSE Gate[k]]
<1> DEFINE lapsed == {k \in Keys : IsOpen(k) /\ ~(IsOpen(k))'}
<1>1. \A k \in Keys : circuits[k] \in Circuit /\ CircuitSound(circuits[k])
  BY DEF CircuitsSound
<1>2. \A k \in Keys : circuits'[k] = Aged(circuits[k])
  BY DEF ElapseCircuits
<1>3. \A k \in Keys : circuits'[k].failures = circuits[k].failures
  BY <1>1, <1>2, AgingKeepsCircuit
<1>4. \A k \in Keys : (IsOpen(k))' => IsOpen(k)
  <2> SUFFICES ASSUME NEW k \in Keys, (IsOpen(k))' PROVE IsOpen(k)
    OBVIOUS
  <2>1. circuits[k].since \in -1..Cooldown
    BY <1>1, CircuitFields
  <2>2. circuits'[k].since = IF circuits[k].since = NeverOpened \/ circuits[k].since = Cooldown
                             THEN circuits[k].since ELSE circuits[k].since + 1
    BY <1>1, <1>2 DEF Aged, Circuit
  <2>3. QED
    BY <2>1, <2>2, BreakerAssumption DEF IsOpen, NeverOpened
<1>5. Gate' = [k \in Keys |-> IF k \in lapsed THEN "closed" ELSE Gate[k]]
  BY <1>4 DEF Gate
<1>6. Streak' = Streak
  BY <1>3 DEF Streak
<1>7. lapsed \in SUBSET Keys
  OBVIOUS
<1>8. QED
  BY <1>5, <1>6, <1>7
=============================================================================
