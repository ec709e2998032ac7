--------------------------- MODULE CircuitBreaker ---------------------------
(***************************************************************************)
(* The state of the circuit breaker middleware (circuit_breaker.rs) and    *)
(* the four things that happen to it.  The map is guarded by one mutex and *)
(* every method below takes and releases it, so each is one step; what     *)
(* callers do between two of them is in BreakerTraffic and ProxyPipeline.  *)
(***************************************************************************)
EXTENDS Integers

CONSTANTS
    Keys,        \* provider names, the keys of the map
    Threshold,   \* CircuitBreakerConfig::failure_threshold
    Cooldown,    \* CircuitBreakerConfig::cooldown, in clock ticks
    MaxFailures  \* bound: the failure counter stops counting here

ASSUME BreakerAssumption ==
    /\ Threshold \in Nat \ {0}
    /\ Cooldown \in Nat \ {0}
    /\ MaxFailures \in Nat /\ MaxFailures >= Threshold

VARIABLE circuits

(***************************************************************************)
(* `since' is the time elapsed since opened_at, which only matters up to   *)
(* Cooldown, or NeverOpened for opened_at = None.  A key without an entry  *)
(* in the map and an entry with no failures behave alike.                  *)
(***************************************************************************)
NeverOpened == -1

Circuit == [failures : 0..MaxFailures, since : NeverOpened..Cooldown]

NoCircuit == [failures |-> 0, since |-> NeverOpened]

CircuitsInit == circuits = [k \in Keys |-> NoCircuit]

IsOpen(k) ==
    /\ circuits[k].since # NeverOpened
    /\ circuits[k].since < Cooldown

ForgetsFailuresOnly(k) ==   \* mutant: opened_at survives a success
    circuits' = [circuits EXCEPT ![k].failures = 0]

ForgetsOpeningOnly(k) ==   \* mutant: failures are counted on after a success
    circuits' = [circuits EXCEPT ![k].since = NeverOpened]

RecordSuccess(k) == circuits' = [circuits EXCEPT ![k] = NoCircuit]

OneMoreFailure(n) == IF n < MaxFailures THEN n + 1 ELSE n

(***************************************************************************)
(* Every failure at or beyond the threshold sets opened_at to now again.   *)
(***************************************************************************)
AfterFailure(c) ==
    [failures |-> OneMoreFailure(c.failures),
     since    |-> IF OneMoreFailure(c.failures) >= Threshold THEN 0 ELSE c.since]

RecordFailure(k) == circuits' = [circuits EXCEPT ![k] = AfterFailure(@)]

(***************************************************************************)
(* One tick of the clock that opened_at.elapsed() reads.                   *)
(***************************************************************************)
Aged(c) ==
    [c EXCEPT !.since = IF @ = NeverOpened \/ @ = Cooldown THEN @ ELSE @ + 1]

ElapseCircuits == circuits' = [k \in Keys |-> Aged(circuits[k])]

(***************************************************************************)
(* What is_open relies on: a circuit has an opening time exactly when at   *)
(* least Threshold failures were counted since the last recorded success.  *)
(***************************************************************************)
CircuitSound(c) == c.since # NeverOpened <=> c.failures >= Threshold

CircuitsSound ==
    /\ circuits \in [Keys -> Circuit]
    /\ \A k \in Keys : CircuitSound(circuits[k])

(***************************************************************************)
(* The circuits in the terms of BreakerContract: no clock, and a streak    *)
(* that does not count beyond the threshold.                               *)
(***************************************************************************)
Gate == [k \in Keys |-> IF IsOpen(k) THEN "open" ELSE "closed"]

Capped(n) == IF n < Threshold THEN n ELSE Threshold

Streak == [k \in Keys |-> Capped(circuits[k].failures)]
=============================================================================
