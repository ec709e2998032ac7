--------------------------- MODULE BreakerTraffic ---------------------------
(***************************************************************************)
(* CircuitBreaker::handle run by many requests at once.  The mutex is held *)
(* by is_open and by record_success / record_failure only, never across    *)
(* next.run(ctx).await: a request that passed the check reports its        *)
(* outcome at any later time, whatever the circuit has become meanwhile.   *)
(***************************************************************************)
EXTENDS CircuitBreaker

CONSTANT Callers  \* requests inside the middleware at the same time

VARIABLES
    stage,  \* [Callers -> Stage], where in handle the request is
    key     \* [Callers -> Keys], the provider it is for

vars == <<circuits, stage, key>>

Stage == {"idle", "arrived", "refused", "inflight"}

TypeOK ==
    /\ circuits \in [Keys -> Circuit]
    /\ stage \in [Callers -> Stage]
    /\ key \in [Callers -> Keys]

Init ==
    /\ CircuitsInit
    /\ stage = [c \in Callers |-> "idle"]
    /\ key \in [Callers -> Keys]

Arrive(c, k) ==
    /\ stage[c] = "idle"
    /\ stage' = [stage EXCEPT ![c] = "arrived"]
    /\ key' = [key EXCEPT ![c] = k]
    /\ UNCHANGED circuits

AdmitsAlways(c) ==   \* mutant: the circuit is not looked at
    /\ stage[c] = "arrived"
    /\ stage' = [stage EXCEPT ![c] = "inflight"]
    /\ UNCHANGED <<circuits, key>>

Admit(c) ==
    /\ stage[c] = "arrived"
    /\ ~IsOpen(key[c])
    /\ stage' = [stage EXCEPT ![c] = "inflight"]
    /\ UNCHANGED <<circuits, key>>

RefusalCounts(c) ==   \* mutant: an open circuit is recorded as a failure
    /\ stage[c] = "arrived"
    /\ IsOpen(key[c])
    /\ RecordFailure(key[c])
    /\ stage' = [stage EXCEPT ![c] = "refused"]
    /\ UNCHANGED key

(***************************************************************************)
(* The circuit is open: Aborted is returned and nothing is recorded.       *)
(***************************************************************************)
Refuse(c) ==
    /\ stage[c] = "arrived"
    /\ IsOpen(key[c])
    /\ stage' = [stage EXCEPT ![c] = "refused"]
    /\ UNCHANGED <<circuits, key>>

ReportSuccess(c) ==
    /\ stage[c] = "inflight"
    /\ RecordSuccess(key[c])
    /\ stage' = [stage EXCEPT ![c] = "idle"]
    /\ UNCHANGED key

ReportFailure(c) ==
    /\ stage[c] = "inflight"
    /\ RecordFailure(key[c])
    /\ stage' = [stage EXCEPT ![c] = "idle"]
    /\ UNCHANGED key

(***************************************************************************)
(* A refused request returns to its caller; a request whose client hangs   *)
(* up is dropped at its await and reports nothing.                         *)
(***************************************************************************)
Leave(c) ==
    /\ stage[c] \in {"refused", "inflight"}
    /\ stage' = [stage EXCEPT ![c] = "idle"]
    /\ UNCHANGED <<circuits, key>>

Elapse ==
    /\ ElapseCircuits
    /\ UNCHANGED <<stage, key>>

Next ==
    \/ \E c \in Callers :
           \/ \E k \in Keys : Arrive(c, k)
           \/ Admit(c)
           \/ Refuse(c)
           \/ ReportSuccess(c)
           \/ ReportFailure(c)
           \/ Leave(c)
    \/ Elapse

Spec == Init /\ [][Next]_vars

-----------------------------------------------------------------------------
(***************************************************************************)
(* is_open looks at the opening time only, record_failure at the number of *)
(* failures only; whatever order the reports come in, the two tell the same*)
(* story: a circuit was opened, a while ago perhaps, exactly when Threshold*)
(* failures were reported without a success among them.                    *)
(***************************************************************************)
OpenedByFailures == \A k \in Keys : CircuitSound(circuits[k])

(***************************************************************************)
(* Time passes; nothing is assumed of the callers or of the upstreams.     *)
(***************************************************************************)
FairSpec == Spec /\ WF_vars(Elapse)

(***************************************************************************)
(* Failures of requests already in flight restart the cooldown each time,  *)
(* but no request is let in while the circuit is open, so a provider is    *)
(* never skipped for ever: every open circuit lets requests in again,      *)
(* however its stragglers fail.                                            *)
(***************************************************************************)
NeverShutForever == \A k \in Keys : IsOpen(k) ~> ~IsOpen(k)

Stragglers(k) == {c \in Callers : stage[c] = "inflight" /\ key[c] = k}

KeptShutByStragglers(k) ==
    IsOpen(k) =>
        /\ Stragglers(k)' \subseteq Stragglers(k)
        /\ circuits'[k] \notin {circuits[k], Aged(circuits[k])} =>
               Stragglers(k)' # Stragglers(k)

OpenCircuitsLoseStragglers == \A k \in Keys : KeptShutByStragglers(k)

(***************************************************************************)
(* Why that is so, without a clock: nobody joins the requests past the gate*)
(* of an open circuit, and whatever happens to it but the passing of time, *)
(* a restart of its cooldown above all, takes one of them away.  So its    *)
(* cooldown restarts at most as often as requests were in flight.          *)
(***************************************************************************)
StragglersRunOut == [][OpenCircuitsLoseStragglers]_vars

Inside == [c \in Callers |-> IF stage[c] = "inflight" THEN key[c] ELSE "nowhere"]

Contract ==
    INSTANCE BreakerContract WITH gate <- Gate, streak <- Streak, inside <- Inside

(***************************************************************************)
(* Reports arrive late, in any order and from requests let in before the   *)
(* circuit opened; still, the mutex-and-timestamp implementation keeps the *)
(* contract: a provider is skipped only after Threshold failures with no   *)
(* success between them, nobody enters while it is skipped, a success of   *)
(* any straggler clears it, and reports about one provider never change    *)
(* another's.                                                              *)
(***************************************************************************)
ImplementsContract == Contract!Spec
=============================================================================
