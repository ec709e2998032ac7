----------------------------- MODULE AdminCalls -----------------------------
(***************************************************************************)
(* What the calls on the admin server have in common: run_admin spawns a   *)
(* task for each, so several are in progress at a time, and nothing bounds *)
(* how many are made but MaxCalls.                                         *)
(***************************************************************************)
EXTENDS Naturals

CONSTANTS
    Admins,   \* calls that may be in progress at the same time
    MaxCalls  \* bound: calls in a behaviour

ASSUME CallsAssumption == MaxCalls \in Nat

VARIABLE calls  \* calls made so far

CountCall ==
    /\ calls < MaxCalls
    /\ calls' = calls + 1
=============================================================================
