--------------------------- MODULE BreakerContract --------------------------
(***************************************************************************)
(* What a caller of the circuit breaker may rely on, with no clock and no  *)
(* timestamps: a provider is skipped only after Threshold failures in a    *)
(* row, requests already past the gate keep reporting while it is shut,    *)
(* and the gate opens again by itself.                                     *)
(***************************************************************************)
EXTENDS Integers

CONSTANTS Keys, Callers, Threshold

VARIABLES
    gate,    \* [Keys -> {"closed", "open"}], in the sense of a circuit
    streak,  \* [Keys -> 0..Threshold]: failures in a row, as far as they count
    inside   \* [Callers -> Keys \union {Nowhere}]: who is past the gate of whom

contractVars == <<gate, streak, inside>>

Nowhere == "nowhere"

Init ==
    /\ gate = [k \in Keys |-> "closed"]
    /\ streak = [k \in Keys |-> 0]
    /\ inside = [c \in Callers |-> Nowhere]

Enter(c, k) ==
    /\ inside[c] = Nowhere
    /\ gate[k] = "closed"
    /\ inside' = [inside EXCEPT ![c] = k]
    /\ UNCHANGED <<gate, streak>>

Succeed(c) ==
    \E k \in Keys :
        /\ inside[c] = k
        /\ inside' = [inside EXCEPT ![c] = Nowhere]
        /\ streak' = [streak EXCEPT ![k] = 0]
        /\ gate' = [gate EXCEPT ![k] = "closed"]

NextStreak(n) == IF n < Threshold THEN n + 1 ELSE n

Fail(c) ==
    \E k \in Keys :
        /\ inside[c] = k
        /\ inside' = [inside EXCEPT ![c] = Nowhere]
        /\ streak' = [streak EXCEPT ![k] = NextStreak(@)]
        /\ gate' = [gate EXCEPT ![k] =
                        IF NextStreak(streak[k]) = Threshold THEN "open" ELSE @]

Vanish(c) ==
    /\ inside[c] # Nowhere
    /\ inside' = [inside EXCEPT ![c] = Nowhere]
    /\ UNCHANGED <<gate, streak>>

(***************************************************************************)
(* Cooldowns run out on their own, for any number of providers at once;    *)
(* the failures in a row are not forgotten, so one more opens it again.    *)
(***************************************************************************)
Lapse ==
    /\ \E lapsed \in SUBSET Keys :
           gate' = [k \in Keys |-> IF k \in lapsed THEN "closed" ELSE gate[k]]
    /\ UNCHANGED <<streak, inside>>

Next ==
    \/ \E c \in Callers :
           (\E k \in Keys : Enter(c, k)) \/ Succeed(c) \/ Fail(c) \/ Vanish(c)
    \/ Lapse

Spec == Init /\ [][Next]_contractVars
=============================================================================
