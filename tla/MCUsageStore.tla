----------------------------- MODULE MCUsageStore -----------------------------
(***************************************************************************)
(* Integers of four bits: u64 is 0..15, i64 is -8..7.  The times are two   *)
(* whole seconds and two fractions that are written in another length each.*)
(***************************************************************************)
EXTENDS UsageStore, TLC

CONSTANTS p1, p2

MCTimes ==
    {[sec |-> 0, milli |-> 0, micro |-> 0], [sec |-> 0, milli |-> 0, micro |-> 5],
     [sec |-> 0, milli |-> 5, micro |-> 0], [sec |-> 1, milli |-> 0, micro |-> 0]}

MCCounters == 0..15

\* an ordinary answer, one that fills half of the width, one beyond i64
MCUsages ==
    {[input |-> 1, cache_read |-> 2, output |-> 0],
     [input |-> 5, cache_read |-> 0, output |-> 1],
     [input |-> 15, cache_read |-> 0, output |-> 8]}

MCPrice ==
    (p1 :> [input_per_m |-> 2, output_per_m |-> 3, cache_read_per_m |-> 1])
        @@ (p2 :> [input_per_m |-> 1, output_per_m |-> 5, cache_read_per_m |-> NoRecord])

MCProviders == {p1, p2}

Interchangeable == Permutations(Tasks)
=============================================================================
