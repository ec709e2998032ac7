------------------------------ MODULE MCStartup ------------------------------
(***************************************************************************)
(* Two built-in presets, one of the administrator's own and one whose name *)
(* needs encoding in a path, which the server does not undo.               *)
(***************************************************************************)
EXTENDS Startup, TLC

CONSTANTS b1, b2, own, encoded

MCNames == {b1, b2, own, encoded}

MCBuiltins == <<b1, b2>>

MCSegment == [n \in MCNames |-> IF n = encoded THEN NoPreset ELSE n]

Interchangeable == Permutations(Admins) \union Permutations(Secrets)
                       \union Permutations(Seeds) \union Permutations(Providers)
=============================================================================
