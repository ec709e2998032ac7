------------------------- MODULE MCProviderRegistry -------------------------
(***************************************************************************)
(* ProviderRegistry's names and calls are interchangeable.                 *)
(***************************************************************************)
EXTENDS ProviderRegistry, TLC

Interchangeable ==
    Permutations(Admins) \union Permutations(Names) \union Permutations(Models)
        \union Permutations(Versions)
=============================================================================
