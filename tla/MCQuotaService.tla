--------------------------- MODULE MCQuotaService ---------------------------
(***************************************************************************)
(* QuotaService with the adapter of a preset that has a not_equal check,   *)
(* and one whose paths are mistyped.                                       *)
(***************************************************************************)
EXTENDS QuotaService

QuotaAdapters ==
    {[check |-> "not_equal", paths |-> "sound"], [check |-> "none", paths |-> "broken"]}
=============================================================================
