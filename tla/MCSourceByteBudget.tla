------------------------- MODULE MCSourceByteBudget -------------------------
(***************************************************************************)
(* Instances of SourceByteBudget whose counters cannot wrap, for TLC.      *)
(***************************************************************************)
EXTENDS SourceByteBudgetWords
=============================================================================
