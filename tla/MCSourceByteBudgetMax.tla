----------------------- MODULE MCSourceByteBudgetMax ------------------------
(***************************************************************************)
(* Instances of SourceByteBudget with the whole word as the capacity.      *)
(***************************************************************************)
EXTENDS SourceByteBudget
=============================================================================
