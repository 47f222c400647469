----------------------- MODULE SourceByteBudgetWords ------------------------
(***************************************************************************)
(* The configurations of SourceByteBudget in which no counter can wrap.    *)
(***************************************************************************)
EXTENDS SourceByteBudget

(* The configured capacity is not the whole word, and it and what a batch  *)
(* may really weigh fit it once per task (a stage counter lags in_flight   *)
(* by what a reconcile has still to take off it).  Nothing is assumed of   *)
(* the bytes a reserve asks for: they are a configured estimate.           *)
ASSUME WordsSuffice ==
  /\ Capacity < MaxWord
  /\ \E most \in 0 .. MaxWord :
       /\ \A n \in Actuals \cup {Capacity} : n <= most
       /\ most * Cardinality(Tasks) <= MaxWord
=============================================================================
