------------------------------ MODULE MCRuntime ------------------------------
(***************************************************************************)
(* Instances of Runtime for TLC.                                           *)
(***************************************************************************)
EXTENDS Runtime, TLC

WorkerSymmetry ==
  Permutations(Fetchers) \cup Permutations(Decoders) \cup Permutations(Writers)
=============================================================================
