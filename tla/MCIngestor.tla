------------------------------ MODULE MCIngestor -----------------------------
(***************************************************************************)
(* Instances of Ingestor for TLC.                                          *)
(***************************************************************************)
EXTENDS Ingestor, TLC

Usual ==
  [dryRun |-> FALSE, bindAddrParses |-> TRUE, policy |-> "every_commit_group", n |-> None,
   maxInflightBatches |-> 2, maxInflightBytes |-> 2, estimatedMaxBatchBytes |-> 1,
   fetchConcurrency |-> 1, decodeConcurrency |-> 1]

(* Beside the usual one: an ack every second group, a dry run, and one     *)
(* that build refuses.                                                     *)
SomeConfigs ==
  {Usual, [Usual EXCEPT !.policy = "every_n", !.n = 2],
   [Usual EXCEPT !.dryRun = TRUE, !.maxInflightBatches = 1],
   [Usual EXCEPT !.estimatedMaxBatchBytes = 3]}
=============================================================================
