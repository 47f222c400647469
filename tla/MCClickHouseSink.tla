-------------------------- MODULE MCClickHouseSink --------------------------
(***************************************************************************)
(* Instances of ClickHouseSink for TLC.                                    *)
(***************************************************************************)
EXTENDS ClickHouseSink

Record(c, k, bytes) == [manifest |-> c.manifest, key |-> <<c.seq, 0, k>>, bytes |-> bytes]
Config(version, rows, bytes, useToken) ==
  [table |-> "logs", version |-> version, maxRows |-> rows, maxBytes |-> bytes,
   quorum |-> "auto", useToken |-> useToken]

(* A commit of three records, arriving out of order, and an empty one. *)
OneManifest == {[manifest |-> "m", seq |-> s] : s \in {0, 1}}
ThreeAndNone ==
  [c \in OneManifest |->
     IF c.seq = 0 THEN <<Record(c, 2, 1), Record(c, 1, 2), Record(c, 3, 1)>> ELSE <<>>]

(* A row limit of 2 and one of 1, a byte limit that splits elsewhere, and  *)
(* a newer mapping that sends no token.                                    *)
Rechunked ==
  {Config(1, 2, 9, TRUE), Config(1, 1, 9, TRUE), Config(1, 2, 2, TRUE), Config(2, 2, 9, FALSE)}

(* Two ingestors, each with a manifest of its own, into one table. *)
TwoManifests == {[manifest |-> m, seq |-> 0] : m \in {"m1", "m2"}}
OneRecordEach == [c \in TwoManifests |-> <<Record(c, 1, 1)>>]
Default == {Config(1, 2, 9, TRUE)}
=============================================================================
