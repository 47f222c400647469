----------------------------- MODULE AtLeastOnce -----------------------------
(***************************************************************************)
(* What the ingest runtime promises to whoever produces into the buffer,   *)
(* across crashes: a sequence leaves the manifest only after the sink has  *)
(* it.  Duplicates are allowed, loss is not.                               *)
(***************************************************************************)
EXTENDS Integers

VARIABLES
  produced,     \* last sequence appended to the manifest, -1 if none
  delivered,    \* sequences the sink holds durably
  dequeued      \* last sequence dequeued from the manifest, -1 if none

vars == <<produced, delivered, dequeued>>

Init == produced = -1 /\ delivered = {} /\ dequeued = -1

Produce ==
  /\ produced' = produced + 1
  /\ UNCHANGED <<delivered, dequeued>>

(* Only what is still in the manifest reaches the sink. *)
Deliver ==
  /\ delivered \subseteq delivered'
  /\ \A s \in delivered' \ delivered : s \in dequeued + 1 .. produced
  /\ UNCHANGED <<produced, dequeued>>

Dequeue ==
  /\ dequeued < dequeued' /\ dequeued' <= produced
  /\ \A s \in dequeued + 1 .. dequeued' : s \in delivered
  /\ UNCHANGED <<produced, delivered>>

Next == Produce \/ Deliver \/ Dequeue

Spec == Init /\ [][Next]_vars
=============================================================================
