--------------------------- MODULE AckCoordinator ---------------------------
(***************************************************************************)
(* One `AckCoordinator` driven by any sequence of calls of its three       *)
(* state-changing methods.  The runtime pairs `mark_committed` with        *)
(* `advance_frontier`; here they are separate, as in the code's own tests. *)
(***************************************************************************)
EXTENDS AckCoordinatorOps

VARIABLES
  coord,      \* the coordinator's fields
  admitted,   \* history: sequences of every accepted register_pending
  marked      \* history: sequences of every accepted mark_committed

vars == <<coord, admitted, marked>>

(* A durable cursor equal to the last sequence has nothing after it to     *)
(* register, so a supplied baseline lies below MaxSeq.                     *)
Init ==
  /\ \E initial \in OptSeqNum \ {MaxSeq} : coord = New(initial)
  /\ admitted = {}
  /\ marked = {}

(* A rejected call returns Err and changes nothing: it is a stuttering     *)
(* step, left to [Next]_vars.                                              *)
RegisterPending(low, high) ==
  /\ RegisterAccepts(coord, low, high)
  /\ coord' = Registered(coord, low, high)
  /\ admitted' = admitted \cup (low .. high)
  /\ UNCHANGED marked

MarkCommitted(low, high) ==
  /\ MarkAccepts(coord, low, high)
  /\ coord' = Committed(coord, low)
  /\ marked' = marked \cup (low .. high)
  /\ UNCHANGED admitted

AdvanceFrontier ==
  /\ coord' = Advanced(coord)
  /\ UNCHANGED <<admitted, marked>>

Next ==
  \/ \E low, high \in SeqNums : RegisterPending(low, high)
  \/ \E low, high \in SeqNums : MarkCommitted(low, high)
  \/ AdvanceFrontier

Spec == Init /\ [][Next]_vars

-----------------------------------------------------------------------------
(* The fields of the coordinator keep their types; the histories are sets  *)
(* of sequences.                                                           *)
TypeOK ==
  /\ coord \in Coordinator
  /\ admitted \subseteq SeqNums
  /\ marked \subseteq SeqNums

(* INV-FRONTIER-NEVER-OVER-HOLE (ack_coordinator.rs:12): every sequence    *)
(* between the baseline and the frontier was marked committed, whatever    *)
(* the order in which ranges were registered, marked and advanced over.    *)
FrontierNeverOverHole ==
  \A s \in SeqNums :
    (coord.baseline < s /\ s <= coord.frontier) => s \in marked

(* INV-PENDING-DISJOINT, INV-ADMISSION-CONTIGUOUS and INV-PENDING-BOUNDED  *)
(* (lines 14-36) together: the pending ranges tile exactly the sequences   *)
(* above the frontier up to the last registered one, so a range can        *)
(* neither be lost from the map nor be covered twice, and the              *)
(* non-contiguous exit of advance_frontier (line 313) cannot be taken.     *)
Covers(r, s) == r.low <= s /\ s <= r.high

PendingTilesTail ==
  /\ \A r \in coord.pending :
       Floor(coord) < r.low /\ r.low <= r.high /\ r.high <= coord.lastHigh
  /\ \A s \in SeqNums :
       (Floor(coord) < s /\ s <= coord.lastHigh)
         => \E r \in coord.pending : Covers(r, s)
  /\ \A r, q \in coord.pending : r # q => r.high < q.low \/ q.high < r.low

(* A pending range carries the committed bit exactly if mark_committed was *)
(* called for it (line 280): the bit is neither lost when later ranges are *)
(* registered nor set by a call for another range.                         *)
MarksAgree ==
  /\ marked \subseteq admitted
  /\ \A r \in coord.pending, s \in SeqNums :
       Covers(r, s) => (s \in marked <=> r.committed)

(* The scalar fields agree with each other and with what was admitted:     *)
(* nothing is acked or pending before the first registration, and from     *)
(* then on exactly the sequences from just above the baseline to           *)
(* last_registered_high have been admitted.                                *)
FieldsAgree ==
  /\ coord.lastHigh = None =>
       coord = New(coord.initial) /\ coord.initial # MaxSeq
  /\ coord.lastHigh # None =>
       /\ coord.fixed
       /\ coord.baseline < coord.lastHigh
       /\ coord.frontier <= coord.lastHigh
       /\ coord.frontier # None => coord.baseline < coord.frontier
  /\ \A s \in SeqNums :
       s \in admitted <=> coord.baseline < s /\ s <= coord.lastHigh

(* The inductive invariant.  FrontierNeverOverHole alone is not inductive: *)
(* that popping the first ranges of the map cannot jump over a hole rests  *)
(* on the map tiling everything above the frontier (PendingTilesTail) and  *)
(* on the committed bits being honest (MarksAgree).                        *)
IInv ==
  /\ TypeOK
  /\ FieldsAgree
  /\ PendingTilesTail
  /\ MarksAgree
  /\ FrontierNeverOverHole

(* INV-FRONTIER-BASELINE-FLOOR: once fixed, the baseline never moves, and  *)
(* the frontier only grows (lines 24-29, 146).                             *)
FrontierMonotonic ==
  [][/\ coord.frontier <= coord'.frontier
     /\ coord.fixed => coord'.fixed /\ coord'.baseline = coord.baseline]_vars

(* The coordinator implements AckFrontier: no sequence is admitted twice   *)
(* (not even where saturating_add sticks at u64::MAX), and one call of     *)
(* advance_frontier acks the whole committed prefix, not a part of it.     *)
acked == {s \in admitted : s <= coord.frontier}

Abstract == INSTANCE AckFrontier WITH committed <- marked

ImplementsAckFrontier == Abstract!Spec
=============================================================================
