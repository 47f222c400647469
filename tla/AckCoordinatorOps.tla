-------------------------- MODULE AckCoordinatorOps --------------------------
(***************************************************************************)
(* The methods of `AckCoordinator` (ack_coordinator.rs) as operators on    *)
(* the coordinator's state, a record.  The coordinator is plain sequential *)
(* code behind `&mut self`, so a method is one function from a state to    *)
(* the state it leaves; a method that returns `Err` leaves the state it    *)
(* found.  `AckCoordinator` drives these operators on their own, and       *)
(* `Runtime` calls them from the per-source actor.                         *)
(***************************************************************************)
EXTENDS Integers

CONSTANT MaxSeq     \* the largest source sequence, u64::MAX in the code

ASSUME MaxSeqAssumption == MaxSeq \in Nat

-----------------------------------------------------------------------------
(* `Option<u64>`: None is -1, so that "the sequence after None" is 0, the  *)
(* value the code uses when neither a frontier nor a baseline exists.      *)
None == -1
SeqNums == 0 .. MaxSeq
OptSeqNum == SeqNums \cup {None}

PendingRange == [low : SeqNums, high : SeqNums, committed : BOOLEAN]

Coordinator ==
  [initial  : OptSeqNum,        \* initial_frontier_baseline
   baseline : OptSeqNum,        \* effective_baseline
   fixed    : BOOLEAN,            \* baseline_fixed
   frontier : OptSeqNum,        \* acked_frontier
   lastHigh : OptSeqNum,        \* last_registered_high
   pending  : SUBSET PendingRange]

(* `saturating_add(1)` on a sequence (on None: 0). *)
SaturatingSucc(n) == IF n = MaxSeq THEN MaxSeq ELSE n + 1

New(initial) ==
  [initial |-> initial, baseline |-> initial, fixed |-> initial # None,
   frontier |-> None, lastHigh |-> None, pending |-> {}]

-----------------------------------------------------------------------------
(* register_pending(low, high): the checks in the order of the code.  The  *)
(* overlap checks look at one neighbour each: the pending range with the   *)
(* greatest `low` not above `high`, and the first one at or above `low`.   *)
BelowNeighbour(c, high, r) ==
  /\ r \in c.pending /\ r.low <= high
  /\ \A q \in c.pending : q.low <= high => q.low <= r.low

(* Mutant: no contiguity check against last_registered_high. *)
RegisterAcceptsGap(c, low, high) ==
  low <= high /\ low > c.frontier /\ \A r \in c.pending : r.high < low

RegisterAccepts(c, low, high) ==
  /\ low <= high
  /\ (c.lastHigh = None /\ c.initial # None) => low = SaturatingSucc(c.initial)
  /\ c.lastHigh # None => low = SaturatingSucc(c.lastHigh)
  /\ c.frontier # None => low > c.frontier
  /\ \A r \in c.pending : BelowNeighbour(c, high, r) => r.high < low
  /\ \A r \in c.pending : r.low >= low => r.low > high

(* Mutant: the baseline moves with every registration. *)
RegisteredRebasing(c, low, high) ==
  [c EXCEPT !.baseline = low - 1, !.fixed = TRUE,
            !.pending = @ \cup {[low |-> low, high |-> high, committed |-> FALSE]},
            !.lastHigh = high]

Registered(c, low, high) ==
  [c EXCEPT
     !.baseline = IF c.fixed THEN @ ELSE IF low = 0 THEN None ELSE low - 1,
     !.fixed    = TRUE,
     !.pending  = {r \in @ : r.low # low}
                    \cup {[low |-> low, high |-> high, committed |-> FALSE]},
     !.lastHigh = high]

(* Registering n descriptors of one sequence each, from `first` on, as the *)
(* admission arm does in one poll: the state after each of them.           *)
RegisteredRun(c, first, n) ==
  LET after[k \in 0 .. n] ==
        IF k = 0 THEN c ELSE Registered(after[k - 1], first + k - 1, first + k - 1)
  IN after

RunAccepts(c, first, n) ==
  LET after == RegisteredRun(c, first, n)
  IN \A k \in 1 .. n : RegisterAccepts(after[k - 1], first + k - 1, first + k - 1)

-----------------------------------------------------------------------------
(* mark_committed(low, high): the entry keyed by `low` must exist and its  *)
(* `high` must agree; marking it twice changes nothing.                    *)
MarkAccepts(c, low, high) ==
  \E r \in c.pending : r.low = low /\ r.high = high

(* Mutant: a cumulative mark, everything up to `low`. *)
CommittedUpTo(c, low) ==
  [c EXCEPT !.pending = {IF r.low <= low THEN [r EXCEPT !.committed = TRUE] ELSE r :
                           r \in @}]

Committed(c, low) ==
  [c EXCEPT !.pending = {r \in @ : r.low # low}
              \cup {[r EXCEPT !.committed = TRUE] :
                      r \in {q \in c.pending : q.low = low}}]

-----------------------------------------------------------------------------
(* advance_frontier: the loop pops the first pending range while it is     *)
(* committed and starts right after the frontier (the baseline while       *)
(* nothing is acked).  Popped is what the loop has removed when it returns: *)
(* the ranges all of whose predecessors, themselves included, are          *)
(* committed and start right after the range popped before them.           *)
Floor(c) == IF c.frontier # None THEN c.frontier ELSE c.baseline

Linked(c, r) ==
  \/ /\ \A q \in c.pending : q.low >= r.low
     /\ r.low = SaturatingSucc(Floor(c))
  \/ \E p \in c.pending :
       /\ p.low < r.low
       /\ \A q \in c.pending : q.low <= p.low \/ q.low >= r.low
       /\ r.low = SaturatingSucc(p.high)

(* Mutants: the loop does not look at `committed`; one range per call. *)
PoppedUncommitted(c) == c.pending

PoppedFirst(c) ==
  {r \in c.pending : r.committed /\ \A q \in c.pending : q.low >= r.low}

Popped(c) ==
  {r \in c.pending :
     \A q \in c.pending : q.low <= r.low => q.committed /\ Linked(c, q)}

LastOf(ranges) == CHOOSE r \in ranges : \A q \in ranges : q.low <= r.low

Advanced(c) ==
  LET gone == Popped(c)
  IN IF ~c.fixed \/ gone = {}
     THEN c
     ELSE [c EXCEPT !.frontier = LastOf(gone).high, !.pending = @ \ gone]

-----------------------------------------------------------------------------
(* The coordinator tracks the sequences below `next`, of which `done` are  *)
(* committed: nothing is registered yet, or the pending ranges are the     *)
(* sequences above the frontier, one by one.                               *)
Tracks(c, next, done) ==
  /\ c \in Coordinator
  /\ next \in 0 .. MaxSeq + 1 /\ done \subseteq 0 .. next - 1
  /\ c.fixed <=> (c.initial # None \/ c.lastHigh # None)
  /\ c.lastHigh = None =>
       /\ c.pending = {} /\ c.frontier = None /\ c.baseline = c.initial
       /\ c.initial # None => next = c.initial + 1
  /\ c.lastHigh # None =>
       /\ next = c.lastHigh + 1 /\ c.baseline < c.lastHigh
       /\ c.frontier # None => c.baseline < c.frontier /\ c.frontier <= c.lastHigh
  /\ \A r \in c.pending :
       /\ r.low = r.high /\ Floor(c) < r.low /\ r.low < next
       /\ r.committed <=> r.low \in done
  /\ c.lastHigh # None =>
       \A s \in Floor(c) + 1 .. next - 1 : \E r \in c.pending : r.low = s
=============================================================================
