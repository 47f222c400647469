-------------------------- MODULE MCAckCoordinator --------------------------
(***************************************************************************)
(* AckCoordinator for TLC, with the advance loop written as the loop it is. *)
(***************************************************************************)
EXTENDS AckCoordinator

(* One iteration per call: pop the first pending range or return. *)
RECURSIVE AdvanceLoop(_)
AdvanceLoop(c) ==
  LET first == CHOOSE r \in c.pending : \A q \in c.pending : r.low <= q.low
  IN IF \/ ~c.fixed \/ c.pending = {} \/ ~first.committed
        \/ first.low # SaturatingSucc(Floor(c))
     THEN c
     ELSE AdvanceLoop([c EXCEPT !.pending = @ \ {first},
                                !.frontier = first.high])

(* What advance_frontier's loop (lines 300-322) computes is the closed     *)
(* form Advanced that the specification and the proofs use.                *)
AdvancedIsTheLoop == Advanced(coord) = AdvanceLoop(coord)
=============================================================================
