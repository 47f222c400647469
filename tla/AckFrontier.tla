----------------------------- MODULE AckFrontier -----------------------------
(***************************************************************************)
(* What an ack coordinator promises, with no ranges, baselines or          *)
(* saturating arithmetic: sequences are admitted in one contiguous run,    *)
(* committed in any order, and acked exactly as far as every admitted      *)
(* sequence below has been committed.                                      *)
(***************************************************************************)
EXTENDS Integers

VARIABLES
  admitted,     \* sequences that entered the pipeline
  committed,    \* admitted sequences the sink has committed
  acked         \* sequences at or below the ack frontier

vars == <<admitted, committed, acked>>

Init == admitted = {} /\ committed = {} /\ acked = {}

(* A range enters right above everything admitted so far. *)
Admit ==
  /\ admitted \subseteq admitted'
  /\ \E low, high \in admitted' :
       /\ low <= high
       /\ \A s \in admitted : s < low
       /\ admitted # {} => low - 1 \in admitted
       /\ admitted' = admitted \cup (low .. high)
  /\ UNCHANGED <<committed, acked>>

Commit ==
  /\ committed \subseteq committed' /\ committed' \subseteq admitted
  /\ UNCHANGED <<admitted, acked>>

(* The ack covers the longest committed prefix. *)
Advance ==
  /\ acked' = {s \in admitted : \A t \in admitted : t <= s => t \in committed}
  /\ UNCHANGED <<admitted, committed>>

Next == Admit \/ Commit \/ Advance

Spec == Init /\ [][Next]_vars
=============================================================================
