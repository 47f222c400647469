-------------------------- MODULE SourceByteBudget --------------------------
(***************************************************************************)
(* The per-source byte budget (source_budget.rs) at the grain of its       *)
(* atomic operations: any number of tasks reserve, reconcile, move between *)
(* stages and drop reservations at once.  One action is one access to a    *)
(* shared atomic (or the notify that follows it); what a task does to its  *)
(* own reservation rides along with the access before it.                  *)
(***************************************************************************)
EXTENDS Integers, FiniteSetsExt, Totals

CONSTANTS
  Tasks,        \* tasks using the budget
  Stages,       \* the per-stage counters of StageInflightBytes
  Capacity,     \* max_inflight_bytes
  MaxWord,      \* u64::MAX
  Sizes,        \* bytes a reserve may ask for
  Actuals       \* bytes a reconcile may settle on

NoStage == "none"

ASSUME BudgetAssumption ==
  /\ MaxWord \in Nat /\ Capacity \in 0 .. MaxWord
  /\ Sizes \subseteq 0 .. MaxWord /\ Actuals \subseteq 0 .. MaxWord
  /\ IsFiniteSet(Tasks) /\ NoStage \notin Stages

VARIABLES
  inFlight,     \* SourceByteBudget.in_flight
  stageBytes,   \* the stage counters
  task          \* per task: where it is, and its ByteReservation

vars == <<inFlight, stageBytes, task>>

-----------------------------------------------------------------------------
Word == 0 .. MaxWord

(* fetch_add, fetch_sub and the unchecked `current + bytes` of reserve     *)
(* wrap around in a release build.                                         *)
Wrap(n) == n % (MaxWord + 1)
SaturatingAdd(a, b) == IF a + b > MaxWord THEN MaxWord ELSE a + b

(* Idle: no reservation and no call in progress.  `want` is what reserve   *)
(* was asked for and, as a history, the least the reservation has held     *)
(* since.                                                                  *)
Idle == [pc |-> "idle", want |-> 0, seen |-> 0, woken |-> FALSE,
         held |-> 0, stage |-> NoStage, actual |-> 0]

Holding(t) == [t EXCEPT !.pc = "hold", !.seen = 0, !.woken = FALSE, !.actual = 0]

Init ==
  /\ inFlight = 0
  /\ stageBytes = [s \in Stages |-> 0]
  /\ task = [p \in Tasks |-> Idle]

At(p, pc) == task[p].pc = pc
Goto(p, pc) == task' = [task EXCEPT ![p].pc = pc]

(* Adding to (a negative n: subtracting from) the counter of a stage.      *)
BumpStage(s, n) ==
  stageBytes' = [x \in Stages |-> IF x = s THEN Wrap(stageBytes[x] + n)
                                           ELSE stageBytes[x]]

-----------------------------------------------------------------------------
(* reserve(bytes) subscribes to the notifier before it loads in_flight, so *)
(* `woken` is cleared here and may be set from now on.  Zero bytes are     *)
(* granted at once.                                                        *)
Reserve(p) ==
  /\ At(p, "idle")
  /\ \E bytes \in Sizes :
       task' = [task EXCEPT ![p] =
                  IF bytes = 0 THEN Holding(Idle)
                  ELSE [Idle EXCEPT !.pc = "load", !.want = bytes]]
  /\ UNCHANGED <<inFlight, stageBytes>>

ReserveLoad(p) ==
  /\ At(p, "load")
  /\ task' = [task EXCEPT ![p].pc = "claim", ![p].seen = inFlight]
  /\ UNCHANGED <<inFlight, stageBytes>>

ReserveFits(t) == SaturatingAdd(t.seen, t.want) <= Capacity

(* Mutants: a blind add for the exchange; subscribing only when parking.   *)
ReserveClaimBlind(p) ==
  /\ At(p, "claim")
  /\ IF ReserveFits(task[p])
     THEN /\ inFlight' = Wrap(inFlight + task[p].want)
          /\ task' = [task EXCEPT ![p] = [Holding(@) EXCEPT !.held = task[p].want]]
     ELSE /\ Goto(p, "parked")
          /\ UNCHANGED inFlight
  /\ UNCHANGED stageBytes

ReserveClaimThenSubscribe(p) ==
  /\ At(p, "claim")
  /\ IF ReserveFits(task[p]) /\ inFlight = task[p].seen
     THEN /\ inFlight' = Wrap(task[p].seen + task[p].want)
          /\ task' = [task EXCEPT ![p] = [Holding(@) EXCEPT !.held = task[p].want]]
     ELSE /\ task' = [task EXCEPT ![p].pc = "parked", ![p].woken = FALSE]
          /\ UNCHANGED inFlight
  /\ UNCHANGED stageBytes

(* The capacity test and the compare_exchange: both must succeed, a failed *)
(* exchange parks like a full budget.                                      *)
ReserveClaim(p) ==
  /\ At(p, "claim")
  /\ IF ReserveFits(task[p]) /\ inFlight = task[p].seen
     THEN /\ inFlight' = Wrap(task[p].seen + task[p].want)
          /\ task' = [task EXCEPT ![p] = [Holding(@) EXCEPT !.held = task[p].want]]
     ELSE /\ Goto(p, "parked")
          /\ UNCHANGED inFlight
  /\ UNCHANGED stageBytes

(* `notified.await` returns; the next turn of the loop subscribes anew. *)
ReserveWake(p) ==
  /\ At(p, "parked") /\ task[p].woken
  /\ task' = [task EXCEPT ![p].pc = "load", ![p].woken = FALSE, ![p].seen = 0]
  /\ UNCHANGED <<inFlight, stageBytes>>

(* The future is dropped at its only suspension point. *)
ReserveCancel(p) ==
  /\ At(p, "parked")
  /\ task' = [task EXCEPT ![p] = Idle]
  /\ UNCHANGED <<inFlight, stageBytes>>

-----------------------------------------------------------------------------
(* try_reserve: the same claim, but every failure returns None. *)
TryReserve(p) ==
  /\ At(p, "idle")
  /\ \E bytes \in Sizes :
       task' = [task EXCEPT ![p] =
                  IF bytes = 0 THEN Holding(Idle)
                  ELSE [Idle EXCEPT !.pc = "tryClaim", !.want = bytes,
                                    !.seen = inFlight]]
  /\ UNCHANGED <<inFlight, stageBytes>>

TryClaim(p) ==
  /\ At(p, "tryClaim")
  /\ LET next == task[p].seen + task[p].want IN
     IF next <= MaxWord /\ next <= Capacity /\ inFlight = task[p].seen
     THEN /\ inFlight' = next
          /\ task' = [task EXCEPT ![p] = [Holding(@) EXCEPT !.held = task[p].want]]
     ELSE /\ task' = [task EXCEPT ![p] = Idle]
          /\ UNCHANGED inFlight
  /\ UNCHANGED stageBytes

-----------------------------------------------------------------------------
(* Mutant: the previous stage keeps the bytes. *)
DetachKeeping(p) ==
  /\ At(p, "hold")
  /\ task' = [task EXCEPT ![p].pc = "attach", ![p].stage = NoStage]
  /\ UNCHANGED <<inFlight, stageBytes>>

(* attach_stage: the bytes leave the counter of the previous stage, then   *)
(* enter the counter of the new one.                                       *)
Detach(p) ==
  /\ At(p, "hold")
  /\ BumpStage(task[p].stage, -task[p].held)
  /\ task' = [task EXCEPT ![p].pc = "attach", ![p].stage = NoStage]
  /\ UNCHANGED inFlight

Attach(p) ==
  /\ At(p, "attach")
  /\ \E s \in Stages :
       /\ BumpStage(s, task[p].held)
       /\ task' = [task EXCEPT ![p].pc = "hold", ![p].stage = s]
  /\ UNCHANGED inFlight

(* reconcile(actual): in_flight first, then the stage and `held`; only a   *)
(* shrink notifies.  Nothing here waits or looks at the capacity.          *)
Reconcile(p) ==
  /\ At(p, "hold")
  /\ \E actual \in Actuals \ {task[p].held} :
       /\ inFlight' = Wrap(inFlight + actual - task[p].held)
       /\ task' = [task EXCEPT ![p].pc = "settle", ![p].actual = actual,
                               ![p].want = Min({@, actual})]
  /\ UNCHANGED stageBytes

(* Mutant: `held` takes the delta. *)
SettleDelta(p) ==
  /\ At(p, "settle")
  /\ BumpStage(task[p].stage, task[p].actual - task[p].held)
  /\ task' = [task EXCEPT ![p] = [Holding(@) EXCEPT !.held = task[p].actual - task[p].held]]
  /\ UNCHANGED inFlight

Settle(p) ==
  /\ At(p, "settle")
  /\ BumpStage(task[p].stage, task[p].actual - task[p].held)
  /\ LET t == [task[p] EXCEPT !.held = task[p].actual, !.actual = 0] IN
     task' = [task EXCEPT ![p] = IF @.actual < @.held
                                 THEN [t EXCEPT !.pc = "shrunk"]
                                 ELSE Holding(t)]
  /\ UNCHANGED inFlight

(* Drop: stage, in_flight, notify; a reservation of zero bytes just goes. *)
Drop(p) ==
  /\ At(p, "hold")
  /\ IF task[p].held > 0
     THEN /\ BumpStage(task[p].stage, -task[p].held)
          /\ Goto(p, "release")
     ELSE /\ task' = [task EXCEPT ![p] = Idle]
          /\ UNCHANGED stageBytes
  /\ UNCHANGED inFlight

Release(p) ==
  /\ At(p, "release")
  /\ inFlight' = Wrap(inFlight - task[p].held)
  /\ Goto(p, "released")
  /\ UNCHANGED stageBytes

(* Mutant: only futures already polled are completed. *)
SubscribedParked(q) == At(q, "parked")

(* notify_waiters, after a shrink or a drop: every subscribed future is    *)
(* completed, whether it has been polled since or not.                     *)
Subscribed(q) == task[q].pc \in {"load", "claim", "parked"}

Notify(p) ==
  /\ task[p].pc \in {"shrunk", "released"}
  /\ task' = [q \in Tasks |->
                IF q = p
                THEN IF At(p, "shrunk") THEN Holding(task[p]) ELSE Idle
                ELSE IF Subscribed(q) THEN [task[q] EXCEPT !.woken = TRUE]
                     ELSE task[q]]
  /\ UNCHANGED <<inFlight, stageBytes>>

-----------------------------------------------------------------------------
(* The steps a call takes by itself once it has begun. *)
Proceed(p) ==
  \/ ReserveLoad(p) \/ ReserveClaim(p) \/ ReserveWake(p) \/ TryClaim(p)
  \/ Attach(p) \/ Settle(p) \/ Release(p) \/ Notify(p)

Next ==
  \E p \in Tasks :
    \/ Reserve(p) \/ TryReserve(p) \/ ReserveCancel(p)
    \/ Detach(p) \/ Reconcile(p) \/ Drop(p)
    \/ Proceed(p)

(* A task that can run is run, and a unit is not moved between stages and  *)
(* reconciled for ever: it is dropped in the end.                          *)
Fairness == \A p \in Tasks : WF_vars(Proceed(p)) /\ SF_vars(Drop(p))

Spec == Init /\ [][Next]_vars /\ Fairness

-----------------------------------------------------------------------------
TaskState ==
  [pc : {"idle", "load", "claim", "parked", "tryClaim", "hold", "attach",
         "settle", "shrunk", "release", "released"},
   want : Word, seen : Word, woken : BOOLEAN, held : Word,
   stage : Stages \cup {NoStage}, actual : Word]

TypeOK ==
  /\ inFlight \in Word
  /\ stageBytes \in [Stages -> Word]
  /\ task \in [Tasks -> TaskState]

(* What each task has charged to in_flight, and to the counter of its      *)
(* stage, in the middle of a call included.                                *)
charged ==
  [p \in Tasks |-> CASE At(p, "settle") -> task[p].actual
                     [] At(p, "released") -> 0
                     [] OTHER -> task[p].held]

stagedIn(s) ==
  [p \in Tasks |-> IF task[p].stage = s /\ task[p].pc \notin {"release", "released"}
                   THEN task[p].held ELSE 0]

(* in_flight is exactly the sum of the live reservations, and each stage   *)
(* counter the sum of the reservations attached to it, at every point of   *)
(* every interleaving (runtime.rs:106: "The sum across all four atomics    *)
(* matches `budget.in_flight()`"): no path leaks or double-frees bytes.    *)
BytesConserved ==
  /\ inFlight = Total(charged, Tasks)
  /\ \A s \in Stages :
       stageBytes[s] = Total(stagedIn(s), Tasks)

(* Only reconcile-grow oversubscribes (source_budget.rs:16-22): in_flight  *)
(* exceeds the capacity by no more than the live reservations have grown   *)
(* since they were smallest, however claims, shrinks and drops interleave  *)
(* with the growth.                                                        *)
growth ==
  [p \in Tasks |-> IF charged[p] > task[p].want THEN charged[p] - task[p].want ELSE 0]

OversubscriptionBounded ==
  inFlight <= Capacity + Total(growth, Tasks)

(* The same bound for what is really charged, which in_flight counts only  *)
(* modulo the word: reserve "parks when `in_flight + bytes > capacity`"    *)
(* (lines 12-13): whatever is claimed meanwhile, the live reservations     *)
(* together exceed the capacity by no more than they have grown.           *)
ReservedWithinCapacity ==
  Total(charged, Tasks) <= Capacity + Total(growth, Tasks)

(* A parked reserve that has not been notified is parked for a reason that *)
(* ends in a notify (lines 83-86: "cannot miss a notify"): some task still *)
(* owes one, because it has just released bytes or holds bytes to release. *)
OwesNotify(q) ==
  task[q].held > 0 \/ charged[q] > 0 \/ task[q].pc \in {"shrunk", "released"}

NoMissedNotify ==
  \A p \in Tasks :
    (At(p, "parked") /\ ~task[p].woken /\ task[p].want <= Capacity)
      => \E q \in Tasks : OwesNotify(q)

(* Where the bytes of a task can be.  Only a task with a reservation holds *)
(* any, they are never fewer than `want` records, and they were granted    *)
(* within the capacity or settled on.                                      *)
Bytes == 0 .. Capacity \cup Actuals

TaskOK(t) ==
  /\ {t.held, t.actual} \subseteq Bytes
  /\ t.pc \in {"idle", "load", "claim", "parked", "tryClaim"}
       => t.held = 0 /\ t.stage = NoStage
  /\ t.pc \in {"hold", "attach", "settle", "shrunk", "release"} => t.want <= t.held
  /\ t.pc = "settle" => t.want <= t.actual
  /\ t.pc = "attach" => t.stage = NoStage

(* The inductive invariant.  A missed notify is ruled out from the load    *)
(* on: one that saw bytes in flight was owed a notify then, and has had it *)
(* or is owed it still.                                                    *)
IInv ==
  /\ TypeOK
  /\ \A p \in Tasks : TaskOK(task[p])
  /\ BytesConserved
  /\ OversubscriptionBounded
  /\ \A p \in Tasks :
       (At(p, "claim") /\ ~task[p].woken /\ task[p].seen > 0)
         => \E q \in Tasks : OwesNotify(q)
  /\ NoMissedNotify

(* A parked reserve for no more than the capacity is woken, whatever the   *)
(* order of loads, failed exchanges, releases and notifies.                *)
ParkedIsWoken ==
  \A p \in Tasks :
    (At(p, "parked") /\ task[p].want <= Capacity) ~> ~At(p, "parked")
=============================================================================
