----------------------- MODULE SourceByteBudgetProofs -----------------------
(***************************************************************************)
(* Proofs about SourceByteBudget for any number of tasks and stages, any   *)
(* sizes asked for, and any capacity whose sums fit a word.                *)
(***************************************************************************)
EXTENDS SourceByteBudgetWords, OperatorProofs

-----------------------------------------------------------------------------
(* A count that fits the word does not wrap. *)
LEMMA WrapWord ==
  ASSUME NEW n \in Word
  PROVE  Wrap(n) = n
BY BudgetAssumption DEF Wrap, Word

(* u64 arithmetic stays in a word. *)
LEMMA WrapType ==
  ASSUME NEW n \in Int
  PROVE  Wrap(n) \in Word
BY BudgetAssumption DEF Wrap, Word

(* The tasks by themselves: what every step keeps of them. *)
TasksOK == task \in [Tasks -> TaskState] /\ \A p \in Tasks : TaskOK(task[p])

(* The byte counts of a reservation fit in a word. *)
LEMMA BytesAreWords == Bytes \subseteq Word /\ Word \subseteq Nat
BY BudgetAssumption DEF Bytes, Word

ChargesOK ==
  \A p \in Tasks : /\ charged[p] \in Bytes
                  /\ charged[p] \in Nat
                  /\ growth[p] \in Nat
                  /\ \A s : stagedIn(s)[p] \in Bytes

(* What a task is charged is a byte count of its reservation. *)
LEMMA ChargesAreBytes == TasksOK => ChargesOK
<1> SUFFICES ASSUME TasksOK, NEW p \in Tasks
             PROVE  /\ charged[p] \in Bytes
                    /\ charged[p] \in Nat
                    /\ growth[p] \in Nat
                    /\ \A s : stagedIn(s)[p] \in Bytes
  BY DEF ChargesOK
<1>1. {task[p].held, task[p].actual, 0} \subseteq Bytes /\ task[p].want \in Word
  BY BudgetAssumption DEF TasksOK, TaskOK, Bytes, TaskState
<1>2. charged[p] \in Bytes
  BY <1>1 DEF charged
<1>3. charged[p] \in Nat /\ task[p].want \in Nat
  BY Zenon, <1>1, <1>2, BytesAreWords
<1> QED
  BY <1>1, <1>2, <1>3 DEF growth, stagedIn

(* Sums of charges fit the word. *)
LEMMA SumOfBytes ==
  ASSUME NEW f, \A p \in Tasks : f[p] \in Bytes
  PROVE  Total(f, Tasks) \in Word
<1>1. PICK most \in Word :
        /\ \A n \in Actuals \cup {Capacity} : n <= most
        /\ most * Cardinality(Tasks) <= MaxWord
  BY WordsSuffice DEF Word
<1>2. IsFiniteSet(Tasks) /\ most \in Int
  BY BudgetAssumption DEF Word
<1>3. \A n \in Bytes : n \in Nat /\ n <= most
  BY <1>1, <1>2, BytesAreWords, BudgetAssumption DEF Bytes, Word
<1>4. Total(f, Tasks) \in Nat
  BY <1>2, <1>3, TotalNat
<1>5. Total(f, Tasks) <= most * Cardinality(Tasks)
  BY <1>2, <1>3, TotalBound
<1>6. most * Cardinality(Tasks) \in Int
  BY <1>2, FS_CardinalityType
<1> QED
  BY <1>1, <1>4, <1>5, <1>6, BudgetAssumption DEF Word

(* Bytes in flight are somebody's. *)
LEMMA InFlightIsOwed ==
  ASSUME IInv, inFlight > 0
  PROVE  \E q \in Tasks : OwesNotify(q)
<1> SUFFICES ASSUME \A q \in Tasks : ~OwesNotify(q) PROVE FALSE
  OBVIOUS
<1>1. TasksOK /\ inFlight = Total(charged, Tasks) /\ inFlight \in Nat
  BY BytesAreWords DEF IInv, TasksOK, BytesConserved, TypeOK
<1>2. \A q \in Tasks : charged[q] \in Int /\ charged[q] <= 0
  BY <1>1, ChargesAreBytes DEF ChargesOK, OwesNotify
<1>3. Total(charged, Tasks) <= 0 * Cardinality(Tasks)
  BY <1>2, TotalBound, BudgetAssumption
<1> QED
  BY <1>1, <1>3, FS_CardinalityType, BudgetAssumption

-----------------------------------------------------------------------------
(* What every step other than a notify does: it changes one task, moves    *)
(* the counters by what that task's charges change, adds to in_flight only *)
(* below the capacity or as growth, keeps the notify it owes, and waits    *)
(* only for bytes in flight.                                               *)
Moves(p) ==
  /\ task' \in [Tasks -> TaskState]
  /\ TaskOK(task'[p])
  /\ \A q \in Tasks \ {p} : task'[q] = task[q]
  /\ inFlight' = Wrap(inFlight - charged[p] + charged'[p])
  /\ stageBytes' \in [Stages -> Word]
  /\ \A s \in Stages :
       stageBytes'[s] = Wrap(stageBytes[s] - stagedIn(s)[p] + stagedIn(s)'[p])
  /\ inFlight' <= Capacity \/ charged'[p] - charged[p] <= growth'[p] - growth[p]
  /\ OwesNotify(p) => OwesNotify(p)'
  /\ (At(p, "claim")' /\ ~task'[p].woken /\ task'[p].seen > 0) => inFlight > 0
  /\ (At(p, "parked")' /\ ~task'[p].woken /\ task'[p].want <= Capacity)
       => inFlight > 0 \/ (At(p, "claim") /\ ~task[p].woken /\ task[p].seen > 0)

(* The conservation part of a move: one task's charge and in_flight change *)
(* by the same amount, and nothing wraps.                                  *)
LEMMA MovesConserves ==
  ASSUME IInv, NEW p \in Tasks, Moves(p)
  PROVE  /\ TasksOK /\ TasksOK'
         /\ inFlight' \in Word
         /\ inFlight' = inFlight - charged[p] + charged'[p]
         /\ BytesConserved'
<1>1. TasksOK
  BY DEF IInv, TypeOK, TasksOK
<1>2. TasksOK'
  BY <1>1 DEF Moves, TasksOK
<1>c. ChargesOK'
  BY <1>2, ChargesAreBytes, PTL
<1>3. \A q \in Tasks : charged[q] \in Bytes /\ \A s : stagedIn(s)[q] \in Bytes
  BY <1>1, ChargesAreBytes DEF ChargesOK
<1>4. \A q \in Tasks : charged'[q] \in Bytes /\ \A s : stagedIn(s)'[q] \in Bytes
  BY <1>c DEF ChargesOK
<1>5. \A q \in Tasks \ {p} :
        charged'[q] = charged[q] /\ \A s : stagedIn(s)'[q] = stagedIn(s)[q]
  BY DEF Moves, charged, stagedIn, At
<1>6. Bytes \subseteq Int /\ IsFiniteSet(Tasks)
  BY BytesAreWords, BudgetAssumption DEF Word
<1>7. Total(charged', Tasks) = Total(charged, Tasks) - charged[p] + charged'[p]
  <2>1. \A q \in Tasks : charged[q] \in Int /\ charged'[q] \in Int
    BY Zenon, <1>3, <1>4, <1>6
  <2>2. \A q \in Tasks \ {p} : charged'[q] = charged[q]
    BY <1>5
  <2> QED
    BY <2>1, <2>2, <1>6, TotalUpdate
<1>8. Total(charged', Tasks) \in Word
  BY <1>4, SumOfBytes
<1>9. inFlight = Total(charged, Tasks)
  BY DEF IInv, BytesConserved
<1>10. inFlight' = Total(charged', Tasks)
  BY <1>7, <1>8, <1>9, WrapWord DEF Moves
<1>11. ASSUME NEW s \in Stages
       PROVE  stageBytes'[s] = Total(stagedIn(s)', Tasks)
  <2>1. Total(stagedIn(s)', Tasks)
          = Total(stagedIn(s), Tasks) - stagedIn(s)[p] + stagedIn(s)'[p]
    <3>1. \A q \in Tasks : stagedIn(s)[q] \in Int /\ stagedIn(s)'[q] \in Int
      BY Zenon, <1>3, <1>4, <1>6
    <3>2. \A q \in Tasks \ {p} : stagedIn(s)'[q] = stagedIn(s)[q]
      BY <1>5
    <3> QED
      BY <3>1, <3>2, <1>6, TotalUpdate
  <2>2. Total(stagedIn(s)', Tasks) \in Word
    BY <1>4, SumOfBytes
  <2>3. stageBytes[s] = Total(stagedIn(s), Tasks)
    BY DEF IInv, BytesConserved
  <2> QED
    BY <2>1, <2>2, <2>3, WrapWord DEF Moves
<1>12. BytesConserved'
  BY <1>10, <1>11 DEF BytesConserved
<1> QED
  BY <1>1, <1>2, <1>7, <1>8, <1>9, <1>10, <1>12

(* A move keeps the inductive invariant. *)
LEMMA MovesIInv ==
  ASSUME IInv, NEW p \in Tasks, Moves(p)
  PROVE  IInv'
<1>1. /\ TasksOK /\ TasksOK' /\ inFlight' \in Word
      /\ inFlight' = inFlight - charged[p] + charged'[p] /\ BytesConserved'
  BY MovesConserves
<1>2. TypeOK' /\ \A q \in Tasks : TaskOK(task[q])'
  BY <1>1 DEF TypeOK, TasksOK, Moves
<1>3. OversubscriptionBounded'
  <2>1. \A q \in Tasks : growth[q] \in Nat /\ charged[q] \in Nat
    BY <1>1, ChargesAreBytes DEF ChargesOK
  <2>2. \A q \in Tasks : growth'[q] \in Nat /\ charged'[q] \in Nat
    <3>1. ChargesOK'
      BY <1>1, ChargesAreBytes, PTL
    <3> QED
      BY <3>1 DEF ChargesOK
  <2>3. \A q \in Tasks \ {p} : growth'[q] = growth[q]
    BY DEF Moves, growth, charged, At
  <2>4. Total(growth', Tasks) = Total(growth, Tasks) - growth[p] + growth'[p]
    BY <2>1, <2>2, <2>3, TotalUpdate, BudgetAssumption
  <2>5. Total(growth', Tasks) \in Nat /\ Total(growth, Tasks) \in Nat
    BY <2>1, <2>2, TotalNat, BudgetAssumption
  <2>6. inFlight <= Capacity + Total(growth, Tasks)
    BY DEF IInv, OversubscriptionBounded
  <2>7. inFlight \in Int /\ inFlight' \in Int /\ Capacity \in Nat
    BY <1>1, BudgetAssumption DEF IInv, TypeOK, Word
  <2>8. inFlight' <= Capacity + Total(growth', Tasks)
    <3>1. CASE inFlight' <= Capacity
      BY <3>1, <2>5, <2>7
    <3>2. CASE charged'[p] - charged[p] <= growth'[p] - growth[p]
      BY <3>2, <1>1, <2>1, <2>2, <2>4, <2>5, <2>6, <2>7
    <3> QED
      BY <3>1, <3>2 DEF Moves
  <2> QED
    BY <2>8 DEF OversubscriptionBounded
<1>4. \A q \in Tasks : OwesNotify(q) => OwesNotify(q)'
  BY DEF Moves, OwesNotify, charged, At
<1>5. ASSUME NEW q \in Tasks, (At(q, "claim") /\ ~task[q].woken /\ task[q].seen > 0)'
      PROVE  (\E r \in Tasks : OwesNotify(r))'
  BY <1>4, <1>5, InFlightIsOwed DEF Moves, IInv, At
<1>6. ASSUME NEW q \in Tasks, (At(q, "parked") /\ ~task[q].woken /\ task[q].want <= Capacity)'
      PROVE  (\E r \in Tasks : OwesNotify(r))'
  BY <1>4, <1>6, InFlightIsOwed DEF Moves, IInv, NoMissedNotify, At
<1> QED
  BY <1>1, <1>2, <1>3, <1>5, <1>6 DEF IInv, NoMissedNotify
-----------------------------------------------------------------------------
(* The steps of a call, one at a time.  First what they share. *)
LEMMA Before ==
  ASSUME IInv, NEW p \in Tasks
  PROVE  /\ TypeOK /\ TasksOK /\ TaskOK(task[p]) /\ task[p] \in TaskState
         /\ inFlight \in Int /\ Wrap(inFlight) = inFlight
         /\ \A s \in Stages : stageBytes[s] \in Int /\ Wrap(stageBytes[s]) = stageBytes[s]
         /\ Bytes \subseteq Word /\ Word \subseteq Nat /\ Capacity \in Word
         /\ NoStage \notin Stages /\ 0 \in Word /\ 0 \in Bytes
<1>1. TypeOK /\ TasksOK /\ TaskOK(task[p]) /\ task[p] \in TaskState
  BY DEF IInv, TypeOK, TasksOK
<1>2. inFlight \in Word /\ \A s \in Stages : stageBytes[s] \in Word
  BY <1>1 DEF TypeOK
<1>3. /\ Bytes \subseteq Word /\ Word \subseteq Nat /\ Capacity \in Word
      /\ NoStage \notin Stages /\ 0 \in Word /\ 0 \in Bytes
  BY BytesAreWords, BudgetAssumption DEF Word, Bytes
<1>4. inFlight \in Int /\ Wrap(inFlight) = inFlight
  BY <1>2, <1>3, WrapWord
<1>5. \A s \in Stages : stageBytes[s] \in Int /\ Wrap(stageBytes[s]) = stageBytes[s]
  <2> SUFFICES ASSUME NEW s \in Stages
               PROVE  stageBytes[s] \in Int /\ Wrap(stageBytes[s]) = stageBytes[s]
    OBVIOUS
  <2>1. stageBytes[s] \in Word
    BY <1>2
  <2>2. Wrap(stageBytes[s]) = stageBytes[s]
    BY <2>1, WrapWord, Zenon
  <2>3. stageBytes[s] \in Int
    BY <2>1, BudgetAssumption DEF Word
  <2> QED
    BY <2>2, <2>3
<1> QED
  BY <1>1, <1>3, <1>4, <1>5

(* A step that leaves the counters and the charges alone. *)
LEMMA QuietMoves ==
  ASSUME IInv, NEW p \in Tasks, NEW t \in TaskState, TaskOK(t),
         task' = [task EXCEPT ![p] = t], UNCHANGED <<inFlight, stageBytes>>,
         task[p].held = 0, t.held = 0,
         task[p].pc \in {"idle", "load", "claim", "parked", "tryClaim", "hold"},
         t.pc \in {"idle", "load", "claim", "parked", "tryClaim", "hold"},
         (t.pc = "claim" /\ ~t.woken /\ t.seen > 0) => inFlight > 0,
         (t.pc = "parked" /\ ~t.woken /\ t.want <= Capacity)
           => inFlight > 0 \/ (At(p, "claim") /\ ~task[p].woken /\ task[p].seen > 0)
  PROVE  Moves(p)
<1>0. /\ TypeOK /\ TaskOK(task[p]) /\ task[p] \in TaskState
      /\ inFlight \in Int /\ Wrap(inFlight) = inFlight
      /\ \A s \in Stages : stageBytes[s] \in Int /\ Wrap(stageBytes[s]) = stageBytes[s]
      /\ Word \subseteq Nat
  BY Before
<1>1. task' \in [Tasks -> TaskState] /\ task'[p] = t
  BY <1>0 DEF TypeOK
<1>2. \A q \in Tasks \ {p} : task'[q] = task[q]
  BY <1>0 DEF TypeOK
<1>3. charged[p] = 0 /\ charged'[p] = 0
  BY <1>1 DEF charged, At
<1>4. \A s : stagedIn(s)[p] = 0 /\ stagedIn(s)'[p] = 0
  BY <1>1 DEF stagedIn
<1>5. growth[p] = 0 /\ growth'[p] = 0
  <2>1. task[p].want \in Nat /\ t.want \in Nat
    BY Zenon, <1>0 DEF TaskState
  <2> QED
    BY <1>1, <1>3, <2>1 DEF growth
<1>6. ~OwesNotify(p)
  BY <1>0, <1>3 DEF OwesNotify
<1>7. inFlight' = Wrap(inFlight - charged[p] + charged'[p])
  BY <1>0, <1>3
<1>8. \A s \in Stages :
        stageBytes'[s] = Wrap(stageBytes[s] - stagedIn(s)[p] + stagedIn(s)'[p])
  BY <1>0, <1>4
<1>9. charged'[p] - charged[p] <= growth'[p] - growth[p]
  BY <1>3, <1>5
<1> QED
  BY <1>0, <1>1, <1>2, <1>6, <1>7, <1>8, <1>9 DEF Moves, At, TypeOK

(* What a task has in the stages changes by n at s. *)
Shifts(p, s, n) ==
  \A x \in Stages :
    stagedIn(x)'[p] = IF x = s THEN stagedIn(x)[p] + n ELSE stagedIn(x)[p]

(* The other steps that leave in_flight alone move bytes between stages, and *)
(* change neither what is charged nor what has grown.                        *)
LEMMA StageMoves ==
  ASSUME IInv, NEW p \in Tasks, NEW t \in TaskState, TaskOK(t),
         task' = [task EXCEPT ![p] = t], UNCHANGED inFlight,
         NEW s \in Stages \cup {NoStage}, NEW n \in Int, BumpStage(s, n),
         charged'[p] = charged[p], t.want = task[p].want,
         Shifts(p, s, n),
         OwesNotify(p) => OwesNotify(p)',
         t.pc \notin {"claim", "parked"}
  PROVE  Moves(p)
<1>0. /\ TypeOK /\ TasksOK
      /\ inFlight \in Int /\ Wrap(inFlight) = inFlight
      /\ \A x \in Stages : stageBytes[x] \in Int /\ Wrap(stageBytes[x]) = stageBytes[x]
      /\ Bytes \subseteq Int
  BY Before
<1>1. task' \in [Tasks -> TaskState] /\ task'[p] = t
  BY <1>0 DEF TypeOK
<1>2. \A q \in Tasks \ {p} : task'[q] = task[q]
  BY <1>0 DEF TypeOK
<1>3. charged[p] \in Nat /\ growth[p] \in Nat /\ \A x : stagedIn(x)[p] \in Int
  <2>1. ChargesOK
    BY <1>0, ChargesAreBytes
  <2> QED
    BY Zenon, <2>1, <1>0 DEF ChargesOK
<1>4. growth'[p] = growth[p]
  BY <1>1 DEF growth
<1>5. inFlight' = Wrap(inFlight - charged[p] + charged'[p])
  BY <1>0, <1>3
<1>6. stageBytes' \in [Stages -> Word]
  <2>1. \A x \in Stages : Wrap(stageBytes[x] + n) \in Word
    BY <1>0, WrapType
  <2> QED
    BY <2>1, <1>0 DEF BumpStage, TypeOK
<1>7. \A x \in Stages :
        stageBytes'[x] = Wrap(stageBytes[x] - stagedIn(x)[p] + stagedIn(x)'[p])
  <2> SUFFICES ASSUME NEW x \in Stages
               PROVE  stageBytes'[x] = Wrap(stageBytes[x] - stagedIn(x)[p] + stagedIn(x)'[p])
    OBVIOUS
  <2>1. CASE x = s
    <3>1. stageBytes[x] - stagedIn(x)[p] + stagedIn(x)'[p] = stageBytes[x] + n
      BY <2>1, <1>0, <1>3 DEF Shifts
    <3> QED
      BY <3>1, <2>1 DEF BumpStage
  <2>2. CASE x # s
    <3>1. stageBytes[x] - stagedIn(x)[p] + stagedIn(x)'[p] = stageBytes[x]
      BY <2>2, <1>0, <1>3 DEF Shifts
    <3> QED
      BY <3>1, <2>2, <1>0 DEF BumpStage
  <2> QED
    BY <2>1, <2>2
<1>8. charged'[p] - charged[p] <= growth'[p] - growth[p]
  BY <1>3, <1>4
<1> QED
  BY <1>1, <1>2, <1>5, <1>6, <1>7, <1>8 DEF Moves, At

(* The steps that change in_flight leave the stages alone. *)
LEMMA ChargeMoves ==
  ASSUME IInv, NEW p \in Tasks, NEW t \in TaskState, TaskOK(t),
         task' = [task EXCEPT ![p] = t], UNCHANGED stageBytes,
         inFlight' = Wrap(inFlight - charged[p] + charged'[p]),
         \A x \in Stages : stagedIn(x)'[p] = stagedIn(x)[p],
         inFlight' <= Capacity \/ charged'[p] - charged[p] <= growth'[p] - growth[p],
         OwesNotify(p) => OwesNotify(p)',
         t.pc \notin {"claim", "parked"}
  PROVE  Moves(p)
<1>0. /\ TypeOK /\ TasksOK
      /\ \A x \in Stages : stageBytes[x] \in Int /\ Wrap(stageBytes[x]) = stageBytes[x]
      /\ Bytes \subseteq Int
  BY Before
<1>1. task' \in [Tasks -> TaskState] /\ task'[p] = t
  BY <1>0 DEF TypeOK
<1>2. \A q \in Tasks \ {p} : task'[q] = task[q]
  BY <1>0 DEF TypeOK
<1>3. \A x : stagedIn(x)[p] \in Int
  BY Zenon, <1>0, ChargesAreBytes DEF ChargesOK
<1>4. \A x \in Stages :
        stageBytes'[x] = Wrap(stageBytes[x] - stagedIn(x)[p] + stagedIn(x)'[p])
  BY <1>0, <1>3
<1> QED
  BY <1>0, <1>1, <1>2, <1>4 DEF Moves, At, TypeOK

-----------------------------------------------------------------------------
(* A task with no reservation, or one that has just been given one. *)
LEMMA IdleOK ==
  /\ Idle \in TaskState /\ TaskOK(Idle) /\ Idle.held = 0 /\ Idle.pc = "idle"
  /\ Holding(Idle) \in TaskState /\ TaskOK(Holding(Idle))
  /\ Holding(Idle).held = 0 /\ Holding(Idle).pc = "hold"
  /\ Idle.want = 0 /\ Idle.actual = 0 /\ Idle.stage = NoStage
<1>1. 0 \in Word /\ 0 \in Bytes
  BY BudgetAssumption DEF Word, Bytes
<1>2. Idle \in TaskState /\ TaskOK(Idle) /\ Idle.held = 0 /\ Idle.pc = "idle"
  BY <1>1 DEF Idle, TaskState, TaskOK
<1>3. Idle.want = 0 /\ Idle.actual = 0 /\ Idle.stage = NoStage /\ Idle.seen = 0 /\ ~Idle.woken
  BY DEF Idle
<1>4. Holding(Idle) \in TaskState
  BY Zenon, <1>1, <1>2 DEF TaskState, Holding
<1>5. /\ Holding(Idle).held = 0 /\ Holding(Idle).pc = "hold" /\ Holding(Idle).want = 0
      /\ Holding(Idle).actual = 0
  BY <1>2, <1>3 DEF TaskState, Holding
<1>6. TaskOK(Holding(Idle))
  BY <1>1, <1>5 DEF TaskOK
<1> QED
  BY <1>2, <1>3, <1>4, <1>5, <1>6

(* reserve's call is a move. *)
LEMMA ReserveMoves ==
  ASSUME IInv, NEW p \in Tasks, Reserve(p)
  PROVE  Moves(p)
<1>0. TypeOK /\ TaskOK(task[p]) /\ Bytes \subseteq Word /\ 0 \in Word /\ 0 \in Bytes
  BY Before
<1>1. At(p, "idle") /\ UNCHANGED <<inFlight, stageBytes>>
  BY DEF Reserve
<1>2. task[p].held = 0
  BY <1>0, <1>1 DEF TaskOK, At
<1>3. PICK bytes \in Sizes :
        task' = [task EXCEPT ![p] = IF bytes = 0 THEN Holding(Idle)
                                    ELSE [Idle EXCEPT !.pc = "load", !.want = bytes]]
  BY Zenon DEF Reserve
<1>4. CASE bytes = 0
  BY Zenon, <1>1, <1>2, <1>3, <1>4, IdleOK, QuietMoves DEF At
<1>5. CASE bytes # 0
  <2> DEFINE t == [Idle EXCEPT !.pc = "load", !.want = bytes]
  <2>1. bytes \in Word
    BY BudgetAssumption DEF Word
  <2>2. t \in TaskState
    BY Zenon, <1>0, <2>1, IdleOK DEF TaskState
  <2>a. t.pc = "load" /\ t.want = bytes /\ t.held = 0 /\ t.actual = 0 /\ t.stage = NoStage
    BY IdleOK DEF TaskState
  <2>b. TaskOK(t)
    BY <1>0, <2>1, <2>a DEF TaskOK
  <2>3. task' = [task EXCEPT ![p] = t]
    BY <1>3, <1>5
  <2> HIDE DEF t
  <2> QED
    BY Zenon, <1>1, <1>2, <2>2, <2>a, <2>b, <2>3, QuietMoves DEF At
<1> QED
  BY <1>4, <1>5

(* try_reserve's call is a move. *)
LEMMA TryReserveMoves ==
  ASSUME IInv, NEW p \in Tasks, TryReserve(p)
  PROVE  Moves(p)
<1>0. TypeOK /\ TaskOK(task[p]) /\ Bytes \subseteq Word /\ 0 \in Word /\ 0 \in Bytes
  BY Before
<1>1. At(p, "idle") /\ UNCHANGED <<inFlight, stageBytes>>
  BY DEF TryReserve
<1>2. task[p].held = 0
  BY <1>0, <1>1 DEF TaskOK, At
<1>3. PICK bytes \in Sizes :
        task' = [task EXCEPT ![p] = IF bytes = 0 THEN Holding(Idle)
                                    ELSE [Idle EXCEPT !.pc = "tryClaim", !.want = bytes,
                                                      !.seen = inFlight]]
  BY Zenon DEF TryReserve
<1>4. CASE bytes = 0
  BY Zenon, <1>1, <1>2, <1>3, <1>4, IdleOK, QuietMoves DEF At
<1>5. CASE bytes # 0
  <2> DEFINE t == [Idle EXCEPT !.pc = "tryClaim", !.want = bytes, !.seen = inFlight]
  <2>1. bytes \in Word /\ inFlight \in Word
    BY <1>0, BudgetAssumption DEF TypeOK, Word
  <2>2. t \in TaskState
    BY Zenon, <1>0, <2>1, IdleOK DEF TaskState
  <2>a. t.pc = "tryClaim" /\ t.want = bytes /\ t.held = 0 /\ t.actual = 0 /\ t.stage = NoStage
    BY IdleOK DEF TaskState
  <2>b. TaskOK(t)
    BY <1>0, <2>1, <2>a DEF TaskOK
  <2>3. task' = [task EXCEPT ![p] = t]
    BY <1>3, <1>5
  <2> HIDE DEF t
  <2> QED
    BY Zenon, <1>1, <1>2, <2>2, <2>a, <2>b, <2>3, QuietMoves DEF At
<1> QED
  BY <1>4, <1>5

(* reserve's load of in_flight is a move. *)
LEMMA ReserveLoadMoves ==
  ASSUME IInv, NEW p \in Tasks, ReserveLoad(p)
  PROVE  Moves(p)
<1>0. TypeOK /\ TaskOK(task[p]) /\ task[p] \in TaskState
  BY Before
<1>1. At(p, "load") /\ UNCHANGED <<inFlight, stageBytes>>
  BY DEF ReserveLoad
<1> DEFINE t == [task[p] EXCEPT !.pc = "claim", !.seen = inFlight]
<1>2. task' = [task EXCEPT ![p] = t]
  BY Zenon, <1>0 DEF ReserveLoad, TypeOK
<1>3. t \in TaskState /\ t.pc = "claim" /\ t.seen = inFlight
  BY Zenon, <1>0 DEF TypeOK, TaskState
<1>4. TaskOK(t) /\ t.held = 0 /\ task[p].held = 0
  BY <1>0, <1>1 DEF TaskOK, TaskState, At
<1> HIDE DEF t
<1> QED
  BY Zenon, <1>1, <1>2, <1>3, <1>4, QuietMoves DEF At

(* reserve waking from Notified is a move. *)
LEMMA ReserveWakeMoves ==
  ASSUME IInv, NEW p \in Tasks, ReserveWake(p)
  PROVE  Moves(p)
<1>0. TypeOK /\ TaskOK(task[p]) /\ task[p] \in TaskState /\ 0 \in Word
  BY Before
<1>1. At(p, "parked") /\ UNCHANGED <<inFlight, stageBytes>>
  BY DEF ReserveWake
<1> DEFINE t == [task[p] EXCEPT !.pc = "load", !.woken = FALSE, !.seen = 0]
<1>2. task' = [task EXCEPT ![p] = t]
  BY Zenon, <1>0 DEF ReserveWake, TypeOK
<1>3. t \in TaskState /\ t.pc = "load"
  BY Zenon, <1>0 DEF TypeOK, TaskState
<1>4. TaskOK(t) /\ t.held = 0 /\ task[p].held = 0
  BY <1>0, <1>1 DEF TaskOK, TaskState, At
<1> HIDE DEF t
<1> QED
  BY Zenon, <1>1, <1>2, <1>3, <1>4, QuietMoves DEF At

(* Dropping the reserve future is a move. *)
LEMMA ReserveCancelMoves ==
  ASSUME IInv, NEW p \in Tasks, ReserveCancel(p)
  PROVE  Moves(p)
<1>0. TypeOK /\ TaskOK(task[p])
  BY Before
<1>1. /\ At(p, "parked") /\ UNCHANGED <<inFlight, stageBytes>>
      /\ task' = [task EXCEPT ![p] = Idle]
  BY DEF ReserveCancel
<1>2. task[p].held = 0
  BY <1>0, <1>1 DEF TaskOK, At
<1> QED
  BY Zenon, <1>1, <1>2, IdleOK, QuietMoves DEF At

(* A granted claim: it adds the bytes asked for and stays within the       *)
(* capacity.                                                               *)
LEMMA GrantMoves ==
  ASSUME IInv, NEW p \in Tasks, task[p].pc \in {"claim", "tryClaim"},
         inFlight' = inFlight + task[p].want, inFlight' <= Capacity,
         task' = [task EXCEPT ![p] = [Holding(@) EXCEPT !.held = task[p].want]],
         UNCHANGED stageBytes
  PROVE  Moves(p)
<1>0. /\ TypeOK /\ TaskOK(task[p]) /\ task[p] \in TaskState /\ inFlight \in Int
      /\ Word \subseteq Nat /\ Capacity \in Word /\ 0 \in Word /\ 0 \in Bytes
  BY Before
<1> DEFINE t == [Holding(task[p]) EXCEPT !.held = task[p].want]
<1>1. task' = [task EXCEPT ![p] = t]
  BY <1>0 DEF TypeOK
<1>2. t \in TaskState
  BY Zenon, <1>0 DEF TaskState, Holding
<1>3. /\ t.pc = "hold" /\ t.held = task[p].want /\ t.want = task[p].want
      /\ t.stage = task[p].stage /\ t.actual = 0
  BY <1>0 DEF TaskState, Holding
<1>4. task[p].held = 0 /\ task[p].want \in Bytes /\ task[p].want \in Nat
  <2>1. task[p].held = 0 /\ task[p].want \in Nat /\ inFlight \in Nat
    BY Zenon, <1>0 DEF TaskOK, TaskState, TypeOK
  <2>2. task[p].want \in 0 .. Capacity
    BY <2>1, <1>0
  <2> QED
    BY <2>1, <2>2 DEF Bytes
<1>5. TaskOK(t)
  BY <1>0, <1>3, <1>4 DEF TaskOK
<1> HIDE DEF t
<1>6. task'[p] = t
  BY <1>0, <1>1 DEF TypeOK
<1>7. charged[p] = 0 /\ charged'[p] = task[p].want
  BY Zenon, <1>3, <1>4, <1>6 DEF charged, At
<1>8. inFlight' = Wrap(inFlight - charged[p] + charged'[p])
  <2>1. inFlight' \in Word
    BY <1>0, <1>4, BudgetAssumption DEF Word, TypeOK
  <2>2. inFlight' = inFlight - charged[p] + charged'[p]
    BY <1>0, <1>4, <1>7
  <2> QED
    BY <2>1, <2>2, WrapWord, Zenon
<1>9. \A x \in Stages : stagedIn(x)'[p] = stagedIn(x)[p]
  <2>1. task[p].stage = NoStage /\ NoStage \notin Stages
    BY <1>0, BudgetAssumption DEF TaskOK
  <2>2. t.stage = NoStage
    BY <1>3, <2>1
  <2> QED
    BY Zenon, <1>6, <2>1, <2>2 DEF stagedIn
<1>10. ~OwesNotify(p)
  BY <1>4, <1>7 DEF OwesNotify
<1> QED
  BY Zenon, <1>1, <1>2, <1>3, <1>5, <1>8, <1>9, <1>10, ChargeMoves

(* A compare_exchange of reserve that succeeds adds what was asked and     *)
(* stays within the capacity: the value it was computed from is still the  *)
(* counter's.                                                              *)
LEMMA ReserveClaimGrants ==
  ASSUME IInv, NEW p \in Tasks, ReserveClaim(p),
         ReserveFits(task[p]), inFlight = task[p].seen
  PROVE  inFlight' = inFlight + task[p].want /\ inFlight' <= Capacity
<1>0. /\ TypeOK /\ TasksOK /\ TaskOK(task[p]) /\ task[p] \in TaskState
      /\ inFlight \in Int /\ Word \subseteq Nat /\ Capacity \in Word
  BY Before
<1>1. task[p].want \in Nat /\ inFlight \in Nat /\ MaxWord \in Nat
  BY Zenon, <1>0, BudgetAssumption DEF TaskState, TypeOK
<1>2. inFlight + task[p].want <= Capacity
  BY <1>0, <1>1, WordsSuffice DEF ReserveFits, SaturatingAdd, Word
<1>3. inFlight + task[p].want \in Word
  BY <1>0, <1>1, <1>2 DEF Word
<1>4. inFlight' = Wrap(inFlight + task[p].want)
  BY DEF ReserveClaim
<1>5. inFlight' = inFlight + task[p].want
  BY <1>3, <1>4, WrapWord, Zenon
<1> QED
  BY <1>2, <1>5

(* reserve's compare_exchange is a move, won or lost. *)
LEMMA ReserveClaimMoves ==
  ASSUME IInv, NEW p \in Tasks, ReserveClaim(p)
  PROVE  Moves(p)
<1>0. /\ TypeOK /\ TaskOK(task[p]) /\ task[p] \in TaskState /\ inFlight \in Int
      /\ Word \subseteq Nat /\ Capacity \in Word
  BY Before
<1>1. At(p, "claim") /\ UNCHANGED stageBytes
  BY DEF ReserveClaim
<1>2. CASE ReserveFits(task[p]) /\ inFlight = task[p].seen
  <2>1. inFlight' = inFlight + task[p].want /\ inFlight' <= Capacity
    BY <1>2, ReserveClaimGrants
  <2> QED
    BY <1>1, <1>2, <2>1, GrantMoves DEF ReserveClaim, At
<1>3. CASE ~(ReserveFits(task[p]) /\ inFlight = task[p].seen)
  <2> DEFINE t == [task[p] EXCEPT !.pc = "parked"]
  <2>1. task' = [task EXCEPT ![p] = t] /\ UNCHANGED inFlight
    BY <1>0, <1>3 DEF ReserveClaim, Goto, TypeOK
  <2>2. t \in TaskState
    BY <1>0 DEF TaskState
  <2>3. /\ t.pc = "parked" /\ t.held = task[p].held /\ t.want = task[p].want
        /\ t.stage = task[p].stage /\ t.actual = task[p].actual
        /\ t.woken = task[p].woken
    BY <1>0 DEF TaskState
  <2>4. TaskOK(t) /\ t.held = 0 /\ task[p].held = 0
    BY <1>0, <1>1, <2>3 DEF TaskOK, At
  <2>5. t.want <= Capacity => inFlight > 0 \/ task[p].seen > 0
    <3>1. /\ task[p].want \in Nat /\ task[p].seen \in Nat /\ MaxWord \in Nat
          /\ inFlight \in Nat /\ Capacity \in 0 .. MaxWord
      BY Zenon, <1>0, BudgetAssumption DEF TaskState, TypeOK
    <3>2. SUFFICES ASSUME task[p].want <= Capacity, inFlight = 0, task[p].seen = 0
                   PROVE  FALSE
      BY <2>3, <3>1
    <3> QED
      BY <1>3, <3>1, <3>2 DEF ReserveFits, SaturatingAdd
  <2> HIDE DEF t
  <2> QED
    BY Zenon, <1>1, <2>1, <2>2, <2>3, <2>4, <2>5, QuietMoves DEF At
<1> QED
  BY <1>2, <1>3

(* try_reserve's compare_exchange is a move, won or lost. *)
LEMMA TryClaimMoves ==
  ASSUME IInv, NEW p \in Tasks, TryClaim(p)
  PROVE  Moves(p)
<1>0. TypeOK /\ TaskOK(task[p])
  BY Before
<1>1. At(p, "tryClaim") /\ UNCHANGED stageBytes
  BY DEF TryClaim
<1> DEFINE next == task[p].seen + task[p].want
<1>2. CASE next <= MaxWord /\ next <= Capacity /\ inFlight = task[p].seen
  BY <1>1, <1>2, GrantMoves DEF TryClaim, At
<1>3. CASE ~(next <= MaxWord /\ next <= Capacity /\ inFlight = task[p].seen)
  <2>1. task' = [task EXCEPT ![p] = Idle] /\ UNCHANGED inFlight
    BY <1>3 DEF TryClaim
  <2>2. task[p].held = 0
    BY <1>0, <1>1 DEF TaskOK, At
  <2> QED
    BY Zenon, <1>1, <2>1, <2>2, IdleOK, QuietMoves DEF At
<1> QED
  BY <1>2, <1>3

(* attach_stage's subtraction from the previous stage's counter is a move. *)
LEMMA DetachMoves ==
  ASSUME IInv, NEW p \in Tasks, Detach(p)
  PROVE  Moves(p)
<1>0. /\ TypeOK /\ TaskOK(task[p]) /\ task[p] \in TaskState
      /\ Word \subseteq Nat /\ NoStage \notin Stages
  BY Before
<1>1. /\ At(p, "hold") /\ UNCHANGED inFlight /\ BumpStage(task[p].stage, -task[p].held)
  BY DEF Detach
<1> DEFINE t == [task[p] EXCEPT !.pc = "attach", !.stage = NoStage]
<1>2. task' = [task EXCEPT ![p] = t] /\ task'[p] = t
  BY Zenon, <1>0 DEF Detach, TypeOK
<1>3. t \in TaskState
  BY Zenon, <1>0 DEF TaskState
<1>4. /\ t.pc = "attach" /\ t.held = task[p].held /\ t.want = task[p].want
      /\ t.stage = NoStage /\ t.actual = task[p].actual
  BY <1>0 DEF TaskState
<1>5. TaskOK(t)
  BY <1>0, <1>1, <1>4 DEF TaskOK, At
<1>6. task[p].stage \in Stages \cup {NoStage} /\ task[p].held \in Nat
  BY Zenon, <1>0 DEF TaskState
<1>b. -task[p].held \in Int
  BY <1>6
<1> HIDE DEF t
<1>7. charged[p] = task[p].held /\ charged'[p] = task[p].held
  BY <1>1, <1>2, <1>4 DEF charged, At
<1>8. Shifts(p, task[p].stage, -task[p].held)
  <2>1. \A x \in Stages : stagedIn(x)'[p] = 0
    BY <1>0, <1>2, <1>4 DEF stagedIn
  <2>2. \A x \in Stages : stagedIn(x)[p] = IF x = task[p].stage THEN task[p].held ELSE 0
    BY <1>1 DEF stagedIn, At
  <2> QED
    BY <2>1, <2>2, <1>6 DEF Shifts
<1>9. OwesNotify(p) => OwesNotify(p)'
  BY <1>1, <1>2, <1>4, <1>7 DEF OwesNotify, At
<1> QED
  BY Zenon, <1>1, <1>2, <1>3, <1>4, <1>5, <1>6, <1>b, <1>7, <1>8, <1>9, StageMoves

(* attach_stage's addition to the new stage's counter is a move. *)
LEMMA AttachMoves ==
  ASSUME IInv, NEW p \in Tasks, Attach(p)
  PROVE  Moves(p)
<1>0. /\ TypeOK /\ TaskOK(task[p]) /\ task[p] \in TaskState
      /\ Word \subseteq Nat /\ NoStage \notin Stages
  BY Before
<1>1. At(p, "attach") /\ UNCHANGED inFlight
  BY DEF Attach
<1>a. PICK s \in Stages : /\ BumpStage(s, task[p].held)
                          /\ task' = [task EXCEPT ![p].pc = "hold", ![p].stage = s]
  BY Zenon DEF Attach
<1> DEFINE t == [task[p] EXCEPT !.pc = "hold", !.stage = s]
<1>2. task' = [task EXCEPT ![p] = t] /\ task'[p] = t
  BY Zenon, <1>0, <1>a DEF TypeOK
<1>3. t \in TaskState
  BY Zenon, <1>0 DEF TaskState
<1>4. /\ t.pc = "hold" /\ t.held = task[p].held /\ t.want = task[p].want
      /\ t.stage = s /\ t.actual = task[p].actual
  BY <1>0 DEF TaskState
<1>5. TaskOK(t) /\ task[p].stage = NoStage
  BY <1>0, <1>1, <1>4 DEF TaskOK, At
<1>6. task[p].held \in Nat /\ s \in Stages \cup {NoStage}
  BY Zenon, <1>0 DEF TaskState
<1>b. task[p].held \in Int /\ BumpStage(s, task[p].held)
  BY <1>6, <1>a
<1> HIDE DEF t
<1>7. charged[p] = task[p].held /\ charged'[p] = task[p].held
  BY <1>1, <1>2, <1>4 DEF charged, At
<1>8. Shifts(p, s, task[p].held)
  <2>1. \A x \in Stages : stagedIn(x)[p] = 0
    BY <1>0, <1>5 DEF stagedIn
  <2>2. \A x \in Stages : stagedIn(x)'[p] = IF x = s THEN task[p].held ELSE 0
    BY <1>2, <1>4 DEF stagedIn
  <2> QED
    BY <2>1, <2>2, <1>6 DEF Shifts
<1>9. OwesNotify(p) => OwesNotify(p)'
  BY <1>1, <1>2, <1>4, <1>7 DEF OwesNotify, At
<1> QED
  BY Zenon, <1>1, <1>b, <1>2, <1>3, <1>4, <1>5, <1>6, <1>7, <1>8, <1>9, StageMoves

(* reconcile's adjustment of in_flight, which waits for nothing, is a      *)
(* move.                                                                   *)
LEMMA ReconcileMoves ==
  ASSUME IInv, NEW p \in Tasks, Reconcile(p)
  PROVE  Moves(p)
<1>0. /\ TypeOK /\ TaskOK(task[p]) /\ task[p] \in TaskState /\ inFlight \in Int
      /\ Bytes \subseteq Word /\ Word \subseteq Nat /\ NoStage \notin Stages
  BY Before
<1>1. At(p, "hold") /\ UNCHANGED stageBytes
  BY DEF Reconcile
<1>a. PICK actual \in Actuals \ {task[p].held} :
         /\ inFlight' = Wrap(inFlight + actual - task[p].held)
         /\ task' = [task EXCEPT ![p].pc = "settle", ![p].actual = actual,
                                 ![p].want = Min({@, actual})]
  BY Zenon DEF Reconcile
<1>b. /\ task[p].held \in Nat /\ task[p].want \in Nat /\ actual \in Nat /\ actual \in Word
      /\ actual \in Bytes /\ task[p].want \in Word
      /\ task[p].want <= task[p].held
  <2>1. actual \in Bytes
    BY DEF Bytes
  <2> QED
    BY Zenon, <2>1, <1>0, <1>1 DEF TaskState, TaskOK, At
<1> DEFINE least == Min({task[p].want, actual})
<1>c. least = IF task[p].want <= actual THEN task[p].want ELSE actual
  BY <1>b DEF Min
<1>d. least \in Word /\ least \in Nat /\ least <= actual /\ least <= task[p].held
  BY <1>b, <1>c
<1> HIDE DEF least
<1> DEFINE t == [task[p] EXCEPT !.pc = "settle", !.actual = actual, !.want = least]
<1>2. task' = [task EXCEPT ![p] = t] /\ task'[p] = t
  BY Zenon, <1>0, <1>a DEF TypeOK, least
<1>3. t \in TaskState
  BY Zenon, <1>0, <1>b, <1>d DEF TaskState
<1>4. /\ t.pc = "settle" /\ t.held = task[p].held /\ t.want = least
      /\ t.stage = task[p].stage /\ t.actual = actual
  BY <1>0 DEF TaskState
<1>5. TaskOK(t)
  BY <1>0, <1>1, <1>4, <1>b, <1>d DEF TaskOK, At
<1> HIDE DEF t
<1>6. charged[p] = task[p].held /\ charged'[p] = actual
  BY <1>1, <1>2, <1>4 DEF charged, At
<1>7. \A x \in Stages : stagedIn(x)'[p] = stagedIn(x)[p]
  BY <1>1, <1>2, <1>4 DEF stagedIn, At
<1>8. inFlight' = Wrap(inFlight - charged[p] + charged'[p])
  <2>1. inFlight + actual - task[p].held = inFlight - charged[p] + charged'[p]
    BY <1>0, <1>6, <1>b
  <2> QED
    BY <2>1, <1>a
<1>9. growth[p] = task[p].held - task[p].want /\ growth'[p] = actual - least
  BY <1>2, <1>4, <1>6, <1>b, <1>d DEF growth
<1>10. charged'[p] - charged[p] <= growth'[p] - growth[p]
  BY <1>6, <1>9, <1>b, <1>c, <1>d
<1>11. OwesNotify(p) => OwesNotify(p)'
  BY <1>1, <1>2, <1>4, <1>6 DEF OwesNotify, At
<1> QED
  BY Zenon, <1>1, <1>2, <1>3, <1>4, <1>5, <1>7, <1>8, <1>10, <1>11, ChargeMoves

(* reconcile's adjustment of the stage's counter and of held is a move. *)
LEMMA SettleMoves ==
  ASSUME IInv, NEW p \in Tasks, Settle(p)
  PROVE  Moves(p)
<1>0. /\ TypeOK /\ TaskOK(task[p]) /\ task[p] \in TaskState
      /\ Bytes \subseteq Word /\ Word \subseteq Nat /\ 0 \in Word /\ 0 \in Bytes
  BY Before
<1>1. /\ At(p, "settle") /\ UNCHANGED inFlight
      /\ BumpStage(task[p].stage, task[p].actual - task[p].held)
  BY DEF Settle
<1> DEFINE u == [task[p] EXCEPT !.held = task[p].actual, !.actual = 0]
           t == IF task[p].actual < task[p].held THEN [u EXCEPT !.pc = "shrunk"]
                ELSE Holding(u)
<1>2. task' = [task EXCEPT ![p] = t] /\ task'[p] = t
  BY <1>0 DEF Settle, TypeOK
<1>3. t \in TaskState
  <2>1. u \in TaskState
    BY Zenon, <1>0 DEF TaskState
  <2> HIDE DEF u
  <2> QED
    BY Zenon, <2>1, <1>0 DEF TaskState, Holding
<1>4. /\ t.pc = IF task[p].actual < task[p].held THEN "shrunk" ELSE "hold"
      /\ t.held = task[p].actual /\ t.want = task[p].want
      /\ t.stage = task[p].stage /\ t.actual = 0
  <2>1. /\ u \in TaskState /\ u.held = task[p].actual /\ u.want = task[p].want
        /\ u.stage = task[p].stage /\ u.actual = 0
    BY Zenon, <1>0 DEF TaskState
  <2> HIDE DEF u
  <2> QED
    BY <2>1 DEF TaskState, Holding
<1>5. TaskOK(t)
  BY <1>0, <1>1, <1>4 DEF TaskOK, At
<1>6. /\ task[p].stage \in Stages \cup {NoStage} /\ task[p].held \in Nat
      /\ task[p].actual \in Nat
  BY Zenon, <1>0 DEF TaskState
<1>b. task[p].actual - task[p].held \in Int
  BY <1>6
<1> HIDE DEF t
<1>7. charged[p] = task[p].actual /\ charged'[p] = task[p].actual
  BY <1>1, <1>2, <1>4 DEF charged, At
<1>8. Shifts(p, task[p].stage, task[p].actual - task[p].held)
  <2>1. \A x \in Stages : stagedIn(x)'[p] = IF x = task[p].stage THEN task[p].actual ELSE 0
    BY <1>2, <1>4 DEF stagedIn
  <2>2. \A x \in Stages : stagedIn(x)[p] = IF x = task[p].stage THEN task[p].held ELSE 0
    BY <1>1 DEF stagedIn, At
  <2> QED
    BY <2>1, <2>2, <1>6 DEF Shifts
<1>9. OwesNotify(p) => OwesNotify(p)'
  <2>1. task[p].held > 0 => task[p].actual > 0 \/ t.pc = "shrunk"
    BY <1>4, <1>6
  <2> QED
    BY <2>1, <1>1, <1>2, <1>7 DEF OwesNotify, At
<1>10. t.pc \notin {"claim", "parked"}
  BY <1>4
<1> QED
  BY Zenon, <1>1, <1>2, <1>3, <1>4, <1>5, <1>6, <1>b, <1>7, <1>8, <1>9, <1>10, StageMoves

(* Drop's subtraction from the stage's counter is a move. *)
LEMMA DropMoves ==
  ASSUME IInv, NEW p \in Tasks, Drop(p)
  PROVE  Moves(p)
<1>0. /\ TypeOK /\ TaskOK(task[p]) /\ task[p] \in TaskState
      /\ Bytes \subseteq Word /\ Word \subseteq Nat
  BY Before
<1>1. At(p, "hold") /\ UNCHANGED inFlight
  BY DEF Drop
<1>2. task[p].stage \in Stages \cup {NoStage} /\ task[p].held \in Nat
  BY Zenon, <1>0 DEF TaskState
<1>3. CASE task[p].held > 0
  <2> DEFINE t == [task[p] EXCEPT !.pc = "release"]
  <2>1. BumpStage(task[p].stage, -task[p].held)
    BY <1>3 DEF Drop
  <2>2. task' = [task EXCEPT ![p] = t] /\ task'[p] = t
    BY <1>0, <1>3 DEF Drop, Goto, TypeOK
  <2>3. t \in TaskState
    BY <1>0 DEF TaskState
  <2>4. /\ t.pc = "release" /\ t.held = task[p].held /\ t.want = task[p].want
        /\ t.stage = task[p].stage /\ t.actual = task[p].actual
    BY <1>0 DEF TaskState
  <2>5. TaskOK(t)
    BY <1>0, <1>1, <2>4 DEF TaskOK, At
  <2> HIDE DEF t
  <2>6. -task[p].held \in Int
    BY <1>2
  <2>7. charged[p] = task[p].held /\ charged'[p] = task[p].held
    BY <1>1, <2>2, <2>4 DEF charged, At
  <2>8. Shifts(p, task[p].stage, -task[p].held)
    <3>1. \A x \in Stages : stagedIn(x)'[p] = 0
      BY <2>2, <2>4 DEF stagedIn
    <3>2. \A x \in Stages : stagedIn(x)[p] = IF x = task[p].stage THEN task[p].held ELSE 0
      BY <1>1 DEF stagedIn, At
    <3> QED
      BY <3>1, <3>2, <1>2 DEF Shifts
  <2>9. OwesNotify(p) => OwesNotify(p)'
    BY <1>1, <2>2, <2>4, <2>7 DEF OwesNotify, At
  <2> QED
    BY Zenon, <1>1, <1>2, <2>1, <2>2, <2>3, <2>4, <2>5, <2>6, <2>7, <2>8, <2>9, StageMoves
<1>4. CASE ~(task[p].held > 0)
  <2>1. task' = [task EXCEPT ![p] = Idle] /\ UNCHANGED stageBytes
    BY <1>4 DEF Drop
  <2>2. task[p].held = 0
    BY <1>2, <1>4
  <2> QED
    BY Zenon, <1>1, <2>1, <2>2, IdleOK, QuietMoves DEF At
<1> QED
  BY <1>3, <1>4

(* Drop's subtraction from in_flight is a move. *)
LEMMA ReleaseMoves ==
  ASSUME IInv, NEW p \in Tasks, Release(p)
  PROVE  Moves(p)
<1>0. /\ TypeOK /\ TaskOK(task[p]) /\ task[p] \in TaskState /\ inFlight \in Int
      /\ Bytes \subseteq Word /\ Word \subseteq Nat
  BY Before
<1>1. /\ At(p, "release") /\ UNCHANGED stageBytes
      /\ inFlight' = Wrap(inFlight - task[p].held)
  BY DEF Release
<1> DEFINE t == [task[p] EXCEPT !.pc = "released"]
<1>2. task' = [task EXCEPT ![p] = t] /\ task'[p] = t
  BY <1>0 DEF Release, Goto, TypeOK
<1>3. t \in TaskState
  BY <1>0 DEF TaskState
<1>4. /\ t.pc = "released" /\ t.held = task[p].held /\ t.want = task[p].want
      /\ t.stage = task[p].stage /\ t.actual = task[p].actual
  BY <1>0 DEF TaskState
<1>5. TaskOK(t) /\ task[p].want <= task[p].held
  BY <1>0, <1>1, <1>4 DEF TaskOK, At
<1>6. task[p].held \in Nat /\ task[p].want \in Nat
  BY Zenon, <1>0 DEF TaskState
<1> HIDE DEF t
<1>7. charged[p] = task[p].held /\ charged'[p] = 0
  BY <1>1, <1>2, <1>4 DEF charged, At
<1>8. \A x \in Stages : stagedIn(x)'[p] = stagedIn(x)[p]
  BY <1>1, <1>2, <1>4 DEF stagedIn, At
<1>9. inFlight' = Wrap(inFlight - charged[p] + charged'[p])
  <2>1. inFlight - task[p].held = inFlight - charged[p] + charged'[p]
    BY <1>0, <1>6, <1>7
  <2> QED
    BY <2>1, <1>1
<1>10. growth[p] = task[p].held - task[p].want /\ growth'[p] = 0
  BY <1>2, <1>4, <1>5, <1>6, <1>7 DEF growth
<1>11. charged'[p] - charged[p] <= growth'[p] - growth[p]
  BY <1>6, <1>7, <1>10
<1>12. OwesNotify(p)'
  BY SMTT(30), <1>2, <1>4 DEF OwesNotify
<1> QED
  BY Zenon, <1>1, <1>2, <1>3, <1>4, <1>5, <1>8, <1>9, <1>11, <1>12, ChargeMoves

-----------------------------------------------------------------------------
(* A notify changes no charge, and wakes every task that could be waiting. *)
LEMMA NotifyTasks ==
  ASSUME IInv, NEW p \in Tasks, Notify(p), NEW q \in Tasks
  PROVE  /\ task'[q] \in TaskState /\ TaskOK(task'[q])
         /\ charged'[q] = charged[q] /\ growth'[q] = growth[q]
         /\ \A s \in Stages : stagedIn(s)'[q] = stagedIn(s)[q]
         /\ task'[q].pc \in {"claim", "parked"} => task'[q].woken
<1>0. /\ TypeOK /\ TaskOK(task[q]) /\ task[q] \in TaskState
      /\ Word \subseteq Nat /\ 0 \in Word /\ 0 \in Bytes /\ NoStage \notin Stages
  BY Before
<1>1. task[p].pc \in {"shrunk", "released"}
  BY DEF Notify
<1>2. CASE q = p /\ At(p, "shrunk")
  <2>1. task'[q] = Holding(task[q])
    BY <1>2 DEF Notify
  <2>2. Holding(task[q]) \in TaskState
    BY Zenon, <1>0 DEF Holding, TaskState
  <2>3. /\ task'[q].pc = "hold" /\ task'[q].held = task[q].held /\ task'[q].want = task[q].want
        /\ task'[q].stage = task[q].stage /\ task'[q].actual = 0
    BY <1>0, <2>1 DEF Holding, TaskState
  <2>4. TaskOK(task'[q])
    BY <1>0, <1>2, <2>3 DEF TaskOK, At
  <2>5. charged'[q] = charged[q]
    BY <1>2, <2>3 DEF charged, At
  <2>6. growth'[q] = growth[q]
    BY <2>3, <2>5 DEF growth
  <2>7. \A s \in Stages : stagedIn(s)'[q] = stagedIn(s)[q]
    BY SMTT(30), <1>2, <2>3 DEF stagedIn, At
  <2> QED
    BY <2>1, <2>2, <2>3, <2>4, <2>5, <2>6, <2>7
<1>3. CASE q = p /\ ~At(p, "shrunk")
  <2>1. task'[q] = Idle /\ task[q].pc = "released"
    BY <1>1, <1>3 DEF Notify, At
  <2>2. charged[q] = 0 /\ charged'[q] = 0
    BY <2>1, IdleOK DEF charged, At
  <2>3. growth[q] = 0 /\ growth'[q] = 0
    <3>1. task[q].want \in Nat /\ task'[q].want = 0
      BY Zenon, <1>0, <2>1, IdleOK DEF TaskState
    <3> QED
      BY <2>2, <3>1 DEF growth
  <2>4. \A s \in Stages : stagedIn(s)'[q] = stagedIn(s)[q]
    BY <2>1, <1>0, IdleOK DEF stagedIn
  <2> QED
    BY <2>1, <2>2, <2>3, <2>4, IdleOK
<1>4. CASE q # p /\ Subscribed(q)
  <2>1. task'[q] = [task[q] EXCEPT !.woken = TRUE]
    BY <1>4 DEF Notify
  <2>2. task'[q] \in TaskState
    BY Zenon, <1>0, <2>1 DEF TaskState
  <2>3. /\ task'[q].pc = task[q].pc /\ task'[q].held = task[q].held
        /\ task'[q].want = task[q].want /\ task'[q].stage = task[q].stage
        /\ task'[q].actual = task[q].actual
    BY <1>0, <2>1 DEF TaskState
  <2>a. task'[q].woken
    BY <1>0, <2>1 DEF TaskState
  <2>4. TaskOK(task'[q])
    BY <1>0, <2>3 DEF TaskOK
  <2>5. charged'[q] = charged[q]
    BY <2>3 DEF charged, At
  <2>6. growth'[q] = growth[q]
    BY <2>3, <2>5 DEF growth
  <2>7. \A s \in Stages : stagedIn(s)'[q] = stagedIn(s)[q]
    BY SMTT(30), <2>3 DEF stagedIn
  <2> QED
    BY <2>2, <2>a, <2>4, <2>5, <2>6, <2>7
<1>5. CASE q # p /\ ~Subscribed(q)
  <2>1. task'[q] = task[q] /\ task[q].pc \notin {"claim", "parked"}
    BY <1>5 DEF Notify, Subscribed
  <2>2. charged'[q] = charged[q]
    BY <2>1 DEF charged, At
  <2>3. growth'[q] = growth[q]
    BY <2>1, <2>2 DEF growth
  <2>4. \A s \in Stages : stagedIn(s)'[q] = stagedIn(s)[q]
    BY <2>1 DEF stagedIn
  <2> QED
    BY <1>0, <2>1, <2>2, <2>3, <2>4
<1> QED
  BY <1>2, <1>3, <1>4, <1>5

(* notify_waiters wakes every registered waiter and keeps the invariant. *)
LEMMA NotifyIInv ==
  ASSUME IInv, NEW p \in Tasks, Notify(p)
  PROVE  IInv'
<1>1. UNCHANGED <<inFlight, stageBytes>> /\ TypeOK
  BY DEF Notify, IInv
<1>2. TypeOK' /\ \A q \in Tasks : TaskOK(task[q])'
  <2>1. task' = [q \in Tasks |-> task'[q]]
    BY DEF Notify
  <2>2. \A q \in Tasks : task'[q] \in TaskState /\ TaskOK(task'[q])
    BY NotifyTasks
  <2>3. task' \in [Tasks -> TaskState]
    BY <2>1, <2>2
  <2> QED
    BY <2>2, <2>3, <1>1 DEF TypeOK
<1>3. charged' = charged
  <2>1. \A q \in Tasks : charged'[q] = charged[q]
    BY NotifyTasks
  <2> QED
    BY <2>1 DEF charged
<1>4. growth' = growth
  <2>1. \A q \in Tasks : growth'[q] = growth[q]
    BY NotifyTasks
  <2> QED
    BY <2>1 DEF growth
<1>5. \A s \in Stages : stagedIn(s)' = stagedIn(s)
  <2> SUFFICES ASSUME NEW s \in Stages PROVE stagedIn(s)' = stagedIn(s)
    OBVIOUS
  <2>1. \A q \in Tasks : stagedIn(s)'[q] = stagedIn(s)[q]
    BY NotifyTasks
  <2> QED
    BY <2>1 DEF stagedIn
<1>6. BytesConserved'
  BY <1>1, <1>3, <1>5 DEF IInv, BytesConserved
<1>7. OversubscriptionBounded'
  BY <1>1, <1>4 DEF IInv, OversubscriptionBounded
<1>8. \A q \in Tasks : task'[q].pc \in {"claim", "parked"} => task'[q].woken
  BY NotifyTasks
<1> QED
  BY <1>2, <1>6, <1>7, <1>8 DEF IInv, NoMissedNotify, At

-----------------------------------------------------------------------------
(* A new budget satisfies the invariant. *)
LEMMA InitIInv == Init => IInv
<1> SUFFICES ASSUME Init PROVE IInv
  OBVIOUS
<1>1. 0 \in Word /\ Capacity \in Nat
  BY BudgetAssumption DEF Word
<1>2. TypeOK /\ \A p \in Tasks : TaskOK(task[p])
  BY <1>1, IdleOK DEF Init, TypeOK
<1>3. \A p \in Tasks : task[p] = Idle
  BY DEF Init
<1>4. \A p \in Tasks : charged[p] = 0
  BY <1>3, IdleOK DEF charged, At
<1>5. \A p \in Tasks : growth[p] = 0
  BY <1>3, <1>4, IdleOK DEF growth
<1>6. \A s : \A p \in Tasks : stagedIn(s)[p] = 0
  BY <1>3, IdleOK DEF stagedIn
<1>7. ASSUME NEW f, \A p \in Tasks : f[p] = 0
      PROVE  Total(f, Tasks) = 0
  <2>1. Total(f, Tasks) \in Nat
    BY <1>7, TotalNat, BudgetAssumption
  <2>2. Total(f, Tasks) <= 0 * Cardinality(Tasks)
    BY <1>7, TotalBound, BudgetAssumption
  <2> QED
    BY <2>1, <2>2, FS_CardinalityType, BudgetAssumption
<1>8. BytesConserved
  BY <1>4, <1>6, <1>7 DEF BytesConserved, Init
<1>9. OversubscriptionBounded
  BY <1>1, <1>5, <1>7 DEF OversubscriptionBounded, Init
<1> QED
  BY <1>2, <1>3, <1>8, <1>9, IdleOK DEF IInv, NoMissedNotify, At

(* Every step keeps the invariant. *)
LEMMA NextIInv ==
  ASSUME IInv, [Next]_vars
  PROVE  IInv'
<1>1. CASE UNCHANGED vars
  <2>1. charged' = charged /\ growth' = growth /\ \A s \in Stages : stagedIn(s)' = stagedIn(s)
    BY <1>1 DEF vars, charged, growth, stagedIn, At
  <2>2. TypeOK' /\ BytesConserved' /\ OversubscriptionBounded'
    BY <1>1, <2>1 DEF IInv, vars, TypeOK, BytesConserved, OversubscriptionBounded
  <2> QED
    BY <1>1, <2>1, <2>2 DEF IInv, vars, NoMissedNotify, OwesNotify, At
<1>2. ASSUME NEW p \in Tasks, Notify(p) PROVE IInv'
  BY <1>2, NotifyIInv
<1>3. ASSUME NEW p \in Tasks,
             \/ Reserve(p) \/ TryReserve(p) \/ ReserveCancel(p)
             \/ Detach(p) \/ Reconcile(p) \/ Drop(p)
             \/ ReserveLoad(p) \/ ReserveClaim(p) \/ ReserveWake(p) \/ TryClaim(p)
             \/ Attach(p) \/ Settle(p) \/ Release(p)
      PROVE  IInv'
  <2>1. Moves(p)
    BY <1>3, ReserveMoves, TryReserveMoves, ReserveCancelMoves, DetachMoves,
       ReconcileMoves, DropMoves, ReserveLoadMoves, ReserveClaimMoves,
       ReserveWakeMoves, TryClaimMoves, AttachMoves, SettleMoves, ReleaseMoves
  <2> QED
    BY <2>1, MovesIInv
<1> QED
  BY <1>1, <1>2, <1>3 DEF Next, Proceed

(* The inductive invariant holds of every behaviour, for every number of   *)
(* tasks and stages and every set of sizes asked for, however large, as    *)
(* long as the capacity leaves room in the word.                           *)
THEOREM BudgetInvariant == Spec => []IInv
<1>1. IInv /\ [Next]_vars => IInv'
  BY NextIInv
<1> QED
  BY InitIInv, <1>1, PTL DEF Spec

(* No interleaving of reserve, reconcile, attach_stage and drop leaks or   *)
(* double-frees a byte, in in_flight or in a stage counter.                *)
THEOREM BytesAreConserved == Spec => []BytesConserved
<1>1. IInv => BytesConserved
  BY DEF IInv
<1> QED
  BY <1>1, BudgetInvariant, PTL

(* in_flight exceeds the capacity only by what live reservations grew.     *)
THEOREM OversubscriptionIsGrowth == Spec => []OversubscriptionBounded
<1>1. IInv => OversubscriptionBounded
  BY DEF IInv
<1> QED
  BY <1>1, BudgetInvariant, PTL

(* A reserve is never parked for good: a notify is owed to it, or has been *)
(* given.                                                                  *)
THEOREM NotifyIsNotMissed == Spec => []NoMissedNotify
<1>1. IInv => NoMissedNotify
  BY DEF IInv
<1> QED
  BY <1>1, BudgetInvariant, PTL
=============================================================================
