---------------------------- MODULE IngestorProofs ----------------------------
(***************************************************************************)
(* Proofs about Ingestor for any number of processes, configurations,      *)
(* starts and sequences.                                                   *)
(***************************************************************************)
EXTENDS Ingestor, OperatorProofs

Manifest == [produced : OptSeqNum, dequeued : OptSeqNum, epoch : Nat]

(* A process that has just been started, or has just ended. *)
LEMMA FreshOK ==
  ASSUME NEW pc \in {"down", "connecting", "building", "running", "closing"},
         NEW c \in Configs
  PROVE  /\ Fresh(pc, c) \in ProcState
         /\ Fresh(pc, c).pc = pc /\ Fresh(pc, c).config = c /\ Fresh(pc, c).epoch = 0
         /\ Fresh(pc, c).exit = "none" /\ Fresh(pc, c).cursor = None
         /\ Fresh(pc, c).coord = New(None) /\ Fresh(pc, c).admitted = {}
         /\ Fresh(pc, c).reported = {} /\ Fresh(pc, c).pendingAck = None
         /\ Fresh(pc, c).lastAck = None
<1>1. New(None) \in Coordinator
  BY MaxSeqAssumption DEF New, Coordinator, OptSeqNum, SeqNums, None
<1>2. None \in OptSeqNum
  BY DEF OptSeqNum
<1> QED
  BY <1>1, <1>2 DEF Fresh, ProcState

(* A process that is not running is typed. *)
LEMMA DownOK ==
  Down \in ProcState /\ Down.pc = "down" /\ Down.epoch = 0 /\ Down.exit = "none"
<1>1. (CHOOSE c \in Configs : TRUE) \in Configs
  BY IngestorAssumption
<1> QED
  BY <1>1, FreshOK DEF Down

(* A process whose run has returned is typed, and keeps its cursor and its *)
(* configuration.                                                          *)
LEMMA ReturnedOK ==
  ASSUME NEW p \in Processes, NEW exit \in {"ok", "error"}, TypeOK
  PROVE  /\ Returned(p, exit) \in ProcState /\ Returned(p, exit).pc = "closing"
         /\ Returned(p, exit).epoch = 0 /\ Returned(p, exit).exit = exit
         /\ Returned(p, exit).cursor = proc[p].cursor
         /\ Returned(p, exit).config = proc[p].config
<1>1. proc[p] \in ProcState
  BY DEF TypeOK
<1>2. proc[p].config \in Configs /\ proc[p].cursor \in OptSeqNum
  BY <1>1 DEF ProcState
<1>3. Fresh("closing", proc[p].config) \in ProcState
  BY <1>2, FreshOK
<1>4. /\ Fresh("closing", proc[p].config).pc = "closing"
      /\ Fresh("closing", proc[p].config).config = proc[p].config
      /\ Fresh("closing", proc[p].config).epoch = 0
  BY <1>2, FreshOK
<1> HIDE DEF Fresh
<1> QED
  BY Zenon, <1>2, <1>3, <1>4 DEF Returned, ProcState

-----------------------------------------------------------------------------
(* What a process relies on survives the steps of the others: the sink and *)
(* the manifest only grow, and a leader's manifest is moved by nobody else. *)
LEMMA OthersKeep ==
  ASSUME NEW x \in ProcState, NEW m \in Manifest, NEW n \in Manifest, NEW w, NEW v,
         ProcOK(x, m, w), w \subseteq v,
         m.produced <= n.produced, m.dequeued <= n.dequeued, m.epoch <= n.epoch,
         (x.epoch > 0 /\ x.epoch = n.epoch) => m.epoch = n.epoch /\ m.dequeued = n.dequeued
  PROVE  ProcOK(x, n, v)
<1>0. /\ m.produced \in Int /\ m.dequeued \in Int /\ m.epoch \in Int
      /\ n.produced \in Int /\ n.dequeued \in Int /\ n.epoch \in Int
      /\ x.epoch \in Int /\ x.cursor \in Int /\ x.lastAck \in Int
  BY MaxSeqAssumption DEF Manifest, ProcState, OptSeqNum, SeqNums, None
<1>1. x.epoch <= n.epoch
  BY <1>0 DEF ProcOK
<1>2. ASSUME x.exit = "ok"
      PROVE  x.pc = "closing" /\ (~x.config.dryRun => x.cursor <= n.dequeued)
  BY <1>0, <1>2 DEF ProcOK
<1>3. ASSUME x.pc \in {"building", "running"}
      PROVE  Working(x, n, v)
  <2>1. Working(x, m, w)
    BY <1>3 DEF ProcOK
  <2>2. x.cursor <= n.produced
    BY <2>1, <1>0 DEF Working
  <2>3. x.coord.lastHigh = None =>
          x.admitted = {} /\ x.cursor <= n.dequeued
            /\ (x.epoch = n.epoch => x.cursor = n.dequeued)
    BY <2>1, <1>0 DEF Working
  <2>4. x.epoch = n.epoch => x.epoch = m.epoch /\ m.dequeued = n.dequeued
    BY <2>1 DEF Working
  <2>5. ~x.config.dryRun =>
       /\ (0 .. x.cursor) \ x.admitted \subseteq v /\ x.reported \subseteq v
       /\ x.lastAck = x.coord.frontier
       /\ x.pendingAck \in {None, x.lastAck}
       /\ x.pendingAck = None => x.lastAck <= n.dequeued
    BY <2>1, <1>0 DEF Working
  <2> QED
    BY <2>1, <2>2, <2>3, <2>4, <2>5 DEF Working
<1> QED
  BY <1>1, <1>2, <1>3 DEF ProcOK

(* What a step of the process p does to the rest: p becomes x, and the     *)
(* sink grows, or p takes the manifest, or p, which has it, dequeues what  *)
(* is in the sink.                                                         *)
Moves(p, x) ==
  /\ x \in ProcState /\ proc' = [proc EXCEPT ![p] = x] /\ launches' \in 0 .. MaxLaunches
  /\ ProcOK(x, manifest', written')
  /\ x.epoch = 0 \/ x.epoch = proc[p].epoch \/ x.epoch > manifest.epoch
  /\ \/ /\ manifest' = manifest
        /\ written \subseteq written' /\ written' \subseteq 0 .. manifest.produced
     \/ /\ manifest' = [manifest EXCEPT !.epoch = @ + 1]
        /\ written' = written
     \/ /\ Leads(p) /\ proc[p].epoch > 0 /\ written' = written
        /\ \E d \in OptSeqNum :
             /\ manifest' = [manifest EXCEPT !.dequeued = d]
             /\ manifest.dequeued <= d /\ d <= manifest.produced
             /\ 0 .. d \subseteq written

(* A move keeps the invariant, and is a step of the promise or none. *)
LEMMA MovesKeeps ==
  ASSUME IInv, NEW p \in Processes, NEW x, Moves(p, x)
  PROVE  IInv' /\ [Promise!Next]_(Promise!vars)
<1> USE MaxSeqAssumption
<1>0. /\ manifest \in Manifest /\ written \subseteq SeqNums /\ x \in ProcState
      /\ \A q \in Processes : proc[q] \in ProcState
      /\ manifest.produced \in Int /\ manifest.dequeued \in Int /\ manifest.epoch \in Nat
  BY DEF IInv, TypeOK, Manifest, OptSeqNum, SeqNums, None, Moves
<1>1. /\ manifest' \in Manifest
      /\ manifest'.produced = manifest.produced
      /\ manifest.dequeued <= manifest'.dequeued /\ manifest'.dequeued <= manifest.produced
      /\ manifest.epoch <= manifest'.epoch
      /\ manifest'.dequeued # manifest.dequeued => written' = written
      /\ \A s \in 0 .. manifest'.dequeued : s \in written'
  <2>1. CASE manifest' = manifest /\ written \subseteq written'
    BY <1>0, <2>1 DEF IInv
  <2>2. CASE manifest' = [manifest EXCEPT !.epoch = @ + 1] /\ written' = written
    <3>1. /\ manifest' \in Manifest /\ manifest'.produced = manifest.produced
          /\ manifest'.dequeued = manifest.dequeued /\ manifest'.epoch = manifest.epoch + 1
      BY <1>0, <2>2 DEF Manifest
    <3> QED
      BY <1>0, <2>2, <3>1 DEF IInv
  <2>3. ASSUME NEW d \in OptSeqNum, written' = written,
               manifest' = [manifest EXCEPT !.dequeued = d],
               manifest.dequeued <= d, d <= manifest.produced, 0 .. d \subseteq written
        PROVE  <1>1!:
    <3>1. /\ manifest' \in Manifest /\ manifest'.produced = manifest.produced
          /\ manifest'.dequeued = d /\ manifest'.epoch = manifest.epoch
      BY <1>0, <2>3 DEF Manifest
    <3> QED
      BY <1>0, <2>3, <3>1
  <2> QED
    BY <2>1, <2>2, <2>3 DEF Moves
<1>2. written \subseteq written' /\ written' \subseteq 0 .. manifest.produced
  BY DEF Moves, IInv
<1>3. TypeOK'
  <2>1. proc' \in [Processes -> ProcState]
    BY DEF Moves, IInv, TypeOK
  <2>2. written' \subseteq SeqNums
    BY <1>0, <1>2 DEF SeqNums, Manifest, OptSeqNum, None
  <2> QED
    BY <1>1, <2>1, <2>2 DEF TypeOK, Moves, Manifest
<1>4. proc'[p] = x /\ \A q \in Processes \ {p} : proc'[q] = proc[q]
  BY DEF Moves, IInv, TypeOK
<1>5. \A q \in Processes : proc[q].epoch \in Nat /\ proc[q].epoch <= manifest.epoch
  BY <1>0 DEF IInv, ProcOK, ProcState
<1>6. \A q \in Processes : ProcOK(proc'[q], manifest', written')
  <2> TAKE q \in Processes
  <2>1. CASE q = p
    BY <2>1, <1>4 DEF Moves
  <2>2. CASE q # p
    <3>1. (proc[q].epoch > 0 /\ proc[q].epoch = manifest'.epoch)
             => manifest.epoch = manifest'.epoch /\ manifest.dequeued = manifest'.dequeued
      <4> SUFFICES ASSUME proc[q].epoch > 0, proc[q].epoch = manifest'.epoch
                   PROVE  manifest.epoch = manifest'.epoch /\ manifest.dequeued = manifest'.dequeued
        OBVIOUS
      <4>1. CASE manifest' = manifest
        BY <4>1
      <4>2. CASE manifest' = [manifest EXCEPT !.epoch = @ + 1]
        <5>1. manifest'.epoch = manifest.epoch + 1
          BY <4>2, <1>0 DEF Manifest
        <5> QED
          BY <5>1, <1>0, <1>5
      <4>3. CASE Leads(p) /\ proc[p].epoch > 0
                   /\ \E d \in OptSeqNum : manifest' = [manifest EXCEPT !.dequeued = d]
        <5>1. manifest'.epoch = manifest.epoch
          BY <4>3, <1>0 DEF Manifest
        <5>2. proc[q].epoch = proc[p].epoch
          BY <4>3, <5>1 DEF Leads
        <5> QED
          BY <2>2, <4>3, <5>2 DEF IInv
      <4> QED
        BY <4>1, <4>2, <4>3 DEF Moves
    <3>2. ProcOK(proc[q], manifest, written)
      BY DEF IInv
    <3>3. manifest.produced <= manifest'.produced
      BY <1>0, <1>1
    <3>4. ProcOK(proc[q], manifest', written')
      BY Zenon, <1>0, <1>1, <1>2, <3>1, <3>2, <3>3, OthersKeep
    <3> QED
      BY <2>2, <3>4, <1>4
  <2> QED
    BY <2>1, <2>2
<1>7. \A q, r \in Processes : proc'[q].epoch = proc'[r].epoch /\ q # r => proc'[q].epoch = 0
  <2>1. x.epoch \in Nat
    BY <1>0 DEF ProcState
  <2>2. x.epoch = 0 \/ x.epoch = proc[p].epoch \/ x.epoch > manifest.epoch
    BY DEF Moves
  <2>3. \A r \in Processes \ {p} : x.epoch = proc[r].epoch => x.epoch = 0
    BY <2>1, <2>2, <1>0, <1>5 DEF IInv
  <2> QED
    BY <1>4, <2>3 DEF IInv
<1>8. IInv'
  BY <1>1, <1>2, <1>3, <1>6, <1>7 DEF IInv
<1>9. [Promise!Next]_(Promise!vars)
  <2>1. CASE manifest'.dequeued = manifest.dequeued
    <3>1. \A s \in written' \ written : s \in manifest.dequeued + 1 .. manifest.produced
      BY <1>0, <1>2 DEF IInv
    <3> QED
      BY <2>1, <3>1, <1>1, <1>2 DEF Promise!Next, Promise!Deliver, Promise!vars
  <2>2. CASE manifest'.dequeued # manifest.dequeued
    <3>1. manifest.dequeued < manifest'.dequeued /\ written' = written
      BY <2>2, <1>0, <1>1 DEF Manifest, OptSeqNum, SeqNums, None
    <3>2. \A s \in manifest.dequeued + 1 .. manifest'.dequeued : s \in written
      BY <3>1, <1>0, <1>1 DEF Manifest, OptSeqNum, SeqNums, None
    <3> QED
      BY <3>1, <3>2, <1>1 DEF Promise!Next, Promise!Dequeue, Promise!vars
  <2> QED
    BY <2>1, <2>2
<1> QED
  BY <1>8, <1>9

-----------------------------------------------------------------------------
(* What the proofs about the steps share. *)
LEMMA Before ==
  ASSUME IInv, NEW p \in Processes
  PROVE  /\ TypeOK /\ manifest \in Manifest /\ written \subseteq SeqNums
         /\ proc[p] \in ProcState /\ launches \in 0 .. MaxLaunches
         /\ ProcOK(proc[p], manifest, written)
         /\ manifest.produced \in OptSeqNum /\ manifest.dequeued \in OptSeqNum
         /\ manifest.epoch \in Nat
         /\ manifest.dequeued <= manifest.produced
         /\ 0 .. manifest.dequeued \subseteq written
         /\ written \subseteq 0 .. manifest.produced
BY DEF IInv, TypeOK, Manifest

(* A process at work that Running or building says it is. *)
LEMMA AtWork ==
  ASSUME IInv, NEW p \in Processes, proc[p].pc \in {"building", "running"}
  PROVE  /\ Working(proc[p], manifest, written)
         /\ proc[p].admitted \subseteq 0 .. proc[p].cursor
         /\ proc[p].admitted \subseteq 0 .. manifest.produced
<1>1. Working(proc[p], manifest, written)
  BY DEF IInv, ProcOK
<1>2. proc[p] \in ProcState /\ manifest.produced \in OptSeqNum
  BY Before
<1>3. proc[p].coord \in Coordinator /\ proc[p].cursor \in OptSeqNum
  BY <1>2 DEF ProcState
<1>4. Floor(proc[p].coord) \in OptSeqNum
  BY <1>3 DEF Coordinator, Floor
<1>5. proc[p].admitted \subseteq 0 .. proc[p].cursor
  BY <1>1, <1>3, <1>4, MaxSeqAssumption DEF Working, OptSeqNum, SeqNums, None
<1>6. proc[p].cursor <= manifest.produced
  BY <1>1 DEF Working
<1> QED
  BY <1>1, <1>2, <1>3, <1>5, <1>6, MaxSeqAssumption DEF OptSeqNum, SeqNums, None

(* The steps that leave a process neither at work nor ended with success. *)
LEMMA IdleMoves ==
  ASSUME IInv, NEW p \in Processes, NEW x \in ProcState,
         proc' = [proc EXCEPT ![p] = x], launches' \in 0 .. MaxLaunches,
         x.pc \notin {"building", "running"}, x.exit # "ok", x.epoch = 0,
         x.pc = "connecting" => x = Fresh("connecting", x.config),
         UNCHANGED manifest,
         written \subseteq written', written' \subseteq 0 .. manifest.produced
  PROVE  Moves(p, x)
<1>1. ProcOK(x, manifest', written')
  BY Before DEF ProcOK
<1> QED
  BY <1>1 DEF Moves

(* Starting a process is a move. *)
LEMMA LaunchMoves ==
  ASSUME IInv, NEW p \in Processes, Launch(p)
  PROVE  \E x : Moves(p, x)
<1>1. PICK c \in Configs : proc' = [proc EXCEPT ![p] = Fresh("connecting", c)]
  BY Zenon DEF Launch, SetProc
<1>2. launches' \in 0 .. MaxLaunches
  BY Before, IngestorAssumption DEF Launch
<1>3. UNCHANGED <<manifest, written>> /\ written \subseteq 0 .. manifest.produced
  BY Before DEF Launch
<1> DEFINE x == Fresh("connecting", c)
<1>4. /\ x \in ProcState /\ x.pc = "connecting" /\ x.config = c /\ x.epoch = 0
      /\ x.exit = "none"
  BY FreshOK
<1>5. x = Fresh("connecting", x.config)
  BY <1>4
<1> HIDE DEF x
<1>6. proc' = [proc EXCEPT ![p] = x]
  BY <1>1 DEF x
<1>7. Moves(p, x)
  BY Zenon, <1>2, <1>3, <1>4, <1>5, <1>6, IdleMoves
<1> QED
  BY <1>7

(* The end of main is a move. *)
LEMMA CloseMoves ==
  ASSUME IInv, NEW p \in Processes, Close(p)
  PROVE  \E x : Moves(p, x)
<1>1. Moves(p, Down)
  BY Zenon, Before, DownOK, IdleMoves DEF Close, SetProc
<1> QED
  BY <1>1

(* initialize, which fences the other process and resumes at the durable   *)
(* dequeue position, is a move.                                            *)
LEMMA InitializeConsumerMoves ==
  ASSUME IInv, NEW p \in Processes, InitializeConsumer(p)
  PROVE  \E x : Moves(p, x)
<1> USE MaxSeqAssumption
<1>0. /\ TypeOK /\ proc[p] \in ProcState /\ launches \in 0 .. MaxLaunches
      /\ manifest \in Manifest /\ manifest.epoch \in Nat /\ manifest.dequeued \in OptSeqNum
      /\ manifest.dequeued <= manifest.produced /\ 0 .. manifest.dequeued \subseteq written
      /\ written \subseteq 0 .. manifest.produced
  BY Before
<1>1. UNCHANGED <<written, launches>> /\ proc[p].pc = "connecting"
  BY DEF InitializeConsumer
<1>2. CASE proc' = [proc EXCEPT ![p] = Down] /\ UNCHANGED manifest
  <2>1. Moves(p, Down)
    BY Zenon, <1>0, <1>1, <1>2, DownOK, IdleMoves
  <2> QED
    BY <2>1
<1> DEFINE x == [proc[p] EXCEPT !.pc = "building", !.epoch = manifest.epoch + 1,
                                !.cursor = manifest.dequeued]
<1>3. CASE manifest' = [manifest EXCEPT !.epoch = @ + 1] /\ proc' = [proc EXCEPT ![p] = x]
  <2>0. manifest.epoch + 1 \in Nat
    BY <1>0
  <2>1. x \in ProcState
    BY Zenon, <1>0, <2>0 DEF ProcState
  <2>2. /\ x.pc = "building" /\ x.epoch = manifest.epoch + 1 /\ x.cursor = manifest.dequeued
        /\ x.exit = proc[p].exit /\ x.coord = proc[p].coord /\ x.admitted = proc[p].admitted
        /\ x.reported = proc[p].reported /\ x.config = proc[p].config
        /\ x.pendingAck = proc[p].pendingAck /\ x.lastAck = proc[p].lastAck
    BY <1>0 DEF ProcState
  <2> HIDE DEF x
  <2>3. /\ proc[p].coord = New(None) /\ proc[p].admitted = {} /\ proc[p].reported = {}
        /\ proc[p].pendingAck = None /\ proc[p].lastAck = None /\ proc[p].exit = "none"
    <3>1. proc[p] = Fresh("connecting", proc[p].config) /\ proc[p].config \in Configs
      BY <1>0, <1>1 DEF IInv, ProcOK, ProcState
    <3> QED
      BY <3>1, FreshOK
  <2>4. /\ manifest' \in Manifest /\ manifest'.dequeued = manifest.dequeued
        /\ manifest'.produced = manifest.produced /\ manifest'.epoch = manifest.epoch + 1
    BY <1>0, <1>3, <2>0 DEF Manifest
  <2>5. Tracks(x.coord, x.cursor + 1, (0 .. x.cursor) \ x.admitted)
    <3> DEFINE next == x.cursor + 1
               done == (0 .. x.cursor) \ x.admitted
    <3>1. next \in 0 .. MaxSeq + 1 /\ done \subseteq 0 .. next - 1 /\ None \in OptSeqNum
      BY <1>0, <2>2 DEF OptSeqNum, SeqNums, None
    <3>2. None # None => next = None + 1
      OBVIOUS
    <3> HIDE DEF next, done
    <3>3. Tracks(New(None), next, done)
      BY Zenon, <3>1, <3>2, NewTracks
    <3> QED
      BY <2>2, <2>3, <3>3 DEF next, done
  <2>6. New(None).lastHigh = None /\ New(None).initial = None /\ New(None).frontier = None
    BY DEF New
  <2>7. Working(x, manifest', written')
    <3>1. None <= manifest.dequeued
      BY <1>0 DEF OptSeqNum, SeqNums, None
    <3>2. x.epoch > 0 /\ x.cursor <= manifest'.produced /\ x.cursor = manifest'.dequeued
      BY <1>0, <2>2, <2>4
    <3>3. x.cursor <= manifest'.dequeued
      BY <1>0, <3>2, <2>2 DEF OptSeqNum, SeqNums, None
    <3>4. (0 .. x.cursor) \subseteq written'
      BY <1>0, <1>1, <2>2
    <3> QED
      BY <1>1, <2>2, <2>3, <2>4, <2>5, <2>6, <3>1, <3>2, <3>3, <3>4 DEF Working
  <2>8. ProcOK(x, manifest', written')
    <3>1. x.epoch <= manifest'.epoch
      BY <2>0, <2>2, <2>4
    <3> QED
      BY <2>2, <2>3, <2>7, <3>1 DEF ProcOK
  <2>9. x.epoch > manifest.epoch
    BY <1>0, <2>2
  <2>10. Moves(p, x)
    BY <1>0, <1>1, <1>3, <2>1, <2>8, <2>9 DEF Moves
  <2> QED
    BY <2>10
<1> QED
  BY <1>2, <1>3 DEF InitializeConsumer, SetProc

(* The steps that change only what a process at work is. *)
LEMMA WorkMoves ==
  ASSUME IInv, NEW p \in Processes, NEW x \in ProcState,
         proc[p].pc \in {"building", "running"}, x.pc = "running", x.exit = proc[p].exit,
         x.epoch = proc[p].epoch,
         Working(x, manifest, written'),
         proc' = [proc EXCEPT ![p] = x], UNCHANGED <<manifest, launches>>,
         written \subseteq written', written' \subseteq 0 .. manifest.produced
  PROVE  Moves(p, x)
<1>1. x.exit # "ok" /\ x.epoch <= manifest.epoch
  BY DEF IInv, ProcOK
<1>2. ProcOK(x, manifest', written')
  BY <1>1 DEF ProcOK
<1> QED
  BY <1>2, Before DEF Moves

(* Building the runtime is a move. *)
LEMMA BuildMoves ==
  ASSUME IInv, NEW p \in Processes, Build(p)
  PROVE  \E x : Moves(p, x)
<1>0. proc[p] \in ProcState /\ written \subseteq 0 .. manifest.produced
      /\ launches \in 0 .. MaxLaunches
  BY Before
<1>1. proc[p].pc = "building" /\ UNCHANGED <<manifest, written, launches>>
  BY DEF Build
<1>2. CASE proc' = [proc EXCEPT ![p] = Down]
  <2>1. Moves(p, Down)
    BY Zenon, <1>0, <1>1, <1>2, DownOK, IdleMoves
  <2> QED
    BY <2>1
<1> DEFINE x == [proc[p] EXCEPT !.pc = "running", !.coord = New(None)]
<1>3. CASE proc' = [proc EXCEPT ![p] = x]
  <2>1. Working(proc[p], manifest, written) /\ proc[p].coord = New(None)
    BY <1>1, AtWork DEF IInv, ProcOK
  <2>2. proc[p].coord \in Coordinator
    BY <1>0 DEF ProcState
  <2>3. x \in ProcState
    BY Zenon, <1>0, <2>1, <2>2 DEF ProcState
  <2>4. /\ x.pc = "running" /\ x.epoch = proc[p].epoch /\ x.cursor = proc[p].cursor
        /\ x.exit = proc[p].exit /\ x.coord = proc[p].coord /\ x.admitted = proc[p].admitted
        /\ x.reported = proc[p].reported /\ x.config = proc[p].config
        /\ x.pendingAck = proc[p].pendingAck /\ x.lastAck = proc[p].lastAck
    BY <1>0, <2>1 DEF ProcState
  <2> HIDE DEF x
  <2>5. Working(x, manifest, written)
    BY <2>1, <2>4 DEF Working
  <2>6. Moves(p, x)
    BY Zenon, <1>0, <1>1, <1>3, <2>3, <2>4, <2>5, WorkMoves
  <2> QED
    BY <2>6
<1> QED
  BY <1>2, <1>3 DEF Build, SetProc

(* The shutdown signal is a move. *)
LEMMA CtrlCMoves ==
  ASSUME IInv, NEW p \in Processes, CtrlC(p)
  PROVE  \E x : Moves(p, x)
<1>0. proc[p] \in ProcState /\ written \subseteq 0 .. manifest.produced
      /\ launches \in 0 .. MaxLaunches
  BY Before
<1> DEFINE x == [proc[p] EXCEPT !.shutdown = TRUE]
<1>1. /\ proc[p].pc = "running" /\ UNCHANGED <<manifest, written, launches>>
      /\ proc' = [proc EXCEPT ![p] = x]
  BY DEF CtrlC, Running, SetProc
<1>2. x \in ProcState
  BY Zenon, <1>0 DEF ProcState
<1>3. /\ x.pc = proc[p].pc /\ x.epoch = proc[p].epoch /\ x.cursor = proc[p].cursor
      /\ x.exit = proc[p].exit /\ x.coord = proc[p].coord /\ x.admitted = proc[p].admitted
      /\ x.reported = proc[p].reported /\ x.config = proc[p].config
      /\ x.pendingAck = proc[p].pendingAck /\ x.lastAck = proc[p].lastAck
  BY <1>0 DEF ProcState
<1> HIDE DEF x
<1>4. Working(x, manifest, written)
  BY SMTT(30), <1>1, <1>3, AtWork DEF Working
<1>5. Moves(p, x)
  BY Zenon, <1>0, <1>1, <1>2, <1>3, <1>4, WorkMoves
<1> QED
  BY <1>5

(* A sink write is a move. *)
LEMMA WriteMoves ==
  ASSUME IInv, NEW p \in Processes, NEW s, Write(p, s)
  PROVE  \E x : Moves(p, x)
<1>0. proc[p] \in ProcState /\ written \subseteq 0 .. manifest.produced
      /\ launches \in 0 .. MaxLaunches
  BY Before
<1> DEFINE x == [proc[p] EXCEPT !.reported = @ \cup {s}]
<1>1. /\ proc[p].pc = "running" /\ UNCHANGED <<manifest, launches>>
      /\ proc' = [proc EXCEPT ![p] = x] /\ s \in proc[p].admitted
      /\ written' = IF proc[p].config.dryRun THEN written ELSE written \cup {s}
  BY DEF Write, Running, SetProc, Live
<1>2. /\ Working(proc[p], manifest, written)
      /\ proc[p].admitted \subseteq 0 .. manifest.produced
  BY <1>1, AtWork
<1>3. proc[p].admitted \in SUBSET SeqNums /\ proc[p].reported \in SUBSET SeqNums
  BY <1>0 DEF ProcState
<1>4. x \in ProcState
  <2>1. proc[p].reported \cup {s} \in SUBSET SeqNums
    BY <1>1, <1>3
  <2> QED
    BY <1>0, <2>1 DEF ProcState
<1>5. /\ x.pc = proc[p].pc /\ x.epoch = proc[p].epoch /\ x.cursor = proc[p].cursor
      /\ x.exit = proc[p].exit /\ x.coord = proc[p].coord /\ x.admitted = proc[p].admitted
      /\ x.reported = proc[p].reported \cup {s} /\ x.config = proc[p].config
      /\ x.pendingAck = proc[p].pendingAck /\ x.lastAck = proc[p].lastAck
  BY <1>0 DEF ProcState
<1> HIDE DEF x
<1>6. written \subseteq written' /\ written' \subseteq 0 .. manifest.produced
  BY Zenon, <1>0, <1>1, <1>2
<1>7. Working(x, manifest, written')
  <2>1. x.reported \subseteq x.admitted
    BY <1>1, <1>2, <1>5 DEF Working
  <2>2. ~x.config.dryRun => /\ (0 .. x.cursor) \ x.admitted \subseteq written'
                            /\ x.reported \subseteq written'
    BY <1>1, <1>2, <1>5, <1>6 DEF Working
  <2> QED
    BY SMTT(30), <1>2, <1>5, <2>1, <2>2 DEF Working
<1>8. Moves(p, x)
  BY Zenon, <1>0, <1>1, <1>4, <1>5, <1>6, <1>7, WorkMoves
<1> QED
  BY <1>8

(* Requests on the wire are for sequences of the manifest. *)
LEMMA Lands ==
  ASSUME IInv, NEW p \in Processes, Running(p), MayLand(p)
  PROVE  written \subseteq written' /\ written' \subseteq 0 .. manifest.produced
<1>1. proc[p].admitted \subseteq 0 .. manifest.produced
  BY AtWork DEF Running
<1>2. written \subseteq 0 .. manifest.produced
  BY Before
<1> QED
  BY Zenon, <1>1, <1>2 DEF MayLand, OnTheWire

(* A run that returns an error is a move, whatever it wrote before. *)
LEMMA ErrorMoves ==
  ASSUME IInv, NEW p \in Processes, RunReturns(p, "error"),
         UNCHANGED <<manifest, launches>>,
         written \subseteq written', written' \subseteq 0 .. manifest.produced
  PROVE  \E x : Moves(p, x)
<1>1. TypeOK /\ launches \in 0 .. MaxLaunches
  BY Before
<1>2. Moves(p, Returned(p, "error"))
  BY Zenon, <1>1, ReturnedOK, IdleMoves DEF RunReturns, SetProc
<1> QED
  BY <1>2

(* A failing stage is a move. *)
LEMMA RunFailsMoves ==
  ASSUME IInv, NEW p \in Processes, RunFails(p)
  PROVE  \E x : Moves(p, x)
BY Lands, ErrorMoves DEF RunFails

(* A kill is a move. *)
LEMMA KilledMoves ==
  ASSUME IInv, NEW p \in Processes, Killed(p)
  PROVE  \E x : Moves(p, x)
<1>0. /\ launches \in 0 .. MaxLaunches /\ proc[p] \in ProcState
      /\ written \subseteq 0 .. manifest.produced
  BY Before
<1>1. PICK cut \in {{}, proc[p].admitted} : proc' = [proc EXCEPT ![p] = [Down EXCEPT !.cut = cut]]
  BY Zenon DEF Killed, SetProc
<1> DEFINE x == [Down EXCEPT !.cut = cut]
<1>2. cut \in SUBSET SeqNums
  BY <1>0 DEF ProcState
<1>3. x \in ProcState /\ x.pc = "down" /\ x.epoch = 0 /\ x.exit = "none"
  BY <1>2, DownOK DEF ProcState
<1> HIDE DEF x
<1>4. written \subseteq written' /\ written' \subseteq 0 .. manifest.produced
  BY <1>0, Lands DEF Killed
<1>5. Moves(p, x)
  BY Zenon, <1>0, <1>1, <1>3, <1>4, IdleMoves DEF Killed, x
<1> QED
  BY <1>5

-----------------------------------------------------------------------------
(* What a process that has registered something or nothing is at. *)
LEMMA FirstUnreadIsAbove ==
  ASSUME NEW p \in Processes, proc[p].cursor \in Int, manifest.dequeued \in Int
  PROVE  /\ FirstUnread(p) \in Int
         /\ FirstUnread(p) > proc[p].cursor /\ FirstUnread(p) > manifest.dequeued
         /\ FirstUnread(p) = proc[p].cursor + 1 \/ FirstUnread(p) = manifest.dequeued + 1
<1> DEFINE S == {proc[p].cursor, manifest.dequeued}
<1>1. \E x \in S : \A y \in S : x >= y
  OBVIOUS
<1>2. Max(S) \in S /\ \A y \in S : Max(S) >= y
  BY <1>1 DEF Max
<1> QED
  BY <1>2 DEF FirstUnread

(* A coordinator without a baseline that has registered nothing tracks any *)
(* sequences: the first one registered becomes its baseline.               *)
LEMMA Unregistered ==
  ASSUME NEW c, NEW n, NEW d, Tracks(c, n, d), c.lastHigh = None, c.initial = None,
         NEW next \in 0 .. MaxSeq + 1, NEW done, done \subseteq 0 .. next - 1
  PROVE  Tracks(c, next, done) /\ ~c.fixed /\ c.frontier = None
BY MaxSeqAssumption DEF Tracks, Floor

(* The sequences a poll reads are the next ones of the coordinator: a gap  *)
(* is possible only before the first registration.                         *)
LEMMA AdmitReads ==
  ASSUME NEW p \in Processes, IInv, Running(p), NEW n \in Nat \ {0},
         FirstUnread(p) + n - 1 <= manifest.produced,
         RunAccepts(proc[p].coord, FirstUnread(p), n)
  PROVE  /\ FirstUnread(p) \in SeqNums
         /\ Tracks(proc[p].coord, FirstUnread(p), (0 .. FirstUnread(p) - 1) \ proc[p].admitted)
         /\ proc[p].coord.lastHigh # None => FirstUnread(p) = proc[p].cursor + 1
         /\ proc[p].coord.lastHigh = None =>
              FirstUnread(p) = manifest.dequeued + 1 /\ ~proc[p].coord.fixed
                /\ proc[p].coord.frontier = None
<1> USE MaxSeqAssumption
<1> DEFINE c == proc[p].coord
           first == FirstUnread(p)
<1>0. /\ proc[p] \in ProcState /\ manifest.produced \in OptSeqNum
      /\ manifest.dequeued \in OptSeqNum /\ Working(proc[p], manifest, written)
  BY Before, AtWork DEF Running
<1>1. proc[p].cursor \in OptSeqNum /\ c \in Coordinator
  BY <1>0 DEF ProcState
<1>2. /\ first \in Int /\ first > proc[p].cursor /\ first > manifest.dequeued
      /\ first = proc[p].cursor + 1 \/ first = manifest.dequeued + 1
  BY <1>0, <1>1, FirstUnreadIsAbove DEF OptSeqNum, SeqNums, None
<1>3. first \in SeqNums
  BY <1>0, <1>1, <1>2 DEF OptSeqNum, SeqNums, None
<1>4. /\ Tracks(c, proc[p].cursor + 1, (0 .. proc[p].cursor) \ proc[p].admitted)
      /\ c.initial = None
  BY <1>0 DEF Working
<1>5. CASE c.lastHigh # None
  <2>1. 0 \in 0 .. n /\ 1 \in 1 .. n
    OBVIOUS
  <2>2. RegisteredRun(c, first, n)[0] = c
    BY <2>1, RunEquation
  <2> HIDE DEF c, first
  <2>3. RegisterAccepts(RegisteredRun(c, first, n)[1 - 1], first + 1 - 1, first + 1 - 1)
    BY <2>1 DEF RunAccepts, c, first
  <2>4. first + 1 - 1 = first /\ 1 - 1 = 0
    BY <1>2
  <2>5. RegisterAccepts(c, first, first)
    BY <2>2, <2>3, <2>4
  <2>6. first = SaturatingSucc(c.lastHigh)
    BY <2>5, <1>5 DEF RegisterAccepts
  <2>7. proc[p].cursor + 1 = c.lastHigh + 1 /\ c.lastHigh \in SeqNums
    BY <1>4, <1>5, <1>1 DEF Tracks, Coordinator, OptSeqNum
  <2>8. first = proc[p].cursor + 1
    BY <2>6, <2>7, <1>1, <1>2, <1>3 DEF SaturatingSucc, SeqNums, OptSeqNum, None
  <2>9. first - 1 = proc[p].cursor
    BY <2>8, <1>1 DEF OptSeqNum, SeqNums, None
  <2> QED
    BY Zenon, <1>3, <1>4, <1>5, <2>8, <2>9 DEF c, first
<1>6. CASE c.lastHigh = None
  <2>1. proc[p].cursor <= manifest.dequeued
    BY <1>0, <1>6 DEF Working
  <2>2. first = manifest.dequeued + 1
    BY <2>1, <1>0, <1>1, <1>2 DEF OptSeqNum, SeqNums, None
  <2> DEFINE done == (0 .. first - 1) \ proc[p].admitted
  <2>3. first \in 0 .. MaxSeq + 1 /\ done \subseteq 0 .. first - 1
    BY <1>3 DEF SeqNums
  <2> HIDE DEF c, first, done
  <2>4. Tracks(c, first, done) /\ ~c.fixed /\ c.frontier = None
    BY Zenon, <1>4, <1>6, <2>3, Unregistered
  <2> QED
    BY <1>3, <1>6, <2>2, <2>4 DEF c, first, done
<1> QED
  BY <1>5, <1>6

(* Admission of the next batch, fenced or not, is a move. *)
LEMMA AdmitMoves ==
  ASSUME IInv, NEW p \in Processes, Admit(p)
  PROVE  \E x : Moves(p, x)
<1> USE MaxSeqAssumption
<1>0. /\ proc[p] \in ProcState /\ manifest.produced \in OptSeqNum /\ manifest \in Manifest
      /\ manifest.dequeued \in OptSeqNum /\ Working(proc[p], manifest, written)
      /\ 0 .. manifest.dequeued \subseteq written /\ written \subseteq 0 .. manifest.produced
      /\ launches \in 0 .. MaxLaunches
  BY Before, AtWork DEF Admit, Running
<1>1. Running(p) /\ UNCHANGED <<manifest, launches>> /\ proc[p].pc = "running"
  BY DEF Admit, Running
<1>2. PICK n \in 1 .. proc[p].config.maxInflightBatches - Cardinality(proc[p].admitted) :
        /\ FirstUnread(p) + n - 1 <= manifest.produced
        /\ IF RunAccepts(proc[p].coord, FirstUnread(p), n)
           THEN /\ SetProc(p, [proc[p] EXCEPT
                                 !.cursor = FirstUnread(p) + n - 1,
                                 !.coord = RegisteredRun(@, FirstUnread(p), n)[n],
                                 !.admitted = @ \cup (FirstUnread(p) .. FirstUnread(p) + n - 1)])
                /\ UNCHANGED written
           ELSE RunReturns(p, "error") /\ MayLand(p)
  BY Zenon DEF Admit
<1>3. CASE ~RunAccepts(proc[p].coord, FirstUnread(p), n)
  <2>1. RunReturns(p, "error") /\ MayLand(p)
    BY <1>2, <1>3
  <2>2. written \subseteq written' /\ written' \subseteq 0 .. manifest.produced
    BY <2>1, <1>1, Lands
  <2> QED
    BY <2>1, <2>2, <1>1, ErrorMoves
<1>4. CASE RunAccepts(proc[p].coord, FirstUnread(p), n)
  <2> DEFINE y == proc[p]
             c == proc[p].coord
             first == FirstUnread(p)
             high == first + n - 1
             d == RegisteredRun(c, first, n)[n]
             read == y.admitted \cup (first .. high)
             x == [y EXCEPT !.cursor = high, !.coord = d, !.admitted = read]
  <2>1. n \in Nat \ {0}
    OBVIOUS
  <2>2. /\ first \in SeqNums
        /\ Tracks(c, first, (0 .. first - 1) \ y.admitted)
        /\ c.lastHigh # None => first = y.cursor + 1
        /\ c.lastHigh = None =>
             first = manifest.dequeued + 1 /\ ~c.fixed /\ c.frontier = None
    BY <1>1, <1>2, <1>4, <2>1, AdmitReads
  <2>3. first + n - 1 <= MaxSeq /\ high \in SeqNums /\ high >= first
    BY <1>0, <1>2, <2>1, <2>2 DEF OptSeqNum, SeqNums, None
  <2>4. proc' = [proc EXCEPT ![p] = x] /\ written' = written
    BY <1>2, <1>4 DEF SetProc
  <2>5. /\ y.cursor \in OptSeqNum /\ c \in Coordinator /\ y.admitted \subseteq SeqNums
        /\ y.lastAck \in OptSeqNum
    BY <1>0 DEF ProcState
  <2> HIDE DEF c, first
  <2>6. /\ Tracks(d, first + n, (0 .. first - 1) \ y.admitted)
        /\ d.lastHigh = high /\ d.frontier = c.frontier /\ d.initial = c.initial
        /\ c.fixed => d.baseline = c.baseline
        /\ ~c.fixed => d.baseline = first - 1
    BY <2>1, <2>2, <2>3, RunNext
  <2>7. d \in Coordinator
    BY <2>6 DEF Tracks
  <2> HIDE DEF d
  <2>8. high \in OptSeqNum /\ read \in SUBSET SeqNums
    BY <2>2, <2>3, <2>5 DEF OptSeqNum, SeqNums
  <2> HIDE DEF high, read
  <2>9. x \in ProcState
    BY Zenon, <1>0, <2>7, <2>8 DEF ProcState
  <2>10. /\ x.pc = y.pc /\ x.epoch = y.epoch /\ x.cursor = high
         /\ x.exit = y.exit /\ x.coord = d /\ x.admitted = read
         /\ x.reported = y.reported /\ x.config = y.config
         /\ x.pendingAck = y.pendingAck /\ x.lastAck = y.lastAck
    BY <1>0 DEF ProcState
  <2> HIDE DEF x
  <2>11. y.admitted \subseteq 0 .. y.cursor /\ y.cursor < first
    <3>1. y.admitted \subseteq 0 .. y.cursor
      BY <1>1, AtWork
    <3>2. first > y.cursor
      BY <1>0, <2>5, FirstUnreadIsAbove DEF OptSeqNum, SeqNums, None, first
    <3> QED
      BY <3>1, <3>2, <2>2, <2>5 DEF OptSeqNum, SeqNums, None
  <2>12. (0 .. high) \ read = (0 .. first - 1) \ y.admitted
    BY <2>2, <2>3, <2>5, <2>11 DEF high, read, OptSeqNum, SeqNums, None
  <2>13. high + 1 = first + n
    BY <2>2 DEF high, SeqNums
  <2>14. Floor(c) \in OptSeqNum /\ c.baseline \in OptSeqNum /\ c.frontier \in OptSeqNum
    BY <2>5 DEF Floor, Coordinator
  <2>15. /\ c.lastHigh # None => Floor(d) = Floor(c) /\ Floor(c) <= y.cursor
         /\ c.lastHigh = None => Floor(d) = first - 1
    <3>1. CASE c.lastHigh # None
      <4>1. c.fixed /\ Floor(c) <= c.lastHigh /\ first = c.lastHigh + 1
        BY <2>2, <2>5, <2>14, <3>1 DEF Tracks, Floor, OptSeqNum, SeqNums, None, Coordinator
      <4>2. c.lastHigh = y.cursor
        BY <2>2, <2>5, <3>1, <4>1 DEF OptSeqNum, SeqNums, None, Coordinator
      <4> QED
        BY <2>6, <3>1, <4>1, <4>2 DEF Floor
    <3>2. CASE c.lastHigh = None
      BY <2>2, <2>6, <3>2 DEF Floor
    <3> QED
      BY <3>1, <3>2
  <2>16. /\ read \subseteq Floor(d) + 1 .. high
         /\ Floor(d) < high => Floor(d) + 1 \in read
         /\ y.epoch = manifest.epoch => manifest.dequeued <= Floor(d)
    <3>1. CASE c.lastHigh # None
      <4>1. /\ y.admitted \subseteq Floor(c) + 1 .. y.cursor
            /\ Floor(c) < y.cursor => Floor(c) + 1 \in y.admitted
            /\ y.epoch = manifest.epoch => manifest.dequeued <= Floor(c)
        BY <1>0, <3>1 DEF Working, c
      <4> QED
        BY <4>1, <2>2, <2>3, <2>5, <2>14, <2>15, <3>1
           DEF read, high, OptSeqNum, SeqNums, None
    <3>2. CASE c.lastHigh = None
      <4>1. y.admitted = {}
        BY <1>0, <3>2 DEF Working, c
      <4>2. Floor(d) = first - 1 /\ first = manifest.dequeued + 1
        BY <2>2, <2>15, <3>2
      <4>3. Floor(d) + 1 = first /\ manifest.dequeued <= Floor(d)
        BY <4>2, <1>0, <2>2 DEF OptSeqNum, SeqNums, None
      <4>4. read = first .. high
        BY <4>1 DEF read
      <4>5. first \in Int /\ high \in Int /\ first <= high
        BY <2>2, <2>3 DEF SeqNums, high
      <4>6. first \in read
        BY <4>4, <4>5
      <4> QED
        BY <4>3, <4>4, <4>6
    <3> QED
      BY <3>1, <3>2
  <2>17. ~y.config.dryRun => (0 .. first - 1) \ y.admitted \subseteq written
    <3>1. CASE c.lastHigh # None
      <4>1. first - 1 = y.cursor
        BY <2>2, <2>5, <3>1 DEF OptSeqNum, SeqNums, None
      <4> QED
        BY <1>0, <4>1 DEF Working
    <3>2. CASE c.lastHigh = None
      <4>1. first - 1 = manifest.dequeued
        BY <2>2, <1>0, <3>2 DEF OptSeqNum, SeqNums, None
      <4> QED
        BY <1>0, <4>1
    <3> QED
      BY <3>1, <3>2
  <2>18. Working(x, manifest, written')
    <3>1. high <= manifest.produced
      BY <1>2 DEF high, first
    <3>2. Tracks(x.coord, x.cursor + 1, (0 .. x.cursor) \ x.admitted)
      BY Zenon, <2>6, <2>10, <2>12, <2>13
    <3>3. x.coord.initial = None /\ x.reported \subseteq x.admitted /\ x.epoch > 0
      BY SMTT(30), <1>0, <2>6, <2>10 DEF Working, read, c
    <3>4. x.coord.lastHigh # None
      BY <2>6, <2>10, <2>3 DEF SeqNums, None
    <3>5. ~x.config.dryRun =>
            /\ (0 .. x.cursor) \ x.admitted \subseteq written' /\ x.reported \subseteq written'
            /\ x.lastAck = x.coord.frontier
            /\ x.pendingAck \in {None, x.lastAck}
            /\ x.pendingAck = None => x.lastAck <= manifest.dequeued
      BY <1>0, <2>4, <2>6, <2>10, <2>12, <2>17 DEF Working, c
    <3> QED
      BY <2>10, <2>16, <3>1, <3>2, <3>3, <3>4, <3>5 DEF Working
  <2>19. Moves(p, x)
    BY Zenon, <1>0, <1>1, <2>4, <2>9, <2>10, <2>18, WorkMoves
  <2> QED
    BY <2>19
<1> QED
  BY <1>3, <1>4

-----------------------------------------------------------------------------
(* The completion of s: the frontier h is as far as it can go, and what is *)
(* up to it is in the sink of a live process.                              *)
LEMMA CompletionOf ==
  ASSUME IInv, NEW p \in Processes, Running(p), NEW s \in proc[p].reported
  PROVE  LET y == proc[p]
         IN /\ y.coord.lastHigh # None
            /\ \E h : /\ Completes(y.coord, y.cursor, y.admitted, s,
                                   Advanced(Committed(y.coord, s)), h)
                      /\ ~y.config.dryRun =>
                           /\ (0 .. y.cursor) \ (y.admitted \ {s}) \subseteq written
                           /\ 0 .. h \subseteq written
<1> DEFINE y == proc[p]
           b == proc[p].coord
           c == Advanced(Committed(b, s))
<1>0. y \in ProcState /\ Working(y, manifest, written)
  BY Before, AtWork DEF Running
<1>1. y.cursor \in OptSeqNum /\ y.admitted \subseteq SeqNums
  BY <1>0 DEF ProcState
<1>2. s \in y.admitted
  BY <1>0 DEF Working
<1>3. b.lastHigh # None
  BY <1>0, <1>2 DEF Working
<1>4. OpenIn(b, y.cursor, y.admitted)
  BY <1>0, <1>1, <1>3 DEF Working, OpenIn
<1>5. ~y.config.dryRun => (0 .. y.cursor) \ y.admitted \subseteq written /\ s \in written
  BY <1>0 DEF Working
<1> HIDE DEF y, b
<1>6. PICK h : Completes(b, y.cursor, y.admitted, s, c, h)
  BY <1>2, <1>4, CompletionAdvances
<1>7. (0 .. y.cursor) \ (y.admitted \ {s}) \subseteq ((0 .. y.cursor) \ y.admitted) \cup {s}
  BY <1>2
<1>8. 0 .. h \subseteq (0 .. y.cursor) \ (y.admitted \ {s})
  <2>1. h \in OptSeqNum /\ h <= y.cursor /\ y.admitted \ {s} \subseteq h + 1 .. y.cursor
    BY <1>6 DEF Completes
  <2> QED
    BY <1>1, <2>1, MaxSeqAssumption DEF OptSeqNum, SeqNums, None
<1>9. ~y.config.dryRun =>
        (0 .. y.cursor) \ (y.admitted \ {s}) \subseteq written /\ 0 .. h \subseteq written
  BY <1>5, <1>7, <1>8
<1> QED
  BY <1>3, <1>6, <1>9 DEF y, b

(* A leader that dequeues up to d what is in the sink. *)
LEMMA FlushMoves ==
  ASSUME IInv, NEW p \in Processes, Leads(p), proc[p].epoch > 0,
         NEW x \in ProcState, NEW d \in OptSeqNum,
         x.epoch = 0 \/ x.epoch = proc[p].epoch,
         manifest' = [manifest EXCEPT !.dequeued = d],
         proc' = [proc EXCEPT ![p] = x], UNCHANGED <<written, launches>>,
         manifest.dequeued <= d, d <= manifest.produced, 0 .. d \subseteq written,
         ProcOK(x, manifest', written')
  PROVE  Moves(p, x)
BY Before DEF Moves

(* A completion, with the ack and the flush it leads to, is a move. *)
LEMMA CompleteMoves ==
  ASSUME IInv, NEW p \in Processes, NEW s, Complete(p, s)
  PROVE  \E x : Moves(p, x)
<1> USE MaxSeqAssumption
<1> DEFINE y == proc[p]
           c == Advanced(Committed(y.coord, s))
           left == y.admitted \ {s}
           ack == Acked(p, c)
           due == y.groups + 1 >= AckFlushPolicy(y.config)
           lastAck == IF ack THEN c.frontier ELSE y.lastAck
           groups == IF ~ack THEN y.groups ELSE IF due THEN 0 ELSE y.groups + 1
           pendingAck == IF ack THEN c.frontier ELSE y.pendingAck
           x == [y EXCEPT !.admitted = left, !.reported = @ \ {s}, !.coord = c,
                          !.lastAck = lastAck, !.groups = groups, !.pendingAck = pendingAck]
<1>0. /\ y \in ProcState /\ Working(y, manifest, written) /\ manifest \in Manifest
      /\ manifest.produced \in OptSeqNum /\ manifest.dequeued \in OptSeqNum
      /\ written \subseteq 0 .. manifest.produced
  BY Before, AtWork DEF Complete, Running
<1>1. Running(p) /\ y.pc = "running" /\ s \in y.reported /\ UNCHANGED <<written, launches>>
  BY DEF Complete, Running
<1>2. IF ack /\ due THEN Flush(p, x, c.frontier) ELSE SetProc(p, x) /\ UNCHANGED manifest
  BY SMTT(30) DEF Complete
<1>3. PICK h \in OptSeqNum :
        /\ y.coord.lastHigh # None /\ c.lastHigh # None /\ c.initial = y.coord.initial
        /\ Tracks(c, y.cursor + 1, (0 .. y.cursor) \ left)
        /\ Floor(y.coord) \in OptSeqNum /\ Floor(y.coord) <= h /\ h <= y.cursor
        /\ Floor(c) = h
        /\ left \subseteq h + 1 .. y.cursor
        /\ h < y.cursor => h + 1 \in left
        /\ h = Floor(y.coord) => c.frontier = y.coord.frontier
        /\ h > Floor(y.coord) => c.frontier = h /\ h > y.coord.frontier /\ h # None
        /\ ~y.config.dryRun =>
             (0 .. y.cursor) \ left \subseteq written /\ 0 .. h \subseteq written
  BY Zenon, <1>1, CompletionOf DEF Completes
<1>4. /\ y.cursor \in OptSeqNum /\ y.coord \in Coordinator /\ y.lastAck \in OptSeqNum
      /\ y.pendingAck \in OptSeqNum /\ y.groups \in Nat /\ y.admitted \in SUBSET SeqNums
      /\ y.reported \in SUBSET SeqNums
  BY <1>0 DEF ProcState
<1>5. c \in Coordinator /\ c.frontier \in OptSeqNum
  BY <1>3 DEF Tracks, Coordinator
<1> HIDE DEF c
<1>6. /\ ack => ~y.config.dryRun /\ c.frontier = h /\ h # None
      /\ ~y.config.dryRun => lastAck = c.frontier
      /\ ~y.config.dryRun => pendingAck \in {None, lastAck}
      /\ ~y.config.dryRun /\ pendingAck = None => lastAck <= manifest.dequeued
  <2>1. ack <=> (~y.config.dryRun /\ c.frontier # None /\ c.frontier > y.lastAck)
    BY DEF Acked, Live
  <2>2. ~y.config.dryRun => /\ y.lastAck = y.coord.frontier
                            /\ y.pendingAck \in {None, y.lastAck}
                            /\ y.pendingAck = None => y.lastAck <= manifest.dequeued
    BY SMTT(30), <1>0 DEF Working
  <2> HIDE DEF ack, y
  <2>3. CASE h = Floor(y.coord)
    BY <2>1, <2>2, <2>3, <1>3, <1>4, <1>5 DEF OptSeqNum, SeqNums, None
  <2>4. CASE h > Floor(y.coord)
    BY <2>1, <2>2, <2>4, <1>3, <1>4, <1>5 DEF OptSeqNum, SeqNums, None
  <2> QED
    BY SMTT(30), <2>3, <2>4, <1>3 DEF OptSeqNum, SeqNums, None
<1>7. /\ lastAck \in OptSeqNum /\ pendingAck \in OptSeqNum /\ groups \in Nat
      /\ left \in SUBSET SeqNums /\ y.reported \ {s} \in SUBSET SeqNums
  BY <1>4, <1>5
<1> HIDE DEF ack, due, lastAck, groups, pendingAck, left
<1>8. x \in ProcState
  BY Zenon, <1>0, <1>5, <1>7 DEF ProcState
<1>9. /\ x.pc = y.pc /\ x.epoch = y.epoch /\ x.cursor = y.cursor
      /\ x.exit = y.exit /\ x.coord = c /\ x.admitted = left
      /\ x.reported = y.reported \ {s} /\ x.config = y.config
      /\ x.pendingAck = pendingAck /\ x.lastAck = lastAck
  BY <1>0 DEF ProcState
<1> HIDE DEF x
<1>10. x.reported \subseteq left /\ (~y.config.dryRun => x.reported \subseteq written)
  BY <1>0, <1>9 DEF Working, left
<1>11. y.epoch > 0 /\ y.cursor <= manifest.produced /\ y.coord.initial = None
       /\ (y.epoch = manifest.epoch => manifest.dequeued <= Floor(y.coord))
  BY <1>0, <1>3 DEF Working
<1>12. Working(x, manifest, written')
  <2>1. y.epoch = manifest.epoch => manifest.dequeued <= h
    BY <1>0, <1>3, <1>11 DEF OptSeqNum, SeqNums, None
  <2>2. Tracks(x.coord, x.cursor + 1, (0 .. x.cursor) \ x.admitted)
    BY <1>3, <1>9
  <2> QED
    BY <1>1, <1>3, <1>6, <1>9, <1>10, <1>11, <2>1, <2>2 DEF Working
<1>13. CASE proc' = [proc EXCEPT ![p] = x] /\ UNCHANGED manifest
  <2>1. Moves(p, x)
    BY Zenon, <1>0, <1>1, <1>8, <1>9, <1>12, <1>13, WorkMoves
  <2> QED
    BY <2>1
<1>14. CASE Flush(p, x, c.frontier) /\ ack
  <2>1. c.frontier = h /\ h # None /\ ~y.config.dryRun
    BY <1>6, <1>14
  <2>2. CASE Leads(p) /\ manifest' = [manifest EXCEPT !.dequeued = h]
                /\ SetProc(p, [x EXCEPT !.pendingAck = None])
    <3> DEFINE z == [x EXCEPT !.pendingAck = None]
    <3>1. None \in OptSeqNum
      BY DEF OptSeqNum
    <3>2. z \in ProcState
      BY <1>8, <3>1 DEF ProcState
    <3>3. /\ z.pc = x.pc /\ z.epoch = x.epoch /\ z.cursor = x.cursor
          /\ z.exit = x.exit /\ z.coord = x.coord /\ z.admitted = x.admitted
          /\ z.reported = x.reported /\ z.config = x.config
          /\ z.pendingAck = None /\ z.lastAck = x.lastAck
      BY <1>8 DEF ProcState
    <3> HIDE DEF z
    <3>4. manifest'.dequeued = h /\ manifest'.produced = manifest.produced
            /\ manifest'.epoch = manifest.epoch
      BY <1>0, <2>2 DEF Manifest
    <3>5. h <= h
      BY <1>3 DEF OptSeqNum, SeqNums, None
    <3>6. z.lastAck = h /\ Floor(z.coord) = h
      BY SMTT(30), <1>3, <1>6, <1>9, <2>1, <3>3
    <3>7. Working(z, manifest', written')
      BY SMTT(30), <1>3, <1>12, <2>1, <3>3, <3>4, <3>5, <3>6, <1>9 DEF Working
    <3>8. x.exit # "ok" /\ z.epoch <= manifest.epoch
      BY SMTT(30), <1>1, <1>9, <3>3 DEF IInv, ProcOK
    <3>9. ProcOK(z, manifest', written')
      BY <1>1, <1>9, <3>3, <3>4, <3>7, <3>8 DEF ProcOK
    <3>10. manifest.dequeued <= h /\ h <= manifest.produced /\ 0 .. h \subseteq written
      BY <1>0, <1>3, <1>4, <1>11, <2>1, <2>2 DEF Leads, OptSeqNum, SeqNums, None
    <3>11. proc' = [proc EXCEPT ![p] = z]
      BY <2>2 DEF SetProc, z
    <3>12. Moves(p, z)
      BY Zenon, <1>1, <1>9, <1>11, <2>2, <3>2, <3>3, <3>9, <3>10, <3>11, FlushMoves
    <3> QED
      BY <3>12
  <2>3. CASE RunReturns(p, "error") /\ UNCHANGED manifest
    BY <1>0, <1>1, <2>3, ErrorMoves
  <2> QED
    BY <1>14, <2>1, <2>2, <2>3 DEF Flush
<1> QED
  BY <1>2, <1>13, <1>14 DEF SetProc

(* What a process that has nothing in flight has acked. *)
LEMMA DrainedIsAcked ==
  ASSUME IInv, NEW p \in Processes, Running(p), proc[p].admitted = {}, Live(p)
  PROVE  /\ proc[p].coord.lastHigh # None =>
              proc[p].lastAck >= proc[p].cursor /\ proc[p].lastAck = Floor(proc[p].coord)
         /\ proc[p].pendingAck = None => proc[p].cursor <= manifest.dequeued
<1> USE MaxSeqAssumption
<1> DEFINE y == proc[p]
<1>0. /\ y \in ProcState /\ Working(y, manifest, written) /\ manifest.dequeued \in OptSeqNum
  BY Before, AtWork DEF Running
<1>1. y.cursor \in OptSeqNum /\ y.coord \in Coordinator /\ y.lastAck \in OptSeqNum
  BY <1>0 DEF ProcState
<1>2. /\ y.coord.frontier \in OptSeqNum /\ y.coord.baseline \in OptSeqNum
      /\ y.coord.lastHigh \in OptSeqNum
  BY SMTT(30), <1>1 DEF Coordinator
<1>3. /\ Tracks(y.coord, y.cursor + 1, (0 .. y.cursor) \ y.admitted)
      /\ y.lastAck = y.coord.frontier
      /\ y.pendingAck = None => y.lastAck <= manifest.dequeued
      /\ y.coord.lastHigh = None => y.cursor <= manifest.dequeued
      /\ y.coord.lastHigh # None /\ Floor(y.coord) < y.cursor => Floor(y.coord) + 1 \in y.admitted
  BY <1>0 DEF Working, Live
<1> HIDE DEF y
<1>4. ASSUME y.coord.lastHigh # None
      PROVE  y.lastAck >= y.cursor /\ y.lastAck = Floor(y.coord)
  <2>1. y.cursor + 1 = y.coord.lastHigh + 1 /\ y.coord.baseline < y.coord.lastHigh
    BY <1>3, <1>4 DEF Tracks
  <2>2. ~(Floor(y.coord) < y.cursor)
    BY <1>3, <1>4 DEF y
  <2>3. y.coord.frontier # None
    BY SMTT(30), <2>1, <2>2, <1>1, <1>2 DEF Floor, OptSeqNum, SeqNums, None
  <2> QED
    BY <2>2, <2>3, <1>1, <1>2, <1>3 DEF Floor, OptSeqNum, SeqNums, None
<1>5. ASSUME y.pendingAck = None
      PROVE  y.cursor <= manifest.dequeued
  BY <1>0, <1>1, <1>3, <1>4, <1>5 DEF OptSeqNum, SeqNums, None
<1> QED
  BY <1>4, <1>5 DEF y

(* The final flush of a drained run is a move. *)
LEMMA DrainedMoves ==
  ASSUME IInv, NEW p \in Processes, Drained(p)
  PROVE  \E x : Moves(p, x)
<1> USE MaxSeqAssumption
<1> DEFINE y == proc[p]
           d == IF Live(p) THEN y.pendingAck ELSE None
           x == Returned(p, "ok")
<1>0. /\ TypeOK /\ y \in ProcState /\ Working(y, manifest, written) /\ manifest \in Manifest
      /\ manifest.produced \in OptSeqNum /\ manifest.dequeued \in OptSeqNum
      /\ manifest.epoch \in Nat /\ written \subseteq 0 .. manifest.produced
      /\ launches \in 0 .. MaxLaunches
  BY Before, AtWork DEF Drained, Running
<1>1. Running(p) /\ y.admitted = {} /\ UNCHANGED <<written, launches>> /\ Flush(p, x, d)
  BY DEF Drained
<1>2. /\ x \in ProcState /\ x.pc = "closing" /\ x.epoch = 0 /\ x.exit = "ok"
      /\ x.cursor = y.cursor /\ x.config = y.config
  BY <1>0, ReturnedOK
<1> HIDE DEF x
<1>3. y.cursor \in OptSeqNum /\ y.pendingAck \in OptSeqNum /\ y.lastAck \in OptSeqNum
      /\ y.coord \in Coordinator
  BY <1>0 DEF ProcState
<1>4. CASE d = None /\ SetProc(p, x) /\ UNCHANGED manifest
  <2>1. ~x.config.dryRun => x.cursor <= manifest.dequeued
    BY <1>1, <1>2, <1>4, DrainedIsAcked DEF Live
  <2>2. ProcOK(x, manifest', written')
    BY <1>0, <1>2, <1>4, <2>1 DEF ProcOK
  <2>3. Moves(p, x)
    BY <1>0, <1>1, <1>2, <1>4, <2>2 DEF Moves, SetProc
  <2> QED
    BY <2>3
<1>5. CASE d # None /\ Leads(p) /\ manifest' = [manifest EXCEPT !.dequeued = d]
             /\ SetProc(p, [x EXCEPT !.pendingAck = None])
  <2> DEFINE z == [x EXCEPT !.pendingAck = None]
  <2>1. Live(p) /\ d = y.pendingAck
    BY SMTT(30), <1>5
  <2>2. /\ y.lastAck = y.coord.frontier /\ y.pendingAck \in {None, y.lastAck}
        /\ (0 .. y.cursor) \ y.admitted \subseteq written
        /\ Tracks(y.coord, y.cursor + 1, (0 .. y.cursor) \ y.admitted)
        /\ y.epoch > 0 /\ y.cursor <= manifest.produced
        /\ y.coord.lastHigh # None /\ y.epoch = manifest.epoch =>
             manifest.dequeued <= Floor(y.coord)
    BY <1>0, <2>1 DEF Working, Live
  <2>3. d = y.coord.frontier /\ d = y.lastAck
    BY <1>5, <2>1, <2>2
  <2>4. y.coord.lastHigh # None /\ y.coord.frontier <= y.coord.lastHigh
        /\ y.cursor + 1 = y.coord.lastHigh + 1
    BY <1>5, <2>2, <2>3 DEF Tracks
  <2>5. d >= y.cursor /\ d = Floor(y.coord)
    BY <1>1, <2>1, <2>3, <2>4, DrainedIsAcked
  <2>6. d = y.cursor /\ d \in OptSeqNum
    BY <1>3, <2>3, <2>4, <2>5 DEF OptSeqNum, SeqNums, None, Coordinator
  <2>7. manifest.dequeued <= d /\ d <= manifest.produced /\ 0 .. d \subseteq written
    BY <1>1, <1>5, <2>2, <2>4, <2>5, <2>6 DEF Leads
  <2>8. None \in OptSeqNum
    BY DEF OptSeqNum
  <2>9. z \in ProcState
    BY <1>2, <2>8 DEF ProcState
  <2>10. /\ z.pc = "closing" /\ z.epoch = 0 /\ z.exit = "ok"
         /\ z.cursor = y.cursor /\ z.config = y.config
    BY <1>2 DEF ProcState
  <2> HIDE DEF z, d
  <2>11. manifest'.dequeued = d /\ manifest'.epoch = manifest.epoch
    BY <1>0, <1>5 DEF Manifest
  <2>12. y.cursor <= manifest'.dequeued
    BY <1>3, <2>6, <2>11 DEF OptSeqNum, SeqNums, None
  <2>13. ProcOK(z, manifest', written')
    BY <1>0, <2>10, <2>11, <2>12 DEF ProcOK
  <2>14. proc' = [proc EXCEPT ![p] = z]
    BY <1>5 DEF SetProc, z
  <2>15. Moves(p, z)
    BY Zenon, <1>1, <1>5, <2>2, <2>6, <2>7, <2>9, <2>10, <2>13, <2>14, FlushMoves
  <2> QED
    BY <2>15
<1>6. CASE RunReturns(p, "error") /\ UNCHANGED manifest
  BY <1>0, <1>1, <1>6, ErrorMoves
<1> QED
  BY <1>1, <1>4, <1>5, <1>6 DEF Flush

-----------------------------------------------------------------------------
(* A batch appended by the producer keeps the invariant. *)
LEMMA ProduceKeeps ==
  ASSUME IInv, Produce
  PROVE  IInv' /\ [Promise!Next]_(Promise!vars)
<1> USE MaxSeqAssumption
<1>1. /\ manifest \in Manifest /\ manifest.produced \in OptSeqNum
      /\ manifest.dequeued \in OptSeqNum /\ manifest.epoch \in Nat
      /\ manifest.produced < MaxSeq /\ manifest.dequeued <= manifest.produced
      /\ written \subseteq 0 .. manifest.produced
      /\ manifest' = [manifest EXCEPT !.produced = @ + 1]
      /\ UNCHANGED <<written, proc, launches>>
  BY DEF IInv, TypeOK, Manifest, Produce
<1>2. manifest.produced + 1 \in OptSeqNum
  BY <1>1 DEF OptSeqNum, SeqNums, None
<1>3. /\ manifest' \in Manifest /\ manifest'.produced = manifest.produced + 1
      /\ manifest'.dequeued = manifest.dequeued /\ manifest'.epoch = manifest.epoch
  BY <1>1, <1>2 DEF Manifest
<1>4. /\ manifest.produced <= manifest'.produced /\ manifest.dequeued <= manifest'.dequeued
      /\ manifest.epoch <= manifest'.epoch /\ manifest'.dequeued <= manifest'.produced
      /\ written' \subseteq 0 .. manifest'.produced
  BY <1>1, <1>3 DEF OptSeqNum, SeqNums, None
<1>5. \A p \in Processes : ProcOK(proc'[p], manifest', written')
  <2> TAKE p \in Processes
  <2>1. proc[p] \in ProcState /\ ProcOK(proc[p], manifest, written)
    BY DEF IInv, TypeOK
  <2>2. ProcOK(proc[p], manifest', written')
    BY Zenon, <1>1, <1>3, <1>4, <2>1, OthersKeep
  <2> QED
    BY <1>1, <2>2
<1>6. IInv'
  BY <1>1, <1>3, <1>4, <1>5 DEF IInv, TypeOK, Manifest
<1>7. Promise!Produce
  BY <1>1, <1>3 DEF Promise!Produce
<1> QED
  BY <1>6, <1>7 DEF Promise!Next

(* The initial states satisfy the invariant and are initial states of the  *)
(* promise.                                                                *)
LEMMA InitIInv ==
  ASSUME Init
  PROVE  IInv /\ Promise!Init
<1> USE MaxSeqAssumption
<1>1. /\ manifest.produced = None /\ manifest.dequeued = None /\ manifest.epoch = 0
      /\ manifest \in Manifest /\ written = {} /\ launches = 0
      /\ proc = [p \in Processes |-> Down]
  BY DEF Init, Manifest, OptSeqNum
<1>2. \A p \in Processes : proc[p] = Down
  BY <1>1
<1>3. TypeOK
  BY <1>1, DownOK, IngestorAssumption DEF TypeOK, Manifest
<1>4. \A p \in Processes : ProcOK(proc[p], manifest, written)
  BY <1>1, <1>2, DownOK DEF ProcOK
<1>5. 0 .. manifest.dequeued = {} /\ manifest.dequeued <= manifest.produced
  BY <1>1 DEF None
<1>6. \A p, q \in Processes : proc[p].epoch = proc[q].epoch /\ p # q => proc[p].epoch = 0
  BY <1>2, DownOK
<1>7. IInv
  BY <1>1, <1>3, <1>4, <1>5, <1>6 DEF IInv
<1> QED
  BY <1>1, <1>7 DEF Promise!Init, None

(* Every step keeps the invariant, and is a step of AtLeastOnce or leaves  *)
(* the manifest's sequences and the sink as they are.                      *)
LEMMA NextKeeps ==
  ASSUME IInv, [Next]_vars
  PROVE  IInv' /\ [Promise!Next]_(Promise!vars)
<1>1. CASE Produce
  BY <1>1, ProduceKeeps
<1>2. ASSUME NEW p \in Processes,
             \/ Launch(p) \/ InitializeConsumer(p) \/ Build(p)
             \/ Work(p) \/ RunFails(p) \/ CtrlC(p) \/ Killed(p)
      PROVE  \E x : Moves(p, x)
  <2>1. CASE Launch(p)
    BY <2>1, LaunchMoves
  <2>2. CASE InitializeConsumer(p)
    BY <2>2, InitializeConsumerMoves
  <2>3. CASE Build(p)
    BY <2>3, BuildMoves
  <2>4. CASE Admit(p)
    BY <2>4, AdmitMoves
  <2>5. CASE Drained(p)
    BY <2>5, DrainedMoves
  <2>6. CASE Close(p)
    BY <2>6, CloseMoves
  <2>7. CASE \E s \in SeqNums : Write(p, s)
    BY <2>7, WriteMoves
  <2>8. CASE \E s \in SeqNums : Complete(p, s)
    BY <2>8, CompleteMoves
  <2>9. CASE RunFails(p)
    BY <2>9, RunFailsMoves
  <2>10. CASE CtrlC(p)
    BY <2>10, CtrlCMoves
  <2>11. CASE Killed(p)
    BY <2>11, KilledMoves
  <2> QED
    BY <1>2, <2>1, <2>2, <2>3, <2>4, <2>5, <2>6, <2>7, <2>8, <2>9, <2>10, <2>11 DEF Work
<1>3. CASE \E p \in Processes : \E x : Moves(p, x)
  BY SMTT(30), <1>3, MovesKeeps
<1>4. CASE UNCHANGED vars
  BY Zenon, <1>4 DEF vars, IInv, TypeOK, ProcOK, Working, Promise!vars
<1> QED
  BY <1>1, <1>2, <1>3, <1>4 DEF Next

-----------------------------------------------------------------------------
(* The invariant holds of every behaviour. *)
THEOREM IngestorInvariant == Spec => []IInv
<1>1. Init => IInv
  BY InitIInv
<1>2. IInv /\ [Next]_vars => IInv'
  BY NextKeeps
<1> QED
  BY <1>1, <1>2, PTL DEF Spec

(* A live process that ends with success has dequeued all it has read,     *)
(* whoever has taken the manifest from it meanwhile.                       *)
THEOREM SuccessIsDequeued == Spec => []SuccessMeansDequeued
<1>1. IInv => SuccessMeansDequeued
  BY DEF IInv, ProcOK, SuccessMeansDequeued, Live
<1> QED
  BY <1>1, IngestorInvariant, PTL

(* Any number of processes on one manifest, live and dry-run, killed and   *)
(* restarted at any point, together deliver at least once.                 *)
THEOREM ProcessesDeliverAtLeastOnce == Spec => AtLeastOnceAcrossProcesses
<1>1. Init => Promise!Init
  BY InitIInv
<1>2. IInv /\ [Next]_vars => [Promise!Next]_(Promise!vars)
  BY NextKeeps
<1> QED
  BY <1>1, <1>2, IngestorInvariant, PTL DEF Spec, AtLeastOnceAcrossProcesses, Promise!Spec
=============================================================================
