------------------------------ MODULE Ingestor ------------------------------
(***************************************************************************)
(* The `clickhouse-ingestor` process (bin/clickhouse_ingestor.rs): start,  *)
(* run, signals, exit, of several processes over one buffer manifest and   *)
(* one sink.  A consumer that starts takes the manifest over: it raises    *)
(* the epoch, and a consumer of an older epoch is fenced, which it learns  *)
(* at its next durable call.                                               *)
(*                                                                         *)
(* Inside a running process the pipeline of Runtime is taken as a whole:   *)
(* a unit is admitted, written (in any order) and reported to the actor.   *)
(***************************************************************************)
EXTENDS AckCoordinatorOps, FiniteSetsExt

CONSTANTS
  Processes,
  Configs,        \* the configurations a process may be started with
  MaxLaunches     \* bound: starts of a process, restarts included

(* The settings that decide whether main gets to run and what it acks.     *)
(* The timing settings and those of the sink are left out.                 *)
IngestorConfig ==
  [dryRun : BOOLEAN, maxInflightBatches : Nat, maxInflightBytes : Nat,
   estimatedMaxBatchBytes : Nat, fetchConcurrency : Nat, decodeConcurrency : Nat,
   policy : {"every_commit_group", "every_n"}, n : Nat \cup {None},
   bindAddrParses : BOOLEAN]

ASSUME IngestorAssumption ==
  /\ IsFiniteSet(Processes) /\ Processes # {}
  /\ MaxLaunches \in Nat
  /\ Configs # {} /\ Configs \subseteq IngestorConfig

VARIABLES
  manifest,   \* external: last sequence produced, last dequeued, the epoch
  written,    \* external: sequences the sink holds durably
  proc,       \* the processes
  launches

vars == <<manifest, written, proc, launches>>

-----------------------------------------------------------------------------
(* IngestorConfig::ack_flush_policy, as the n of EveryN. *)
AckFlushPolicy(c) ==
  IF c.policy = "every_commit_group" THEN 1
  ELSE Max({IF c.n = None THEN 1 ELSE c.n, 1})

(* validate_backpressure *)
ValidateBackpressure(c) ==
  /\ c.estimatedMaxBatchBytes <= c.maxInflightBytes
  /\ c.maxInflightBatches # 0
  /\ c.fetchConcurrency # 0
  /\ c.decodeConcurrency # 0

(* pc: main is not running, connecting its consumer, building the runtime, *)
(* in runtime.run, or, when that has returned with the result `exit`,      *)
(* waiting for the metrics task.  `cut` is what was in flight when a       *)
(* signal ended the process; nothing else is kept of one that is down.     *)
Fresh(pc, c) ==
  [pc |-> pc, config |-> c, epoch |-> 0, cursor |-> None, coord |-> New(None),
   admitted |-> {}, reported |-> {}, pendingAck |-> None, lastAck |-> None, groups |-> 0,
   shutdown |-> FALSE, exit |-> "none", cut |-> {}]

Returned(p, exit) ==
  [Fresh("closing", proc[p].config) EXCEPT !.exit = exit, !.cursor = proc[p].cursor]

Down == Fresh("down", CHOOSE c \in Configs : TRUE)

Init ==
  /\ manifest = [produced |-> None, dequeued |-> None, epoch |-> 0]
  /\ written = {}
  /\ proc = [p \in Processes |-> Down]
  /\ launches = 0

SetProc(p, state) == proc' = [proc EXCEPT ![p] = state]
Live(p) == ~proc[p].config.dryRun
Leads(p) == proc[p].epoch = manifest.epoch
Running(p) == proc[p].pc = "running"

-----------------------------------------------------------------------------
Produce ==
  /\ manifest.produced < MaxSeq
  /\ manifest' = [manifest EXCEPT !.produced = @ + 1]
  /\ UNCHANGED <<written, proc, launches>>

(* The configuration loads; one that does not ends the process here. *)
Launch(p) ==
  /\ proc[p].pc = "down" /\ launches < MaxLaunches
  /\ \E c \in Configs : SetProc(p, Fresh("connecting", c))
  /\ launches' = launches + 1
  /\ UNCHANGED <<manifest, written>>

(* Consumer::with_object_store: one update of the manifest raises the      *)
(* epoch; reading goes on after what is dequeued.  Or it fails.            *)
InitializeConsumer(p) ==
  /\ proc[p].pc = "connecting"
  /\ \/ /\ manifest' = [manifest EXCEPT !.epoch = @ + 1]
        /\ SetProc(p, [proc[p] EXCEPT !.pc = "building", !.epoch = manifest.epoch + 1,
                                      !.cursor = manifest.dequeued])
     \/ /\ SetProc(p, Down)
        /\ UNCHANGED manifest
  /\ UNCHANGED <<written, launches>>

(* RuntimeBuilder::build, then the address of the metrics server; both     *)
(* come after the consumer has taken the manifest.                         *)
Build(p) ==
  /\ proc[p].pc = "building"
  /\ IF ValidateBackpressure(proc[p].config) /\ proc[p].config.bindAddrParses
     THEN SetProc(p, [proc[p] EXCEPT !.pc = "running", !.coord = New(None)])
     ELSE SetProc(p, Down)
  /\ UNCHANGED <<manifest, written, launches>>

-----------------------------------------------------------------------------
(* runtime.run returns; main then stops the metrics server and waits.      *)
RunReturns(p, exit) == SetProc(p, Returned(p, exit))

(* Requests of a process that ends are on the wire and may land. *)
OnTheWire(p) == IF Live(p) THEN proc[p].admitted \ proc[p].reported ELSE {}
MayLand(p) == \E landed \in SUBSET OnTheWire(p) : written' = written \cup landed

(* next_descriptors: up to `n` sequences after the cursor that are still   *)
(* in the manifest, which for a fenced consumer may leave some out.        *)
FirstUnread(p) == Max({proc[p].cursor, manifest.dequeued}) + 1

Admit(p) ==
  /\ Running(p) /\ ~proc[p].shutdown
  /\ \E n \in 1 .. proc[p].config.maxInflightBatches - Cardinality(proc[p].admitted) :
       LET first == FirstUnread(p)
       IN /\ first + n - 1 <= manifest.produced
          /\ IF RunAccepts(proc[p].coord, first, n)
             THEN /\ SetProc(p, [proc[p] EXCEPT
                                   !.cursor = first + n - 1,
                                   !.coord = RegisteredRun(@, first, n)[n],
                                   !.admitted = @ \cup (first .. first + n - 1)])
                  /\ UNCHANGED written
             ELSE RunReturns(p, "error") /\ MayLand(p)
  /\ UNCHANGED <<manifest, launches>>

(* A dry run reports without writing. *)
Write(p, s) ==
  /\ Running(p) /\ s \in proc[p].admitted \ proc[p].reported
  /\ written' = IF Live(p) THEN written \cup {s} ELSE written
  /\ SetProc(p, [proc[p] EXCEPT !.reported = @ \cup {s}])
  /\ UNCHANGED <<manifest, launches>>

(* The source, a fetch, the decoder or the sink fails for good.  A fenced  *)
(* consumer may learn of it from next_descriptors.                         *)
RunFails(p) ==
  /\ Running(p)
  /\ RunReturns(p, "error")
  /\ MayLand(p)
  /\ UNCHANGED <<manifest, launches>>

(* Mutants: an error of the durable call is only logged; a dry run acks;   *)
(* an off-by-one leaves a single new sequence unacked.                     *)
FlushLogged(p, state, pending) ==
  IF pending # None /\ Leads(p)
  THEN manifest' = [manifest EXCEPT !.dequeued = pending]
         /\ SetProc(p, [state EXCEPT !.pendingAck = None])
  ELSE SetProc(p, [state EXCEPT !.pendingAck = None]) /\ UNCHANGED manifest

AckedInDryRun(p, c) == c.frontier # None /\ c.frontier > proc[p].lastAck

AckedLate(p, c) == Live(p) /\ c.frontier # None /\ c.frontier > proc[p].lastAck + 1

(* flush_acks, with the `?` of its caller: of a fenced consumer the        *)
(* manifest refuses the call, and run returns its error.                   *)
Flush(p, state, pending) ==
  \/ /\ pending = None
     /\ SetProc(p, state) /\ UNCHANGED manifest
  \/ /\ pending # None /\ Leads(p)
     /\ manifest' = [manifest EXCEPT !.dequeued = pending]
     /\ SetProc(p, [state EXCEPT !.pendingAck = None])
  \/ /\ pending # None /\ ~Leads(p)
     /\ RunReturns(p, "error")
     /\ UNCHANGED manifest

(* A completion at the actor: as OnCommitted of Runtime. *)
Acked(p, c) == Live(p) /\ c.frontier # None /\ c.frontier > proc[p].lastAck

Complete(p, s) ==
  /\ Running(p) /\ s \in proc[p].reported
  /\ LET c == Advanced(Committed(proc[p].coord, s))
         ack == Acked(p, c)
         due == proc[p].groups + 1 >= AckFlushPolicy(proc[p].config)
         state == [proc[p] EXCEPT
                     !.admitted = @ \ {s}, !.reported = @ \ {s}, !.coord = c,
                     !.lastAck = IF ack THEN c.frontier ELSE @,
                     !.groups = IF ~ack THEN @ ELSE IF due THEN 0 ELSE @ + 1,
                     !.pendingAck = IF ack THEN c.frontier ELSE @]
     IN IF ack /\ due THEN Flush(p, state, c.frontier)
        ELSE SetProc(p, state) /\ UNCHANGED manifest
  /\ UNCHANGED <<written, launches>>

(* After a shutdown admission is closed; the last completion is followed   *)
(* by the exit flush, and run returns Ok.                                  *)
Drained(p) ==
  /\ Running(p) /\ proc[p].shutdown /\ proc[p].admitted = {}
  /\ Flush(p, Returned(p, "ok"),
           IF Live(p) THEN proc[p].pendingAck ELSE None)
  /\ UNCHANGED <<written, launches>>

(* The metrics task has ended: main returns. *)
Close(p) ==
  /\ proc[p].pc = "closing"
  /\ SetProc(p, Down)
  /\ UNCHANGED <<manifest, written, launches>>

-----------------------------------------------------------------------------
(* The task of tokio::signal::ctrl_c, which is spawned after build: it     *)
(* handles SIGINT.                                                         *)
CtrlC(p) ==
  /\ Running(p) /\ ~proc[p].shutdown
  /\ SetProc(p, [proc[p] EXCEPT !.shutdown = TRUE])
  /\ UNCHANGED <<manifest, written, launches>>

(* The process ends at once: SIGTERM, for which nothing is installed, a    *)
(* SIGINT before build has returned, or a crash, which cuts nothing off    *)
(* that anyone promised to finish.                                         *)
Killed(p) ==
  /\ proc[p].pc # "down"
  /\ \E cut \in {{}, proc[p].admitted} : SetProc(p, [Down EXCEPT !.cut = cut])
  /\ IF Running(p) THEN MayLand(p) ELSE UNCHANGED written
  /\ UNCHANGED <<manifest, launches>>

Work(p) ==
  \/ Admit(p) \/ Drained(p) \/ Close(p)
  \/ \E s \in SeqNums : Write(p, s) \/ Complete(p, s)

Next ==
  \/ Produce
  \/ \E p \in Processes :
       \/ Launch(p) \/ InitializeConsumer(p) \/ Build(p)
       \/ Work(p) \/ RunFails(p) \/ CtrlC(p) \/ Killed(p)

Spec == Init /\ [][Next]_vars

(* A process is scheduled, and its calls return: some task of it runs. *)
Fairness == \A p \in Processes : WF_vars(Work(p))

FairSpec == Spec /\ Fairness

-----------------------------------------------------------------------------
(* At-least-once delivery holds of any number of processes on one          *)
(* manifest, live and dry-run, while one takes it over from another with   *)
(* units in flight in both, and through exits of any kind.                 *)
Promise ==
  INSTANCE AtLeastOnce WITH produced <- manifest.produced, delivered <- written,
                            dequeued <- manifest.dequeued
AtLeastOnceAcrossProcesses == Promise!Spec

(* A live process that ends with success has dequeued all it has read,     *)
(* also one that had lost the manifest before it was told to stop: its     *)
(* exit flush then fails and so does the process (source.rs:324-335,       *)
(* bin/clickhouse_ingestor.rs:219-224).                                    *)
SuccessMeansDequeued ==
  \A p \in Processes :
    proc[p].exit = "ok" /\ Live(p) => proc[p].cursor <= manifest.dequeued

ProcState ==
  [pc : {"down", "connecting", "building", "running", "closing"}, config : Configs,
   epoch : Nat, cursor : OptSeqNum, coord : Coordinator,
   admitted : SUBSET SeqNums, reported : SUBSET SeqNums,
   pendingAck : OptSeqNum, lastAck : OptSeqNum, groups : Nat,
   shutdown : BOOLEAN, exit : {"none", "ok", "error"}, cut : SUBSET SeqNums]

TypeOK ==
  /\ manifest \in [produced : OptSeqNum, dequeued : OptSeqNum, epoch : Nat]
  /\ written \subseteq SeqNums
  /\ proc \in [Processes -> ProcState]
  /\ launches \in 0 .. MaxLaunches

(* A process x at work on the manifest m and the sink w.  Its coordinator  *)
(* tracks what it has read, of which `admitted` is not committed; the rest *)
(* is in the sink, and the frontier has gone as far as it can.  While it   *)
(* leads, nothing is dequeued above its frontier.                          *)
Working(x, m, w) ==
  /\ x.epoch > 0
  /\ x.cursor <= m.produced
  /\ Tracks(x.coord, x.cursor + 1, (0 .. x.cursor) \ x.admitted)
  /\ x.coord.initial = None
  /\ x.reported \subseteq x.admitted
  /\ x.coord.lastHigh = None =>
       x.admitted = {} /\ x.cursor <= m.dequeued
         /\ (x.epoch = m.epoch => x.cursor = m.dequeued)
  /\ x.coord.lastHigh # None =>
       /\ x.admitted \subseteq Floor(x.coord) + 1 .. x.cursor
       /\ Floor(x.coord) < x.cursor => Floor(x.coord) + 1 \in x.admitted
       /\ x.epoch = m.epoch => m.dequeued <= Floor(x.coord)
  /\ ~x.config.dryRun =>
       /\ (0 .. x.cursor) \ x.admitted \subseteq w /\ x.reported \subseteq w
       /\ x.lastAck = x.coord.frontier
       /\ x.pendingAck \in {None, x.lastAck}
       /\ x.pendingAck = None => x.lastAck <= m.dequeued

ProcOK(x, m, w) ==
  /\ x.epoch <= m.epoch
  /\ x.pc = "connecting" => x = Fresh("connecting", x.config)
  /\ x.pc = "building" => x.coord = New(None)
  /\ x.pc \in {"building", "running"} => Working(x, m, w)
  /\ x.exit = "ok" =>
       x.pc = "closing" /\ (~x.config.dryRun => x.cursor <= m.dequeued)

(* The inductive invariant behind delivery: an epoch is given to one       *)
(* process only, so that at most one leads.                                *)
IInv ==
  /\ TypeOK
  /\ manifest.dequeued <= manifest.produced
  /\ 0 .. manifest.dequeued \subseteq written /\ written \subseteq 0 .. manifest.produced
  /\ \A p \in Processes : ProcOK(proc[p], manifest, written)
  /\ \A p, q \in Processes : proc[p].epoch = proc[q].epoch /\ p # q => proc[p].epoch = 0

(* A fenced process does not write alongside its successor for ever: one   *)
(* with work in flight that flushes every commit group ends ("so the       *)
(* per-source actor halts on fence", source.rs:321-323).  Stated of one    *)
(* process, since nothing tells them apart.                                *)
FencedHalts ==
  LET p == CHOOSE any \in Processes : TRUE
  IN (/\ Running(p) /\ ~Leads(p) /\ Live(p)
      /\ AckFlushPolicy(proc[p].config) = 1 /\ proc[p].admitted # {})
       ~> ~Running(p)

(* The process that took the manifest last gets through the backlog of the *)
(* ones before it, whatever they left undone, if it is left to run.        *)
LeaderDequeuesAll ==
  <>[](\E p \in Processes :
         /\ Running(p) /\ Leads(p) /\ Live(p) /\ ~proc[p].shutdown
         /\ AckFlushPolicy(proc[p].config) = 1)
    => <>[](manifest.dequeued = manifest.produced)

(* "Stop. `SIGINT` / `SIGTERM`. The process drains in-flight inserts"      *)
(* (connectors/clickhouse-ingestor/README.md:225).                         *)
SignalsDrain ==
  \A p \in Processes : proc[p].cut = {}
=============================================================================
