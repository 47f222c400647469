------------------------------- MODULE Runtime -------------------------------
(***************************************************************************)
(* `Runtime::run` (runtime.rs): the per-source actor, its fetch and decode *)
(* workers, the sink writer pool, the bounded channels between them, the   *)
(* batch permits and the byte budget, over a buffer manifest and a sink    *)
(* that outlive the process.  The actor owns an AckCoordinator, whose      *)
(* methods are those of AckCoordinatorOps.                                 *)
(*                                                                         *)
(* A unit of work is a source sequence (a descriptor covers one sequence). *)
(* A step runs a task from one await to the next.  An await that can only  *)
(* wait (a channel with room later, a permit) is the guard of the step     *)
(* after it.                                                               *)
(***************************************************************************)
EXTENDS AckCoordinatorOps, Sequences, FiniteSetsExt, Totals

CONSTANTS
  Fetchers, Decoders, Writers,  \* the worker tasks of each pool
  MaxInflight,      \* max_inflight_batches: permits, and depth of a channel
  PerPoll,          \* max_descriptors_per_poll
  Capacity,         \* max_inflight_bytes
  Estimated,        \* estimated_max_batch_bytes
  OversizeMultiplier,  \* oversize_fault_multiplier
  Actuals,          \* post-decode bytes a batch may turn out to have
  FlushEvery,       \* AckFlushPolicy: EveryN's n; EveryCommitGroup is 1
  DryRuns,          \* the settings of dry_run a process may be started with
  MaxAttempts,      \* effective_retry_max_attempts
  Faults,           \* which failures of the environment occur
  MaxCrashes        \* bound: process crashes and restarts

Workers == Fetchers \cup Decoders \cup Writers

ASSUME RuntimeAssumption ==
  /\ Fetchers # {} /\ Decoders # {} /\ Writers # {}
  /\ Fetchers \cap Decoders = {} /\ Decoders \cap Writers = {} /\ Writers \cap Fetchers = {}
  /\ IsFiniteSet(Workers)
  /\ MaxInflight \in Nat \ {0} /\ PerPoll \in Nat
  /\ Estimated \in Nat /\ Capacity \in Nat /\ Estimated <= Capacity
  /\ OversizeMultiplier \in Nat /\ Actuals \subseteq Nat
  /\ FlushEvery \in Nat /\ MaxAttempts \in Nat /\ MaxCrashes \in Nat
  /\ DryRuns \subseteq BOOLEAN /\ DryRuns # {}
  /\ Faults \subseteq {"source", "fetch", "decode", "notCommitted",
                       "maybeCommitted", "sinkFatal", "flush", "panic", "hang"}

VARIABLES
  manifest,   \* external: the buffer's durable queue manifest
  written,    \* external: sequences the sink holds durably
  source,     \* BufferSource: read-ahead cursor and pending_durable_ack
  coord,      \* the source's AckCoordinator
  actor,      \* locals of per_source_actor, and the option dry_run
  queue,      \* the four channels
  worker,     \* the worker tasks
  permits,    \* available permits of batch_semaphore
  inFlight,   \* SourceByteBudget.in_flight
  held,       \* bytes held by the reservation of each unit
  token,      \* the shutdown and hard-abort cancellation tokens
  crashes

vars == <<manifest, written, source, coord, actor, queue, worker, permits,
          inFlight, held, token, crashes>>

-----------------------------------------------------------------------------
Fatal == -2     \* WriteCompletion::Fatal; Committed is the sequence it is for

IdleWorker == [pc |-> "idle", seq |-> None, attempt |-> 0, checked |-> FALSE]
Exited == [IdleWorker EXCEPT !.pc = "exited"]

(* Mutant: the consumer starts over at the head of the manifest. *)
FreshSourceAtHead(dequeued) == [cursor |-> None, pendingAck |-> None]

(* A fresh process over the manifest.  The binary passes no baseline to    *)
(* BufferSource::new, other callers pass the durable cursor.               *)
FreshSource(dequeued) == [cursor |-> dequeued, pendingAck |-> None]
FreshActor(baseline, dryRun) ==
  [pc |-> "select", dryRun |-> dryRun, open |-> TRUE, inFlight |-> 0, lastAck |-> baseline,
   groups |-> 0, unsent |-> <<>>]
FreshQueue ==
  [descriptor |-> <<>>, fetched |-> <<>>, commit |-> <<>>, completion |-> <<>>]
FreshWorkers == [w \in Workers |-> IdleWorker]
NothingHeld == [s \in SeqNums |-> 0]
FreshToken == [shutdown |-> FALSE, abort |-> FALSE]

Init ==
  /\ manifest = [produced |-> None, dequeued |-> None]
  /\ written = {}
  /\ crashes = 0
  /\ source = FreshSource(None) /\ coord = New(None)
  /\ \E dryRun \in DryRuns : actor = FreshActor(None, dryRun)
  /\ queue = FreshQueue /\ worker = FreshWorkers /\ token = FreshToken
  /\ permits = MaxInflight /\ inFlight = 0 /\ held = NothingHeld

-----------------------------------------------------------------------------
(* Channels.  A channel is closed for its senders when every receiver has  *)
(* gone and for its receivers when every sender has.                       *)
AllExited(ws) == \A w \in ws : worker[w].pc = "exited"
ActorRunning == actor.pc \in {"select", "send"}
(* Mutant: shutdown does not close the descriptor channel. *)
DescriptorsClosedLate == ~ActorRunning

DescriptorsClosed == ~actor.open \/ ~ActorRunning
(* Mutant: a channel one slot too short. *)
HasRoomShort(q) == Len(q) + 1 < MaxInflight

HasRoom(q) == Len(q) < MaxInflight

(* Units whose reservation and permit are dropped, with what owned them. *)
Release(units) ==
  /\ permits' = permits + Cardinality(units)
  /\ inFlight' = inFlight - Total(held, units)
  /\ held' = [s \in SeqNums |-> IF s \in units THEN 0 ELSE held[s]]

KeepUnits == UNCHANGED <<permits, inFlight, held>>
KeepWorld == UNCHANGED <<manifest, written, crashes>>

(* per_source_actor returns Err: its channel ends and undriven gates drop, *)
(* and the supervisor cancels the hard-abort token.                        *)
ActorFails(why) ==
  /\ actor' = [actor EXCEPT !.pc = why, !.unsent = <<>>]
  /\ token' = [token EXCEPT !.abort = TRUE]

-----------------------------------------------------------------------------
(* The buffer's producer, and the operator's signal. *)
Produce ==
  /\ manifest.produced < MaxSeq
  /\ manifest' = [manifest EXCEPT !.produced = @ + 1]
  /\ UNCHANGED <<written, source, coord, actor, queue, worker, permits,
                 inFlight, held, token, crashes>>

RequestShutdown ==
  /\ ~token.shutdown
  /\ token' = [token EXCEPT !.shutdown = TRUE]
  /\ UNCHANGED <<manifest, written, source, coord, actor, queue, worker,
                 permits, inFlight, held, crashes>>

-----------------------------------------------------------------------------
(* The actor's select loop: its arms.                                      *)
(*                                                                         *)
(* Admission: the gate (one permit and one reservation), up to KTarget - 1 *)
(* further gates, one next_descriptors call, register_pending for every    *)
(* descriptor; unused gates drop.  An extra gate may be missed when a      *)
(* worker moves in_flight under try_reserve, so any number up to KTarget   *)
(* is taken.  An empty poll drops every gate: a stutter.                   *)
(* reserve(0) never parks. *)
GateOpen == permits >= 1 /\ (Estimated = 0 \/ inFlight + Estimated <= Capacity)

RoomBytes == Max({0, Capacity - (inFlight + Estimated)})

KTarget ==
  Min({Max({PerPoll, 1}), permits, 1 + RoomBytes \div Max({Estimated, 1})})

(* How many descriptors a call for `gates` of them returns: the consumer's *)
(* read-ahead cursor moves over the next sequences of the manifest.        *)
NextDescriptors(gates) == Min({gates, manifest.produced - source.cursor})

Admit ==
  /\ actor.pc = "select" /\ actor.open /\ GateOpen
  /\ \E gates \in 1 .. KTarget :
       LET n == NextDescriptors(gates)
           first == source.cursor + 1
       IN /\ n > 0
          /\ source' = [source EXCEPT !.cursor = @ + n]
          /\ IF RunAccepts(coord, first, n)
             THEN /\ coord' = RegisteredRun(coord, first, n)[n]
                  /\ actor' = [actor EXCEPT !.pc = "send", !.inFlight = @ + n,
                                            !.unsent = [k \in 1 .. n |-> first + k - 1]]
                  /\ permits' = permits - n
                  /\ inFlight' = inFlight + n * Estimated
                  /\ held' = [s \in SeqNums |->
                                IF s \in first .. first + n - 1 THEN Estimated ELSE held[s]]
                  /\ UNCHANGED token
             ELSE ActorFails("rejected") /\ KeepUnits /\ UNCHANGED coord
  /\ UNCHANGED <<queue, worker>> /\ KeepWorld

(* next_descriptors fails: the gates drop and the actor returns. *)
SourceError ==
  /\ "source" \in Faults
  /\ actor.pc = "select" /\ actor.open /\ GateOpen
  /\ ActorFails("failed")
  /\ UNCHANGED <<source, coord, queue, worker>> /\ KeepUnits /\ KeepWorld

(* descriptor_tx.send, one descriptor at a time; with every fetch worker   *)
(* gone the descriptor is lost and the actor returns Err.                  *)
AdmitSend ==
  /\ actor.pc = "send"
  /\ IF AllExited(Fetchers)
     THEN /\ ActorFails("failed")
          /\ Release({actor.unsent[k] : k \in DOMAIN actor.unsent})
          /\ UNCHANGED queue
     ELSE /\ HasRoom(queue.descriptor)
          /\ queue' = [queue EXCEPT !.descriptor = Append(@, Head(actor.unsent))]
          /\ actor' = [actor EXCEPT !.unsent = Tail(@),
                         !.pc = IF Len(actor.unsent) = 1 THEN "select" ELSE "send"]
          /\ KeepUnits /\ UNCHANGED token
  /\ UNCHANGED <<source, coord, worker>> /\ KeepWorld

CloseAdmission ==
  /\ actor.pc = "select" /\ actor.open /\ token.shutdown
  /\ actor' = [actor EXCEPT !.open = FALSE]
  /\ UNCHANGED <<source, coord, queue, worker, token>> /\ KeepUnits /\ KeepWorld

(* Mutant: what was read ahead is dequeued. *)
FlushCursor(pending) ==
  /\ source' = [source EXCEPT !.pendingAck = None]
  /\ manifest' = [manifest EXCEPT !.dequeued = source.cursor]

AckThrough(s) == source' = [source EXCEPT !.pendingAck = s]

(* flush_acks: the pending sequence becomes durable.  A failed call leaves *)
(* it pending; whether the manifest moved is the buffer's secret.          *)
FlushOk(pending) ==
  /\ source' = [source EXCEPT !.pendingAck = None]
  /\ manifest' = [manifest EXCEPT !.dequeued = IF pending = None THEN @ ELSE pending]

FlushFails(pending) ==
  /\ "flush" \in Faults /\ pending # None
  /\ AckThrough(pending)
  /\ \E moved \in {manifest.dequeued, pending} :
       manifest' = [manifest EXCEPT !.dequeued = moved]

(* A Committed completion: mark, advance, ack_through when the frontier is *)
(* past the last ack, flush by policy.                                     *)
Acked(c, last) == ~actor.dryRun /\ c.frontier # None /\ c.frontier > last
FlushDue(groups) == groups >= Max({FlushEvery, 1})

OnCommitted(s) ==
  LET c == Advanced(Committed(coord, s))
      ack == Acked(c, actor.lastAck)
      groups == actor.groups + 1
      done == [actor EXCEPT !.inFlight = @ - 1,
                 !.lastAck = IF ack THEN c.frontier ELSE @,
                 !.groups = IF ~ack THEN @ ELSE IF FlushDue(groups) THEN 0 ELSE groups]
  IN IF ~MarkAccepts(coord, s, s)
     THEN ActorFails("rejected") /\ UNCHANGED <<coord, source, manifest>>
     ELSE /\ coord' = c
          /\ \/ /\ ~ack
                /\ actor' = done
                /\ UNCHANGED <<source, manifest, token>>
             \/ /\ ack /\ ~FlushDue(groups)
                /\ AckThrough(c.frontier)
                /\ actor' = done
                /\ UNCHANGED <<manifest, token>>
             \/ /\ ack /\ FlushDue(groups)
                /\ FlushOk(c.frontier)
                /\ actor' = done
                /\ UNCHANGED token
             \/ /\ ack /\ FlushDue(groups)
                /\ FlushFails(c.frontier)
                /\ ActorFails("failed")

Complete ==
  /\ actor.pc = "select" /\ actor.inFlight > 0 /\ queue.completion # <<>>
  /\ queue' = [queue EXCEPT !.completion = Tail(@)]
  /\ IF Head(queue.completion) = Fatal
     THEN ActorFails("failed") /\ UNCHANGED <<coord, source, manifest>>
     ELSE OnCommitted(Head(queue.completion))
  /\ UNCHANGED <<written, worker, crashes>> /\ KeepUnits

(* Mutant: a closed completion channel counts as the end of the work. *)
OrphanedIsDone ==
  /\ actor.pc = "select" /\ actor.inFlight > 0
  /\ queue.completion = <<>> /\ AllExited(Workers)
  /\ actor' = [actor EXCEPT !.pc = "ok"]
  /\ UNCHANGED <<source, coord, queue, worker, token>> /\ KeepUnits /\ KeepWorld

(* completion_rx.recv() is None while units are in flight. *)
Orphaned ==
  /\ actor.pc = "select" /\ actor.inFlight > 0
  /\ queue.completion = <<>> /\ AllExited(Workers)
  /\ ActorFails("failed")
  /\ UNCHANGED <<source, coord, queue, worker>> /\ KeepUnits /\ KeepWorld

(* Mutant: no exit flush. *)
DrainedUnflushed ==
  /\ actor.pc = "select" /\ ~actor.open /\ actor.inFlight = 0
  /\ actor' = [actor EXCEPT !.pc = "ok"]
  /\ UNCHANGED <<source, token, coord, queue, worker>> /\ KeepUnits /\ KeepWorld

(* The loop ends once admission is closed and nothing is in flight; the    *)
(* exit flush follows.                                                     *)
Drained ==
  /\ actor.pc = "select" /\ ~actor.open /\ actor.inFlight = 0
  /\ \/ /\ actor.dryRun
        /\ actor' = [actor EXCEPT !.pc = "ok"]
        /\ UNCHANGED <<source, manifest, token>>
     \/ /\ ~actor.dryRun
        /\ FlushOk(source.pendingAck)
        /\ actor' = [actor EXCEPT !.pc = "ok"]
        /\ UNCHANGED token
     \/ /\ ~actor.dryRun
        /\ FlushFails(source.pendingAck)
        /\ ActorFails("failed")
  /\ UNCHANGED <<written, coord, queue, worker, crashes>> /\ KeepUnits

-----------------------------------------------------------------------------
(* Workers.  Sending a completion waits for room while the actor runs and  *)
(* fails at once when it has returned.                                     *)
SetWorker(w, state) == worker' = [worker EXCEPT ![w] = state]

(* Mutant: an early return leaks the permit and the reservation. *)
ExitLeaking(w) == SetWorker(w, Exited) /\ KeepUnits

(* A worker task ends: the unit it owns goes with it. *)
Exit(w) ==
  /\ SetWorker(w, Exited)
  /\ Release({worker[w].seq} \ {None})

SendCompletion(msg) ==
  IF ActorRunning
  THEN /\ HasRoom(queue.completion)
       /\ queue' = [queue EXCEPT !.completion = Append(@, msg)]
  ELSE UNCHANGED queue

(* `let _ = completion_tx.send(Fatal(e)).await; return Ok(())` *)
ExitFatally(w) == SendCompletion(Fatal) /\ Exit(w)

WorkerKeeps == UNCHANGED <<source, coord, actor, token>> /\ KeepWorld

Take(w, q) ==
  SetWorker(w, [IdleWorker EXCEPT !.pc = "busy", !.seq = Head(q)])

(* Mutant: Sink::write and fetch are not wrapped in a select!. *)
AbortIdleWorker(w) ==
  /\ token.abort
  /\ worker[w].pc = "idle"
  /\ Exit(w)
  /\ UNCHANGED queue /\ WorkerKeeps

(* The hard-abort arm of every select! a busy or idle worker waits in. *)
AbortWorker(w) ==
  /\ token.abort
  /\ worker[w].pc \in {"idle", "busy", "check", "hung"}
  /\ Exit(w)
  /\ \/ UNCHANGED written
     \/ /\ w \in Writers /\ worker[w].pc \in {"busy", "hung"}
        /\ written' = written \cup {worker[w].seq}     \* the dropped request lands
  /\ UNCHANGED <<source, coord, actor, token, queue, manifest, crashes>>

(* A panic in the fetch handle, the decoder or the sink unwinds the task.  *)
Panic(w) ==
  /\ "panic" \in Faults
  /\ worker[w].pc \in {"busy", "check"}
  /\ Exit(w)
  /\ \/ UNCHANGED written
     \/ w \in Writers /\ worker[w].pc = "busy" /\ written' = written \cup {worker[w].seq}
  /\ UNCHANGED <<source, coord, actor, token, queue, manifest, crashes>>

(* A call of the fetch handle or of the sink that never returns.           *)
Hang(w) ==
  /\ "hang" \in Faults
  /\ w \in Fetchers \cup Writers /\ worker[w].pc \in {"busy", "check"}
  /\ SetWorker(w, [worker[w] EXCEPT !.pc = "hung"])
  /\ UNCHANGED queue /\ KeepUnits /\ WorkerKeeps

FetchRecv(w) ==
  /\ worker[w].pc = "idle" /\ ~token.abort
  /\ IF queue.descriptor # <<>>
     THEN /\ Take(w, queue.descriptor)
          /\ queue' = [queue EXCEPT !.descriptor = Tail(@)]
     ELSE DescriptorsClosed /\ SetWorker(w, Exited) /\ UNCHANGED queue
  /\ KeepUnits /\ WorkerKeeps

(* fetch returns a batch, which goes to the decode stage; it is lost when  *)
(* every decode worker has gone.                                           *)
FetchDone(w) ==
  /\ worker[w].pc = "busy"
  /\ IF AllExited(Decoders)
     THEN ExitFatally(w)
     ELSE /\ HasRoom(queue.fetched)
          /\ queue' = [queue EXCEPT !.fetched = Append(@, worker[w].seq)]
          /\ SetWorker(w, IdleWorker) /\ KeepUnits
  /\ WorkerKeeps

FetchError(w) ==
  /\ "fetch" \in Faults
  /\ worker[w].pc = "busy"
  /\ ExitFatally(w)
  /\ WorkerKeeps

DecodeRecv(w) ==
  /\ worker[w].pc = "idle" /\ ~token.abort
  /\ IF queue.fetched # <<>>
     THEN /\ Take(w, queue.fetched)
          /\ queue' = [queue EXCEPT !.fetched = Tail(@)]
     ELSE AllExited(Fetchers) /\ SetWorker(w, Exited) /\ UNCHANGED queue
  /\ KeepUnits /\ WorkerKeeps

(* Mutants: no oversize gate; reconcile leaves `held` as it was. *)
OversizeNever(actual) == FALSE

ReconcileUnheld(s, actual) ==
  /\ inFlight' = inFlight + actual - held[s]
  /\ UNCHANGED held

(* ByteReservation::reconcile, as one step: SourceByteBudget has its steps. *)
FaultLimit == Estimated * OversizeMultiplier
Oversize(actual) == actual > FaultLimit

Reconcile(s, actual) ==
  /\ inFlight' = inFlight + actual - held[s]
  /\ held' = [held EXCEPT ![s] = actual]

(* decode_one: the oversize gate comes before the reconcile; a dry run     *)
(* reports at once, a live commit goes to the writer pool.                 *)
DecodeDone(w) ==
  /\ worker[w].pc = "busy"
  /\ \E actual \in Actuals :
       IF Oversize(actual)
       THEN ExitFatally(w)
       ELSE LET s == worker[w].seq IN
            /\ UNCHANGED permits
            /\ Reconcile(s, actual)
            /\ IF actor.dryRun
               THEN SetWorker(w, [worker[w] EXCEPT !.pc = "report"]) /\ UNCHANGED queue
               ELSE /\ ~AllExited(Writers) /\ HasRoom(queue.commit)
                    /\ queue' = [queue EXCEPT !.commit = Append(@, s)]
                    /\ SetWorker(w, IdleWorker)
  /\ WorkerKeeps

(* The envelope is lost when every writer has gone. *)
DecodeLost(w) ==
  /\ worker[w].pc = "busy" /\ ~actor.dryRun /\ AllExited(Writers)
  /\ ExitFatally(w)
  /\ WorkerKeeps

DecodeError(w) ==
  /\ "decode" \in Faults
  /\ worker[w].pc = "busy"
  /\ ExitFatally(w)
  /\ WorkerKeeps

WriterRecv(w) ==
  /\ worker[w].pc = "idle" /\ ~token.abort
  /\ IF queue.commit # <<>>
     THEN /\ Take(w, queue.commit)
          /\ queue' = [queue EXCEPT !.commit = Tail(@)]
     ELSE AllExited(Decoders) /\ SetWorker(w, Exited) /\ UNCHANGED queue
  /\ KeepUnits /\ WorkerKeeps

-----------------------------------------------------------------------------
(* write_with_retry.  "busy" is an attempt of Sink::write in progress,     *)
(* "check" a call of check_committed.                                      *)
WriteOk(w) ==
  /\ worker[w].pc = "busy"
  /\ written' = written \cup {worker[w].seq}
  /\ SetWorker(w, [worker[w] EXCEPT !.pc = "report"])
  /\ UNCHANGED <<source, coord, actor, token, queue, manifest, crashes>> /\ KeepUnits

(* Mutant: one retry too many. *)
RetryOrFailLate(w) ==
  IF worker[w].attempt > MaxAttempts
  THEN ExitFatally(w)
  ELSE /\ SetWorker(w, [worker[w] EXCEPT !.pc = "busy", !.attempt = @ + 1])
       /\ UNCHANGED queue /\ KeepUnits

(* Another attempt after the back-off, or the error once they are used up. *)
RetryOrFail(w) ==
  IF worker[w].attempt >= MaxAttempts
  THEN ExitFatally(w)
  ELSE /\ SetWorker(w, [worker[w] EXCEPT !.pc = "busy", !.attempt = @ + 1])
       /\ UNCHANGED queue /\ KeepUnits

WriteNotCommitted(w) ==
  /\ "notCommitted" \in Faults
  /\ worker[w].pc = "busy"
  /\ RetryOrFail(w)
  /\ WorkerKeeps

WriteMaybeCommitted(w) ==
  /\ "maybeCommitted" \in Faults
  /\ worker[w].pc = "busy"
  /\ \/ UNCHANGED written
     \/ written' = written \cup {worker[w].seq}
  /\ SetWorker(w, [worker[w] EXCEPT !.pc = "check", !.checked = TRUE])
  /\ UNCHANGED <<source, coord, actor, token, queue, manifest, crashes>> /\ KeepUnits

WriteFatal(w) ==
  /\ "sinkFatal" \in Faults
  /\ worker[w].pc = "busy"
  /\ \/ UNCHANGED written
     \/ written' = written \cup {worker[w].seq}
  /\ ExitFatally(w)
  /\ UNCHANGED <<source, coord, actor, token, manifest, crashes>>

(* check_committed answers Committed only of what is written; NotCommitted *)
(* and Unknown are treated alike; an error of its own is fatal.            *)
CheckCommitted(w) ==
  /\ worker[w].pc = "check" /\ worker[w].seq \in written
  /\ SetWorker(w, [worker[w] EXCEPT !.pc = "report"])
  /\ UNCHANGED queue /\ KeepUnits /\ WorkerKeeps

(* Mutant: Unknown counts as Committed. *)
CheckUnknownTrusted(w) ==
  /\ worker[w].pc = "check"
  /\ SetWorker(w, [worker[w] EXCEPT !.pc = "report"])
  /\ UNCHANGED queue /\ KeepUnits /\ WorkerKeeps

CheckUnknown(w) ==
  /\ worker[w].pc = "check"
  /\ RetryOrFail(w)
  /\ WorkerKeeps

CheckError(w) ==
  /\ "sinkFatal" \in Faults
  /\ worker[w].pc = "check"
  /\ ExitFatally(w)
  /\ WorkerKeeps

(* The completion is sent first; reservation and permit drop after it. *)
Report(w) ==
  /\ worker[w].pc = "report"
  /\ SendCompletion(worker[w].seq)
  /\ IF ActorRunning
     THEN SetWorker(w, [worker[w] EXCEPT !.pc = "release"]) /\ KeepUnits
     ELSE Exit(w)
  /\ WorkerKeeps

ReleaseUnit(w) ==
  /\ worker[w].pc = "release"
  /\ SetWorker(w, IdleWorker)
  /\ Release({worker[w].seq})
  /\ UNCHANGED queue /\ WorkerKeeps

-----------------------------------------------------------------------------
(* The process dies and is started again: all but the manifest and the     *)
(* sink is lost, and a write in flight may land.                           *)
Writing == {worker[w].seq : w \in {x \in Writers : worker[x].pc \in {"busy", "hung"}}}

Crash ==
  /\ crashes < MaxCrashes
  /\ crashes' = crashes + 1
  /\ \E landed \in SUBSET Writing : written' = written \cup landed
  /\ \E baseline \in {None, manifest.dequeued}, dryRun \in DryRuns :
       coord' = New(baseline) /\ actor' = FreshActor(baseline, dryRun)
  /\ source' = FreshSource(manifest.dequeued)
  /\ queue' = FreshQueue /\ worker' = FreshWorkers /\ token' = FreshToken
  /\ permits' = MaxInflight /\ inFlight' = 0 /\ held' = NothingHeld
  /\ UNCHANGED manifest

FetchStep(w) == FetchRecv(w) \/ FetchDone(w)
DecodeStep(w) == DecodeRecv(w) \/ DecodeDone(w) \/ DecodeLost(w) \/ Report(w) \/ ReleaseUnit(w)
WriterStep(w) ==
  WriterRecv(w) \/ WriteOk(w) \/ CheckCommitted(w) \/ CheckUnknown(w)
  \/ Report(w) \/ ReleaseUnit(w)

WorkerFault(w) ==
  \/ w \in Fetchers /\ FetchError(w)
  \/ w \in Decoders /\ DecodeError(w)
  \/ w \in Writers /\ (WriteNotCommitted(w) \/ WriteMaybeCommitted(w)
                        \/ WriteFatal(w) \/ CheckError(w))
  \/ Panic(w) \/ Hang(w)

Next ==
  \/ Produce \/ RequestShutdown
  \/ Admit \/ SourceError \/ AdmitSend \/ CloseAdmission
  \/ Complete \/ Orphaned \/ Drained
  \/ \E w \in Fetchers : FetchStep(w)
  \/ \E w \in Decoders : DecodeStep(w)
  \/ \E w \in Writers : WriterStep(w)
  \/ \E w \in Workers : WorkerFault(w) \/ AbortWorker(w)
  \/ Crash

(* The scheduler runs every task that can run.  The select! is biased: a   *)
(* shutdown or a completion that stays ready is not passed over for ever   *)
(* by the admission arm below it.  A call returns unless it is hung.       *)
Fairness ==
  /\ WF_vars(Admit) /\ WF_vars(AdmitSend) /\ WF_vars(Orphaned) /\ WF_vars(Drained)
  /\ SF_vars(CloseAdmission) /\ SF_vars(Complete)
  /\ \A w \in Fetchers : WF_vars(FetchStep(w))
  /\ \A w \in Decoders : WF_vars(DecodeStep(w))
  /\ \A w \in Writers : WF_vars(WriterStep(w))
  /\ \A w \in Workers : WF_vars(AbortWorker(w))

Spec == Init /\ [][Next]_vars

FairSpec == Spec /\ Fairness

-----------------------------------------------------------------------------
WorkerState ==
  [pc : {"idle", "busy", "check", "hung", "report", "release", "exited"},
   seq : OptSeqNum, attempt : 0 .. MaxAttempts, checked : BOOLEAN]

FlowTypeOK ==
  /\ manifest \in [produced : OptSeqNum, dequeued : OptSeqNum]
  /\ source \in [cursor : OptSeqNum, pendingAck : OptSeqNum]
  /\ actor \in [pc : {"select", "send", "ok", "failed", "rejected"}, dryRun : DryRuns,
                open : BOOLEAN, inFlight : Nat, lastAck : OptSeqNum,
                groups : Nat, unsent : Seq(SeqNums)]
  /\ queue \in [descriptor : Seq(SeqNums), fetched : Seq(SeqNums),
                commit : Seq(SeqNums), completion : Seq(SeqNums \cup {Fatal})]
  /\ worker \in [Workers -> WorkerState]
  /\ token \in [shutdown : BOOLEAN, abort : BOOLEAN]
  /\ crashes \in 0 .. MaxCrashes
  /\ \A w \in Workers : worker[w].seq = None <=> worker[w].pc \in {"idle", "exited"}
  /\ actor.unsent # <<>> <=> actor.pc = "send"

TypeOK ==
  /\ FlowTypeOK
  /\ written \subseteq SeqNums
  /\ coord \in Coordinator
  /\ permits \in 0 .. MaxInflight
  /\ inFlight \in Nat
  /\ held \in [SeqNums -> Nat]

Elems(q) == {q[k] : k \in DOMAIN q}
Owned == {worker[w].seq : w \in Workers} \ {None}
Units ==
  Elems(actor.unsent) \cup Elems(queue.descriptor) \cup Elems(queue.fetched)
    \cup Elems(queue.commit) \cup Owned

(* INV-NO-ACK-BEFORE-COMMIT: what the actor has passed to ack_through, and *)
(* so what any flush can make durable, is in the sink, after any number of *)
(* restarts in live and in dry-run mode.                                   *)
AckedIsWritten ==
  \A s \in SeqNums :
    (s <= manifest.dequeued \/ s <= source.pendingAck) => s \in written

(* Every permit and every reserved byte belongs to exactly one unit on its *)
(* way through the pipeline: no path, the error, panic and abort paths     *)
(* included, leaks or double-releases one (runtime.rs:490-495).            *)
UnitsConserved ==
  /\ permits + Cardinality(Units) = MaxInflight
  /\ inFlight = Total(held, Units)
  /\ Cardinality(Units) =
       Len(actor.unsent) + Len(queue.descriptor) + Len(queue.fetched)
         + Len(queue.commit) + Cardinality({w \in Workers : worker[w].seq # None})

(* A send between stages never waits: the permits a unit holds bound every *)
(* channel.  The actor's descriptor_tx.send sits outside its select!, so   *)
(* if it could wait, completions, shutdown and abort would wait with it.   *)
StageSendsNeverWait ==
  /\ actor.pc = "send" => HasRoom(queue.descriptor)
  /\ \A w \in Fetchers : worker[w].pc = "busy" => HasRoom(queue.fetched)
  /\ \A w \in Decoders : worker[w].pc = "busy" => HasRoom(queue.commit)

(* The coordinator accepts every range the actor registers and every       *)
(* completion it marks, after restarts with either baseline too: the `?`   *)
(* on register_pending and mark_committed never ends the run.              *)
CoordinatorNeverRejects == actor.pc # "rejected"

(* Ok(()) from run means drained: whatever was registered is committed,    *)
(* acked and durably flushed, and nothing is left in a channel (run's doc, *)
(* runtime.rs:603-605).                                                    *)
CleanExit ==
  actor.pc = "ok" =>
    /\ coord.pending = {} /\ Units \subseteq Owned /\ queue.completion = <<>>
    /\ actor.dryRun \/ manifest.dequeued = source.cursor

(* Reconcile-grow is bounded by the oversize gate: in-flight bytes stay    *)
(* within the capacity plus what every permitted unit may grow             *)
(* (INV-BACKPRESSURE-BOUNDED-MEMORY).                                      *)
MemoryBounded ==
  inFlight <= Capacity + MaxInflight * Max({0, FaultLimit - Estimated})

(* The runtime with its crashes implements AtLeastOnce. *)
Delivery ==
  INSTANCE AtLeastOnce WITH produced <- manifest.produced,
                            delivered <- written, dequeued <- manifest.dequeued

ImplementsAtLeastOnce == Delivery!Spec

-----------------------------------------------------------------------------
(* The inductive invariants.  Where a unit is: in one of the lanes to the  *)
(* workers, or with a worker.                                              *)
Lanes == {"unsent", "descriptor", "fetched", "commit"}
lane ==
  [l \in Lanes |-> CASE l = "unsent" -> actor.unsent
                     [] l = "descriptor" -> queue.descriptor
                     [] l = "fetched" -> queue.fetched
                     [] l = "commit" -> queue.commit]
owner == [w \in Workers |-> worker[w].seq]
(* ... of which a worker at "release" has reported its unit already. *)
unreported == [w \in Workers |-> IF worker[w].pc = "release" THEN None ELSE worker[w].seq]

In(lanes, owners) ==
  {s \in SeqNums : \/ \E l \in Lanes : s \in Elems(lanes[l])
                   \/ \E w \in Workers : s = owners[w]}

(* No unit is in two places. *)
Apart(lanes, owners) ==
  /\ \A l, m \in Lanes : \A j \in DOMAIN lanes[l], k \in DOMAIN lanes[m] :
       lanes[l][j] = lanes[m][k] => l = m /\ j = k
  /\ \A l \in Lanes, w \in Workers : owners[w] \notin Elems(lanes[l])
  /\ \A v, w \in Workers : owners[v] = owners[w] /\ v # w => owners[v] = None

Uncommitted == {r.low : r \in {x \in coord.pending : ~x.committed}}
Reported == Elems(queue.completion) \ {Fatal}
Pipeline == In(lane, unreported)

(* The coordinator tracks what the source has read.  Its frontier is as    *)
(* far as it can be, and nothing above it is dequeued.                     *)
Tracking ==
  /\ manifest.dequeued <= source.cursor /\ source.cursor <= manifest.produced
  /\ Tracks(coord, source.cursor + 1, (0 .. source.cursor) \ Uncommitted)
  /\ coord.lastHigh = None => source.cursor = manifest.dequeued
  /\ coord.lastHigh # None =>
       /\ manifest.dequeued <= Floor(coord)
       /\ Floor(coord) < source.cursor => Floor(coord) + 1 \in Uncommitted

(* A unit is reported once, before it is committed; the ones lost without  *)
(* a report keep the actor waiting.                                        *)
Reporting ==
  /\ Apart(lane, unreported)
  /\ Pipeline \subseteq Uncommitted \ Reported
  /\ Reported \subseteq Uncommitted
  /\ \A j, k \in DOMAIN queue.completion :
       queue.completion[j] = queue.completion[k] /\ j # k => queue.completion[j] = Fatal
  /\ ActorRunning =>
       /\ actor.inFlight = Cardinality(Uncommitted)
       /\ Fatal \in Elems(queue.completion) => ~(Uncommitted \subseteq Pipeline \cup Reported)

(* What has left the coordinator is in the sink, and what is to be acked   *)
(* is at the frontier.                                                     *)
Delivering ==
  /\ 0 .. manifest.dequeued \subseteq written /\ written \subseteq 0 .. manifest.produced
  /\ 0 .. source.pendingAck \subseteq written
  /\ actor.dryRun => source.pendingAck = None
  /\ ~actor.dryRun =>
       /\ (0 .. source.cursor) \ Uncommitted \subseteq written
       /\ Reported \subseteq written
       /\ \A w \in Workers : worker[w].pc = "report" => worker[w].seq \in written
       /\ ActorRunning =>
            /\ actor.lastAck = IF coord.frontier # None THEN coord.frontier ELSE coord.initial
            /\ source.pendingAck \in {None, coord.frontier}
            /\ source.pendingAck = None => actor.lastAck <= manifest.dequeued

(* The inductive invariant behind delivery: between the manifest, the      *)
(* source's cursor, the coordinator and the channels no sequence is lost   *)
(* or reported twice, whichever task fails, and the actor's in_flight      *)
(* counts what the coordinator waits for.                                  *)
IInv ==
  /\ FlowTypeOK /\ Tracking /\ Reporting /\ Delivering
  /\ CleanExit /\ CoordinatorNeverRejects

(* The units that have not been decoded.                                   *)
Undecoded ==
  {s \in SeqNums : \/ \E l \in Lanes \ {"commit"} : s \in Elems(lane[l])
                   \/ \E w \in Fetchers : s = worker[w].seq
                   \/ \E w \in Decoders : worker[w].pc = "busy" /\ s = worker[w].seq}

(* What a unit holds above the estimate. *)
Growth(holds) == [s \in SeqNums |-> Max({0, holds[s] - Estimated})]

(* The permits and bytes of the units on their way.  A unit holds what was *)
(* estimated until it is decoded, at most the fault limit afterwards, and  *)
(* only that growth takes the budget above its capacity.                   *)
Accounts(units, undecoded, free, bytes, holds) ==
  /\ free \in Nat /\ free + Cardinality(units) = MaxInflight
  /\ holds \in [SeqNums -> Nat] /\ bytes = Total(holds, units)
  /\ \A s \in undecoded : holds[s] = Estimated
  /\ \A s \in units : Growth(holds)[s] <= Max({0, FaultLimit - Estimated})
  /\ bytes <= Capacity + Total(Growth(holds), units)

(* The inductive invariant behind the limits: every unit is in one place,  *)
(* and the permits and bytes taken are those of the units, at each await   *)
(* of each task (the guards of a unit travel with it and are dropped with  *)
(* it).                                                                    *)
UnitsInv ==
  /\ Apart(lane, owner)
  /\ In(lane, owner) \subseteq 0 .. source.cursor
  /\ Accounts(In(lane, owner), Undecoded, permits, inFlight, held)

-----------------------------------------------------------------------------
Stopped == ~ActorRunning /\ AllExited(Workers)
Hung == \E w \in Workers : worker[w].pc = "hung"

(* After shutdown.cancelled() run returns: the actor leaves its loop and   *)
(* every worker task ends, whatever fails or panics on the way, unless a   *)
(* call it drains hangs.                                                   *)
ShutdownTerminates == token.shutdown ~> (Stopped \/ Hung)

(* Once the actor has failed, every worker ends, even one whose fetch or   *)
(* Sink::write never returns (runtime.rs:2162-2166): run hands the error   *)
(* to its caller.                                                          *)
FailureUnwinds == actor.pc \in {"failed", "rejected"} ~> AllExited(Workers)

(* A produced sequence is committed and dequeued for good, however writers *)
(* overtake one another and retry, unless the process is shut down or a    *)
(* task of it fails.                                                       *)
EventuallyDequeued ==
  \A s \in SeqNums :
    (manifest.produced >= s) ~>
      \/ manifest.dequeued >= s
      \/ token.shutdown \/ ~ActorRunning \/ Hung
      \/ \E w \in Workers : worker[w].pc = "exited"

-----------------------------------------------------------------------------
(* Statements of the documentation that the code does not keep. *)

(* AckFlushPolicy::EveryCommitGroup: "Replay window after a crash is at    *)
(* most one source range" (runtime.rs:258).                                *)
ReplayWindowIsOneRange ==
  Cardinality({s \in written : s > manifest.dequeued}) <= 1

(* "The runtime calls this on replay (after a crash)" (sink.rs:141): a     *)
(* range the sink already holds is not written again before                *)
(* check_committed has been asked about it.                                *)
ReplayChecksFirst ==
  \A w \in Writers :
    (worker[w].pc = "busy" /\ worker[w].seq \in written) => worker[w].checked
=============================================================================
