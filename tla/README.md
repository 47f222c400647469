# Verification of the OpenData ingest runtime and its ClickHouse sink

TLA+ specifications of the programs in `src/`, the TLC instances that check
them, and TLAPS proofs about the ack coordinator, the byte budget, the pipeline,
the processes that take over from one another, and the ClickHouse sink with the
chunks it inserts.

## The system

A *producer* appends batches to a *buffer*, a queue kept in an object store
behind a *manifest*; every batch has a sequence number. The *ingest runtime*
(`runtime/opendata-ingest-runtime`) reads descriptors of batches from the
manifest, fetches and decodes the batches, hands them to a *sink*, and dequeues
from the manifest what the sink has committed. The *OTel plugin* decodes OTLP
logs, the *ClickHouse plugin* is a sink that turns decoded logs into insert
chunks, and the *connector* `clickhouse-ingestor` puts the three together in a
process.

| Part | Source | Module | State |
|---|---|---|---|
| Ack coordinator | `ack_coordinator.rs` | `AckCoordinatorOps`, `AckCoordinator` | modelled, proved |
| Byte budget | `source_budget.rs` | `SourceByteBudget` | modelled, proved |
| Pipeline: actor, workers, channels, retry, shutdown | `runtime.rs` | `Runtime` | modelled, without clocks and progress samples; proved |
| Buffer source | `source.rs` | `Runtime`, `Ingestor`, `LogsDecoder` | acks, descriptors and fencing; entry splitting |
| Sink and decoder contracts | `sink.rs`, `decoder.rs`, ... | `Runtime`, `ClickHouseSink` | as choices of the environment |
| Logs adapter | `adapter/` | `LogsAdapter`, `RowFormats` | planning (proved), tokens, rows, encodings of a value, calendar |
| Writer and sink | `writer.rs`, `sink.rs` | `ClickHouseSink` | modelled, without HTTP details; proved |
| Serializers | `serializer/` | `RowFormats` | modelled, against a reader |
| OTLP decoder, envelope | `opendata-ingest-otel` | `Texts`, `LogsDecoder` | modelled, without double-valued attributes |
| Metrics and their server | `metrics*.rs` | - | not modelled (never read back) |
| Binary, configuration | `clickhouse-ingestor` | `Ingestor`, `ClickHouseSink` | start, signals, exit, several processes; not the YAML; delivery proved |

`PROJECT.json` has the same inventory with reasons, the hazards of the code at
the lines where they bite, and the source lines of every definition.

## Modules

**`AckCoordinatorOps`** holds the methods of `AckCoordinator` as operators on a
record with the struct's fields. The coordinator is sequential code behind
`&mut self`, so a method is a function on that record; a rejected call leaves it
as it was. `None` is -1, which makes "the sequence after None" the 0 the code
uses. `saturating_add` is kept (`SaturatingSucc`), with `MaxSeq` for `u64::MAX`.
`Advanced` gives the result of the `advance_frontier` loop in closed form, which
the provers can handle; the run `coordinator` compares it with the loop itself
(`AdvancedIsTheLoop`).

**`AckCoordinator`** calls these operators in any order, with histories of what
was admitted and marked. **`AckFrontier`** is the promise: sequences are admitted
contiguously, committed in any order, and acked exactly as far as everything
below is committed. `AckCoordinator` implements it (`ImplementsAckFrontier`).

**`SourceByteBudget`** has one action per access to a shared atomic: the load and
the compare-exchange of `reserve` are two steps, `attach_stage`, `reconcile` and
`drop` two or three. `woken` is the state of a task's `Notified` future, which is
enabled before the load. Words wrap at `MaxWord`; **`SourceByteBudgetWords`** adds
the assumption under which no sum reaches it. **`Totals`** is the sum of a
function over a finite set, used for bytes here and in `Runtime`.

**`Runtime`** is `Runtime::run` over a manifest and a sink that outlive the
process. It calls the operators of `AckCoordinatorOps`. Its variables are the
locals of the actor, the four channels, the workers, the batch permits, the byte
budget, the two cancellation tokens, and what is durable. **`AtLeastOnce`** is
the promise to the producer; `Runtime`, crashes included, implements it with
`produced`, `delivered` and `dequeued` read off the durable state.

**`LogsDecoder`** is the way of a fetched batch to decoded records: the split
into entries with their metadata, the envelope checks of `accepts` and `decode`,
and the walk through the resources, scopes and logs of a request, with
attributes, positions and sizes. `Runtime` takes the outcome of a decode as a
choice. **`Texts`** has the strings and numbers that the decoder prints and the
adapter parses. A byte has `ByteBits` bits (3 in the run), a word still eight
bytes, and digits have base `Radix`, so that whole words fit TLC's integers.

**`RowFormats`** is an insert on the wire: the columns of a row, RowBinary and
JSONEachRow, and the hand-written calendar. How ClickHouse reads a body back is
external: the RowBinary reader goes by the types the header names, the JSON
reader by those of the table.

**`LogsAdapter`** is the adapter's `plan` as operators. **`ClickHouseSink`** runs
them in a sink with retries, against a table that is modelled as ClickHouse
behaves towards this code: an insert whose token is in a bounded window is
answered 200 and dropped, and rows with equal sort key collapse to the one with
the greatest `_adapter_version`. The stable sort is given by the place of each
record, which the provers can handle and `batch` compares with the order of the
keys; an `Insert` carries its rows and its token, so that a request on the wire
is the same whatever the process is configured with when it lands.

**`Ingestor`** is `main` of the binary, in several processes over one manifest:
load, take the manifest over, build (which may refuse the configuration), run,
return, wait for the metrics task. A consumer that starts raises the epoch; one
of an older epoch is fenced and learns it at its next durable call. The pipeline
inside a process is coarser than in `Runtime`: a unit is admitted, written in any
order and reported, and the acks follow the same `AckCoordinatorOps`. It
implements `AtLeastOnce` for all processes together. Nothing is kept of a process
that is down, except what a kill cut off.

The theorems are in modules of their own, named `...Proofs` (see Proofs); the
decoder and the formats have none.

Operators whose comment begins with "Mutant" are plausible faults of the
operator below them. They are in no specification; substituting one for its
neighbour makes TLC find a violation, which shows that the property depends on
the code it is about.

### Where steps are merged, and why that is sound

* A step of `Runtime` runs a task from one await to the next. An admission
  (gate, further gates, `next_descriptors`, registration) is one step: only the
  actor acquires permits and bytes, so what others do meanwhile can only make
  more room. A `try_reserve` that loses a race takes fewer gates, so `Admit`
  takes any number up to `k_target`. An empty poll gives everything back and is
  a stuttering step.
* Sends between stages are merged with the work before them: the invariant
  `StageSendsNeverWait` shows that they never wait. Completions can wait, and are
  steps of their own, as is the release of the permit after the completion.
* The actor's own hard-abort arm is left out: the token is cancelled only after
  the actor has returned an error.
* A dropped or crashed sink call may have been applied; `AbortWorker`, `Panic`
  and `Crash` choose.
* What is left in a channel when its receivers have gone keeps its permit until
  `run` returns, as in the code.
* `reconcile` and `reserve` are single steps in `Runtime`; `SourceByteBudget` has
  their interleavings.

## Runs

| Run | Shows |
|---|---|
| `coordinator` | any order of calls, without a baseline or from any below `u64::MAX`: no hole is crossed, pending ranges tile the tail, the frontier is monotonic, the abstract frontier is implemented |
| `budget` | two tasks, two stages, requests up to ones that overflow the word: bytes are conserved in every stage, only growth oversubscribes, no wake-up is lost; the inductive invariant of the proof holds |
| `runtime_crash` | retries, ambiguous commits, failed flushes, a crash and restart with either baseline, live or as a dry run: nothing unwritten is acked, the coordinator never rejects the actor, sends never wait, at-least-once is implemented; and with batches of unexpected size: permits and bytes conserved at every await (`UnitsInv`, inductive), memory bounded by capacity plus the growth the oversize gate allows, a clean exit has flushed all |
| `runtime_faults` | every failure, panics, and calls that never return: nothing leaks, the inductive invariant behind delivery holds (in it: a run that returns `Ok` has drained and flushed everything), shutdown ends the run unless a call hangs, a failure unwinds all workers even then, and unless a task fails or hangs everything produced is dequeued |
| `batch` | every entry gets the metadata of its range, a batch is decoded as a whole or not at all, every record becomes a row of its own that shows its own resource and scope, `plan` keeps every record, in order, in greedy chunks; a RowBinary body reads back as the rows, JSON gives the same rows but for the server's time zone, dates are calendar dates |
| `sink` | partial failures, late requests, expiring tokens and a restart with another chunking or row mapping lose nothing and never show an older mapping; the inductive invariant of the proof holds |
| `takeover` | a second process takes the manifest from the first: together they deliver at least once, success means all read is dequeued, the fenced one halts, the last one gets through the backlog |

Five runs show that the code does something else than its documentation says
(`findings` in `PROJECT.json` quotes the lines):

| Run | Documentation | Code |
|---|---|---|
| `budget_max` | `reserve` parks when `in_flight + bytes > capacity` | at a capacity of `u64::MAX` the saturating test always passes, and the sum it exchanges wraps |
| `runtime_replay_window` | replay window of at most one source range | every range committed ahead of a slower one is replayed |
| `runtime_replay_check` | `check_committed` is called on replay | only after an ambiguous failure in the same process |
| `sink_manifests` | two manifests may share a table | the sort key has no manifest, rows at equal positions collapse |
| `sigterm` | `SIGINT` and `SIGTERM` drain in-flight inserts | only `SIGINT` is handled; `SIGTERM` ends the process at once |

All but `sink_manifests` lose no data: at-least-once holds all the same. The
reservation of `budget_max` is the configured `estimated_max_batch_bytes`, taken
before any byte is read, so two batches in flight suffice if the estimate is above
2^63; `tests/pipeline.rs:628-662` runs with both settings at `u64::MAX` and one
batch.

Differences met while modelling that have no run of their own:

* `EveryN` is documented as "Flush after `n` committed source ranges."
  (`runtime.rs:262`); the code counts advances of the frontier, each of which may
  cover many ranges.
* Of a batch with mixed envelopes the connector's README says that "the ingestor
  will retry the batch indefinitely" (line 216); the decoder's error is fatal, and
  the process ends. A supervisor that restarts it makes it meet the batch again.
* `DecodedLogRecord` speaks of resource, scope and log attributes "pre-merged
  into a single map" (`opendata-ingest-otel/src/logs.rs:60-61`); there are two
  maps, and a scope attribute replaces a log attribute of the same key.
* A timestamp of 2^63 ns or more is negative in RowBinary and a date after 2262
  in JSON; the code notes that real timestamps fit `i64`, and
  `BinaryReadsBackRows` and `FormatsAgreeUpToZone` assume it.
* `format_datetime64_ns` says that it formats as "YYYY-MM-DD
  HH:MM:SS.NNNNNNNNN UTC" (`adapter/mod.rs:155-156`); the text names no zone
  (line 172), and neither do the columns (`adapter/logs.rs:365-366, 382`). A server
  in another zone takes the text for local time. JSON and RowBinary then store
  instants that differ by the zone's offset, perhaps on different days, and the day
  is in the sort key: rows written in one format do not replace those written in
  the other. `FormatsAgreeUpToZone` has the exact difference, for a zone east, one
  west of, and at UTC.

### Bounds

Six sequences in `coordinator` allow ranges of several lengths at every baseline
below `u64::MAX` (`MaxSeq`), with sequences up to it. A supplied baseline of
`u64::MAX` itself is left out: nothing follows it, but the saturating successor
would let `register_pending(MAX, MAX)` pass (`ack_coordinator.rs:190`). `Runtime` has three sequences in the safety runs,
enough for two commits to overtake a third and for a range to be registered
while another is pending at the head, and two in the run with liveness. Two
fetchers and two writers in `runtime_crash` give out-of-order completion;
`runtime_faults` has one fetcher, one decoder and two writers, so that one writer
can fail while another hangs. Batches in `runtime_crash` shrink, grow to the
oversize limit, or exceed it, and its policy is a flush after every second commit
group; the other runs of `Runtime` flush after every one. Workers of a pool are
interchangeable, so the safety runs use symmetry (runs with liveness properties
do not). Two permits make channels, permits and the budget reach their limits.
One crash suffices to lose every volatile variable in any state; a second would
start from a state the first already reaches, apart from the manifest, which
only grows. Whether a process runs dry is chosen when it starts. In `budget`,
capacity 3 with requests of 2 and 3 and growth to 4 fills, overfills and exactly
fills the budget, and a request of 14 of 15 overflows the word together with what
is in flight: the saturating test refuses it. `budget_max` has a capacity of the
whole word and a request of more than half of it.

`batch` tries `plan` on all orders of up to four records with sizes below, at and
above the thresholds, and batches of up to three entries and three metadata
ranges, empty and out of reach included. Texts and maps have sizes whose
varuint takes one, two and three bytes, numbers lie at the ends of their types,
and the years are the first, leap and common ones, and centuries of both kinds,
up to where `u64` nanoseconds end. A request has two resources, the first with
any two attributes. The first metadata range begins at entry 0, as in the tests
of `source.rs` (the buffer crate is not part of the repository).
`sink` has one writer, since the commits of several have different tokens and
rows and meet only in the token window, which may forget a token at any time; the
proof is for any number of writers. Three records in chunks of two
leave a commit half written; two attempts give retries within a commit and of
the commit; one stop lets the process come back with any of four configurations.

`takeover` has two sequences, two processes and two starts, with four
configurations: the usual one, a flush after every second commit group, a dry
run, and one that `build` refuses. Two starts give every overlap of a process
with its successor, or one restart.

`EventuallyDequeued` is checked with the policy of a flush after every commit
group. With `EveryN` and a source that has gone idle, ranges acked since the last
flush wait for the next commit or for shutdown.

`CHECK_DEADLOCK FALSE` is set where the process stops for good: `Runtime` after
`run` has returned, `ClickHouseSink` when everything is written, `Ingestor` when
no start is left.

### Fairness

`FairSpec`: a task that can run is run (the executor is fair), hence weak
fairness on every task. The `select!` of the actor is `biased` with shutdown and
completions above admission, so these two arms are not passed over for ever:
strong fairness. Sink and source calls return, because requests have timeouts.
Failures, shutdown, production and crashes are never forced. A call that hangs
is a fault of its own: the worker is then `hung` and leaves only through the hard
abort, so fairness promises nothing of it. In `Ingestor` some task of a running
process runs; starting, connecting and failing are not forced, and
`LeaderDequeuesAll` is about a leader that is left to run.
In `SourceByteBudget` a call once begun proceeds, and a reservation is dropped in
the end.

## Proofs

Every theorem holds for all values of the constants that satisfy the named
assumptions. The runs check each of the inductive invariants below on their
instances; that of `Ingestor` holds in the instance of `takeover` too, which
lists only its consequences.

| Module | Theorem | States |
|---|---|---|
| `AckCoordinatorProofs` | `Invariance`, `TypeCorrect` | `Spec => []IInv`, `Spec => []TypeOK` |
| | `NeverOverHole`, `PendingTiles` | `[]FrontierNeverOverHole`, `[]PendingTilesTail` |
| | `Monotonic`, `Refinement` | `FrontierMonotonic`, `ImplementsAckFrontier` |
| `SourceByteBudgetProofs` | `BudgetInvariant` | `[]IInv` |
| | `BytesAreConserved`, `OversubscriptionIsGrowth` | `[]BytesConserved`, `[]OversubscriptionBounded` |
| | `NotifyIsNotMissed` | `[]NoMissedNotify` |
| `RuntimeProofs` | `RuntimeInvariant` | `[]IInv` |
| | `NoAckBeforeCommit`, `CoordinatorAcceptsAll`, `OkMeansDrained` | `[]AckedIsWritten`, `[]CoordinatorNeverRejects`, `[]CleanExit` |
| | `RuntimeDeliversAtLeastOnce` | `ImplementsAtLeastOnce` |
| `RuntimeUnitsProofs` | `UnitsInvariant`, `PermitsAndBytesConserved` | `[]UnitsInv`, `[]UnitsConserved` |
| | `MemoryIsBounded`, `StageSendsFindRoom`, `RuntimeTypes` | `[]MemoryBounded`, `[]StageSendsNeverWait`, `[]TypeOK` |
| `IngestorProofs` | `IngestorInvariant`, `SuccessIsDequeued` | `[]IInv`, `[]SuccessMeansDequeued` |
| | `ProcessesDeliverAtLeastOnce` | `AtLeastOnceAcrossProcesses` |
| `ClickHouseSinkProofs` | `PlanCutsGreedily` | what `Plan` returns, for any records and thresholds |
| | `PlansAreAccepted` | the guards of `write` and `plan` refuse no commit |
| | `SinkInvariant`, `TokensIdentifyRows` | `[]IInv`, `[]TokenIdentifiesRows` |
| | `ReplayResolvesToNewest`, `OkMeansVisible` | `[]NewestMappingStands`, `[]CommittedIsVisible`, if one manifest feeds the table |

`OperatorProofs` and `RuntimeFlowProofs` hold lemmas only. `OperatorProofs`
builds on `AckCoordinatorOps` and brings its constant `MaxSeq` into the modules
that use it for sums alone, where it plays no part.

### Assumptions

* `MaxSeqAssumption`: `MaxSeq` is a natural number.
* `BudgetAssumption`: capacity and sizes are words, there are finitely many
  tasks. `WordsSuffice` (in `SourceByteBudgetWords`): the capacity is not the whole
  word, and it and the sizes reconciled to fit the word once per task. Nothing is
  assumed of the estimates that `reserve` is called with. This is a restriction of
  the configuration, which `validate_backpressure` does not check: `budget_max` is
  the run in which it does not hold.
* `RuntimeAssumption`: three non-empty, disjoint, finite pools of workers, at
  least one permit, and an estimate within the capacity (`validate_backpressure`
  refuses others, `runtime.rs:1000-1024`). The sums of `Runtime` are natural numbers
  and do not wrap, as `WordsSuffice` has it. Nothing is assumed of `Faults`, of the sizes decoded, of the number of crashes, or of the flush
  policy.
* `IngestorAssumption`: finitely many processes, and a non-empty set of
  configurations of any kind.
* `SinkAssumption`: the records of a commit are of its manifest, at positions
  and with sizes that are natural numbers, a manifest has one commit for a
  sequence, and versions and thresholds are natural numbers, zero included
  (`plan` raises a threshold of zero to one). Nothing is assumed of the number of
  writers, commits, configurations or stops.
* `OneManifestPerKey`, a hypothesis of two theorems about the sink and not an
  assumption of the module: no two manifests have records at the same position.
  It cannot be dropped: `sink_manifests` is the run in which it does not hold.

### The coordinator

None of the invariants is inductive alone. That the frontier never crosses a
hole needs to know that the ranges popped are committed and leave no gap between
them: the first is `MarksAgree` (the bit of a range agrees with the history of
marks), the second `PendingTilesTail`. Tiling in turn needs `FieldsAgree`, which
ties the baseline, the frontier and the last registered sequence together, and
that nothing is pending before the first registration. `IInv` is their
conjunction. `AdvanceCuts` carries the argument: in a tiling, what
`advance_frontier` pops is a prefix, so the last range popped separates the
marked sequences from the rest of the tiling. The refinement adds
`PoppedIsMaximal`: the prefix popped is the longest committed one, so one call
acks everything the abstract frontier acks.

`OperatorProofs` states what the other components need of a
coordinator that gets unit ranges in order, with one predicate, `Tracks(c, next,
done)`: it is registered up to `next`, and waits for all that is not done.
Registering a run preserves it (`RunNext`), and so does a completion, marked and
advanced over (`CompletionAdvances`).

### The budget

A step changes one task and at most two words. `MovesIInv` reduces the invariant
to what the step does to the counters and to the charge of its task, and there is
one lemma per atomic access. Conservation is inductive only with `TaskOK`, which
knows for every point of a call what the reservation holds and where it is
counted, and that a reservation holds what was granted within the capacity or
settled on, whatever was asked for. `NoMissedNotify` needs to look back to the load: a claim that saw bytes
in flight, and has not been notified since its future was enabled, is owed a
notify already, before it parks. That is the clause of `IInv` between
`OversubscriptionBounded` and `NoMissedNotify`, and it is why the code enables
the future before the load.

### The pipeline

Delivery and limits have one inductive invariant each. `IInv` has four parts
beside the types: `Tracking` (the coordinator tracks what the source has handed
out, and waits at the first uncommitted sequence), `Reporting` (a unit is
reported once, `in_flight` counts the uncommitted ones, and after a `Fatal` some
unit is lost, so that the actor cannot find itself drained), `Delivering` (what is
committed, reported or about to be reported is in the sink, unless it is a dry
run), and `CleanExit` and `CoordinatorNeverRejects` themselves, which are about
steps of the past. `CleanExit` is why `Reporting` must follow lost units: a
worker that fails drops its unit, and the drain must not succeed for that.

`UnitsInv` says that a unit is in one place (`Apart`), that no unit is beyond the
source's cursor, and that permits and bytes are those of the units, undecoded
ones at the estimate (`Accounts`). `MemoryBounded` follows by summing the growth
over at most `MaxInflight` units, and `StageSendsNeverWait` by counting: every
unit in a channel has a permit, and a channel has room for all permits.

`RuntimeFlowProofs` has the lemmas on channels and workers that both
use: a step of a worker takes a unit from at most one place and puts it in at
most one (the ways of a unit), so each invariant has one lemma per way and the
actions are instances. It also has the worker's half of the proof that `IInv` is
kept; `RuntimeProofs` has the actor's, the crashes and the theorems on delivery,
`RuntimeUnitsProofs` those on permits and bytes.

### The processes

`Working` is `Tracking` and `Delivering` for one process that may have been
fenced: its cursor may lag behind the manifest only if its epoch does. `IInv`
adds that no two processes have an epoch in common, without which two processes
could flush to the manifest, and one find dequeued what it has yet to read. `OthersKeep`
shows that a step of one process cannot harm another: the manifest's numbers
and the sink's rows only grow.

### The plan and the sink

`PlanCutsGreedily` is about the adapter alone. `PlacesFollow` and `PlacesTaken`
show that the places of the stable sort are a permutation that follows the
order of the keys. `LoopInv` is the invariant of the chunking loop (`PushRecords`):
the chunks closed so far and the open one are a prefix of the sorted records, cut
greedily (`GreedyCut`). That no record is lost at a boundary or by the last flush
is the clause of `GreedyCut` that every index is in some chunk.

`CommittedIsVisible` is far from inductive. The server answers 200 to a request it
drops, so an acknowledged chunk is in the table only if whatever left its token in
the window had the same rows and has put them there: `WindowIsInTable`, with
`TokenIdentifiesRows`, which follows from `sent` being inserts of some plan
(`TypeOK`) and from the token having all that a plan depends on. `write` sends
the chunks one after another and starts at the first again after a failure,
hence `ChunksInOrder`: the chunks before the one in hand are in the table. All
of them are of one plan because a worker has no job while the process is down,
which is when the configuration changes (`WritersApart`). At the last chunk
these give `AckedIsInTable`, and `PlanCutsGreedily` that the chunks hold every
record of the commit. `IInv` is the conjunction, with the finiteness of the
table.

Being in the table is not being visible: rows of the same key are merged. Of the
rows at a key the one with the greatest version stands, if there is one and no
other row has both the key and the version. A finite table has a greatest version, and rows
agree in key, manifest and version only if they are equal, so that the manifest
is what remains: `OneManifestPerKey`. The row that stands has at least the
version of any acknowledgement, since `AckedIsInTable` has a row of that version;
this is `NewestMappingStands`, and `CommittedIsVisible` follows.

### Induction over data

The library's induction theorems take an operator as a parameter and cannot be
used with the installed provers, but a minimal counterexample can:
`LeastExists` gives the least number that fails and `MinimalSubset` a smallest
finite set, and the argument is first-order from there. `OperatorProofs` proves
in that way that `Total` satisfies its recursion, and from it the effect of an
update, a union and a bound, and what `RegisteredRun` computes;
`ClickHouseSinkProofs` what the chunking loop computes.

### Model-checked only

* Liveness, which is outside the prover's reach: `ParkedIsWoken`,
  `ShutdownTerminates`, `FailureUnwinds`, `EventuallyDequeued`, `FencedHalts` and
  `LeaderDequeuesAll`.
* `AdvancedIsTheLoop`, which is about a recursive operator.
* `PlanIsGreedyChunking` as `batch` words it, with the library's `FlattenSeq`.
  `PlanCutsGreedily` proves its content with indices in place of the flattening.
* The properties of `LogsDecoder` and `RowFormats`: they compare folds and
  recursive functions over words, texts and requests with a reference, and are
  checked at the ends of every type.

## Not modelled

* Time: back-off, poll interval and timeouts are choices that may happen at any
  point.
* Parsing of the YAML and the environment, and the metrics server. A metrics
  server that cannot bind is logged and does not end the process.
* The `AckCoordinators` registry, which `build` gives a single source.
* Double-valued attributes, whose text is the standard library's.
* The benchmarks and the test support.
* More than one source in a runtime (`build` takes one).
* The chunking fingerprint is taken to be free of collisions.
* Wording of errors, metrics, tracing, and the hooks of the test builder.
* In `ClickHouseSink`, the payload of records: rows are told apart by manifest,
  position and mapping version. `RowFormats` has the payload.
* The table's TTL (`adapter/logs.rs:388`), and the day and service of its sort key,
  which are alike for all records of `ClickHouseSink`. What is said to be visible is
  so until it expires; a record with time 0 expires at once.
* In `ClickHouseSink`, the checks of the identity's range and of the payload's type
  at the head of `write` (`sink.rs:151-169` of the plugin): both are fatal, and the
  runtime builds no commit that fails them.

## Plan

1. The resolution of retry settings and the composition of two retry loops
   (`effective_retry_max_attempts` around `execute_chunk`).
2. `Runtime`'s sink contract implemented by `ClickHouseSink`.
