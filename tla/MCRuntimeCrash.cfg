\* Batches of several sizes against a tight budget, EveryN flushing, retries,
\* ambiguous writes, failed flushes and a crash with replay.
SPECIFICATION Spec
CONSTANTS
  MaxSeq = 2
  Fetchers = {f1, f2}
  Decoders = {d1}
  Writers = {w1, w2}
  MaxInflight = 2
  PerPoll = 2
  Capacity = 4
  Estimated = 2
  OversizeMultiplier = 2
  Actuals = {1, 4, 5}
  FlushEvery = 2
  DryRuns = {TRUE, FALSE}
  MaxAttempts = 1
  Faults = {"notCommitted", "maybeCommitted", "flush"}
  MaxCrashes = 1
CHECK_DEADLOCK FALSE
SYMMETRY WorkerSymmetry
INVARIANTS
  TypeOK AckedIsWritten StageSendsNeverWait CoordinatorNeverRejects
  UnitsInv MemoryBounded CleanExit
PROPERTIES ImplementsAtLeastOnce
