\* Every failure, panics and calls that hang included, and the shutdown that follows.
SPECIFICATION FairSpec
CONSTANTS
  MaxSeq = 1
  Fetchers = {f1}
  Decoders = {d1}
  Writers = {w1, w2}
  MaxInflight = 2
  PerPoll = 2
  Capacity = 4
  Estimated = 1
  OversizeMultiplier = 2
  Actuals = {1}
  FlushEvery = 1
  DryRuns = {FALSE}
  MaxAttempts = 1
  Faults = {"source", "fetch", "decode", "notCommitted", "maybeCommitted", "sinkFatal", "flush", "panic", "hang"}
  MaxCrashes = 0
CHECK_DEADLOCK FALSE
INVARIANTS IInv UnitsConserved
PROPERTIES ShutdownTerminates FailureUnwinds EventuallyDequeued
