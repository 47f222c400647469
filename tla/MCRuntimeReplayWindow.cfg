\* Concurrent writers under EveryCommitGroup.
SPECIFICATION Spec
CONSTANTS
  MaxSeq = 2
  Fetchers = {f1}
  Decoders = {d1}
  Writers = {w1, w2}
  MaxInflight = 2
  PerPoll = 2
  Capacity = 4
  Estimated = 1
  OversizeMultiplier = 2
  Actuals = {1}
  FlushEvery = 1
  DryRuns = {FALSE}
  MaxAttempts = 1
  Faults = {}
  MaxCrashes = 0
CHECK_DEADLOCK FALSE
INVARIANTS ReplayWindowIsOneRange
