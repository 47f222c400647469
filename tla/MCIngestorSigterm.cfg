\* One process, one start.
SPECIFICATION Spec
CONSTANTS
  MaxSeq = 1
  Processes = {p1}
  Configs <- SomeConfigs
  MaxLaunches = 1
INVARIANT SignalsDrain
CHECK_DEADLOCK FALSE
