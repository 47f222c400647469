\* Two processes and two starts over a manifest of two sequences.
SPECIFICATION FairSpec
CONSTANTS
  MaxSeq = 1
  Processes = {p1, p2}
  Configs <- SomeConfigs
  MaxLaunches = 2
INVARIANT SuccessMeansDequeued
PROPERTIES AtLeastOnceAcrossProcesses FencedHalts LeaderDequeuesAll
CHECK_DEADLOCK FALSE
