\* Capacity u64::MAX: two estimates that overflow the word together.
SPECIFICATION Spec
CONSTANTS
  Tasks = {t1, t2}
  Stages = {"source", "decode"}
  Capacity = 7
  MaxWord = 7
  Sizes = {0, 5}
  Actuals = {0, 1}
INVARIANTS ReservedWithinCapacity
