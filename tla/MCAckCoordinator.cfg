CONSTANT MaxSeq = 5
SPECIFICATION Spec
INVARIANTS
  IInv
  FrontierNeverOverHole
  AdvancedIsTheLoop
PROPERTIES
  FrontierMonotonic
  ImplementsAckFrontier
