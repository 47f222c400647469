\* One writer; late requests and replay under changed chunking and mapping.
SPECIFICATION Spec
CONSTANTS
  Writers = {w1}
  Commits <- OneManifest
  RecordsOf <- ThreeAndNone
  Configs <- Rechunked
  MaxAttempts = 2
  MaxStops = 1
INVARIANTS IInv CommittedIsVisible NewestMappingStands TokenIdentifiesRows
CHECK_DEADLOCK FALSE
