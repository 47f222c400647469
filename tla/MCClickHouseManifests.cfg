\* Two manifests into one table.
SPECIFICATION Spec
CONSTANTS
  Writers = {w1, w2}
  Commits <- TwoManifests
  RecordsOf <- OneRecordEach
  Configs <- Default
  MaxAttempts = 1
  MaxStops = 0
INVARIANTS ManifestsShareTable
CHECK_DEADLOCK FALSE
