\* Commits of up to four records, thresholds from zero up; batches of up to
\* three entries in up to three metadata ranges.
SPECIFICATION Spec
CONSTANTS
  MaxRecords = 4
  RecordBytes = {0, 1, 3}
  Rows = {0, 1, 2, 3}
  Bytes = {0, 2, 3, 4}
  MaxEntries = 3
  MaxRanges = 3
  Years = {1970, 1972, 1999, 2000, 2001, 2099, 2100, 2101, 2400, 2553, 2554}
  ByteBits = 3
  NanosPerSecond = 10
  Radix = 5
INVARIANTS
  EntryTakesItsRange DecodesAllOrNothing RecordsKeepApart
  PlanIsGreedyChunking
  BinaryReadsBackRows RowsCarryTheirPayload FormatsAgreeUpToZone DatesAreCalendarDates
