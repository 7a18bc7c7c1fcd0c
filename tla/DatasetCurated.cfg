CONSTANTS
  dev = dev
  cal = cal
  hold = hold
  twin = twin
  stray = stray
  bad = bad
  raw = raw
  Records <- MCRecords
  PartitionOf <- MCPartitionOf
  LineagesOf <- MCLineagesOf
  KeysOf <- MCKeysOf
  Blocked <- MCBlocked
  Graded <- MCGraded
  Processes = {p1}
  Batches <- MCBatches
  Reingest = FALSE
  MaxLog = 4
SPECIFICATION Spec
INVARIANTS TypeOK ChangelogExplains AlwaysAnalysable ReportsRespectSeals FrozenVersionNamesRecords
PROPERTY HistoryLostOnlyMidWrite
