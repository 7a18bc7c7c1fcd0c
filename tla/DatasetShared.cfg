CONSTANTS
  dev = dev
  cal = cal
  hold = hold
  twin = twin
  stray = stray
  bad = bad
  raw = raw
  Records <- MCFewRecords
  PartitionOf <- MCFewPartitionOf
  LineagesOf <- MCFewLineagesOf
  KeysOf <- MCFewKeysOf
  Blocked = {}
  Graded <- MCFewGraded
  Processes = {p1, p2}
  Batches <- MCFewBatches
  Reingest = TRUE
  MaxLog = 2
SPECIFICATION Spec
INVARIANT AlwaysAnalysable
SYMMETRY MCSymmetry
