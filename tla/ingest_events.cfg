CONSTANTS
  i1 = i1 i2 = i2 i3 = i3 i4 = i4 k1 = k1
  Item = {i1, i2, i3, i4}
  NoKey = NoKey
  Bytes <- MCNoBytes
  DedupKey <- MCKeys
  Invalid = {i3}
  Capacity = 1
  MaxBytes = 0
  BestEffort = FALSE
  BatchSize = 2
  MaxAttempts = 2
  MaxRecordDrops = 0
SPECIFICATION Spec
INVARIANTS PendingIsInFlight Conservation MemoryBound
  OutcomeIsTruthful DrainIsComplete
CHECK_DEADLOCK FALSE
