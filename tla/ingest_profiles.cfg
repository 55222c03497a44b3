CONSTANTS
  i1 = i1 i2 = i2 i3 = i3 i4 = i4 k1 = k1
  Item = {i1, i2, i4}
  NoKey = NoKey
  Bytes <- MCBytes
  DedupKey <- MCKeys
  Invalid = {i4}
  Capacity = 1
  MaxBytes = 3
  BestEffort = TRUE
  BatchSize = 2
  MaxAttempts = 2
  MaxRecordDrops = 1
SPECIFICATION FairSpec
INVARIANTS TypeOK BytesAccounted
PROPERTIES ImplementsContract AcceptedSettles ShutdownCompletes
CHECK_DEADLOCK FALSE
