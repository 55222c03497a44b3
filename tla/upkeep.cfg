CONSTANTS
  s1 = s1
  s2 = s2
  h1 = h1
  h2 = h2
  j1 = j1
  j2 = j2
  q1 = q1
  q2 = q2
  w1 = w1
  w2 = w2
  Slot = {s1, s2}
  Hash = {h1, h2}
  Contents <- MCContents
  Script = {j1, j2}
  Uploader = {u1}
  Deleter = {d1}
  Reader = {q1, q2}
  Workload <- MCWorkload
  Size <- MCSize
  CacheBytes = 2
  CacheMax = 2
  FlightMax = 1
  None = None
  Policy = {"age", "cron", "rows", "bytes", "firings", "tokens"}
  Worker = {w1, w2}
  Row = {1, 2, 3}
  MaxTime = 2
  Age = 1
  Limit = 1
  MaxSize = 2
  MaxBatch = 2
  MaxIDs = 2
  Lines = 2
  Columns <- MCColumns
  Original <- MCOriginal
  Sources = 1
  Offsets <- MCOffsets
  Unknown = Unknown
SPECIFICATION MCSpec
SYMMETRY Symmetry
INVARIANTS MapsReadable CachesTrustworthy PositionsResolve
PROPERTIES OnlyExpired 
CHECK_DEADLOCK FALSE
