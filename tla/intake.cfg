CONSTANTS
  e0 = e0
  e1 = e1
  e2 = e2
  e3 = e3
  e4 = e4
  b1 = b1
  b2 = b2
  c1 = c1
  c2 = c2
  Workload <- MCWorkload
  r1 = r1
  r2 = r2
  Request <- MCRequest
  BogusKey <- MCBogusKey
  Client <- MCClient
  CacheMax = 1
  TTL = 2
  Window = 1
  EnvelopeLimit = 2
  UnknownLimit = 1
  MaxKeys = 1
  EventLimit = 1
  Envelope <- MCEnvelope
  Kinds <- MCKinds
  Transaction <- MCTransaction
  Builtin = {"email", "ip"}
  MaxSamples = 3
  MaxDuration = 3
  MaxChunkDuration = 2
  Lookback = 2
  MaxChunks = 2
  MaxFutureSkew = 1
  ServerNow = 4
  Forwards = {0, 2}
  Worker = {w1, w2}
  QueueSize = 1
  MaxTime = 3
  None = None
SPECIFICATION Spec
SYMMETRY Symmetry
INVARIANTS SettingsFresh  ForwardedOnce  ProfilesDraw
CHECK_DEADLOCK FALSE
