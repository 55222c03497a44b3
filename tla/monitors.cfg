CONSTANTS
  c1 = c1
  c2 = c2
  r1 = r1
  r2 = r2
  Checkin <- MCCheckin
  Request <- MCRequest
  Schedule = {1, 2}
  Grace = 0
  MaxTime = 3
  Monitor = {m1, m2}
  Worker = {w1, w2}
  MaxConcurrent = 1
  Threshold = 2
  MaxFaults = 1
  MaxEdits = 2
  None = None
SPECIFICATION FairSpec
 
PROPERTIES OutageIsNoticed
CHECK_DEADLOCK FALSE
