CONSTANTS
  Instance = {n1, n2}
  Job = {j1}
  Nobody = Nobody
  MaxFaults = 1
  MaxStops = 0
SPECIFICATION FairSpec
INVARIANT OneInstanceAtATime
CHECK_DEADLOCK FALSE
