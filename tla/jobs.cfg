CONSTANTS
  Instance = {n1, n2}
  Job = {j1, j2}
  Nobody = Nobody
  MaxFaults = 3
  MaxStops = 1
  Event = {b1, e1, e2, e3}
  Broken = {b1}
  Grouper = {g1}
  NoEvent = NoEvent
  PageSize = 2
  PassLimit = 2
SPECIFICATION MCSpec
 
PROPERTIES JobsKeepGoing TriedAgain
CHECK_DEADLOCK FALSE
