CONSTANTS
  i1 = i1
  i2 = i2
  p1 = p1
  p2 = p2
  Rule = {r1}
  Item = {i1, i2}
  Project = {p1, p2}
  Kind <- MCKind
  Of <- MCOf
  Trigger = {"new_or_regressed", "log_count"}
  ProjectIDs = {{}, {p1}}
  None = None
  Slow = {i2}
  MaxAttempts = 3
  MaxPending = 1
  MaxFaults = 1
  MaxEdits = 1
SPECIFICATION FairSpec
INVARIANTS NothingEscapes  ScopeRespected
PROPERTIES PendingResolves ItemAlerted
CHECK_DEADLOCK FALSE
