SPECIFICATION Spec
CONSTANTS
  u1 = u1
  u2 = u2
  u3 = u3
  e1 = e1
  e2 = e2
  e3 = e3
  r1 = r1
  r2 = r2
  User <- MCUser
  Email <- MCEmail
  i1 = i1
  i2 = i2
  Invite <- MCInvite
  Subject = {s1}
  Request <- MCRequest
  None = None
  UserLimit = 2
  Slot <- MCSlot
  Hours = 2
  MaxFaults = 2
  Operations <- MCOperations
  Workloads <- MCWorkloads
SYMMETRY Symmetry

  
PROPERTIES
  ManagerRemains
  
CHECK_DEADLOCK FALSE
