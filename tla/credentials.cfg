CONSTANTS
  User = {u1}
  Challenge = {c1}
  Reset = {t1}
  r1 = r1 r2 = r2
  Request <- MCRequest
  None = None
  RequireMFA = FALSE
  LoginMaxFailures = 1
  MFAChallengeMaxFailures = 2
  MFAUserMaxFailures = 4
  MaxConcurrentResets = 2
  MaxHash = 2
  MaxSecrets = 2
SPECIFICATION Spec
SYMMETRY Symmetry
INVARIANTS CredentialsCurrent SpentOnce
PROPERTIES SecondFactorEnforced
CHECK_DEADLOCK FALSE
