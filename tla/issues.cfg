CONSTANTS
  e1 = e1 e2 = e2 e3 = e3 f1 = f1 f2 = f2 f3 = f3 g1 = g1 g2 = g2 a1 = a1 a2 = a2
  None = None
  Event = {e1, e2}
  Fp = {f1, f2}
  FpOf <- MCFpOf
  LegacyFp <- MCLegacyFp
  N1Fp = {f2}
  Limits = {2}
  Grouper = {g1, g2}
  MaxIssues = 3
  MaxN1 = 2
  Name <- MCName
  Payload <- MCPayload
  Default = Default
  Undecodable = Undecodable
  Null = Null
SPECIFICATION MCSpec
SYMMETRY Symmetry
INVARIANTS EventsFollowFingerprint IssueRowSound GroupedByProblem
PROPERTIES NeverUngrouped
CHECK_DEADLOCK FALSE
