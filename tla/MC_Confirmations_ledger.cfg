SPECIFICATION Spec
CONSTANTS
  c1 = c1
  c2 = c2
  t1 = t1
  t2 = t2
  s1 = s1
  s2 = s2
  s3 = s3
  l1 = l1
  l2 = l2
  NoSession = NoSession
  Sessions = {s1, s2}
  Lanes = {l1, l2}
  Calls = {c1}
  Tools = {t1}
  ToolOf <- OneCall
  Withheld = {}
  Manual = {c1}
  ConfirmFirst = {c1}
  EpochCap = 1
  RefusedCap = 1
  MaxSteps = 1
  BatchSize = 2
  Parallel = {l1}
  MaxTurns = 3
INVARIANTS
  LedgerIsExact
  OneApprovalOneRun
SYMMETRY LedgerSymmetry
CHECK_DEADLOCK FALSE
