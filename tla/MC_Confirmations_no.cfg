SPECIFICATION Spec
CONSTANTS
  c1 = c1
  c2 = c2
  t1 = t1
  t2 = t2
  s1 = s1
  s2 = s2
  s3 = s3
  l1 = l1
  l2 = l2
  NoSession = NoSession
  Sessions = {s1}
  Lanes = {l1}
  Calls = {c1}
  Tools = {t1, t2}
  ToolOf <- OneCall
  Withheld = {}
  Manual = {}
  ConfirmFirst = {c1}
  EpochCap = 4
  RefusedCap = 4
  MaxSteps = 2
  BatchSize = 1
  Parallel = {}
  MaxTurns = 3
INVARIANT
  NoMeansNo
CHECK_DEADLOCK FALSE
