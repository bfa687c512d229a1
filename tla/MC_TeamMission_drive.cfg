SPECIFICATION FairSpec
CONSTANTS
  Steps = {1, 2, 3, 4, 5}
  Deps <- MCDeps
  Gates = {3, 5}
  Policies <- MCPolicies
  MaxAttempts = 2
  Operators = {o1, o2}
  Drives = {1, 2}
  MaxRequests = 5
  MaxRestarts = 1
  MaxFaults = 1
INVARIANTS
  RestartShowsTheSame
  DoneWasAccepted
PROPERTIES
  WorksOnce
  NoWorkPastCap
  AbortHolds
  Settles
CONSTRAINT
  NotCrossed
CHECK_DEADLOCK FALSE
