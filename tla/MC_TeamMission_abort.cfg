SPECIFICATION Spec
CONSTANTS
  Steps = {1, 2, 3, 4, 5}
  Deps <- MCDeps
  Gates = {3, 5}
  Policies <- MCPolicies
  MaxAttempts = 2
  Operators = {o1}
  Drives = {1, 2}
  MaxRequests = 4
  MaxRestarts = 0
  MaxFaults = 0
INVARIANTS
  RunIsAbortable
CHECK_DEADLOCK FALSE
