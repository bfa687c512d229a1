SPECIFICATION FairSpec
CONSTANTS
  Stories = {1}
  Complex = {}
  Backlogs <- MCBacklogs
  Policies <- MCPolicies
  MaxIterations = 2
  Caps = {2}
  MaxIdle = 1
  MaxMissions = 1
  Operators = {o1}
  MaxRequests = 2
  MaxFaults = 1
PROPERTIES
  StartProceeds
CHECK_DEADLOCK FALSE
