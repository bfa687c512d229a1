SPECIFICATION FairSpec
CONSTANTS
  Stories = {1, 2}
  Complex = {2}
  Backlogs <- MCBacklogs
  Policies <- MCPolicies
  MaxIterations = 4
  Caps = {4}
  MaxIdle = 2
  MaxMissions = 2
  Operators = {o1}
  MaxRequests = 3
  MaxFaults = 1
INVARIANTS
  Bounded
  StopsWhenAsked
  StallIsEarned
  RescueIsArmed
  MarkerIsWanted
PROPERTIES
  RunEnds
CHECK_DEADLOCK FALSE
