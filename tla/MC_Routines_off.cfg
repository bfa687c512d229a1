SPECIFICATION Spec
CONSTANTS
  Config = {"cfg"}
  Operators = {"own"}
  Agents = {}
  Digests = {"own"}
  Crons <- MCCrons
  Prompts = {p1}
  MaxTime = 2
  MaxEdits = 2
  MaxFaults = 0
INVARIANTS
  OffHolds
CHECK_DEADLOCK FALSE
