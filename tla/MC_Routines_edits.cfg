SPECIFICATION FairSpec
CONSTANTS
  Config = {"cfg"}
  Operators = {"own"}
  Agents = {"agt"}
  Digests = {"own"}
  Crons <- MCCrons
  Prompts = {p1, p2}
  MaxTime = 2
  MaxEdits = 2
  MaxFaults = 1
INVARIANTS
  OncePerDueTime
  RunsApproved
PROPERTIES
  DueRuns
CHECK_DEADLOCK FALSE
