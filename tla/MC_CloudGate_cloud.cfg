SPECIFICATION CloudSpec
CONSTANTS
  Calls = {c1, c2}
  Reasons = {mail, memory}
  None = None
  MaxTurns = 4
  MaxFaults = 2
SYMMETRY Symmetric
INVARIANTS
  PrivateStaysLocal
  MarksServeOnce
PROPERTIES
  FirstReasonKept
CHECK_DEADLOCK FALSE
