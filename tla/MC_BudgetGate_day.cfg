SPECIFICATION BudgetSpec
CONSTANTS
  Tasks = {t1, t2, t3}
  Specialists = {s1}
  Cap = 3
  Estimate = 1
  MaxCost = 2
  MaxStarts = 5
  MaxMisreads = 1
SYMMETRY TaskSymmetry
INVARIANTS
  ReservedIsHeld
  OverspendExplained
CHECK_DEADLOCK FALSE
