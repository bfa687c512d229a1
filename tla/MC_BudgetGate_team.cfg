SPECIFICATION BudgetSpec
CONSTANTS
  Tasks = {t1}
  Specialists = {s1}
  Cap = 2
  Estimate = 1
  MaxCost = 1
  MaxStarts = 4
  MaxMisreads = 0
INVARIANT
  WithinCap
CHECK_DEADLOCK FALSE
