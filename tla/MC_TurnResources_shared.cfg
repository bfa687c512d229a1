SPECIFICATION Spec
CONSTANTS
  Turns = {t1, t2, t3}
  Tools = {"fetch", "shell"}
  Prefixes = {p, q}
  Nothing = Nothing
  Setups <- MCSetups
  SlotCount = 2
  TotalCap = 2
  ToolCap <- MCToolCap
  WindowCap <- MCWindowCap
  Window <- MCWindow
  MaxTime = 2
  MaxCalls = 4
SYMMETRY Symmetric
INVARIANTS
  LimitsExact
  PoolIsTrue
CHECK_DEADLOCK FALSE
