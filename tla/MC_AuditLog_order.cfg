SPECIFICATION Spec
CONSTANTS
  Writers = {w1, w2}
  Capacity = 2
  Handlers = {TRUE}
  MaxEvents = 3
  MaxCrashes = 0
INVARIANT
  DiskOrderIsAppendOrder
CHECK_DEADLOCK FALSE
