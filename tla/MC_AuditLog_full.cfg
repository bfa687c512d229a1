SPECIFICATION Spec
CONSTANTS
  Writers = {w1}
  Capacity = 2
  Handlers = {TRUE}
  MaxEvents = 5
  MaxCrashes = 1
INVARIANT
  NeverRefused
CHECK_DEADLOCK FALSE
