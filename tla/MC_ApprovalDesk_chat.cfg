SPECIFICATION FairSpec
CONSTANTS
  MaxFrames = 4
  MaxAsks = 2
INVARIANTS
  OrderKept
  NoStaleCancel
PROPERTIES
  DeclinedForAReason
  AbandonedEnds
CHECK_DEADLOCK FALSE
