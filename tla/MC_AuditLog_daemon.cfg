SPECIFICATION FairSpec
CONSTANTS
  Writers = {w1, w2}
  Capacity = 2
  Handlers = {TRUE, FALSE}
  MaxEvents = 4
  MaxCrashes = 2
INVARIANTS
  StoreIsChain
  HolesAreExplained
  RestartOpens
  AckedNotLostWhileHealthy
PROPERTIES
  RowsAreFinal
  AckedReachesDisk
  ImplementsJournal
CHECK_DEADLOCK FALSE
