SPECIFICATION Spec
CONSTANTS
  Tasks = {client, sweeper}
  Sweeper = sweeper
  NoTask = NoTask
  NoCall = NoCall
  Calls = {c1}
  MaxPending = 1
  KeepResolved = 1
  Expiry = 0
  MaxParks = 1
  MaxFaults = 1
INVARIANT
  NeverRan
