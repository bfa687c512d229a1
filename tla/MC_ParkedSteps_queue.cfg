SPECIFICATION FairSpec
CONSTANTS
  Tasks = {run1, run2, sweeper}
  Sweeper = sweeper
  NoTask = NoTask
  NoCall = NoCall
  Calls = {c1, c2}
  MaxPending = 2
  KeepResolved = 1
  Expiry = 0
  MaxParks = 2
  MaxFaults = 1
INVARIANTS
  RunsOnlyIfApproved
  TrailTellsOneOutcome
  NoTwinsWaiting
PROPERTIES
  ImplementsReview
  NothingWaitsForever
