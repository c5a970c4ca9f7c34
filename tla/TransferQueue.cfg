\* Three downloads that share one slot, a history of one: two downloads wait,
\* and every second finish prunes.
SPECIFICATION FairSpec
CONSTANTS
  Jobs = {j1, j2, j3}
  Concurrency = 1
  HistoryLimit = 1
  HistoryTtl = 1
  ProgressInterval = 1
  MaxTime = 1
  MaxReports = 1
INVARIANTS
  SlotAccounting
  Consistent
  ProgressDelivered
PROPERTIES
  HistoryKeepsNewest
  ImplementsContract
  EventuallyServed
