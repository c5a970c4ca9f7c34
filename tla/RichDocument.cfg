SPECIFICATION Spec
CONSTANTS
  a = a
  b = b
  c = c
  Blocks <- MCBlocks
  Remote <- MCRemote
  Views <- MCViews
  MaxGeneration = 3
  MaxQueue = 2
  MaxLoads = 2
CHECK_DEADLOCK FALSE
INVARIANTS
  Consistent
  HiddenIsCancelled
  OnlyCurrentIsRendered
  NearIsScheduled
