SPECIFICATION SessionFairSpec
CONSTANTS
  Delays = {1, 3}
  MaxDelay = 5
  Multiplier = 2
  MaxFailures = 3
  MaxCommands = 2
  Absent = Absent
CHECK_DEADLOCK FALSE
INVARIANTS
  SessionConsistent
PROPERTIES
  CleanExitStays
  Recovers
