SPECIFICATION FairSpec
CONSTANTS
  Calls = {auto, c1, c2}
  Autoplay = auto
  MaxGeneration = 5
  MaxFailures = 1
CHECK_DEADLOCK FALSE
INVARIANTS
  Consistent
  PlayingIsLive
PROPERTIES
  NoFrameFromThePast
  EverythingSettles
