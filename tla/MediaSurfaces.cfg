SPECIFICATION SurfacesSpec
CONSTANTS
  Surfaces = {a, b}
  Regions = {left, right}
  Out = Out
  MaxFrame = 2
CHECK_DEADLOCK FALSE
INVARIANTS
  SurfacesConsistent
  NothingStaleShown
