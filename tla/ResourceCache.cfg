\* Three calls for two keys, with a limit that moves between one and two.  The
\* calls end.
SPECIFICATION Spec
CHECK_DEADLOCK FALSE
CONSTANTS
  Keys = {k1, k2}
  Consumers = {c1, c2, c3}
  Sizes = {1, 2}
  Limits = {1, 2}
  None = None
SYMMETRY Symmetry
INVARIANTS
  Consistent
  SharedWhileWanted
