SPECIFICATION Spec
CONSTANTS
  FilesIds = {f1, f2}
  TerminalIds = {q1, q2, q3}
  Tabs = {t1, t2}
  Host = h
  Session = work
  Legacy <- MCLegacy
  MaxLeaves = 2
  MaxWaiting = 1
  MaxClicks = 2
SYMMETRY Symmetry
CHECK_DEADLOCK FALSE
INVARIANTS
  Consistent
  ScreenIsSnapshot
PROPERTIES
  NavigationGoesHome
