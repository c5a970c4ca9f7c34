CONSTANTS
  a1 = a1
  a2 = a2
  d1 = d1
  None = None
  Aliases = {a1, a2}
  Domains = {d1}
  Slots = {1, 2}
  MaxSaves = 2
  MaxEvents = 2
SPECIFICATION Spec
CHECK_DEADLOCK FALSE
SYMMETRY Symmetry
INVARIANTS
  Consistent
  GateIsFile
  CopiesAgree
  CatalogIsCurrent
