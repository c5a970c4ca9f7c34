CONSTANTS
    Dirs = {"root", "sub"}
    Root = "root"
    Kids <- MCKids
    Size <- MCSize
    CacheLimit = 2
    EntryLimit = 2
    Ttl = 1
    MaxVersion = 1
    MaxCalls = 2
    None = None
SPECIFICATION Spec
CHECK_DEADLOCK FALSE
INVARIANTS
  Consistent
  ForcedIsFresh
PROPERTIES
  DestroyedIsSilent
