SPECIFICATION SavesFairSpec
CONSTANTS
  MaxRevision = 3
  LegacyDocuments = {A, B}
  Invalid = Invalid
  Torn = Torn
  None = None
INVARIANTS
  SavesConsistent
PROPERTIES
  EventuallySaved
