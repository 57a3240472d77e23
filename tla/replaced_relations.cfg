SPECIFICATION Spec
CONSTANTS
  d1 = d1
  d2 = d2
  d3 = d3
  Docs = {d1, d2, d3}
  Text <- MCText
  Similarity <- MCSimilarity
  Profiles <- MCProfiles
  VERSION_SIMILARITY = 92
  RELATED_SIMILARITY = 75
  MIN_IDENTIFIERS = 1
  MIN_ENTITIES = 2
  MAX_CANDIDATES = 1
  MaxAttempts = 4
  MaxDeletes = 0
  Null = Null
PROPERTIES
  ReplacesTheOnesItHad
CHECK_DEADLOCK FALSE
