SPECIFICATION Spec
CONSTANTS
  MAX_MEMBERS = 2
  MAX_UNCOMPRESSED_TOTAL = 5
  MAX_UNCOMPRESSED_MEMBER = 4
  MAX_COMPRESSION_RATIO = 1
  RATIO_FLOOR = 3
  MAX_PATH = 2
  Null = Null
  MAX_BYTES = 5
  CHUNK = 2
  Bodies = {0, 1, 4, 5, 6, 9}
  Archives <- MCArchives
  Readings <- MCReadings
  Corrections <- MCCorrections
  Reviewers = {r1, r2}
  MaxClock = 4
  Keep = Keep
INVARIANTS
  IntakeBounded
  OneCurrent
  MachinesShared
  PathsStayAssigned
PROPERTIES
  PredictionsYield
  LaterStartWins
CHECK_DEADLOCK FALSE
