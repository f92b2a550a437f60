SPECIFICATION Spec
CONSTANTS
  MAX_DATA = 10
  Sectors = 12
  NewFields <- MCNewFields
  FileSizes <- MCFileSizes
  Locations <- MCLocations
  Discs <- MCDiscs
  START_OF_MASTER_TOC = 0
  MAX_LANGUAGE_COUNT = 1
  ACCESS_LIST_LEN = 2
  MaxRips = 1
  RipSectors <- MCRipSectors
INVARIANTS
  TypeOK
  SectorsDelivered
  ReleasedAtEnd
PROPERTIES
  RunEnds
CHECK_DEADLOCK FALSE
