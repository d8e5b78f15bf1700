SPECIFICATION FairSpec
CONSTANTS
  BLOCK_SZ = 6
  SIZE_MAX = 1023
  CELL_MAX = 63
  Scripts <- MCOneScript
  Chunks = "framed"
  PeersClose = FALSE
PROPERTIES
  Delivered
CHECK_DEADLOCK FALSE
