SPECIFICATION Spec
CONSTANTS
  BLOCK_SZ = 6
  SIZE_MAX = 1023
  CELL_MAX = 63
  Scripts <- MCScripts
  Chunks = "free"
  PeersClose = FALSE
INVARIANTS
  CapacitySuffices
CHECK_DEADLOCK FALSE
