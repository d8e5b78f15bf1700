SPECIFICATION Spec
CONSTANTS
  BLOCK_SZ = 6
  SIZE_MAX = 1023
  CELL_MAX = 63
  Scripts <- MCAnyScripts
  Chunks = "free"
  PeersClose = FALSE
INVARIANTS
  WritesDrain
  PollAssertions
PROPERTIES
  RelaysLikePipes
CHECK_DEADLOCK FALSE
