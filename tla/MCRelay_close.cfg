SPECIFICATION Spec
CONSTANTS
  BLOCK_SZ = 6
  SIZE_MAX = 1023
  CELL_MAX = 63
  Scripts <- MCScripts
  Chunks = "framed"
  PeersClose = TRUE
INVARIANTS
  TypeOK
  NoFault
  LogMatchesMessages
  EofIsReal
  NothingLostOnClose
  SentAsReceived
PROPERTIES
  Backpressure
CHECK_DEADLOCK FALSE
