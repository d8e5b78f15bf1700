SPECIFICATION Spec
CONSTANTS
  c1 = c1
  c2 = c2
  Clients = {c1, c2}
  Fds = {3, 4, 5, 6, 7}
  Subcommand = FALSE
  KeepRunning = TRUE
  MaxStressed = 2
INVARIANTS
  TableConsistent
  NoDescriptorLeak
  NeverBlocksInRecv
PROPERTIES
  EndsForItsOwnReasons
SYMMETRY Symmetry
CHECK_DEADLOCK FALSE
