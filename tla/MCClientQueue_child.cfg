SPECIFICATION FairSpec
CONSTANTS
  c1 = c1
  Clients = {c1}
  Fds = {3, 4, 5}
  Subcommand = TRUE
  KeepRunning = FALSE
  MaxStressed = 2
INVARIANTS
  TypeOK
  ExitStatus
PROPERTIES
  ClosedSidesGo
CHECK_DEADLOCK FALSE
