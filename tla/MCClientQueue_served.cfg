SPECIFICATION FairSpec
CONSTANTS
  c1 = c1
  c2 = c2
  Clients = {c1, c2}
  Fds = {3, 4, 5, 6, 7}
  Subcommand = FALSE
  KeepRunning = TRUE
  MaxStressed = 1
PROPERTIES
  WaitingServed
CHECK_DEADLOCK FALSE
