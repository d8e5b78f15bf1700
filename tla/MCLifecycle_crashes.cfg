SPECIFICATION Spec
CONSTANTS
  p1 = p1
  p2 = p2
  p3 = p3
  d1 = d1
  d2 = d2
  i1 = i1
  i2 = i2
  i3 = i3
  i4 = i4
  None = None
  Nobody = Nobody
  Proxies <- MCOne
  In <- MCIn
  Out <- MCOut
  Inodes <- MCInodes
  Settings <- MCAny
  Removable = TRUE
  MaxStarts = 3
SYMMETRY MCSymmetry
INVARIANTS
  OwnNeverLost
  AuthRestored
  SocketRemoved
  PathIsFree
  ClientsAuthorized
  CursorShown
\* A proxy that has ended need not be started again.
CHECK_DEADLOCK FALSE
