SPECIFICATION Spec
CONSTANTS
  p1 = p1
  p2 = p2
  p3 = p3
  d1 = d1
  d2 = d2
  i1 = i1
  i2 = i2
  i3 = i3
  i4 = i4
  None = None
  Nobody = Nobody
  Proxies <- MCThree
  In <- MCIn
  Out <- MCOut
  Inodes <- MCInodes
  Settings <- MCUnix
  Removable = FALSE
  MaxStarts = 1
SYMMETRY MCSymmetry
INVARIANTS
  TypeOK
  Reachable
\* A proxy that has ended need not be started again.
CHECK_DEADLOCK FALSE
