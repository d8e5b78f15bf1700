SPECIFICATION Spec
CONSTANTS
  big = big
  other = other
  c1 = c1
  c2 = c2
  Conns <- MCConns
  Names <- MCNames
  ServerExts <- MCServerExts
  Allowed <- MCAllowed
  BigRequests <- MCBig
  Nobody = Nobody
  Unset = Unset
  Bytes = Bytes
  SeqMod = 3
  Slots = 2
  Sent <- MCSent
  MaxRequests <- MCFour
INVARIANTS
  TypeOK
  AnswersFindRequests
  FaultsAfterWrap
  BigRequestsUnderstood
PROPERTIES
  DeniedHidden
  AtomsMirrored
\* The proxy stops at a failed assertion, and clients when they have sent all.
CHECK_DEADLOCK FALSE
