SPECIFICATION Spec
CONSTANTS
  Counts <- MCCounts
  Widths <- MCWidths
  Requests <- MCRequests
  Replies <- MCReplies
  Screens <- MCScreens
INVARIANTS
  TypeOK
  StopsOnlyForDefects
  LoggedWhole
  ReadsWithinMessage
\* A failed assertion ends the process.
CHECK_DEADLOCK FALSE
