SPECIFICATION MCSpec
CONSTANTS
  g1 = g1
  g2 = g2
  a1 = a1
  v1 = v1
  v2 = v2
  Groups <- MCGroups
  Admins <- MCAdmins
  Counts = {0, 1, 2}
  Initial = 1
  MaxEvents = 1
  MaxBytes = 2
  MaxFiles = 2
  Sizes = {1, 3}
  MaxLines = 5
  Viewers <- MCViewers
  MaxHistory = 2
  Buffer = 2
  MaxAppended = 5
INVARIANTS
  EgressInv
  WireLogInv
  LiveLogsInv
PROPERTIES
  StoppedEnd
  DownIsSeen
  ScaleApplied
\* The process may have stopped.
CHECK_DEADLOCK FALSE
