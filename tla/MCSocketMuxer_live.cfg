CONSTANTS
  Sockets = {s1, s2}
  NoSocket = NoSocket
  Conns = {c1, c2}
  NoConn = NoConn
  BufferSize = 1
  Room = 1
  WriteLoMark = 1
  ClosesNow = FALSE
  Faults = FALSE
SPECIFICATION Spec
INVARIANTS
  ReadDoesNotBlock
PROPERTIES
  PendingCloseIsDone
CHECK_DEADLOCK FALSE
