CONSTANTS
  Sockets = {s1, s2}
  NoSocket = NoSocket
  Conns = {c1, c2}
  NoConn = NoConn
  BufferSize = 1
  Room = 1
  WriteLoMark = 1
  ClosesNow = TRUE
  Faults = TRUE
SYMMETRY Symmetry
SPECIFICATION Spec
INVARIANTS
  TypeOK
  SlotsAccountedFor
  ListedLocksAreFree
  WriteAllHoldsAConnection
CHECK_DEADLOCK FALSE
