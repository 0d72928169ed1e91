CONSTANTS
  Threads = {t1, t2, t3}
  NoThread = NoThread
  MaxDepth = 4
SPECIFICATION Spec
INVARIANTS
  TypeOK
  LockIsHeldByOne
PROPERTIES
  IsRecursiveLock
  SectionKeepsBeingEntered
