CONSTANTS
  Threads = {a, b, c}
  Readers = {a, b}
  Writers = {b, c}
  Timed = {c}
  SemMax = 4
SPECIFICATION Spec
INVARIANTS
  TypeOK
  ExclusionBeforeTimeout
  CountersAreTrue
  NobodyOverlooked
  NobodyDeadlocks
