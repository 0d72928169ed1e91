CONSTANTS
  Threads = {a, b, c}
  Readers = {a}
  Writers = {b, c}
  Timed = {a}
  SemMax = 4
SPECIFICATION Spec
INVARIANTS
  Exclusion
