CONSTANTS
  MaxRotateCount = 3
  FileSizes = {1, 2}
  MaxWrites = 7
  NoFile = NoFile
SPECIFICATION Spec
INVARIANTS
  TypeOK
  AgesInOrder
  BacklogIsBounded
PROPERTIES
  IsJournal
