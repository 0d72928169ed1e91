CONSTANTS
  Elements = {0, 1}
  Zero = 0
  Sizes = {1, 3}
  MaxCount = 3
  Word = 8
SPECIFICATION Spec
INVARIANTS
  TypeOK
PROPERTIES
  IsBoundedSequence
