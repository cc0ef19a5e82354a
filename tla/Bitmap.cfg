CONSTANTS
  BITS = 4
  SIZE = 2
  INDEXES = 14
SPECIFICATION Spec
INVARIANT TypeOK
PROPERTIES
  IsBitSet
  OverrunIsOneBit
