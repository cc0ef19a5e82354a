CONSTANTS
  GRAIN = 2
  HEADER = 4
  PAGE = 12
  MODULUS = 240
  TABLES = 1
  FRAMES = 3
  HeapAddresses = {12}
  PageCounts = {1, 2}
  Requests = {0, 1, 4, 9, 12, 230, 239}
  Roots = {12, 24}
SPECIFICATION Spec
INVARIANTS
  HeapTypeOK
  ListSound
  SegmentsTile
PROPERTIES
  IsArena
  MallocReturns
\* The heap is not followed after its promise is broken.
CHECK_DEADLOCK FALSE
