CONSTANTS
  BITS = 2
  FRAME_BYTES = 8
  MODULUS = 64
  MAX_FRAME = 26
  MAX_DESCRIPTORS = 4
  RADIX = 2
  VirtualPages = {0, 1, 2, 8, 15}
  PhysicalPages = {3, 20}
  StaleEntries = {0, 5}
  FIRST_PAGES = {5, 11}
  SECOND_PAGES = 12
  MIDDLE_TYPES = {"other"}
  MemoryMaps <- MCMemoryMaps
SPECIFICATION Spec
INVARIANTS
  TypeOK
  TablesFormTree
  FramesAreTables
PROPERTIES
  IsAddressSpace
\* The machine stops when it is lost.
CHECK_DEADLOCK FALSE
