\* One page, then up to two segments of one or two pages, holes between.
CONSTANTS
  BITS = 2
  FRAME_BYTES = 2
  MODULUS = 16
  MAX_FRAME = 5
  MAX_DESCRIPTORS = 3
  SEGMENTS = 2
  HOLE_PAGES = {0, 1}
  SEGMENT_PAGES = {1, 2}
  FIRST_TYPES = {"other"}
  MemoryMaps <- MCMemoryMaps
SPECIFICATION Spec
INVARIANTS
  TypeOK
  CountersConserveMemory
  CountersCountBits
