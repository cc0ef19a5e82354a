CONSTANTS
  BITS = 4
  FRAME_BYTES = 2
  MODULUS = 128
  MAX_FRAME = 72
  MAX_DESCRIPTORS = 3
  RADIX = 8
  SEGMENTS = 2
  HOLE_PAGES = {0, 5}
  SEGMENT_PAGES = {1, 14, 17}
  FIRST_TYPES = {"other"}
  MemoryMaps <- MCMemoryMaps
  KERNEL_PAGES = {1, 2}
  FB_FRAMES = {5, 70}
  FB_PAGES = {1}
  Kernels <- MCKernels
  Framebuffers <- MCFramebuffers
  StaleEntries = {0}
SPECIFICATION Spec
INVARIANT FullMemoryMapped
CHECK_DEADLOCK FALSE
