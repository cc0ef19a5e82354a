------------------------- MODULE MCPageFrameAllocator -------------------------
EXTENDS PageFrameAllocator, MCMemoryMaps
=============================================================================
