---------------------------- MODULE MCKernelMemory ----------------------------
EXTENDS KernelMemory, MCMemoryMaps

CONSTANTS KERNEL_PAGES, FB_FRAMES, FB_PAGES

MCKernels == [full : KERNEL_PAGES, tail : BOOLEAN]

MCFramebuffers == [frame : FB_FRAMES, pages : FB_PAGES]
=============================================================================
