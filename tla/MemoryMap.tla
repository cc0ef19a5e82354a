------------------------------- MODULE MemoryMap -------------------------------
(***************************************************************************)
(* The EFI memory map the boot loader hands to the kernel, and what the    *)
(* kernel computes from it: get_memory_size (memory/memory.c), and what    *)
(* pfallocator_read_efi_memory_map makes of it, the bitmap's place and the *)
(* allocator as it is then.                                                *)
(*                                                                         *)
(* A map is a sequence of descriptors.  Of the 14 EFI memory types the     *)
(* code tells four classes apart: EFI_CONVENTIONAL_MEMORY,                 *)
(* EFI_RESERVED_MEMORY_TYPE, EFI_MEMORY_MAPPED_IO, and every other type.   *)
(* Frames no descriptor covers are holes of the physical address space.    *)
(***************************************************************************)
EXTENDS PageFrames

CONSTANTS
  MAX_FRAME,        \* the highest frame number an address of the model names
  MAX_DESCRIPTORS,  \* the most descriptors a memory map has
  MemoryMaps        \* the memory maps the firmware may report

MemoryTypes == {"conventional", "reserved", "mmio", "other"}

Frame == 0 .. MAX_FRAME

Descriptor == [type : MemoryTypes, frame : Frame, page_count : Frame]

DescriptorFrames(d) == d.frame .. d.frame + d.page_count - 1

(* The frames of the descriptors of some types. *)
FramesOfType(map, types) ==
  {f \in Frame : \E i \in DOMAIN map : /\ map[i].type \in types
                                       /\ f \in DescriptorFrames(map[i])}

Conventional(map) == FramesOfType(map, {"conventional"})

(* get_memory_size, in pages: the sum of the page counts of the            *)
(* descriptors that are neither reserved nor memory-mapped I/O, as the     *)
(* number of pairs of such a descriptor and one of its pages.              *)
get_memory_size(map) ==
  Cardinality({s \in (DOMAIN map) \X Frame :
                 /\ map[s[1]].type \notin {"reserved", "mmio"}
                 /\ s[2] < map[s[1]].page_count})

(* The first of the longest conventional segments: the bitmap's place. *)
LargestSegment(map) ==
  LET C == {i \in DOMAIN map : /\ map[i].type = "conventional"
                               /\ map[i].page_count > 0}
      largest == CHOOSE i \in C : \A j \in C :
                   \/ map[j].page_count < map[i].page_count
                   \/ map[j].page_count = map[i].page_count /\ i <= j
  IN  IF C = {} THEN NULL ELSE map[largest].frame

(* Bytes of the bitmap, and the frames its buffer occupies. *)
BitmapSize(map)   == get_memory_size(map) \div BITS + 1
BitmapFrames(map) ==
  LargestSegment(map) .. LargestSegment(map) + (BitmapSize(map) - 1) \div FRAME_BYTES

-----------------------------------------------------------------------------
(* The allocator struct: global_allocator is never assigned, it stays the  *)
(* null pointer of .bss, so the struct lies in frame 0.                    *)
AllocatorFrame == NULL

(* __pfallocator_initialize_bitmap clears `size' bytes; the byte after     *)
(* them keeps whatever memory held.  The counters are zero in .bss.        *)
BlankAllocator(map, found) ==
  [size            |-> BitmapSize(map),
   bits            |-> found,
   free_memory     |-> get_memory_size(map) % MODULUS,
   used_memory     |-> 0,
   reserved_memory |-> 0]

(* Mutant: only memory-mapped I/O is reserved. *)
AllocatorReservingMmio(map, found) ==
  LET blank  == BlankAllocator(map, found)
      locked == pfallocator_lock_pages(blank,
                  AllocatorFrame .. AllocatorFrame + blank.size \div FRAME_BYTES)
  IN  reserve_pages(locked, FramesOfType(map, {"mmio"}))

(* Mutant: size / 4096 pages are locked, not one more. *)
AllocatorLockingLess(map, found) ==
  LET blank  == BlankAllocator(map, found)
      locked == pfallocator_lock_pages(blank,
                  AllocatorFrame .. AllocatorFrame + blank.size \div FRAME_BYTES - 1)
  IN  reserve_pages(locked, FramesOfType(map, {"mmio", "other"}))

(* The allocator built from a map.  The pages locked are those from the    *)
(* struct's address on, as many as the bitmap needs; then the pages of     *)
(* every descriptor that is neither conventional nor reserved are reserved.*)
AllocatorOf(map, found) ==
  LET blank  == BlankAllocator(map, found)
      locked == pfallocator_lock_pages(blank,
                  AllocatorFrame .. AllocatorFrame + blank.size \div FRAME_BYTES)
  IN  reserve_pages(locked, FramesOfType(map, {"mmio", "other"}))

-----------------------------------------------------------------------------
(***************************************************************************)
(* Firmware reports at most a fixed number of descriptors, and they do not *)
(* overlap.  Frame 0 holds the start of the kernel image (linker.ld places *)
(* _MMK_START_ADDRESS at 0), so the map never calls it conventional, and   *)
(* the loader could not have run without some conventional memory.  Every  *)
(* index the bitmap accepts is a frame number the model names.             *)
(***************************************************************************)
ASSUME MapsAssumption ==
  /\ MAX_FRAME \in Nat
  /\ MAX_DESCRIPTORS \in Nat
  /\ \A map \in MemoryMaps :
       /\ \E n \in 0 .. MAX_DESCRIPTORS : map \in [1 .. n -> Descriptor]
       /\ \A i, j \in DOMAIN map :
            i # j => DescriptorFrames(map[i]) \cap DescriptorFrames(map[j]) = {}
       /\ 0 \notin Conventional(map)
       /\ Conventional(map) # {}
       /\ BitmapSize(map) * BITS <= MAX_FRAME
=============================================================================
