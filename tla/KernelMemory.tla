----------------------------- MODULE KernelMemory -----------------------------
(***************************************************************************)
(* kinit_init_memory (misc/init/init.c): the allocator and the page-table  *)
(* manager composed the way the kernel composes them, one statement a step,*)
(* one iteration of a mapping loop a step.                                 *)
(*                                                                         *)
(* global_allocator and global_pt_manager are never assigned: both are the *)
(* null pointer of .bss, so the allocator's struct and the manager's lie   *)
(* at address 0 and share their first word.  Assigning manager->pml4       *)
(* assigns page_bitmap.size, to the address of the root table.             *)
(*                                                                         *)
(* The kernel image starts at address 0 (linker.ld).  It fills             *)
(* kernel.full pages, and part of one more when kernel.tail.  The          *)
(* framebuffer's size is a number of whole pages.                          *)
(***************************************************************************)
EXTENDS PageMapping

CONSTANTS
  Kernels,        \* the sizes the kernel image may have
  Framebuffers,   \* the framebuffers the boot loader may report
  StaleEntries    \* what memory may hold where nothing was written yet

(* The page init.c:38 adds to the framebuffer's has an address, and so has *)
(* every frame among the virtual pages: a page is mapped to itself.        *)
ASSUME EnvironmentAssumption ==
  /\ Kernels \subseteq [full : Frame, tail : BOOLEAN]
  /\ Framebuffers \subseteq [frame : Frame, pages : Frame]
  /\ \A fb \in Framebuffers : fb.frame + fb.pages \in Frame
  /\ StaleEntries \subseteq Entry
  /\ MAX_FRAME < RADIX * RADIX * RADIX * RADIX

VARIABLES
  memory_map, kernel, framebuffer,  \* what the loader passes; never change
  pc,         \* the next statement, "running" after the last
  i,          \* the page number the mapping loops are at
  pml4,       \* the local variable, and manager->pml4
  allocator,
  tables,     \* the contents of every frame, read as a table
  cr3         \* the root table the processor uses, NULL for the firmware's

environment == <<memory_map, kernel, framebuffer>>
vars == <<memory_map, kernel, framebuffer, pc, i, pml4, allocator, tables, cr3>>

(* Locking the kernel divides its size by the page size, mapping it rounds *)
(* up: a last page only partly filled is mapped and not locked.            *)
KernelPagesToLock == 0 .. kernel.full - 1
KernelEnd         == kernel.full + (IF kernel.tail THEN 1 ELSE 0)
KernelPages       == 0 .. KernelEnd - 1

(* init.c:38 adds a page to the framebuffer's size. *)
FramebufferEnd   == framebuffer.frame + framebuffer.pages + 1
FramebufferPages == framebuffer.frame .. FramebufferEnd - 1

(* The map may call the kernel's own pages conventional: the boot loader   *)
(* ignores a refusal of AllocatePages.  Clearing the bitmap destroys       *)
(* nothing when its frames are conventional and not the kernel's.          *)
BitmapFits == BitmapFrames(memory_map) \subseteq Conventional(memory_map) \ KernelPages

(* Frames a table may fill. *)
Usable == UsableFrames(memory_map) \ (KernelPages \cup FramebufferPages)

Machine == [allocator |-> allocator, tables |-> tables, lost |-> FALSE,
            usable |-> Usable]

-----------------------------------------------------------------------------
ReadMemoryMap ==
  /\ pc = "read map"
  /\ pc' = IF BitmapFits THEN "lock kernel" ELSE "lost"
  /\ \E found \in SUBSET {BitmapSize(memory_map) * BITS} :
       allocator' = AllocatorOf(memory_map, found)
  /\ UNCHANGED <<environment, i, pml4, tables, cr3>>

LockKernel ==
  /\ pc = "lock kernel"
  /\ pc' = "lock framebuffer"
  /\ allocator' = pfallocator_lock_pages(allocator, KernelPagesToLock)
  /\ UNCHANGED <<environment, i, pml4, tables, cr3>>

(* Mutant: the page added to the framebuffer's size is not locked. *)
LockFramebufferLess ==
  /\ pc = "lock framebuffer"
  /\ pc' = "request root"
  /\ allocator' = pfallocator_lock_pages(allocator, FramebufferPages \ {FramebufferEnd - 1})
  /\ UNCHANGED <<environment, i, pml4, tables, cr3>>

LockFramebuffer ==
  /\ pc = "lock framebuffer"
  /\ pc' = "request root"
  /\ allocator' = pfallocator_lock_pages(allocator, FramebufferPages)
  /\ UNCHANGED <<environment, i, pml4, tables, cr3>>

(* pfallocator_request_page and memset for the root table. *)
RequestRoot ==
  /\ pc = "request root"
  /\ pml4' = RequestedPage(allocator)
  /\ pc' = IF pml4' \in Usable THEN "init manager" ELSE "lost"
  /\ allocator' = pfallocator_request_page(allocator)
  /\ tables' = [tables EXCEPT ![pml4'] = ZeroedTable]
  /\ UNCHANGED <<environment, i, cr3>>

(* ptmanager_init.  The size of the bitmap becomes pml4's address: the     *)
(* bits below the old bound keep their values, those the new bound adds    *)
(* are whatever memory holds after the buffer, all clear or all set here.  *)
InitManager ==
  /\ pc = "init manager"
  /\ pc' = "map memory"
  /\ \E beyond \in {{}, LastBit(allocator) + 1 .. pml4 * FRAME_BYTES * BITS} :
       allocator' = [allocator EXCEPT !.size = pml4 * FRAME_BYTES,
                                      !.bits = @ \cup beyond]
  /\ i' = 0
  /\ UNCHANGED <<environment, pml4, tables, cr3>>

(* An iteration of the three loops that map pages to themselves: from i,   *)
(* which the step before set, up to end, then on to the statement next,    *)
(* with i at first.                                                        *)
MapLoop(here, end, next, first) ==
  /\ pc = here
  /\ IF i < end
       THEN LET m == ptmanager_map_memory(Machine, pml4, i, i)
            IN  /\ pc' = IF m.lost THEN "lost" ELSE here
                /\ i' = i + 1
                /\ allocator' = m.allocator
                /\ tables' = m.tables
       ELSE pc' = next /\ i' = first /\ UNCHANGED <<allocator, tables>>
  /\ UNCHANGED <<environment, pml4, cr3>>

(* Mutant: the last page of the range is left out. *)
MapRangeShort ==
  MapLoop("map memory", get_memory_size(memory_map) - 1, "map kernel", 0)

MapRange ==
  MapLoop("map memory", get_memory_size(memory_map), "map kernel", 0)

MapKernel ==
  MapLoop("map kernel", KernelEnd, "map framebuffer", framebuffer.frame)

(* Mutant: the page added to the framebuffer's size is not mapped. *)
MapFramebufferLess ==
  MapLoop("map framebuffer", FramebufferEnd - 1, "load", 0)

MapFramebuffer ==
  MapLoop("map framebuffer", FramebufferEnd, "load", 0)

LoadTables ==
  /\ pc = "load"
  /\ pc' = "running"
  /\ cr3' = pml4
  /\ UNCHANGED <<environment, i, pml4, allocator, tables>>

Init ==
  /\ memory_map \in MemoryMaps
  /\ kernel \in Kernels
  /\ framebuffer \in Framebuffers
  /\ framebuffer.frame .. framebuffer.frame + framebuffer.pages - 1
       \cap (Conventional(memory_map) \cup KernelPages) = {}
  /\ pc = "read map" /\ i = 0 /\ pml4 = NULL /\ cr3 = NULL
  /\ allocator = [size |-> 0, bits |-> {}, free_memory |-> 0,
                  used_memory |-> 0, reserved_memory |-> 0]
  /\ \E garbage \in StaleEntries : tables = [f \in Frame |-> [j \in Index |-> garbage]]

Next ==
  \/ ReadMemoryMap \/ LockKernel \/ LockFramebuffer \/ RequestRoot \/ InitManager
  \/ MapRange \/ MapKernel \/ MapFramebuffer \/ LoadTables

Finished == pc \in {"running", "lost"}

(* The processor goes on executing until initialisation is finished: weak  *)
(* fairness of Next, with the states in which it is enabled spelled out.   *)
Progress == []<>Finished \/ []<><<Next>>_vars

Spec == Init /\ [][Next]_vars /\ Progress

-----------------------------------------------------------------------------
TypeOK ==
  /\ \E n \in 0 .. MAX_DESCRIPTORS : memory_map \in [1 .. n -> Descriptor]
  /\ kernel \in Kernels /\ framebuffer \in Framebuffers
  /\ i \in Nat /\ pml4 \in Frame /\ cr3 \in Frame
  /\ allocator \in Allocator
  /\ tables \in Tables

(* The pages the three loops map. *)
MappedPages ==
  (0 .. get_memory_size(memory_map) - 1) \cup KernelPages \cup FramebufferPages

(* Once cr3 is loaded the kernel still sees, at the same addresses, every  *)
(* page it mapped: no later call of ptmanager_map_memory undid an earlier  *)
(* one, though the bitmap's bound moved under the allocator in between.    *)
IdentityMapped ==
  cr3 # NULL => \A page \in MappedPages : Walk(tables, cr3, page) = page

(* The frames of the page tables, counted. *)
TableCount == TablesFor(MappedPages)

(* The frames left for tables: neither locked nor reserved at boot, and    *)
(* within the bound of the bitmap as read from the map.                    *)
Unlocked ==
  (1 .. BitmapSize(memory_map) * BITS - 1)
    \ (KernelPagesToLock \cup FramebufferPages
         \cup FramesOfType(memory_map, {"mmio", "other"})
         \cup (0 .. BitmapSize(memory_map) \div FRAME_BYTES))

Lowest(n, S) == {f \in S : Cardinality({g \in S : g <= f}) <= n}

(* The root and the tables go to the lowest of these frames.  They must be *)
(* usable, and below the bound the bitmap gets when the root's address is  *)
(* written over its size.                                                  *)
BootSafe ==
  LET chosen == Lowest(TableCount, Unlocked)
  IN  /\ BitmapFits
      /\ chosen \subseteq Usable
      /\ \A root \in Lowest(1, Unlocked) :
           \A f \in chosen : f < root * FRAME_BYTES * BITS

(* Initialisation survives whenever the frames it will need, as the memory *)
(* map determines them, are fit for the bitmap and for tables, and never   *)
(* when one is not.                                                        *)
BootOutcome ==
  /\ pc = "running" \/ (pc = "lost" /\ cr3 = NULL)
  /\ Cardinality(Unlocked) >= TableCount
  => (pc = "running" <=> BootSafe)

(* init.c:49 "Mapping full memory range...": when the tables are loaded,   *)
(* the kernel reaches all of conventional memory.                          *)
FullMemoryMapped ==
  cr3 # NULL =>
    \A f \in Conventional(memory_map) : Walk(tables, cr3, f) # NOT_PRESENT
=============================================================================
