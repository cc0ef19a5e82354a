------------------------------ MODULE PageTables ------------------------------
(***************************************************************************)
(* The page-table manager as a state machine: a manager given a zeroed     *)
(* root table (ptmanager_init, as in kinit_init_memory), then any sequence *)
(* of calls of ptmanager_map_memory.  Frames for tables come from an       *)
(* allocator read from a memory map.  Memory holds anything at first, the  *)
(* frames the allocator gives included.                                    *)
(***************************************************************************)
EXTENDS PageMapping

CONSTANTS
  VirtualPages,   \* the virtual pages callers map
  PhysicalPages,  \* the frames they map them to
  StaleEntries    \* what memory holds where nothing was written yet

(* A virtual address has no more than the four indexes. *)
ASSUME CallersAssumption ==
  /\ VirtualPages \subseteq 0 .. RADIX * RADIX * RADIX * RADIX - 1
  /\ PhysicalPages \subseteq Frame
  /\ StaleEntries \subseteq Entry

VARIABLES
  memory_map,  \* never changes
  pml4,        \* the root table, NULL before ptmanager_init
  allocator,
  tables,      \* the contents of every frame, read as a table
  asked,       \* history: the frame each page was last asked to be mapped to
  lost         \* a table was put where it destroys something else

vars == <<memory_map, pml4, allocator, tables, asked, lost>>

Machine == [allocator |-> allocator, tables |-> tables, lost |-> lost,
            usable |-> UsableFrames(memory_map)]

(* The page the caller requests for the root, zeroes, and hands over. *)
ptmanager_init ==
  /\ pml4 = NULL /\ ~lost
  /\ pml4' = RequestedPage(allocator)
  /\ allocator' = pfallocator_request_page(allocator)
  /\ tables' = [tables EXCEPT ![pml4'] = ZeroedTable]
  /\ lost' = (pml4' \notin UsableFrames(memory_map))
  /\ UNCHANGED <<memory_map, asked>>

MapMemory(virtual, physical) ==
  /\ pml4 # NULL /\ ~lost
  /\ LET m == ptmanager_map_memory(Machine, pml4, virtual, physical)
     IN  /\ allocator' = m.allocator
         /\ tables' = m.tables
         /\ lost' = m.lost
         /\ asked' = IF m.lost THEN asked ELSE [asked EXCEPT ![virtual] = physical]
  /\ UNCHANGED <<memory_map, pml4>>

Init ==
  /\ memory_map \in MemoryMaps
  /\ pml4 = NULL
  /\ allocator = AllocatorOf(memory_map, {})
  /\ \E garbage \in StaleEntries : tables = [f \in Frame |-> [i \in Index |-> garbage]]
  /\ asked = [page \in VirtualPages |-> NOT_PRESENT]
  /\ lost = FALSE

Next ==
  \/ ptmanager_init
  \/ \E virtual \in VirtualPages, physical \in PhysicalPages :
       MapMemory(virtual, physical)

Spec == Init /\ [][Next]_vars

-----------------------------------------------------------------------------
Running == pml4 # NULL /\ ~lost

TypeOK ==
  /\ memory_map \in MemoryMaps
  /\ pml4 \in Frame
  /\ allocator \in Allocator
  /\ tables \in Tables
  /\ asked \in [VirtualPages -> Entry]
  /\ lost \in BOOLEAN

(* The tables form a tree: no table is reached by two entries, whatever    *)
(* the order in which pages are mapped and mapped again, so that a call    *)
(* never changes the translation of a page it was not asked to map.        *)
TablesFormTree ==
  Running =>
    LET D == Directories(tables, pml4)
    IN  /\ pml4 \notin Children(tables, D)
        /\ \A d, e \in D, i, j \in Index :
             (tables[d][i] # NOT_PRESENT /\ tables[d][i] = tables[e][j])
               => d = e /\ i = j

(* Every frame taken from the allocator since boot is a table in use, and  *)
(* every table's frame is taken: ptmanager_map_memory leaks none and uses  *)
(* none it was not given.                                                  *)
FramesAreTables ==
  Running =>
    allocator.bits \ AllocatorOf(memory_map, {}).bits
      = TablesOf(tables, pml4)

(* Through the processor's page walk the manager is an address space: a    *)
(* page translates to the frame the last call for it named, whatever other *)
(* pages were mapped since, and to nothing when there was no such call.    *)
Space == INSTANCE AddressSpace WITH
           Pages       <- VirtualPages,
           Frames      <- PhysicalPages,
           UNMAPPED    <- NOT_PRESENT,
           translation <- [page \in VirtualPages |->
                             IF pml4 = NULL THEN NOT_PRESENT
                             ELSE Walk(tables, pml4, page)]

IsAddressSpace == Space!Spec
=============================================================================
