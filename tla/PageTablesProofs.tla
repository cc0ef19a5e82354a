---------------------------- MODULE PageTablesProofs ----------------------------
(***************************************************************************)
(* The page-table manager keeps a tree of tables and implements an address *)
(* space, for any memory map, tables of any size, any contents of memory   *)
(* and any calls.                                                          *)
(***************************************************************************)
EXTENDS PageTables, PageLemmas

BootBits == AllocatorOf(memory_map, {}).bits

(* Before ptmanager_init nothing is taken and nothing was asked.  While    *)
(* the manager runs the frames taken since boot are those of a tree, which *)
(* is what makes the next table a new one; and each page translates to     *)
(* what was asked.                                                         *)
TablesInv ==
  /\ TypeOK
  /\ pml4 = NULL /\ ~lost =>
       /\ WellFormed(allocator)
       /\ allocator.size = BitmapSize(memory_map)
       /\ allocator.bits = BootBits
       /\ \A page \in VirtualPages : asked[page] = NOT_PRESENT
  /\ Running =>
       /\ SoundMachine(Machine, pml4, BootBits)
       /\ \A page \in VirtualPages : Walk(tables, pml4, page) = asked[page]

-----------------------------------------------------------------------------
LEMMA BootFacts ==
  ASSUME NEW map \in MemoryMaps
  PROVE  /\ WellFormed(AllocatorOf(map, {}))
         /\ AllocatorOf(map, {}).size = BitmapSize(map)
<1>1. {} \in SUBSET {BitmapSize(map) * BITS}
  OBVIOUS
<1> QED
  BY <1>1, AllocatorOfFacts

-----------------------------------------------------------------------------
LEMMA TablesInit == Init => TablesInv
<1> SUFFICES ASSUME Init  PROVE TablesInv
  OBVIOUS
<1>1. /\ memory_map \in MemoryMaps /\ pml4 = NULL /\ lost = FALSE
      /\ allocator = AllocatorOf(memory_map, {})
      /\ asked = [page \in VirtualPages |-> NOT_PRESENT]
  BY DEF Init
<1>2. WellFormed(allocator) /\ allocator.size = BitmapSize(memory_map)
  BY <1>1, BootFacts
<1>3. tables \in Tables
  <2>1. PICK garbage \in StaleEntries : tables = [f \in Frame |-> [i \in Index |-> garbage]]
    BY DEF Init
  <2>2. garbage \in Entry
    BY CallersAssumption
  <2> QED
    BY <2>1, <2>2 DEF Tables
<1>4. pml4 \in Frame
  BY <1>1, MapsAssumption DEF NULL, Frame
<1>5. asked \in [VirtualPages -> Entry]
  BY <1>1 DEF Entry
<1>6. TypeOK
  BY <1>1, <1>2, <1>3, <1>4, <1>5 DEF TypeOK, WellFormed
<1> QED
  BY <1>1, <1>2, <1>6 DEF TablesInv, BootBits, Running

LEMMA InitManagerKeeps == TablesInv /\ ptmanager_init => TablesInv'
<1> SUFFICES ASSUME TablesInv, ptmanager_init  PROVE TablesInv'
  OBVIOUS
<1>1. /\ pml4 = NULL /\ ~lost
      /\ pml4' = RequestedPage(allocator)
      /\ allocator' = pfallocator_request_page(allocator)
      /\ tables' = [tables EXCEPT ![pml4'] = ZeroedTable]
      /\ lost' = (pml4' \notin UsableFrames(memory_map))
      /\ memory_map' = memory_map /\ asked' = asked
  BY DEF ptmanager_init
<1>2. /\ memory_map \in MemoryMaps /\ WellFormed(allocator)
      /\ allocator.size = BitmapSize(memory_map)
      /\ tables \in Tables /\ asked \in [VirtualPages -> Entry]
      /\ allocator.bits = BootBits
      /\ \A page \in VirtualPages : asked[page] = NOT_PRESENT
  BY <1>1 DEF TablesInv, TypeOK
<1>3. pml4' \in Frame
  BY <1>1, <1>2, RequestedIsFrame
<1>4. allocator' \in Allocator
  BY <1>1, <1>2, RequestConserves DEF Conserves, WellFormed
<1>5. /\ tables' \in Tables
      /\ \A i \in Index : tables'[pml4'][i] = NOT_PRESENT
  <2>1. ZeroedTable \in [Index -> Entry] /\ \A i \in Index : ZeroedTable[i] = NOT_PRESENT
    BY DEF ZeroedTable, Entry
  <2> QED
    BY <1>1, <1>2, <1>3, <2>1 DEF Tables
<1>6. TypeOK'
  BY <1>1, <1>2, <1>3, <1>4, <1>5 DEF TypeOK, WellFormed
<1>7. pml4' = NULL => lost'
  BY <1>1, <1>2, UsableAreFrames
<1>8. ASSUME Running'
      PROVE  /\ SoundMachine(Machine, pml4, BootBits)'
             /\ \A page \in VirtualPages : Walk(tables', pml4', page) = asked'[page]
  <2>1. /\ IsTree(tables', pml4') /\ TablesOf(tables', pml4') = {pml4'}
        /\ \A page \in Nat : Walk(tables', pml4', page) = NOT_PRESENT
    BY <1>3, <1>5, ZeroedRoot
  <2>2. RequestedPage(allocator) # NULL
    BY <1>1, <1>8 DEF Running
  <2>3. /\ pml4' \notin allocator.bits
        /\ allocator'.bits = allocator.bits \cup {pml4'}
    BY <1>1, <1>2, <2>2, RequestSetsOneBit DEF WellFormed
  <2>4. BootBits' = BootBits
    BY <1>1 DEF BootBits
  <2>5. UsableFrames(memory_map)' \in SUBSET (Frame \ {NULL})
    BY <1>1, <1>2, UsableAreFrames
  <2>6. lost' \in BOOLEAN
    BY <1>1
  <2>7. SoundMachine(Machine, pml4, BootBits)'
    BY <1>2, <1>4, <1>5, <2>1, <2>3, <2>4, <2>5, <2>6 DEF SoundMachine, Machine
  <2>8. \A page \in VirtualPages : page \in Nat
    BY CallersAssumption
  <2> QED
    BY <1>1, <1>2, <2>1, <2>7, <2>8
<1> QED
  BY <1>6, <1>7, <1>8 DEF TablesInv

LEMMA MapMemoryKeeps ==
  ASSUME NEW virtual \in VirtualPages, NEW physical \in PhysicalPages,
         TablesInv, MapMemory(virtual, physical)
  PROVE  TablesInv'
<1> DEFINE m == ptmanager_map_memory(Machine, pml4, virtual, physical)
<1>1. /\ pml4 # NULL /\ ~lost
      /\ allocator' = m.allocator /\ tables' = m.tables /\ lost' = m.lost
      /\ asked' = IF m.lost THEN asked ELSE [asked EXCEPT ![virtual] = physical]
      /\ memory_map' = memory_map /\ pml4' = pml4
  BY DEF MapMemory
<1>2. /\ memory_map \in MemoryMaps /\ pml4 \in Frame
      /\ asked \in [VirtualPages -> Entry]
      /\ SoundMachine(Machine, pml4, BootBits)
      /\ \A page \in VirtualPages : Walk(tables, pml4, page) = asked[page]
  BY <1>1 DEF TablesInv, TypeOK, Running
<1>3. physical \in Frame /\ VirtualPages \subseteq 0 .. RADIX * RADIX * RADIX * RADIX - 1
  BY CallersAssumption
<1>4. /\ ~Machine.lost /\ Machine.usable = UsableFrames(memory_map)
      /\ Machine.allocator = allocator /\ Machine.tables = tables
  BY <1>1 DEF Machine
<1>5. /\ SoundMachine(m, pml4, BootBits)
      /\ m.usable = Machine.usable
      /\ \A page \in 0 .. RADIX * RADIX * RADIX * RADIX - 1 :
           Walk(m.tables, pml4, page)
             = IF page = virtual /\ ~m.lost THEN physical
               ELSE Walk(Machine.tables, pml4, page)
  BY <1>2, <1>3, <1>4, MapMemoryFacts
<1> HIDE DEF m
<1>6. BootBits' = BootBits
  BY <1>1 DEF BootBits
<1>7. Machine' = m
  BY <1>1, <1>4, <1>5 DEF Machine, SoundMachine
<1>8. SoundMachine(Machine, pml4, BootBits)'
  BY <1>1, <1>5, <1>6, <1>7
<1>9. asked' \in [VirtualPages -> Entry]
  BY <1>1, <1>2, <1>3 DEF Entry
<1>10. /\ allocator' \in Allocator /\ tables' \in Tables /\ lost' \in BOOLEAN
  BY <1>1, <1>2, <1>4, <1>5 DEF SoundMachine
<1>11. TypeOK'
  BY <1>1, <1>2, <1>9, <1>10 DEF TypeOK
<1>12. ~lost' => \A page \in VirtualPages : Walk(tables', pml4', page) = asked'[page]
  BY <1>1, <1>2, <1>3, <1>4, <1>5
<1> QED
  BY <1>1, <1>8, <1>11, <1>12 DEF TablesInv, Running

LEMMA TablesNext == TablesInv /\ [Next]_vars => TablesInv'
<1> SUFFICES ASSUME TablesInv, [Next]_vars  PROVE TablesInv'
  OBVIOUS
<1>1. CASE ptmanager_init
  BY <1>1, InitManagerKeeps
<1>2. ASSUME NEW virtual \in VirtualPages, NEW physical \in PhysicalPages,
             MapMemory(virtual, physical)
      PROVE  TablesInv'
  BY <1>2, MapMemoryKeeps
<1>3. CASE UNCHANGED vars
  BY <1>3 DEF TablesInv, TypeOK, BootBits, Running, Machine, SoundMachine, vars
<1> QED
  BY <1>1, <1>2, <1>3 DEF Next

LEMMA TablesInvariant == Spec => []TablesInv
BY TablesInit, TablesNext, PTL DEF Spec

-----------------------------------------------------------------------------
(* Memory read as tables holds entries, and the allocator stays one.       *)
THEOREM TablesTypeCorrect == Spec => []TypeOK
<1>1. TablesInv => TypeOK
  BY DEF TablesInv
<1> QED
  BY <1>1, TablesInvariant, PTL

(* However pages are mapped and mapped again, no table is reached twice.   *)
THEOREM TablesStayTree == Spec => []TablesFormTree
<1>1. TablesInv => TablesFormTree
  BY DEF TablesInv, TablesFormTree, SoundMachine, Machine, IsTree
<1> QED
  BY <1>1, TablesInvariant, PTL

(* The frames taken since boot are exactly the tables in use.              *)
THEOREM NoTableLeaks == Spec => []FramesAreTables
<1>1. TablesInv => FramesAreTables
  BY DEF TablesInv, FramesAreTables, SoundMachine, Machine, BootBits
<1> QED
  BY <1>1, TablesInvariant, PTL

-----------------------------------------------------------------------------
(* The manager implements an address space.                                *)
Translation == [page \in VirtualPages |->
                  IF pml4 = NULL THEN NOT_PRESENT ELSE Walk(tables, pml4, page)]

LEMMA TranslationAsAsked == TablesInv /\ ~lost => Translation = asked
<1> SUFFICES ASSUME TablesInv, ~lost  PROVE Translation = asked
  OBVIOUS
<1>1. asked \in [VirtualPages -> Entry]
  BY DEF TablesInv, TypeOK
<1>2. \A page \in VirtualPages : Translation[page] = asked[page]
  BY DEF TablesInv, Running, Translation
<1>3. Translation = [page \in VirtualPages |-> Translation[page]]
  BY DEF Translation
<1> QED
  BY <1>1, <1>2, <1>3

LEMMA InitialSpace == Init => Space!Init
<1> SUFFICES ASSUME Init  PROVE Space!Init
  OBVIOUS
<1>1. pml4 = NULL /\ ~lost /\ asked = [page \in VirtualPages |-> NOT_PRESENT]
  BY DEF Init
<1>2. Translation = asked
  BY <1>1 DEF Translation
<1> QED
  BY <1>1, <1>2 DEF Space!Init, Translation

LEMMA SpaceStep ==
  TablesInv /\ TablesInv' /\ [Next]_vars => [Space!Next]_(Space!vars)
<1>0. (TablesInv /\ ~lost => Translation = asked)'
  BY TranslationAsAsked, PTL
<1> SUFFICES ASSUME TablesInv, TablesInv', [Next]_vars  PROVE [Space!Next]_(Space!vars)
  OBVIOUS
<1>1. CASE UNCHANGED vars
  BY <1>1 DEF vars, Space!vars
<1>2. ASSUME ~lost, asked' = asked, lost'  PROVE Space!Next
  BY <1>2 DEF Space!Next, Space!Lose
<1>3. CASE ptmanager_init
  <2>1. ~lost /\ asked' = asked
    BY <1>3 DEF ptmanager_init
  <2>2. CASE lost'
    BY <1>2, <2>1, <2>2
  <2>3. CASE ~lost'
    <3>1. Translation = asked /\ Translation' = asked'
      BY <1>0, <2>1, <2>3, TranslationAsAsked
    <3>2. lost' = lost
      BY <2>1, <2>3 DEF TablesInv, TypeOK
    <3> QED
      BY <2>1, <3>1, <3>2 DEF Space!vars, Translation
  <2> QED
    BY <2>2, <2>3
<1>4. ASSUME NEW virtual \in VirtualPages, NEW physical \in PhysicalPages,
             MapMemory(virtual, physical)
      PROVE  [Space!Next]_(Space!vars)
  <2>1. /\ ~lost
        /\ asked' = IF lost' THEN asked ELSE [asked EXCEPT ![virtual] = physical]
    BY <1>4 DEF MapMemory
  <2>2. CASE lost'
    BY <1>2, <2>1, <2>2
  <2>3. CASE ~lost'
    <3>1. Translation' = asked'
      BY <1>0, <2>3
    <3>2. lost' = lost
      BY <2>1, <2>3 DEF TablesInv, TypeOK
    <3>3. Space!Map(virtual, physical)
      BY <2>1, <2>3, <3>1, <3>2 DEF Space!Map, Translation
    <3> QED
      BY <3>3 DEF Space!Next
  <2> QED
    BY <2>2, <2>3
<1> QED
  BY <1>1, <1>3, <1>4 DEF Next

(* Through the page walk a call of ptmanager_map_memory changes one        *)
(* translation, to what it was asked, or the machine is lost.              *)
THEOREM TablesAreAddressSpace == Spec => IsAddressSpace
<1>1. Spec => Space!Init /\ [][Space!Next]_(Space!vars)
  BY InitialSpace, SpaceStep, TablesInvariant, PTL DEF Spec
<1> QED
  BY <1>1 DEF IsAddressSpace, Space!Spec
=============================================================================
