------------------------------ MODULE KernelProofs ------------------------------
(***************************************************************************)
(* Kernel initialisation and the PCI enumeration after it keep every page  *)
(* they map translated to itself, map no other, and fault only where the   *)
(* memory map has holes or memory has run out: for any memory map, kernel, *)
(* framebuffer and MCFG table, tables of any size, and any contents of the *)
(* memory behind the bitmap, whose bound moves when the root's address is  *)
(* written over its size.                                                  *)
(***************************************************************************)
EXTENDS PciEnumeration, PageLemmas, SequenceTheorems

MemoryPages == 0 .. get_memory_size(memory_map) - 1

(* The statements before the tables are built, and those that build them.  *)
Preparing == pc \in {"read map", "lock kernel", "lock framebuffer", "request root",
                     "init manager"}
Mapping == pc \in {"map memory", "map kernel", "map framebuffer", "load"}

(* The kernel runs on its tables, and has neither faulted nor been lost.   *)
Enumerating == pc \in {"running", "bus", "device", "function", "halted"}

MappedSoFar ==
  IF pc = "map memory" THEN 0 .. i - 1
  ELSE IF pc = "map kernel" THEN MemoryPages \cup (0 .. i - 1)
  ELSE IF pc = "map framebuffer"
    THEN MemoryPages \cup KernelPages \cup (framebuffer.frame .. i - 1)
  ELSE MappedPages

(* The loops' variable stays within the loop's range. *)
LoopBound ==
  /\ pc = "map memory" => i <= get_memory_size(memory_map)
  /\ pc = "map kernel" => i <= KernelEnd
  /\ pc = "map framebuffer" => framebuffer.frame <= i /\ i <= FramebufferEnd

(* The pages of one device, and of one bus: EnumeratedPages bus by bus.    *)
DevicePages(table, there, k, d) ==
  {FunctionPage(table[k], d, f) :
     f \in {0} \cup (IF d \in there[k] THEN Functions ELSE {})}

BusPages(table, there, k) ==
  {table[k]} \cup (IF 0 \in there[k]
                     THEN UNION {DevicePages(table, there, k, d) : d \in Devices}
                     ELSE {})

(* Those enumerated when the loops stand at entry, device and function.    *)
BusesBefore(table, there, k) == UNION {BusPages(table, there, j) : j \in 1 .. k - 1}

DevicesBefore(table, there, k, d) ==
  {table[k]} \cup UNION {DevicePages(table, there, k, e) : e \in 0 .. d - 1}

FunctionsBefore(table, k, d, f) ==
  {FunctionPage(table[k], d, g) : g \in {0} \cup (0 .. f - 1)}

EnumeratedSoFar ==
  BusesBefore(mcfg, present, entry)
    \cup (IF pc \in {"device", "function"}
            THEN DevicesBefore(mcfg, present, entry, device) ELSE {})
    \cup (IF pc = "function" THEN FunctionsBefore(mcfg, entry, device, function) ELSE {})

Translated == IF Mapping THEN MappedSoFar ELSE MappedPages \cup EnumeratedSoFar

(* Where the enumeration's loops can stand. *)
EnumerationBound ==
  /\ Preparing \/ Mapping \/ pc = "running" =>
       mcfg = <<>> /\ entry = 1 /\ device = 0 /\ function = 0
  /\ pc \in {"device", "function"} => entry <= Len(mcfg) /\ 0 \in present[entry]
  /\ pc = "function" => device \in present[entry]
  /\ pc = "halted" => entry = Len(mcfg) + 1

(* The tables under r form a tree on usable frames of their own, and pages *)
(* and only they translate, to themselves.                                 *)
MachineOf(a, t, usable) ==
  [allocator |-> a, tables |-> t, lost |-> FALSE, usable |-> usable]

MapsOnly(a, t, r, usable, pages) ==
  /\ SoundMachine(MachineOf(a, t, usable), r, a.bits \ TablesOf(t, r))
  /\ TablesOf(t, r) \subseteq usable
  /\ \A page \in Frame :
       Walk(t, r, page) = IF page \in pages THEN page ELSE NOT_PRESENT

-----------------------------------------------------------------------------
(* The invariant. *)
EnvironmentTyped ==
  /\ memory_map \in MemoryMaps /\ kernel \in Kernels /\ framebuffer \in Framebuffers
  /\ borrowed \in FramesOfType(memory_map, {"other"})

MemoryTyped ==
  /\ i \in Nat /\ pml4 \in Frame /\ cr3 \in Frame
  /\ allocator \in Allocator /\ tables \in Tables

EnumerationTyped ==
  /\ mcfg \in McfgTables \cup {<<>>}
  /\ present \in [DOMAIN mcfg -> SUBSET Devices]
  /\ entry \in 1 .. Len(mcfg) + 1
  /\ device \in 0 .. DEVICES /\ function \in 0 .. FUNCTIONS

Prepared ==
  /\ pc \notin {"read map", "lost"} => BitmapFits
  /\ pc \in {"lock kernel", "lock framebuffer", "request root"} =>
       WellFormed(allocator) /\ allocator.size = BitmapSize(memory_map)
  /\ pc = "init manager" =>
       /\ pml4 \in Usable /\ pml4 \in allocator.bits
       /\ \A j \in Index : tables[pml4][j] = NOT_PRESENT

Built ==
  Mapping \/ Enumerating =>
    pml4 # NULL /\ MapsOnly(allocator, tables, pml4, Usable, Translated)

Loaded ==
  /\ Preparing \/ Mapping => cr3 = NULL
  /\ Enumerating => cr3 = pml4
  /\ cr3 # NULL => cr3 = pml4

KernelInv ==
  /\ EnvironmentTyped /\ MemoryTyped /\ EnumerationTyped
  /\ LoopBound /\ EnumerationBound
  /\ Prepared /\ Built /\ Loaded
  /\ IdentityMapped
  /\ FaultOnlyBeyondRange

-----------------------------------------------------------------------------
(* The pages the kernel maps have addresses. *)
LEMMA DivisionMonotone ==
  ASSUME NEW a \in Nat, NEW b \in Nat, NEW n \in Nat \ {0}, a <= b
  PROVE  a \div n \in Nat /\ a \div n <= b \div n
<1> DEFINE p == a \div n
           q == b \div n
<1>1. p \in Nat /\ q \in Nat /\ n * p <= a /\ b < n * q + n
  OBVIOUS
<1> HIDE DEF p, q
<1>2. ASSUME p > q  PROVE FALSE
  <2>1. n * p >= n * (q + 1)
    BY <1>1, <1>2
  <2>2. n * (q + 1) = n * q + n
    BY <1>1
  <2> QED
    BY <1>1, <2>1, <2>2
<1> QED
  BY <1>1, <1>2 DEF p, q

LEMMA ProductsGrow ==
  ASSUME NEW a \in Nat, NEW b \in Nat, NEW n \in Nat, a <= b
  PROVE  a * n <= b * n
<1>1. b = a + (b - a) /\ b - a \in Nat
  OBVIOUS
<1>2. b * n = a * n + (b - a) * n /\ (b - a) * n \in Nat /\ a * n \in Nat
  BY <1>1
<1> QED
  BY <1>2

LEMMA MemorySizeBound ==
  ASSUME NEW map \in MemoryMaps
  PROVE  get_memory_size(map) \in Nat /\ get_memory_size(map) - 1 < MAX_FRAME
<1> DEFINE n == get_memory_size(map)
           q == n \div BITS
<1>1. n \in Nat /\ BitmapSize(map) * BITS <= MAX_FRAME /\ MAX_FRAME \in Nat
  BY MemorySizeType, MapsAssumption
<1>2. BitmapSize(map) = q + 1
  BY DEF BitmapSize
<1> HIDE DEF n
<1>3. BITS \in Nat \ {0}
  BY FramesAssumption
<1>4. q \in Nat /\ n < BITS * q + BITS
  BY <1>1, <1>3
<1> HIDE DEF q
<1>5. (q + 1) * BITS = BITS * q + BITS /\ BITS * q + BITS \in Nat
  BY <1>3, <1>4
<1>6. BITS * q + BITS <= MAX_FRAME
  BY <1>1, <1>2, <1>5
<1>7. n - 1 < MAX_FRAME
  BY <1>1, <1>4, <1>5, <1>6
<1> QED
  BY <1>1, <1>7 DEF n

LEMMA FramesAreIndexed == Frame \subseteq 0 .. RADIX * RADIX * RADIX * RADIX - 1
<1>1. MAX_FRAME \in Nat /\ Frame = 0 .. MAX_FRAME
  BY MapsAssumption DEF Frame
<1>2. RADIX * RADIX * RADIX * RADIX \in Int /\ MAX_FRAME < RADIX * RADIX * RADIX * RADIX
  BY RadixAssumption, EnvironmentAssumption
<1> QED
  BY <1>1, <1>2

LEMMA EnvironmentFacts ==
  ASSUME EnvironmentTyped
  PROVE  /\ get_memory_size(memory_map) \in Nat /\ MemoryPages \subseteq Frame
         /\ KernelEnd \in Nat /\ KernelPages \subseteq Frame
         /\ framebuffer.frame \in Nat /\ FramebufferEnd \in Nat
         /\ framebuffer.frame <= FramebufferEnd /\ FramebufferPages \subseteq Frame
         /\ Usable \subseteq Frame \ {NULL} /\ Usable \subseteq Conventional(memory_map)
<1>1. /\ memory_map \in MemoryMaps
      /\ kernel.full \in Frame /\ kernel.tail \in BOOLEAN
      /\ framebuffer.frame \in Frame /\ framebuffer.pages \in Frame
      /\ framebuffer.frame + framebuffer.pages \in Frame
  BY EnvironmentAssumption DEF EnvironmentTyped
<1>2. MAX_FRAME \in Nat /\ Frame = 0 .. MAX_FRAME
  BY MapsAssumption DEF Frame
<1>3. get_memory_size(memory_map) \in Nat /\ MemoryPages \subseteq Frame
  BY <1>1, <1>2, MemorySizeBound DEF MemoryPages
<1>4. KernelEnd \in Nat /\ KernelPages \subseteq Frame
  BY <1>1, <1>2 DEF KernelEnd, KernelPages
<1>5. /\ framebuffer.frame \in Nat /\ FramebufferEnd \in Nat
      /\ framebuffer.frame <= FramebufferEnd /\ FramebufferPages \subseteq Frame
  BY <1>1, <1>2 DEF FramebufferEnd, FramebufferPages
<1>6. Usable \subseteq Frame \ {NULL} /\ Usable \subseteq Conventional(memory_map)
  BY <1>1, UsableAreFrames DEF Usable, UsableFrames
<1> QED
  BY <1>3, <1>4, <1>5, <1>6

-----------------------------------------------------------------------------
(* A page mapped to itself: what the call leaves, whether lost or not.      *)
OnePageMapped(m, a, t, r, usable, pages, page) ==
  /\ m.allocator \in Allocator /\ m.tables \in Tables /\ m.lost \in BOOLEAN
  /\ ~m.lost => MapsOnly(m.allocator, m.tables, r, usable, pages \cup {page})
  /\ TablesOf(m.tables, r) \subseteq usable
  /\ m.allocator.bits \ a.bits \subseteq usable
  /\ \A q \in Frame :
       Walk(m.tables, r, q) = IF q = page /\ ~m.lost THEN page ELSE Walk(t, r, q)

LEMMA MappingOnePage ==
  ASSUME NEW a, NEW t, NEW r \in Frame, NEW usable, NEW pages,
         MapsOnly(a, t, r, usable, pages), NEW page \in Frame,
         NEW m, m = ptmanager_map_memory(MachineOf(a, t, usable), r, page, page)
  PROVE  OnePageMapped(m, a, t, r, usable, pages, page)
<1> DEFINE machine == MachineOf(a, t, usable)
           boot == a.bits \ TablesOf(t, r)
<1>1. /\ machine.allocator = a /\ machine.tables = t /\ machine.lost = FALSE
      /\ machine.usable = usable
  BY DEF MachineOf
<1>2. /\ SoundMachine(machine, r, boot) /\ ~machine.lost
      /\ TablesOf(t, r) \subseteq usable
      /\ \A q \in Frame : Walk(t, r, q) = IF q \in pages THEN q ELSE NOT_PRESENT
  BY <1>1 DEF MapsOnly
<1> HIDE DEF machine, boot
<1>3. /\ page \in 0 .. RADIX * RADIX * RADIX * RADIX - 1
      /\ Frame \subseteq 0 .. RADIX * RADIX * RADIX * RADIX - 1
  BY FramesAreIndexed
<1>4. /\ SoundMachine(m, r, boot)
      /\ m.usable = usable /\ m.allocator.size = a.size
      /\ TablesOf(m.tables, r) \subseteq TablesOf(t, r) \cup usable
      /\ \A q \in 0 .. RADIX * RADIX * RADIX * RADIX - 1 :
           Walk(m.tables, r, q) = IF q = page /\ ~m.lost THEN page ELSE Walk(t, r, q)
  <2>1. /\ SoundMachine(m, r, boot)
        /\ m.usable = machine.usable /\ m.allocator.size = machine.allocator.size
        /\ TablesOf(m.tables, r) \subseteq TablesOf(machine.tables, r) \cup machine.usable
        /\ \A q \in 0 .. RADIX * RADIX * RADIX * RADIX - 1 :
             Walk(m.tables, r, q) = IF q = page /\ ~m.lost THEN page
                                    ELSE Walk(machine.tables, r, q)
    BY <1>2, <1>3, MapMemoryFacts DEF machine
  <2> QED
    BY <1>1, <2>1
<1>5. \A q \in Frame :
        Walk(m.tables, r, q) = IF q = page /\ ~m.lost THEN page ELSE Walk(t, r, q)
  BY <1>3, <1>4
<1>6. TablesOf(m.tables, r) \subseteq usable
  BY <1>2, <1>4
<1>7. /\ m.allocator \in Allocator /\ m.tables \in Tables /\ m.lost \in BOOLEAN
      /\ boot \cap TablesOf(m.tables, r) = {}
      /\ m.allocator.bits = boot \cup TablesOf(m.tables, r)
      /\ m = [allocator |-> m.allocator, tables |-> m.tables, lost |-> m.lost,
              usable |-> m.usable]
  BY <1>4 DEF SoundMachine
<1>8. m.allocator.bits \ a.bits \subseteq usable
  BY <1>6, <1>7 DEF boot
<1>9. ASSUME ~m.lost
      PROVE  MapsOnly(m.allocator, m.tables, r, usable, pages \cup {page})
  <2>1. m.allocator.bits \ TablesOf(m.tables, r) = boot
    BY <1>7
  <2>2. m = MachineOf(m.allocator, m.tables, usable)
    BY <1>4, <1>7, <1>9 DEF MachineOf
  <2>3. SoundMachine(MachineOf(m.allocator, m.tables, usable), r,
                     m.allocator.bits \ TablesOf(m.tables, r))
    BY <1>4, <2>1, <2>2
  <2>4. \A q \in Frame :
          Walk(m.tables, r, q) = IF q \in pages \cup {page} THEN q ELSE NOT_PRESENT
    BY <1>2, <1>5, <1>9
  <2> QED
    BY <1>6, <2>3, <2>4 DEF MapsOnly
<1> QED
  BY <1>5, <1>6, <1>7, <1>8, <1>9 DEF OnePageMapped

-----------------------------------------------------------------------------
(* Initialisation. *)
LEMMA KernelInit == PciInit => KernelInv
<1> SUFFICES ASSUME PciInit  PROVE KernelInv
  OBVIOUS
<1>1. /\ memory_map \in MemoryMaps /\ kernel \in Kernels /\ framebuffer \in Framebuffers
      /\ pc = "read map" /\ i = 0 /\ pml4 = NULL /\ cr3 = NULL
      /\ allocator = [size |-> 0, bits |-> {}, free_memory |-> 0,
                      used_memory |-> 0, reserved_memory |-> 0]
      /\ borrowed \in FramesOfType(memory_map, {"other"})
      /\ mcfg = <<>> /\ present = <<>> /\ entry = 1 /\ device = 0 /\ function = 0
  BY DEF PciInit, Init
<1>2. allocator \in Allocator
  <2>1. 0 \in Counter
    BY FramesAssumption DEF Counter
  <2> QED
    BY <1>1, <2>1 DEF Allocator
<1>3. tables \in Tables
  <2>1. PICK garbage \in StaleEntries : tables = [f \in Frame |-> [j \in Index |-> garbage]]
    BY DEF PciInit, Init
  <2>2. garbage \in Entry
    BY EnvironmentAssumption
  <2> QED
    BY <2>1, <2>2 DEF Tables
<1>4. EnvironmentTyped
  BY <1>1 DEF EnvironmentTyped
<1>5. MemoryTyped
  <2>1. NULL \in Frame
    BY MapsAssumption DEF Frame, NULL
  <2> QED
    BY <1>1, <1>2, <1>3, <2>1 DEF MemoryTyped
<1>6. EnumerationTyped
  <2>1. <<>> \in Seq(SUBSET Devices) /\ Len(<<>>) = 0
    OBVIOUS
  <2>2. <<>> \in [DOMAIN <<>> -> SUBSET Devices]
    BY <2>1, LenProperties
  <2>0. mcfg = <<>> /\ entry = 1 /\ device = 0 /\ function = 0
    BY <1>1
  <2>3. entry \in 1 .. Len(mcfg) + 1
    BY <2>0, <2>1
  <2>4. device \in 0 .. DEVICES /\ function \in 0 .. FUNCTIONS
    BY <2>0, PciAssumption
  <2> QED
    BY <1>1, <2>2, <2>3, <2>4 DEF EnumerationTyped
<1>7. LoopBound /\ EnumerationBound
  BY <1>1 DEF LoopBound, EnumerationBound, Preparing, Mapping
<1>8. Prepared /\ Built /\ Loaded
  BY <1>1 DEF Prepared, Built, Loaded, Preparing, Mapping, Enumerating
<1>9. IdentityMapped /\ FaultOnlyBeyondRange
  BY <1>1 DEF IdentityMapped, FaultOnlyBeyondRange
<1> QED
  BY <1>4, <1>5, <1>6, <1>7, <1>8, <1>9 DEF KernelInv

(* What a step of initialisation leaves alone. *)
LEMMA BootStep ==
  ASSUME KernelInv, Preparing \/ Mapping,
         UNCHANGED environment, UNCHANGED pciVars, cr3' \in {cr3, pml4'},
         (Preparing \/ Mapping \/ pc = "running" \/ pc = "lost")'
  PROVE  /\ EnvironmentTyped' /\ EnumerationTyped' /\ EnumerationBound'
         /\ FaultOnlyBeyondRange'
<1>1. UNCHANGED <<memory_map, kernel, framebuffer, borrowed, mcfg, present, entry,
                  device, function>>
  BY DEF environment, pciVars
<1>2. EnvironmentTyped'
  BY <1>1 DEF KernelInv, EnvironmentTyped
<1>3. EnumerationTyped'
  BY <1>1 DEF KernelInv, EnumerationTyped
<1>4. mcfg = <<>> /\ entry = 1 /\ device = 0 /\ function = 0
  BY DEF KernelInv, EnumerationBound
<1>5. EnumerationBound'
  BY <1>1, <1>4 DEF EnumerationBound, Preparing, Mapping
<1>6. FaultOnlyBeyondRange'
  BY DEF FaultOnlyBeyondRange, Preparing, Mapping
<1> QED
  BY <1>2, <1>3, <1>5, <1>6

LEMMA ReadMemoryMapKeeps == KernelInv /\ ReadMemoryMap /\ UNCHANGED pciVars => KernelInv'
<1> SUFFICES ASSUME KernelInv, ReadMemoryMap, UNCHANGED pciVars  PROVE KernelInv'
  OBVIOUS
<1>1. /\ pc = "read map"
      /\ pc' = IF BitmapFits THEN "lock kernel" ELSE "lost"
      /\ UNCHANGED environment /\ i' = i /\ pml4' = pml4 /\ tables' = tables /\ cr3' = cr3
      /\ memory_map' = memory_map /\ kernel' = kernel
  BY DEF ReadMemoryMap, environment
<1>2. PICK found \in SUBSET {BitmapSize(memory_map) * BITS} :
        allocator' = AllocatorOf(memory_map, found)
  BY DEF ReadMemoryMap
<1>3. WellFormed(allocator') /\ allocator'.size = BitmapSize(memory_map)
  BY <1>2, AllocatorOfFacts DEF KernelInv, EnvironmentTyped
<1>4. EnvironmentTyped' /\ EnumerationTyped' /\ EnumerationBound' /\ FaultOnlyBeyondRange'
  BY <1>1, BootStep DEF Preparing
<1>5. MemoryTyped'
  BY <1>1, <1>3 DEF KernelInv, MemoryTyped, WellFormed
<1>6. LoopBound'
  BY <1>1 DEF LoopBound
<1>7. BitmapFits' = BitmapFits
  BY <1>1 DEF BitmapFits, KernelPages, KernelEnd
<1>8. Prepared'
  BY <1>1, <1>3, <1>7 DEF Prepared
<1>9. Built' /\ Loaded' /\ IdentityMapped'
  BY <1>1 DEF KernelInv, Built, Loaded, Preparing, Mapping, Enumerating, IdentityMapped
<1> QED
  BY <1>4, <1>5, <1>6, <1>8, <1>9 DEF KernelInv

(* Locking pages keeps the allocator's bound and its bits below it. *)
LEMMA LockStepKeeps ==
  ASSUME KernelInv, UNCHANGED pciVars, NEW pages \in SUBSET Nat,
         allocator' = pfallocator_lock_pages(allocator, pages),
         UNCHANGED <<environment, i, pml4, tables, cr3>>,
         pc \in {"lock kernel", "lock framebuffer"},
         pc' \in {"lock framebuffer", "request root"}
  PROVE  KernelInv'
<1>1. memory_map' = memory_map /\ kernel' = kernel
  BY DEF environment
<1>2. WellFormed(allocator') /\ allocator'.size = BitmapSize(memory_map)
  BY SettingConserves DEF KernelInv, Prepared, Conserves
<1>3. EnvironmentTyped' /\ EnumerationTyped' /\ EnumerationBound' /\ FaultOnlyBeyondRange'
  BY BootStep DEF Preparing
<1>4. MemoryTyped'
  BY <1>2 DEF KernelInv, MemoryTyped, WellFormed
<1>5. LoopBound'
  BY DEF LoopBound
<1>6. BitmapFits /\ BitmapFits' = BitmapFits
  BY <1>1 DEF KernelInv, Prepared, BitmapFits, KernelPages, KernelEnd
<1>7. Prepared'
  BY <1>1, <1>2, <1>6 DEF Prepared
<1>8. Built' /\ Loaded' /\ IdentityMapped'
  BY DEF KernelInv, Built, Loaded, Preparing, Mapping, Enumerating, IdentityMapped
<1> QED
  BY <1>3, <1>4, <1>5, <1>7, <1>8 DEF KernelInv

LEMMA LockKernelKeeps == KernelInv /\ LockKernel /\ UNCHANGED pciVars => KernelInv'
<1> SUFFICES ASSUME KernelInv, LockKernel, UNCHANGED pciVars  PROVE KernelInv'
  OBVIOUS
<1>1. KernelPagesToLock \in SUBSET Nat
  BY EnvironmentAssumption, MapsAssumption
  DEF KernelInv, EnvironmentTyped, KernelPagesToLock, Frame
<1> QED
  BY <1>1, LockStepKeeps DEF LockKernel

LEMMA LockFramebufferKeeps ==
  KernelInv /\ LockFramebuffer /\ UNCHANGED pciVars => KernelInv'
<1> SUFFICES ASSUME KernelInv, LockFramebuffer, UNCHANGED pciVars  PROVE KernelInv'
  OBVIOUS
<1>1. FramebufferPages \in SUBSET Nat
  BY EnvironmentFacts, NotPresentIsNoFrame DEF KernelInv
<1> QED
  BY <1>1, LockStepKeeps DEF LockFramebuffer

LEMMA RequestRootKeeps == KernelInv /\ RequestRoot /\ UNCHANGED pciVars => KernelInv'
<1> SUFFICES ASSUME KernelInv, RequestRoot, UNCHANGED pciVars  PROVE KernelInv'
  OBVIOUS
<1>1. /\ pc = "request root"
      /\ pml4' = RequestedPage(allocator)
      /\ pc' = IF pml4' \in Usable THEN "init manager" ELSE "lost"
      /\ allocator' = pfallocator_request_page(allocator)
      /\ tables' = [tables EXCEPT ![pml4'] = ZeroedTable]
      /\ UNCHANGED environment /\ i' = i /\ cr3' = cr3
      /\ memory_map' = memory_map /\ kernel' = kernel /\ framebuffer' = framebuffer
  BY DEF RequestRoot, environment
<1>2. /\ WellFormed(allocator) /\ allocator.size = BitmapSize(memory_map)
      /\ memory_map \in MemoryMaps /\ tables \in Tables /\ i \in Nat
      /\ cr3 = NULL /\ cr3 \in Frame
  BY <1>1 DEF KernelInv, Prepared, EnvironmentTyped, MemoryTyped, Loaded, Preparing
<1>3. pml4' \in Frame
  BY <1>1, <1>2, RequestedIsFrame
<1>4. allocator' \in Allocator
  BY <1>1, <1>2, RequestConserves DEF Conserves, WellFormed
<1>5. /\ tables' \in Tables
      /\ \A j \in Index : tables'[pml4'][j] = NOT_PRESENT
  <2>1. ZeroedTable \in [Index -> Entry] /\ \A j \in Index : ZeroedTable[j] = NOT_PRESENT
    BY DEF ZeroedTable, Entry
  <2> QED
    BY <1>1, <1>2, <1>3, <2>1 DEF Tables
<1>6. EnvironmentTyped' /\ EnumerationTyped' /\ EnumerationBound' /\ FaultOnlyBeyondRange'
  BY <1>1, BootStep DEF Preparing
<1>7. MemoryTyped'
  BY <1>1, <1>2, <1>3, <1>4, <1>5 DEF MemoryTyped
<1>8. LoopBound'
  BY <1>1 DEF LoopBound
<1>9. /\ BitmapFits /\ BitmapFits' = BitmapFits /\ Usable' = Usable
  BY <1>1 DEF KernelInv, Prepared, BitmapFits, Usable, KernelPages, KernelEnd,
              FramebufferPages, FramebufferEnd
<1>10. ASSUME pml4' \in Usable  PROVE pml4' \in allocator'.bits
  <2>1. Usable \subseteq Frame \ {NULL}
    BY EnvironmentFacts DEF KernelInv
  <2>2. RequestedPage(allocator) # NULL
    BY <1>1, <1>10, <2>1
  <2> QED
    BY <1>1, <1>2, <2>2, RequestSetsOneBit DEF WellFormed
<1>11. Prepared'
  BY <1>1, <1>5, <1>9, <1>10 DEF Prepared
<1>12. Built' /\ Loaded' /\ IdentityMapped'
  BY <1>1, <1>2 DEF Built, Loaded, Preparing, Mapping, Enumerating, IdentityMapped
<1> QED
  BY <1>6, <1>7, <1>8, <1>11, <1>12 DEF KernelInv

(* The bitmap's bound becomes what it was not; the root alone is a tree,   *)
(* on a frame whose bit stays set.                                         *)
LEMMA InitManagerKeeps == KernelInv /\ InitManager /\ UNCHANGED pciVars => KernelInv'
<1> SUFFICES ASSUME KernelInv, InitManager, UNCHANGED pciVars  PROVE KernelInv'
  OBVIOUS
<1>1. /\ pc = "init manager" /\ pc' = "map memory" /\ i' = 0
      /\ UNCHANGED environment /\ pml4' = pml4 /\ tables' = tables /\ cr3' = cr3
      /\ memory_map' = memory_map /\ kernel' = kernel /\ framebuffer' = framebuffer
  BY DEF InitManager, environment
<1>2. PICK beyond \in {{}, LastBit(allocator) + 1 .. pml4 * FRAME_BYTES * BITS} :
        allocator' = [allocator EXCEPT !.size = pml4 * FRAME_BYTES, !.bits = @ \cup beyond]
  BY DEF InitManager
<1>3. /\ pml4 \in Usable /\ pml4 \in allocator.bits /\ pml4 \in Frame /\ pml4 \in Nat
      /\ \A j \in Index : tables[pml4][j] = NOT_PRESENT
      /\ allocator \in Allocator /\ tables \in Tables /\ cr3 = NULL /\ cr3 \in Frame
      /\ Usable \subseteq Frame \ {NULL} /\ pml4 # NULL /\ BitmapFits
  BY <1>1, EnvironmentFacts, NotPresentIsNoFrame
  DEF KernelInv, Prepared, MemoryTyped, Loaded, Preparing
<1>4. beyond \in SUBSET Nat /\ pml4 * FRAME_BYTES \in Nat
  <2>1. LastBit(allocator) \in Nat
    BY <1>3, LastBitType
  <2> QED
    BY <1>3, <2>1, FramesAssumption
<1>5. /\ allocator' \in Allocator
      /\ allocator'.bits = allocator.bits \cup beyond
  BY <1>2, <1>3, <1>4 DEF Allocator
<1>6. EnvironmentTyped' /\ EnumerationTyped' /\ EnumerationBound' /\ FaultOnlyBeyondRange'
  BY <1>1, BootStep DEF Preparing, Mapping
<1>7. MemoryTyped'
  BY <1>1, <1>3, <1>5 DEF MemoryTyped
<1>8. LoopBound'
  <2>1. get_memory_size(memory_map) \in Nat
    BY EnvironmentFacts DEF KernelInv
  <2>2. i' = 0 /\ memory_map' = memory_map
    BY <1>1
  <2>3. i' <= get_memory_size(memory_map)'
    BY <2>1, <2>2
  <2> QED
    BY <1>1, <2>3 DEF LoopBound
<1>9. BitmapFits' = BitmapFits /\ Usable' = Usable
  BY <1>1 DEF BitmapFits, Usable, KernelPages, KernelEnd, FramebufferPages, FramebufferEnd
<1>10. Prepared'
  BY <1>1, <1>3, <1>9 DEF Prepared
<1>11. /\ IsTree(tables, pml4) /\ TablesOf(tables, pml4) = {pml4}
       /\ \A page \in Nat : Walk(tables, pml4, page) = NOT_PRESENT
  BY <1>3, ZeroedRoot
<1>12. MapsOnly(allocator', tables, pml4, Usable, {})
  <2> DEFINE m == MachineOf(allocator', tables, Usable)
             boot == allocator'.bits \ TablesOf(tables, pml4)
  <2>1. /\ m.allocator = allocator' /\ m.tables = tables /\ m.lost = FALSE
        /\ m.usable = Usable
        /\ m = [allocator |-> m.allocator, tables |-> m.tables, lost |-> m.lost,
                usable |-> m.usable]
    BY DEF MachineOf
  <2>2. allocator'.bits = boot \cup TablesOf(tables, pml4)
    BY <1>3, <1>5, <1>11
  <2>3. boot \cap TablesOf(tables, pml4) = {}
    OBVIOUS
  <2> HIDE DEF m, boot
  <2>4. SoundMachine(m, pml4, boot)
    BY <1>3, <1>5, <1>11, <2>1, <2>2, <2>3 DEF SoundMachine
  <2>5. TablesOf(tables, pml4) \subseteq Usable
    BY <1>3, <1>11
  <2>6. \A page \in Frame : Walk(tables, pml4, page) = NOT_PRESENT
    BY <1>11, NotPresentIsNoFrame
  <2> QED
    BY <2>4, <2>5, <2>6 DEF MapsOnly, m, boot
<1>13. Built'
  <2>1. Translated' = 0 .. i' - 1
    BY <1>1 DEF Translated, Mapping, MappedSoFar
  <2>2. i' = 0
    BY <1>1
  <2>3. 0 .. i' - 1 = {}
    BY <2>2
  <2>4. Translated' = {}
    BY <2>1, <2>3
  <2> QED
    BY <1>1, <1>3, <1>9, <1>12, <2>4 DEF Built
<1>14. Loaded' /\ IdentityMapped'
  BY <1>1, <1>3 DEF Loaded, Preparing, Mapping, Enumerating, IdentityMapped
<1> QED
  BY <1>6, <1>7, <1>8, <1>10, <1>13, <1>14 DEF KernelInv

-----------------------------------------------------------------------------
(* The mapping loops. *)

LEMMA SuccessorIsNat == \A j \in Nat : j + 1 \in Nat
  OBVIOUS

LEMMA LoopArithmetic ==
  ASSUME NEW a \in Nat, NEW j \in Nat, NEW end \in Nat, a <= j, j <= end
  PROVE  /\ a .. a - 1 = {}
         /\ j < end => /\ a .. (j + 1) - 1 = (a .. j - 1) \cup {j}
                       /\ j \in a .. end - 1
                       /\ a <= j + 1 /\ j + 1 <= end
         /\ ~(j < end) => j = end
  OBVIOUS

(* An iteration that is not lost adds the page at i.                       *)
LEMMA LoopMapsPage ==
  ASSUME KernelInv, Mapping, NEW m,
         m = ptmanager_map_memory(Machine, pml4, i, i), i \in Frame
  PROVE  /\ m.allocator \in Allocator /\ m.tables \in Tables
         /\ ~m.lost => MapsOnly(m.allocator, m.tables, pml4, Usable, MappedSoFar \cup {i})
<1>1. MapsOnly(allocator, tables, pml4, Usable, MappedSoFar) /\ pml4 \in Frame
  BY DEF KernelInv, Built, Translated, MemoryTyped
<1>2. Machine = MachineOf(allocator, tables, Usable)
  BY DEF Machine, MachineOf
<1>3. OnePageMapped(m, allocator, tables, pml4, Usable, MappedSoFar, i)
  BY <1>1, <1>2, MappingOnePage
<1> QED
  BY <1>3 DEF OnePageMapped

(* What each of the three loops is: its bounds, and the pages mapped after *)
(* an iteration and after its end.                                         *)
LoopOver(here, end, next, first) ==
  /\ MapLoop(here, end, next, first)
  /\ here \in {"map memory", "map kernel", "map framebuffer"}
  /\ next \in {"map kernel", "map framebuffer", "load"}
  /\ end \in Nat /\ first \in Nat
  /\ i < end => i \in MappedPages
  /\ pc' = here /\ i' = i + 1 /\ i < end =>
       MappedSoFar' = MappedSoFar \cup {i} /\ LoopBound'
  /\ pc' = next /\ i' = first /\ ~(i < end) =>
       MappedSoFar' = MappedSoFar /\ LoopBound'

LEMMA MappedAreFrames == EnvironmentTyped => MappedPages \subseteq Frame
  BY EnvironmentFacts DEF MappedPages, MemoryPages

(* Every step of a loop is one of these three: the machine is lost, a page *)
(* was mapped and more are left, or the loop is over.                      *)
LEMMA LoopStep ==
  ASSUME KernelInv, UNCHANGED pciVars, NEW here, NEW end, NEW next, NEW first,
         LoopOver(here, end, next, first)
  PROVE  KernelInv'
<1>0. /\ MapLoop(here, end, next, first) /\ Mapping
      /\ here \in {"map memory", "map kernel", "map framebuffer"}
      /\ next \in {"map kernel", "map framebuffer", "load"}
      /\ end \in Nat /\ first \in Nat
      /\ i < end => i \in Frame
      /\ pc' = here /\ i' = i + 1 /\ i < end =>
           MappedSoFar' = MappedSoFar \cup {i} /\ LoopBound'
      /\ pc' = next /\ i' = first /\ ~(i < end) =>
           MappedSoFar' = MappedSoFar /\ LoopBound'
  BY MappedAreFrames DEF LoopOver, MapLoop, Mapping, KernelInv
<1>1. /\ UNCHANGED environment /\ pml4' = pml4 /\ cr3' = cr3 /\ pc = here
      /\ memory_map' = memory_map /\ kernel' = kernel /\ framebuffer' = framebuffer
  BY <1>0 DEF MapLoop, environment
<1>2. /\ pml4 # NULL /\ pml4 \in Frame /\ cr3 = NULL /\ cr3 \in Frame /\ BitmapFits
      /\ MapsOnly(allocator, tables, pml4, Usable, MappedSoFar)
      /\ allocator \in Allocator /\ tables \in Tables /\ i \in Nat
  BY <1>0 DEF KernelInv, Built, Loaded, Prepared, MemoryTyped, Translated, Mapping
<1>3. BitmapFits' = BitmapFits /\ Usable' = Usable
  BY <1>1 DEF BitmapFits, Usable, KernelPages, KernelEnd, FramebufferPages, FramebufferEnd
<1>4. ASSUME pc' \in {"map memory", "map kernel", "map framebuffer", "load", "lost"},
             allocator' \in Allocator, tables' \in Tables, i' \in Nat, LoopBound',
             pc' # "lost" => MapsOnly(allocator', tables', pml4, Usable, MappedSoFar')
      PROVE  KernelInv'
  <2>1. EnvironmentTyped' /\ EnumerationTyped' /\ EnumerationBound' /\ FaultOnlyBeyondRange'
    BY <1>0, <1>1, <1>4, BootStep DEF Mapping
  <2>2. MemoryTyped'
    BY <1>1, <1>2, <1>4 DEF MemoryTyped
  <2>3. Prepared'
    BY <1>2, <1>3, <1>4 DEF Prepared
  <2>4. Built'
    BY <1>1, <1>2, <1>3, <1>4 DEF Built, Translated, Mapping, Enumerating
  <2>5. Loaded' /\ IdentityMapped'
    BY <1>1, <1>2, <1>4 DEF Loaded, Preparing, Mapping, Enumerating, IdentityMapped
  <2> QED
    BY <1>4, <2>1, <2>2, <2>3, <2>4, <2>5 DEF KernelInv
<1>5. CASE i < end
  <2> DEFINE m == ptmanager_map_memory(Machine, pml4, i, i)
  <2>1. /\ pc' = IF m.lost THEN "lost" ELSE here
        /\ i' = i + 1 /\ allocator' = m.allocator /\ tables' = m.tables
    BY <1>0, <1>5 DEF MapLoop
  <2>2. /\ m.allocator \in Allocator /\ m.tables \in Tables
        /\ ~m.lost => MapsOnly(m.allocator, m.tables, pml4, Usable, MappedSoFar \cup {i})
    BY <1>0, <1>5, LoopMapsPage
  <2> HIDE DEF m
  <2>3. i' \in Nat
    BY <1>2, <2>1, SuccessorIsNat
  <2>4. CASE m.lost
    <3>1. pc' = "lost" /\ LoopBound'
      BY <2>1, <2>4 DEF LoopBound
    <3> QED
      BY <1>4, <2>1, <2>2, <2>3, <3>1
  <2>5. CASE ~m.lost
    <3>1. pc' = here
      BY <2>1, <2>5
    <3>2. MappedSoFar' = MappedSoFar \cup {i} /\ LoopBound'
      BY <1>0, <1>5, <2>1, <3>1
    <3>3. MapsOnly(allocator', tables', pml4, Usable, MappedSoFar')
      BY <2>1, <2>2, <2>5, <3>2
    <3> QED
      BY <1>0, <1>4, <2>1, <2>2, <2>3, <3>1, <3>2, <3>3
  <2> QED
    BY <2>4, <2>5
<1>6. CASE ~(i < end)
  <2>1. pc' = next /\ i' = first /\ allocator' = allocator /\ tables' = tables
    BY <1>0, <1>6 DEF MapLoop
  <2>2. MappedSoFar' = MappedSoFar /\ LoopBound'
    BY <1>0, <1>6, <2>1
  <2>3. MapsOnly(allocator', tables', pml4, Usable, MappedSoFar')
    BY <1>2, <2>1, <2>2
  <2>4. allocator' \in Allocator /\ tables' \in Tables
    BY <1>2, <2>1
  <2>5. i' = first
    BY <2>1
  <2>6. i' \in Nat
    BY <1>0, <2>5
  <2> QED
    BY <1>0, <1>4, <2>1, <2>2, <2>3, <2>4, <2>6
<1> QED
  BY <1>5, <1>6

LEMMA RangeLoop ==
  KernelInv /\ MapRange
    => LoopOver("map memory", get_memory_size(memory_map), "map kernel", 0)
<1> SUFFICES ASSUME KernelInv, MapRange
             PROVE  LoopOver("map memory", get_memory_size(memory_map), "map kernel", 0)
  OBVIOUS
<1> DEFINE size == get_memory_size(memory_map)
<1>1. /\ pc = "map memory" /\ i \in Nat /\ i <= size /\ size \in Nat
      /\ MemoryPages \subseteq Frame /\ MemoryPages = 0 .. size - 1
      /\ memory_map' = memory_map /\ kernel' = kernel /\ framebuffer' = framebuffer
      /\ MapLoop("map memory", size, "map kernel", 0)
  BY EnvironmentFacts
  DEF KernelInv, MapRange, MapLoop, environment, MemoryTyped, LoopBound, MemoryPages
<1>2. MappedSoFar = 0 .. i - 1 /\ MemoryPages' = MemoryPages
  BY <1>1 DEF MappedSoFar, MemoryPages
<1>3. KernelEnd' = KernelEnd /\ KernelEnd \in Nat
  BY <1>1, EnvironmentFacts DEF KernelInv, KernelEnd
<1>4. size' = size
  BY <1>1
<1> HIDE DEF size
<1>5. /\ 0 .. 0 - 1 = {}
      /\ i < size => /\ 0 .. (i + 1) - 1 = (0 .. i - 1) \cup {i}
                     /\ i \in 0 .. size - 1 /\ i + 1 <= size
      /\ ~(i < size) => i = size
  <2>1. 0 \in Nat /\ i \in Nat /\ size \in Nat /\ i <= size
    BY <1>1
  <2>2. 0 <= i
    BY <2>1
  <2> QED
    BY <2>1, <2>2, LoopArithmetic
<1>6. i < size => i \in MappedPages
  BY <1>5 DEF MappedPages, size
<1>7. ASSUME pc' = "map memory", i' = i + 1, i < size
      PROVE  MappedSoFar' = MappedSoFar \cup {i} /\ LoopBound'
  <2>1. MappedSoFar' = 0 .. i' - 1
    BY <1>7 DEF MappedSoFar
  <2>2. 0 .. i' - 1 = (0 .. i - 1) \cup {i} /\ i' <= size
    BY <1>5, <1>7
  <2>3. LoopBound'
    BY <1>4, <1>7, <2>2 DEF LoopBound, size
  <2> QED
    BY <1>2, <2>1, <2>2, <2>3
<1>8. ASSUME pc' = "map kernel", i' = 0, ~(i < size)
      PROVE  MappedSoFar' = MappedSoFar /\ LoopBound'
  <2>1. MappedSoFar = MemoryPages
    BY <1>1, <1>2, <1>5, <1>8
  <2>2. MappedSoFar' = MemoryPages' \cup (0 .. i' - 1)
    BY <1>8 DEF MappedSoFar
  <2>3. 0 .. i' - 1 = {}
    BY <1>5, <1>8
  <2>4. i' <= KernelEnd'
    <3>1. i' = 0 /\ KernelEnd \in Nat /\ KernelEnd' = KernelEnd
      BY <1>3, <1>8
    <3> QED
      BY <3>1
  <2>5. LoopBound'
    BY <1>8, <2>4 DEF LoopBound
  <2> QED
    BY <1>2, <2>1, <2>2, <2>3, <2>5
<1> QED
  BY <1>1, <1>6, <1>7, <1>8 DEF LoopOver, size

LEMMA KernelLoop ==
  KernelInv /\ MapKernel
    => LoopOver("map kernel", KernelEnd, "map framebuffer", framebuffer.frame)
<1> SUFFICES ASSUME KernelInv, MapKernel
             PROVE  LoopOver("map kernel", KernelEnd, "map framebuffer", framebuffer.frame)
  OBVIOUS
<1> DEFINE first == framebuffer.frame
<1>1. /\ pc = "map kernel" /\ i \in Nat /\ i <= KernelEnd /\ KernelEnd \in Nat
      /\ KernelPages \subseteq Frame /\ KernelPages = 0 .. KernelEnd - 1
      /\ memory_map' = memory_map /\ kernel' = kernel /\ framebuffer' = framebuffer
      /\ MapLoop("map kernel", KernelEnd, "map framebuffer", first)
      /\ first \in Nat /\ first <= FramebufferEnd
  BY EnvironmentFacts
  DEF KernelInv, MapKernel, MapLoop, environment, MemoryTyped, LoopBound, KernelPages
<1>2. /\ MappedSoFar = MemoryPages \cup (0 .. i - 1)
      /\ MemoryPages' = MemoryPages /\ KernelPages' = KernelPages
  BY <1>1 DEF MappedSoFar, MemoryPages, KernelPages, KernelEnd
<1>3. KernelEnd' = KernelEnd /\ FramebufferEnd' = FramebufferEnd /\ first' = first
  BY <1>1 DEF KernelEnd, FramebufferEnd
<1>4. /\ i < KernelEnd => /\ 0 .. (i + 1) - 1 = (0 .. i - 1) \cup {i}
                          /\ i \in 0 .. KernelEnd - 1 /\ i + 1 <= KernelEnd
      /\ ~(i < KernelEnd) => i = KernelEnd
  <2>1. 0 \in Nat /\ i \in Nat /\ KernelEnd \in Nat /\ i <= KernelEnd
    BY <1>1
  <2>2. 0 <= i
    BY <2>1
  <2> QED
    BY <2>1, <2>2, LoopArithmetic
<1>5. first .. first - 1 = {}
  <2>1. first \in Nat
    BY <1>1
  <2> QED
    BY <2>1
<1>6. i < KernelEnd => i \in MappedPages
  BY <1>1, <1>4 DEF MappedPages
<1>7. ASSUME pc' = "map kernel", i' = i + 1, i < KernelEnd
      PROVE  MappedSoFar' = MappedSoFar \cup {i} /\ LoopBound'
  <2>1. MappedSoFar' = MemoryPages' \cup (0 .. i' - 1)
    BY <1>7 DEF MappedSoFar
  <2>2. 0 .. i' - 1 = (0 .. i - 1) \cup {i} /\ i' <= KernelEnd
    BY <1>4, <1>7
  <2>3. LoopBound'
    BY <1>3, <1>7, <2>2 DEF LoopBound
  <2> QED
    BY <1>2, <2>1, <2>2, <2>3
<1>8. ASSUME pc' = "map framebuffer", i' = first, ~(i < KernelEnd)
      PROVE  MappedSoFar' = MappedSoFar /\ LoopBound'
  <2>1. MappedSoFar = MemoryPages \cup KernelPages
    BY <1>1, <1>2, <1>4, <1>8
  <2>2. MappedSoFar' = MemoryPages' \cup KernelPages' \cup (first' .. i' - 1)
    BY <1>8 DEF MappedSoFar
  <2> HIDE DEF first
  <2>3. first' .. i' - 1 = {}
    BY <1>3, <1>5, <1>8
  <2>4. first' <= i' /\ i' <= FramebufferEnd'
    <3>1. first' = first /\ i' = first /\ FramebufferEnd' = FramebufferEnd
          /\ first <= FramebufferEnd /\ first \in Nat
      BY <1>1, <1>3, <1>8
    <3> QED
      BY <3>1
  <2>5. LoopBound'
    BY <1>8, <2>4 DEF LoopBound, first
  <2> QED
    BY <1>2, <2>1, <2>2, <2>3, <2>5
<1> QED
  BY <1>1, <1>6, <1>7, <1>8 DEF LoopOver

LEMMA FramebufferLoop ==
  KernelInv /\ MapFramebuffer => LoopOver("map framebuffer", FramebufferEnd, "load", 0)
<1> SUFFICES ASSUME KernelInv, MapFramebuffer
             PROVE  LoopOver("map framebuffer", FramebufferEnd, "load", 0)
  OBVIOUS
<1> DEFINE first == framebuffer.frame
           end == FramebufferEnd
<1>1. /\ pc = "map framebuffer" /\ i \in Nat /\ first <= i /\ i <= end
      /\ end \in Nat /\ first \in Nat
      /\ FramebufferPages \subseteq Frame /\ FramebufferPages = first .. end - 1
      /\ memory_map' = memory_map /\ kernel' = kernel /\ framebuffer' = framebuffer
      /\ MapLoop("map framebuffer", end, "load", 0)
  BY EnvironmentFacts
  DEF KernelInv, MapFramebuffer, MapLoop, environment, MemoryTyped, LoopBound,
      FramebufferPages
<1>2. /\ MappedSoFar = MemoryPages \cup KernelPages \cup (first .. i - 1)
      /\ MappedPages = MemoryPages \cup KernelPages \cup FramebufferPages
      /\ MemoryPages' = MemoryPages /\ KernelPages' = KernelPages
      /\ MappedPages' = MappedPages
  BY <1>1 DEF MappedSoFar, MemoryPages, KernelPages, KernelEnd, MappedPages,
              FramebufferPages, FramebufferEnd
<1>3. end' = end /\ first' = first
  BY <1>1 DEF FramebufferEnd
<1> HIDE DEF first, end
<1>4. /\ i < end => /\ first .. (i + 1) - 1 = (first .. i - 1) \cup {i}
                    /\ i \in first .. end - 1
                    /\ first <= i + 1 /\ i + 1 <= end
      /\ ~(i < end) => i = end
  <2>1. first \in Nat /\ i \in Nat /\ end \in Nat /\ first <= i /\ i <= end
    BY <1>1
  <2> QED
    BY <2>1, LoopArithmetic
<1>5. i < end => i \in MappedPages
  BY <1>1, <1>2, <1>4
<1>6. ASSUME pc' = "map framebuffer", i' = i + 1, i < end
      PROVE  MappedSoFar' = MappedSoFar \cup {i} /\ LoopBound'
  <2>1. MappedSoFar' = MemoryPages' \cup KernelPages' \cup (first' .. i' - 1)
    BY <1>6 DEF MappedSoFar, first
  <2>2. first' .. i' - 1 = (first .. i - 1) \cup {i}
    BY <1>3, <1>4, <1>6
  <2>3. first' <= i' /\ i' <= end'
    BY <1>3, <1>4, <1>6
  <2>4. LoopBound'
    BY <1>6, <2>3 DEF LoopBound, first, end
  <2> QED
    BY <1>2, <2>1, <2>2, <2>4
<1>7. ASSUME pc' = "load", i' = 0, ~(i < end)
      PROVE  MappedSoFar' = MappedSoFar /\ LoopBound'
  <2>1. MappedSoFar = MappedPages
    BY <1>1, <1>2, <1>4, <1>7
  <2>2. MappedSoFar' = MappedPages' /\ LoopBound'
    BY <1>7 DEF MappedSoFar, LoopBound
  <2> QED
    BY <1>2, <2>1, <2>2
<1> QED
  BY <1>1, <1>5, <1>6, <1>7 DEF LoopOver, first, end

LEMMA MapRangeKeeps == KernelInv /\ MapRange /\ UNCHANGED pciVars => KernelInv'
  BY RangeLoop, LoopStep

LEMMA MapKernelKeeps == KernelInv /\ MapKernel /\ UNCHANGED pciVars => KernelInv'
  BY KernelLoop, LoopStep

LEMMA MapFramebufferKeeps ==
  KernelInv /\ MapFramebuffer /\ UNCHANGED pciVars => KernelInv'
  BY FramebufferLoop, LoopStep

LEMMA LoadTablesKeeps == KernelInv /\ LoadTables /\ UNCHANGED pciVars => KernelInv'
<1> SUFFICES ASSUME KernelInv, LoadTables, UNCHANGED pciVars  PROVE KernelInv'
  OBVIOUS
<1>1. /\ pc = "load" /\ pc' = "running" /\ cr3' = pml4
      /\ UNCHANGED environment /\ i' = i /\ pml4' = pml4 /\ allocator' = allocator
      /\ tables' = tables
      /\ memory_map' = memory_map /\ kernel' = kernel /\ framebuffer' = framebuffer
  BY DEF LoadTables, environment
<1>2. /\ pml4 # NULL /\ pml4 \in Frame /\ BitmapFits
      /\ MapsOnly(allocator, tables, pml4, Usable, MappedPages)
  BY <1>1 DEF KernelInv, Built, Prepared, MemoryTyped, Translated, Mapping, MappedSoFar
<1>3. EnvironmentTyped' /\ EnumerationTyped' /\ EnumerationBound' /\ FaultOnlyBeyondRange'
  BY <1>1, BootStep DEF Mapping
<1>4. MemoryTyped' /\ LoopBound'
  BY <1>1, <1>2 DEF KernelInv, MemoryTyped, LoopBound
<1>5. BitmapFits' = BitmapFits /\ Usable' = Usable /\ MappedPages' = MappedPages
  BY <1>1 DEF BitmapFits, Usable, KernelPages, KernelEnd, FramebufferPages,
              FramebufferEnd, MappedPages
<1>6. Prepared' /\ Loaded'
  BY <1>1, <1>2, <1>5 DEF Prepared, Loaded, Preparing, Mapping, Enumerating
<1>7. EnumeratedSoFar' = {}
  <2>1. entry = 1 /\ entry' = entry
    BY <1>1 DEF KernelInv, EnumerationBound, Mapping, pciVars
  <2>2. 1 .. entry' - 1 = {}
    BY <2>1
  <2> QED
    BY <1>1, <2>2 DEF EnumeratedSoFar, BusesBefore
<1>8. Built'
  <2>1. Translated' = MappedPages
    BY <1>1, <1>5, <1>7 DEF Translated, Mapping
  <2> QED
    BY <1>1, <1>2, <1>5, <2>1 DEF Built
<1>9. IdentityMapped'
  <2>1. \A page \in Frame :
          Walk(tables, pml4, page) = IF page \in MappedPages THEN page ELSE NOT_PRESENT
    BY <1>2 DEF MapsOnly
  <2>2. MappedPages \subseteq Frame
    BY EnvironmentFacts DEF KernelInv, MappedPages, MemoryPages
  <2> QED
    BY <1>1, <1>5, <2>1, <2>2 DEF IdentityMapped
<1> QED
  BY <1>3, <1>4, <1>6, <1>8, <1>9 DEF KernelInv

-----------------------------------------------------------------------------
(* The pages of the enumeration. *)
LEMMA McfgType ==
  ASSUME EnumerationTyped, NEW k \in DOMAIN mcfg
  PROVE  /\ mcfg[k] \in Frame
         /\ \A d \in Devices, f \in Functions : FunctionPage(mcfg[k], d, f) \in Frame
<1>1. mcfg \in McfgTables
  <2>1. mcfg # <<>>
    <3>1. DOMAIN <<>> = {}
      OBVIOUS
    <3> QED
      BY <3>1
  <2> QED
    BY <2>1 DEF EnumerationTyped
<1>2. mcfg[k] \in Frame /\ mcfg[k] + DEVICES * FUNCTIONS - 1 \in Frame
  <2>1. mcfg \in Seq(Frame)
    BY <1>1, PciAssumption
  <2>2. mcfg[k] \in Frame
    BY <2>1, LenProperties, ElementOfSeq
  <2> QED
    BY <1>1, <2>2, PciAssumption
<1> DEFINE base == mcfg[k]
<1>3. base \in 0 .. MAX_FRAME /\ base + DEVICES * FUNCTIONS - 1 \in 0 .. MAX_FRAME
  BY <1>2 DEF Frame
<1> HIDE DEF base
<1>4. ASSUME NEW d \in Devices, NEW f \in Functions
      PROVE  FunctionPage(base, d, f) \in Frame
  <2>1. /\ DEVICES \in Nat /\ FUNCTIONS \in Nat /\ MAX_FRAME \in Nat
        /\ d \in Nat /\ d + 1 <= DEVICES /\ f \in Nat /\ f + 1 <= FUNCTIONS
    BY <1>4, PciAssumption, MapsAssumption DEF Devices, Functions
  <2>2. (d + 1) * FUNCTIONS <= DEVICES * FUNCTIONS
    BY <2>1, ProductsGrow
  <2>3. (d + 1) * FUNCTIONS = d * FUNCTIONS + FUNCTIONS /\ d * FUNCTIONS \in Nat
    BY <2>1
  <2>4. DEVICES * FUNCTIONS \in Nat
    BY <2>1
  <2>5. base + d * FUNCTIONS + f \in 0 .. MAX_FRAME
    <3> DEFINE x == d * FUNCTIONS
               y == DEVICES * FUNCTIONS
    <3>1. /\ x \in Nat /\ y \in Nat /\ x + FUNCTIONS <= y
          /\ base \in 0 .. MAX_FRAME /\ base + y - 1 \in 0 .. MAX_FRAME
      BY <1>3, <2>2, <2>3, <2>4
    <3> HIDE DEF x, y
    <3>2. base + x + f \in 0 .. MAX_FRAME
      BY <2>1, <3>1
    <3> QED
      BY <3>2 DEF x
  <2> QED
    BY <2>5 DEF FunctionPage, Frame
<1> QED
  BY <1>2, <1>4 DEF base

LEMMA NextBus ==
  ASSUME NEW table, NEW there, NEW k \in Nat \ {0}
  PROVE  BusesBefore(table, there, k + 1)
           = BusesBefore(table, there, k) \cup BusPages(table, there, k)
<1>1. 1 .. (k + 1) - 1 = (1 .. k - 1) \cup {k}
  OBVIOUS
<1> QED
  BY <1>1 DEF BusesBefore

LEMMA NextDevice ==
  ASSUME NEW table, NEW there, NEW k, NEW d \in Nat
  PROVE  /\ DevicesBefore(table, there, k, 0) = {table[k]}
         /\ DevicesBefore(table, there, k, d + 1)
              = DevicesBefore(table, there, k, d) \cup DevicePages(table, there, k, d)
         /\ d \notin there[k] =>
              DevicePages(table, there, k, d) = {FunctionPage(table[k], d, 0)}
<1>1. 0 .. (d + 1) - 1 = (0 .. d - 1) \cup {d} /\ 0 .. 0 - 1 = {}
  OBVIOUS
<1> QED
  BY <1>1 DEF DevicesBefore, DevicePages

LEMMA AllDevices ==
  ASSUME NEW table, NEW there, NEW k, 0 \in there[k]
  PROVE  DevicesBefore(table, there, k, DEVICES) = BusPages(table, there, k)
BY DEF DevicesBefore, BusPages, Devices

LEMMA NextFunction ==
  ASSUME NEW table, NEW k, NEW d, NEW f \in Nat
  PROVE  /\ FunctionsBefore(table, k, d, 0) = {FunctionPage(table[k], d, 0)}
         /\ FunctionsBefore(table, k, d, f + 1)
              = FunctionsBefore(table, k, d, f) \cup {FunctionPage(table[k], d, f)}
<1>1. 0 .. (f + 1) - 1 = (0 .. f - 1) \cup {f} /\ 0 .. 0 - 1 = {}
  OBVIOUS
<1> QED
  BY <1>1 DEF FunctionsBefore

LEMMA AllFunctions ==
  ASSUME NEW table, NEW there, NEW k, NEW d, d \in there[k]
  PROVE  FunctionsBefore(table, k, d, FUNCTIONS) = DevicePages(table, there, k, d)
BY DEF FunctionsBefore, DevicePages, Functions

(* When the last bus is done all the pages are enumerated. *)
LEMMA AllBuses ==
  ASSUME EnumerationTyped
  PROVE  BusesBefore(mcfg, present, Len(mcfg) + 1) = EnumeratedPages
<1>1. Len(mcfg) \in Nat /\ DOMAIN mcfg = 1 .. Len(mcfg)
  <2>1. mcfg \in Seq(Frame)
    BY PciAssumption DEF EnumerationTyped
  <2> QED
    BY <2>1, LenProperties
<1>2. 1 .. (Len(mcfg) + 1) - 1 = DOMAIN mcfg
  BY <1>1
<1> DEFINE Promised(k) ==
             {mcfg[k]}
                \cup (IF 0 \notin present[k] THEN {}
                      ELSE {FunctionPage(mcfg[k], d, 0) : d \in Devices}
                             \cup {FunctionPage(mcfg[k], d, f) :
                                     d \in present[k], f \in Functions})
<1>3. ASSUME NEW k \in DOMAIN mcfg  PROVE BusPages(mcfg, present, k) = Promised(k)
  <2>1. present[k] \subseteq Devices
    BY <1>3 DEF EnumerationTyped
  <2>2. UNION {DevicePages(mcfg, present, k, d) : d \in Devices}
          = {FunctionPage(mcfg[k], d, 0) : d \in Devices}
              \cup {FunctionPage(mcfg[k], d, f) : d \in present[k], f \in Functions}
    BY <2>1 DEF DevicePages
  <2> QED
    BY <2>2 DEF BusPages
<1>4. EnumeratedPages = UNION {Promised(k) : k \in DOMAIN mcfg}
  BY DEF EnumeratedPages
<1> HIDE DEF Promised
<1>5. UNION {Promised(k) : k \in DOMAIN mcfg}
        = UNION {BusPages(mcfg, present, k) : k \in DOMAIN mcfg}
  BY <1>3
<1> QED
  BY <1>2, <1>4, <1>5 DEF BusesBefore

-----------------------------------------------------------------------------
(* The enumeration. *)
LEMMA LargestSegmentType ==
  ASSUME NEW map \in MemoryMaps
  PROVE  LargestSegment(map) \in Nat
<1> DEFINE C == {k \in DOMAIN map : map[k].type = "conventional" /\ map[k].page_count > 0}
           Larger(k, j) == \/ map[j].page_count < map[k].page_count
                           \/ map[j].page_count = map[k].page_count /\ k <= j
<1>1. CASE C = {}
  BY <1>1 DEF LargestSegment, NULL
<1>2. CASE C # {}
  <2>1. /\ MAX_FRAME \in Nat
        /\ \A k \in C : /\ k \in Nat /\ map[k].page_count \in 0 .. MAX_FRAME
                        /\ map[k].frame \in Nat
    <3>1. PICK n \in 0 .. MAX_DESCRIPTORS : map \in [1 .. n -> Descriptor]
      BY MapsAssumption
    <3>2. MAX_FRAME \in Nat /\ MAX_DESCRIPTORS \in Nat
      BY MapsAssumption
    <3>3. 1 .. n \subseteq Nat
      BY <3>2
    <3> QED
      BY <3>1, <3>2, <3>3 DEF Descriptor, Frame
  <2>2. \E k \in C : \A j \in C : Larger(k, j)
    <3> DEFINE S == {MAX_FRAME - map[k].page_count : k \in C}
    <3> HIDE DEF C
    <3>1. S \in SUBSET Nat /\ S # {}
      BY <1>2, <2>1
    <3>2. PICK s \in S : \A x \in S : s <= x
      BY <3>1, Minimum
    <3> DEFINE T == {k \in C : MAX_FRAME - map[k].page_count = s}
    <3>3. T \in SUBSET Nat /\ T # {}
      BY <2>1, <3>2
    <3>4. PICK k \in T : \A j \in T : k <= j
      BY <3>3, Minimum
    <3>5. ASSUME NEW j \in C  PROVE Larger(k, j)
      <4>1. MAX_FRAME - map[j].page_count \in S
        BY <3>5
      <4>2. s <= MAX_FRAME - map[j].page_count
        BY <3>2, <4>1
      <4>3. k \in C /\ MAX_FRAME - map[k].page_count = s
        BY <3>4
      <4>4. map[j].page_count <= map[k].page_count
        BY <2>1, <3>5, <4>2, <4>3
      <4>5. CASE map[j].page_count = map[k].page_count
        <5>1. j \in T
          BY <3>5, <4>3, <4>5
        <5> QED
          BY <3>4, <4>5, <5>1
      <4> QED
        BY <2>1, <3>5, <4>3, <4>4, <4>5
    <3> QED
      BY <3>4, <3>5
  <2>3. (CHOOSE k \in C : \A j \in C : Larger(k, j)) \in C
    BY <2>2
  <2> QED
    BY <1>2, <2>1, <2>3 DEF LargestSegment
<1> QED
  BY <1>1, <1>2

(* The bitmap's frame a bit of the memory lies in, wherever the bound is.  *)
LEMMA BitOfMemory ==
  ASSUME EnvironmentTyped, BitmapFits, NEW f \in Nat, f < get_memory_size(memory_map)
  PROVE  LargestSegment(memory_map) + (f \div BITS) \div FRAME_BYTES
           \in Conventional(memory_map)
<1> DEFINE size == get_memory_size(memory_map)
           largest == LargestSegment(memory_map)
           last == size \div BITS
           p == f \div BITS
<1>1. /\ size \in Nat /\ largest \in Nat /\ BITS \in Nat \ {0}
      /\ FRAME_BYTES \in Nat \ {0} /\ f <= size
  BY MemorySizeType, LargestSegmentType, FramesAssumption DEF EnvironmentTyped
<1>2. BitmapSize(memory_map) = last + 1
  BY DEF BitmapSize
<1> HIDE DEF size, largest
<1>3. p \in Nat /\ last \in Nat /\ p <= last
  BY <1>1, DivisionMonotone
<1> HIDE DEF last, p
<1>4. BitmapFrames(memory_map) = largest .. largest + last \div FRAME_BYTES
  <2>1. (last + 1) - 1 = last
    BY <1>3
  <2> QED
    BY <1>2, <2>1 DEF BitmapFrames, largest
<1>5. p \div FRAME_BYTES \in Nat /\ last \div FRAME_BYTES \in Nat
      /\ p \div FRAME_BYTES <= last \div FRAME_BYTES
  BY <1>1, <1>3, DivisionMonotone
<1>6. largest + p \div FRAME_BYTES \in largest .. largest + last \div FRAME_BYTES
  BY <1>1, <1>5
<1> QED
  BY <1>4, <1>6 DEF BitmapFits, largest, p

(* A page the enumeration maps: what it translates is extended, and when   *)
(* the processor faults it is on a frame past the range.                   *)
LEMMA PathIsInTree ==
  ASSUME NEW t \in Tables, NEW r \in Frame, NEW page \in Nat
  PROVE  PathTables(t, r, page) \ {NOT_PRESENT} \subseteq TablesOf(t, r)
<1>1. /\ Pdp(t, r, page) \in Pdps(t, r) \cup {NOT_PRESENT}
      /\ Pd(t, r, page) \in Pds(t, r) \cup {NOT_PRESENT}
      /\ Pt(t, r, page) \in Pts(t, r) \cup {NOT_PRESENT}
  BY PathInTree
<1>2. TablesOf(t, r) = {r} \cup Pdps(t, r) \cup Pds(t, r) \cup Pts(t, r)
  BY TreeParts
<1>3. PathTables(t, r, page) = {r, Pdp(t, r, page), Pd(t, r, page), Pt(t, r, page)}
  <2>1. 1 .. 4 = {1, 2, 3, 4}
    OBVIOUS
  <2> QED
    BY <2>1 DEF PathTables, Path, Pdp, Pd, Pt
<1> QED
  BY <1>1, <1>2, <1>3

LEMMA EnumeratedPage ==
  ASSUME KernelInv, Enumerating, NEW page \in Frame,
         NEW m, m = ptmanager_map_memory(Machine, pml4, page, page)
  PROVE  /\ m.allocator \in Allocator /\ m.tables \in Tables /\ m.lost \in BOOLEAN
         /\ ~m.lost => MapsOnly(m.allocator, m.tables, pml4, Usable,
                                MappedPages \cup EnumeratedSoFar \cup {page})
         /\ TablesOf(m.tables, pml4) \subseteq Usable
         /\ m.allocator.bits \ allocator.bits \subseteq Usable
         /\ \A q \in MappedPages : Walk(m.tables, pml4, q) = q
<1>1. /\ MapsOnly(allocator, tables, pml4, Usable, MappedPages \cup EnumeratedSoFar)
      /\ pml4 \in Frame /\ MappedPages \subseteq Frame
  BY EnvironmentFacts
  DEF KernelInv, Built, Translated, MemoryTyped, Enumerating, Mapping, MappedPages,
      MemoryPages
<1>2. Machine = MachineOf(allocator, tables, Usable)
  BY DEF Machine, MachineOf
<1>3. \A q \in MappedPages : Walk(tables, pml4, q) = q
  BY <1>1 DEF MapsOnly
<1>4. OnePageMapped(m, allocator, tables, pml4, Usable,
                    MappedPages \cup EnumeratedSoFar, page)
  BY <1>1, <1>2, MappingOnePage
<1>5. \A q \in MappedPages : Walk(m.tables, pml4, q) = q
  BY <1>1, <1>3, <1>4 DEF OnePageMapped
<1> QED
  BY <1>4, <1>5 DEF OnePageMapped

LEMMA NoFaultInRange ==
  ASSUME KernelInv, Enumerating, NEW page \in Frame,
         NEW m, m = ptmanager_map_memory(Machine, pml4, page, page),
         \A f \in FramesOfType(memory_map, {"conventional", "other"}) :
           f < get_memory_size(memory_map),
         NEW free \in FreeFrames(m.allocator), free < get_memory_size(memory_map)
  PROVE  \A f \in Touched(m, page) : Reachable(f)
<1> DEFINE size == get_memory_size(memory_map)
<1>1. /\ EnvironmentTyped /\ BitmapFits /\ size \in Nat /\ cr3 = pml4 /\ pml4 # NULL
      /\ pml4 \in Frame /\ allocator \in Allocator /\ LastBit(allocator) \in Nat
      /\ Usable \subseteq Conventional(memory_map) /\ MemoryPages \subseteq MappedPages
  <2>1. /\ EnvironmentTyped /\ BitmapFits /\ cr3 = pml4 /\ pml4 # NULL
        /\ pml4 \in Frame /\ allocator \in Allocator
    BY DEF KernelInv, Prepared, Built, Loaded, MemoryTyped, Enumerating
  <2>2. size \in Nat /\ Usable \subseteq Conventional(memory_map)
    BY <2>1, EnvironmentFacts
  <2>3. MemoryPages \subseteq MappedPages
    BY DEF MappedPages, MemoryPages
  <2> QED
    BY <2>1, <2>2, <2>3, LastBitType
<1>2. /\ m.allocator \in Allocator /\ m.tables \in Tables
      /\ TablesOf(m.tables, pml4) \subseteq Usable
      /\ m.allocator.bits \ allocator.bits \subseteq Usable
  BY EnumeratedPage
<1>3. \A q \in MemoryPages : Reachable(q)
  BY <1>1 DEF KernelInv, IdentityMapped, Reachable
<1>4. \A f \in Nat : f < size => f \in MemoryPages
  BY <1>1 DEF MemoryPages
<1>5. \A f \in Conventional(memory_map) : f \in Nat /\ f < size
  BY MapsAssumption DEF Conventional, FramesOfType, Frame
<1>6. free \in Nat /\ free < size
  <2>1. LastBit(m.allocator) \in Nat
    BY <1>2, LastBitType
  <2> QED
    BY <2>1 DEF FreeFrames
<1>7. NULL \in MemoryPages
  BY <1>1, <1>6 DEF MemoryPages, NULL
<1>8. \A f \in PathTables(m.tables, cr3, page) \ {NOT_PRESENT} : f \in MemoryPages
  <2>1. page \in Nat
    BY MapsAssumption DEF Frame
  <2> QED
    BY <1>1, <1>2, <1>4, <1>5, <2>1, PathIsInTree
<1>9. \A f \in BitsSearched(m) : f \in Nat /\ f < size
  <2> TAKE f \in BitsSearched(m)
  <2>1. /\ f \in Nat
        /\ \/ \E g \in m.allocator.bits \ allocator.bits : f <= g
           \/ \A g \in FreeFrames(m.allocator) : f <= g
    BY <1>1 DEF BitsSearched
  <2>2. CASE \E g \in m.allocator.bits \ allocator.bits : f <= g
    <3>1. PICK g \in m.allocator.bits \ allocator.bits : f <= g
      BY <2>2
    <3>2. g \in Nat /\ g < size
      BY <1>1, <1>2, <1>5
    <3> QED
      BY <1>1, <2>1, <3>1, <3>2
  <2>3. CASE \A g \in FreeFrames(m.allocator) : f <= g
    BY <1>1, <1>6, <2>1, <2>3
  <2> QED
    BY <2>1, <2>2, <2>3
<1>10. \A f \in BitmapRead(m) : f \in MemoryPages
  <2>1. \A f \in BitmapRead(m) : f \in Conventional(memory_map)
    BY <1>1, <1>9, BitOfMemory DEF BitmapRead
  <2> QED
    BY <1>4, <1>5, <2>1
<1> QED
  BY <1>3, <1>7, <1>8, <1>10 DEF Touched

LEMMA MapPageKeeps ==
  ASSUME KernelInv, Enumerating, NEW page \in Frame, NEW next, MapPage(page, next),
         UNCHANGED <<environment, i, pml4, cr3, borrowed, mcfg, present>>,
         next \in {"bus", "device", "function"},
         EnumerationTyped', pc' = next => EnumerationBound',
         pc' = next => EnumeratedSoFar' = EnumeratedSoFar \cup {page}
  PROVE  KernelInv'
<1> DEFINE m == ptmanager_map_memory(Machine, pml4, page, page)
<1>1. /\ memory_map' = memory_map /\ kernel' = kernel /\ framebuffer' = framebuffer
      /\ i' = i /\ pml4' = pml4 /\ cr3' = cr3 /\ borrowed' = borrowed
      /\ EnvironmentTyped /\ BitmapFits /\ i \in Nat /\ pml4 \in Frame /\ cr3 \in Frame
      /\ pml4 # NULL /\ cr3 = pml4
  BY DEF environment, KernelInv, Prepared, MemoryTyped, Loaded, Built, Enumerating
<1>2. /\ pc' = IF \E f \in Touched(m, page) : ~Reachable(f) THEN "fault"
               ELSE IF m.lost THEN "lost" ELSE next
      /\ allocator' = m.allocator /\ tables' = m.tables
  BY DEF MapPage
<1>3. /\ m.allocator \in Allocator /\ m.tables \in Tables
      /\ ~m.lost => MapsOnly(m.allocator, m.tables, pml4, Usable,
                             MappedPages \cup EnumeratedSoFar \cup {page})
      /\ \A q \in MappedPages : Walk(m.tables, pml4, q) = q
  BY EnumeratedPage
<1>4. pc' = "fault" =>
        \/ \E f \in FramesOfType(memory_map, {"conventional", "other"}) :
             ~(f < get_memory_size(memory_map))
        \/ \A f \in FreeFrames(m.allocator) : ~(f < get_memory_size(memory_map))
  <2>1. pc' = "fault" => \E f \in Touched(m, page) : ~Reachable(f)
    BY <1>2
  <2> QED
    BY <2>1, NoFaultInRange
<1> HIDE DEF m
<1>5. /\ BitmapFits' = BitmapFits /\ Usable' = Usable /\ MappedPages' = MappedPages
  BY <1>1 DEF BitmapFits, Usable, KernelPages, KernelEnd, FramebufferPages,
              FramebufferEnd, MappedPages
<1>6. EnvironmentTyped' /\ MemoryTyped'
  BY <1>1, <1>2, <1>3 DEF EnvironmentTyped, MemoryTyped
<1>7. pc' \in {next, "fault", "lost"} /\ (pc' = next => ~m.lost)
  BY <1>2
<1>8. LoopBound' /\ Prepared'
  BY <1>1, <1>5, <1>7 DEF LoopBound, Prepared
<1>9. EnumerationBound'
  BY <1>7 DEF EnumerationBound, Preparing, Mapping
<1>10. Built'
  <2>1. ASSUME pc' = next
        PROVE  MapsOnly(allocator', tables', pml4, Usable, Translated')
    <3>1. Translated' = MappedPages \cup (EnumeratedSoFar \cup {page})
      BY <1>5, <2>1 DEF Translated, Mapping
    <3>2. MappedPages \cup (EnumeratedSoFar \cup {page})
            = MappedPages \cup EnumeratedSoFar \cup {page}
      OBVIOUS
    <3> QED
      BY <1>2, <1>3, <1>7, <2>1, <3>1, <3>2
  <2> QED
    BY <1>1, <1>5, <1>7, <2>1 DEF Built, Mapping, Enumerating
<1>11. Loaded' /\ IdentityMapped'
  BY <1>1, <1>2, <1>3, <1>5, <1>7
  DEF Loaded, Preparing, Mapping, Enumerating, IdentityMapped
<1>12. FaultOnlyBeyondRange'
  <2>1. \A f \in Frame : ~(f < get_memory_size(memory_map)) <=> f >= get_memory_size(memory_map)
    BY <1>1, EnvironmentFacts, MapsAssumption DEF Frame
  <2>2. \A f \in FreeFrames(m.allocator) :
          ~(f < get_memory_size(memory_map)) <=> f >= get_memory_size(memory_map)
    <3>1. FreeFrames(m.allocator) \subseteq Nat
      BY <1>3, LastBitType DEF FreeFrames
    <3> QED
      BY <1>1, <3>1, EnvironmentFacts
  <2>3. FramesOfType(memory_map, {"conventional", "other"}) \subseteq Frame
    BY DEF FramesOfType
  <2> QED
    BY <1>1, <1>2, <1>4, <2>1, <2>2, <2>3 DEF FaultOnlyBeyondRange
<1> QED
  BY <1>6, <1>8, <1>9, <1>10, <1>11, <1>12 DEF KernelInv

(* A step that goes on to the next loop without mapping. *)
LEMMA MovingOnKeeps ==
  ASSUME KernelInv, Enumerating,
         UNCHANGED <<environment, i, pml4, cr3, allocator, tables, borrowed>>,
         pc' \in {"bus", "device", "function", "halted"},
         EnumerationTyped', EnumerationBound', EnumeratedSoFar' = EnumeratedSoFar
  PROVE  KernelInv'
<1>1. /\ memory_map' = memory_map /\ kernel' = kernel /\ framebuffer' = framebuffer
      /\ i' = i /\ pml4' = pml4 /\ cr3' = cr3 /\ borrowed' = borrowed
      /\ allocator' = allocator /\ tables' = tables
      /\ EnvironmentTyped /\ MemoryTyped /\ BitmapFits /\ IdentityMapped
      /\ pml4 # NULL /\ cr3 = pml4
      /\ MapsOnly(allocator, tables, pml4, Usable, MappedPages \cup EnumeratedSoFar)
  BY DEF environment, KernelInv, Prepared, Loaded, Built, Enumerating, Translated, Mapping
<1>2. /\ BitmapFits' = BitmapFits /\ Usable' = Usable /\ MappedPages' = MappedPages
  BY <1>1 DEF BitmapFits, Usable, KernelPages, KernelEnd, FramebufferPages,
              FramebufferEnd, MappedPages
<1>3. EnvironmentTyped' /\ MemoryTyped'
  BY <1>1 DEF EnvironmentTyped, MemoryTyped
<1>4. LoopBound' /\ Prepared'
  BY <1>1, <1>2 DEF LoopBound, Prepared
<1>5. Built' /\ Loaded'
  BY <1>1, <1>2 DEF Built, Loaded, Translated, Preparing, Mapping, Enumerating
<1>6. IdentityMapped' /\ FaultOnlyBeyondRange'
  BY <1>1, <1>2 DEF IdentityMapped, FaultOnlyBeyondRange
<1> QED
  BY <1>3, <1>4, <1>5, <1>6 DEF KernelInv

LEMMA FindMcfgKeeps == KernelInv /\ FindMcfg => KernelInv'
<1> SUFFICES ASSUME KernelInv, FindMcfg  PROVE KernelInv'
  OBVIOUS
<1>1. /\ pc = "running"
      /\ UNCHANGED <<environment, i, pml4, allocator, tables, cr3, borrowed,
                     entry, device, function>>
      /\ memory_map' = memory_map /\ kernel' = kernel /\ framebuffer' = framebuffer
      /\ i' = i /\ pml4' = pml4 /\ cr3' = cr3 /\ borrowed' = borrowed
      /\ allocator' = allocator /\ tables' = tables
      /\ entry' = entry /\ device' = device /\ function' = function
  BY DEF FindMcfg, environment
<1>2. mcfg = <<>> /\ entry = 1 /\ device = 0 /\ function = 0
  BY <1>1 DEF KernelInv, EnumerationBound
<1>3. CASE Reachable(borrowed)
  <2>1. /\ mcfg' \in McfgTables \cup {<<>>}
        /\ present' \in [DOMAIN mcfg' -> SUBSET Devices]
        /\ pc' = IF mcfg' = <<>> THEN "halted" ELSE "bus"
    BY <1>3 DEF FindMcfg
  <2>2. Len(mcfg') \in Nat /\ Len(<<>>) = 0
    <3>1. mcfg' \in Seq(Frame)
      BY <2>1, PciAssumption
    <3> QED
      BY <3>1, LenProperties
  <2>3. entry' \in 1 .. Len(mcfg') + 1
    <3>1. entry' = 1
      BY <1>1, <1>2
    <3> QED
      BY <2>2, <3>1
  <2>4. EnumerationTyped'
    BY <1>1, <2>1, <2>3 DEF KernelInv, EnumerationTyped
  <2>5. mcfg' = <<>> => entry' = Len(mcfg') + 1
    <3>1. entry' = 1
      BY <1>1, <1>2
    <3> QED
      BY <2>2, <3>1
  <2>6. EnumerationBound'
    BY <2>1, <2>5 DEF EnumerationBound, Preparing, Mapping
  <2>7. 1 .. entry - 1 = {}
    BY <1>2
  <2>8. EnumeratedSoFar = {} /\ EnumeratedSoFar' = {}
    BY <1>1, <2>1, <2>7 DEF EnumeratedSoFar, BusesBefore
  <2> QED
    BY <1>1, <2>1, <2>4, <2>6, <2>8, MovingOnKeeps DEF Enumerating
<1>4. CASE ~Reachable(borrowed)
  <2>1. pc' = "fault" /\ mcfg' = mcfg /\ present' = present
    BY <1>4 DEF FindMcfg
  <2>2. EnumerationTyped' /\ EnvironmentTyped' /\ MemoryTyped'
    BY <1>1, <2>1 DEF KernelInv, EnumerationTyped, EnvironmentTyped, MemoryTyped
  <2>3. EnumerationBound' /\ LoopBound'
    BY <2>1 DEF EnumerationBound, LoopBound, Preparing, Mapping
  <2>4. /\ BitmapFits' = BitmapFits /\ Usable' = Usable /\ MappedPages' = MappedPages
    BY <1>1 DEF BitmapFits, Usable, KernelPages, KernelEnd, FramebufferPages,
                FramebufferEnd, MappedPages
  <2>5. /\ BitmapFits /\ cr3 = pml4 /\ IdentityMapped
    BY <1>1 DEF KernelInv, Prepared, Loaded, Enumerating
  <2>6. Prepared' /\ Built' /\ Loaded' /\ IdentityMapped'
    BY <1>1, <2>1, <2>4, <2>5
    DEF Prepared, Built, Loaded, IdentityMapped, Preparing, Mapping, Enumerating
  <2>7. \E f \in FramesOfType(memory_map, {"conventional", "other"}) :
          f >= get_memory_size(memory_map)
    <3>1. cr3 # NULL /\ EnvironmentTyped
      BY <1>1, <2>5 DEF KernelInv, Built, Enumerating
    <3>2. borrowed \notin MemoryPages
      BY <1>4, <2>5, <3>1 DEF IdentityMapped, Reachable, MappedPages, MemoryPages
    <3>3. borrowed \in FramesOfType(memory_map, {"conventional", "other"})
      BY <3>1 DEF EnvironmentTyped, FramesOfType
    <3>4. borrowed >= get_memory_size(memory_map)
      <4>1. borrowed \in Nat /\ get_memory_size(memory_map) \in Nat
        BY <3>1, <3>3, EnvironmentFacts, MapsAssumption DEF FramesOfType, Frame
      <4> QED
        BY <3>2, <4>1 DEF MemoryPages
    <3> QED
      BY <3>3, <3>4
  <2>8. FaultOnlyBeyondRange'
    BY <1>1, <2>7 DEF FaultOnlyBeyondRange
  <2> QED
    BY <2>2, <2>3, <2>6, <2>8 DEF KernelInv
<1> QED
  BY <1>3, <1>4

(* The loops' variables, in a step of one of the three loops. *)
LEMMA LoopVariables ==
  ASSUME KernelInv
  PROVE  /\ Len(mcfg) \in Nat /\ entry \in Nat \ {0} /\ entry <= Len(mcfg) + 1
         /\ entry <= Len(mcfg) => entry \in DOMAIN mcfg /\ present[entry] \subseteq Devices
         /\ ~(entry > Len(mcfg)) => entry <= Len(mcfg) /\ entry + 1 \in 1 .. Len(mcfg) + 1
         /\ entry > Len(mcfg) => entry = Len(mcfg) + 1
         /\ device \in Nat /\ function \in Nat
         /\ device # DEVICES => device \in Devices
         /\ device \in Devices => device + 1 \in 0 .. DEVICES
         /\ function # FUNCTIONS => function \in Functions /\ function + 1 \in 0 .. FUNCTIONS
         /\ 0 \in Devices /\ 0 \in Functions /\ 0 \in 0 .. DEVICES /\ 0 \in 0 .. FUNCTIONS
<1>1. /\ entry \in 1 .. Len(mcfg) + 1
      /\ device \in 0 .. DEVICES /\ function \in 0 .. FUNCTIONS
      /\ present \in [DOMAIN mcfg -> SUBSET Devices]
      /\ DEVICES \in Nat \ {0} /\ FUNCTIONS \in Nat \ {0}
  BY PciAssumption DEF KernelInv, EnumerationTyped
<1>2. Len(mcfg) \in Nat /\ DOMAIN mcfg = 1 .. Len(mcfg)
  <2>1. mcfg \in Seq(Frame)
    BY PciAssumption DEF KernelInv, EnumerationTyped
  <2> QED
    BY <2>1, LenProperties
<1>3. /\ entry \in Nat \ {0} /\ entry <= Len(mcfg) + 1
      /\ entry <= Len(mcfg) => entry \in DOMAIN mcfg
      /\ ~(entry > Len(mcfg)) => entry <= Len(mcfg) /\ entry + 1 \in 1 .. Len(mcfg) + 1
      /\ entry > Len(mcfg) => entry = Len(mcfg) + 1
  BY <1>1, <1>2
<1>4. entry <= Len(mcfg) => present[entry] \subseteq Devices
  BY <1>1, <1>3
<1>5. /\ device \in Nat /\ function \in Nat
      /\ device # DEVICES => device \in Devices
      /\ device \in Devices => device + 1 \in 0 .. DEVICES
      /\ function # FUNCTIONS => function \in Functions /\ function + 1 \in 0 .. FUNCTIONS
      /\ 0 \in Devices /\ 0 \in Functions /\ 0 \in 0 .. DEVICES /\ 0 \in 0 .. FUNCTIONS
  BY <1>1 DEF Devices, Functions
<1> QED
  BY <1>2, <1>3, <1>4, <1>5

LEMMA EnumerateBusKeeps == KernelInv /\ EnumerateBus => KernelInv'
<1> SUFFICES ASSUME KernelInv, EnumerateBus  PROVE KernelInv'
  OBVIOUS
<1>1. /\ pc = "bus" /\ device' = 0
      /\ UNCHANGED <<environment, i, pml4, cr3, borrowed, mcfg, present, function>>
      /\ mcfg' = mcfg /\ present' = present /\ function' = function
      /\ Enumerating /\ EnumerationTyped
  BY DEF EnumerateBus, KernelInv, Enumerating
<1>2. EnumeratedSoFar = BusesBefore(mcfg, present, entry)
  BY <1>1 DEF EnumeratedSoFar
<1>3. entry' \in 1 .. Len(mcfg) + 1 => EnumerationTyped'
  BY <1>1, LoopVariables DEF EnumerationTyped
<1>4. CASE entry > Len(mcfg)
  <2>1. pc' = "halted" /\ allocator' = allocator /\ tables' = tables /\ entry' = entry
    BY <1>4 DEF EnumerateBus
  <2>2. entry' \in 1 .. Len(mcfg) + 1
    BY <2>1 DEF KernelInv, EnumerationTyped
  <2>3. EnumerationBound'
    BY <1>1, <1>4, <2>1, LoopVariables DEF EnumerationBound, Preparing, Mapping
  <2>4. EnumeratedSoFar' = EnumeratedSoFar
    BY <1>1, <1>2, <2>1 DEF EnumeratedSoFar
  <2> QED
    BY <1>1, <1>3, <2>1, <2>2, <2>3, <2>4, MovingOnKeeps
<1>5. CASE ~(entry > Len(mcfg)) /\ 0 \in present[entry]
  <2>1. MapPage(mcfg[entry], "device") /\ entry' = entry
    BY <1>5 DEF EnumerateBus
  <2>2. mcfg[entry] \in Frame
    BY <1>1, <1>5, McfgType, LoopVariables
  <2>3. EnumerationTyped'
    BY <1>3, <2>1 DEF KernelInv, EnumerationTyped
  <2>4. pc' = "device" => EnumerationBound'
    BY <1>1, <1>5, <2>1, LoopVariables DEF EnumerationBound, Preparing, Mapping
  <2>5. pc' = "device" => EnumeratedSoFar' = EnumeratedSoFar \cup {mcfg[entry]}
    <3>1. DevicesBefore(mcfg, present, entry, 0) = {mcfg[entry]}
      BY LoopVariables, NextDevice
    <3> QED
      BY <1>1, <1>2, <2>1, <3>1 DEF EnumeratedSoFar
  <2> QED
    BY <1>1, <2>1, <2>2, <2>3, <2>4, <2>5, MapPageKeeps
<1>6. CASE ~(entry > Len(mcfg)) /\ 0 \notin present[entry]
  <2>1. MapPage(mcfg[entry], "bus") /\ entry' = entry + 1
    BY <1>6 DEF EnumerateBus
  <2>2. mcfg[entry] \in Frame
    BY <1>1, <1>6, McfgType, LoopVariables
  <2>3. EnumerationTyped'
    BY <1>3, <1>6, <2>1, LoopVariables
  <2>4. pc' = "bus" => EnumerationBound'
    BY DEF EnumerationBound, Preparing, Mapping
  <2>5. pc' = "bus" => EnumeratedSoFar' = EnumeratedSoFar \cup {mcfg[entry]}
    <3>1. BusPages(mcfg, present, entry) = {mcfg[entry]}
      BY <1>6 DEF BusPages
    <3>2. BusesBefore(mcfg, present, entry + 1)
            = BusesBefore(mcfg, present, entry) \cup {mcfg[entry]}
      BY <3>1, LoopVariables, NextBus
    <3> QED
      BY <1>1, <1>2, <2>1, <3>2 DEF EnumeratedSoFar
  <2> QED
    BY <1>1, <2>1, <2>2, <2>3, <2>4, <2>5, MapPageKeeps
<1> QED
  BY <1>4, <1>5, <1>6

LEMMA EnumerateDeviceKeeps == KernelInv /\ EnumerateDevice => KernelInv'
<1> SUFFICES ASSUME KernelInv, EnumerateDevice  PROVE KernelInv'
  OBVIOUS
<1>1. /\ pc = "device" /\ function' = 0
      /\ UNCHANGED <<environment, i, pml4, cr3, borrowed, mcfg, present>>
      /\ mcfg' = mcfg /\ present' = present
      /\ Enumerating /\ EnumerationTyped
      /\ entry <= Len(mcfg) /\ 0 \in present[entry] /\ entry \in DOMAIN mcfg
  BY LoopVariables DEF EnumerateDevice, KernelInv, Enumerating, EnumerationBound
<1>2. EnumeratedSoFar = BusesBefore(mcfg, present, entry)
                          \cup DevicesBefore(mcfg, present, entry, device)
  BY <1>1 DEF EnumeratedSoFar
<1>3. entry' \in 1 .. Len(mcfg) + 1 /\ device' \in 0 .. DEVICES => EnumerationTyped'
  BY <1>1, LoopVariables DEF EnumerationTyped
<1>4. ASSUME device # DEVICES
      PROVE  FunctionPage(mcfg[entry], device, 0) \in Frame
  BY <1>1, <1>4, McfgType, LoopVariables
<1>5. CASE device = DEVICES
  <2>1. /\ pc' = "bus" /\ entry' = entry + 1
        /\ allocator' = allocator /\ tables' = tables /\ device' = device
    BY <1>5 DEF EnumerateDevice
  <2>2. EnumerationTyped'
    <3>1. device' \in 0 .. DEVICES
      BY <2>1 DEF KernelInv, EnumerationTyped
    <3>2. ~(entry > Len(mcfg))
      <4>1. entry \in Nat /\ Len(mcfg) \in Nat /\ entry <= Len(mcfg)
        BY <1>1, LoopVariables
      <4> QED
        BY <4>1
    <3> QED
      BY <1>3, <2>1, <3>1, <3>2, LoopVariables
  <2>3. EnumerationBound'
    BY <2>1 DEF EnumerationBound, Preparing, Mapping
  <2>4. EnumeratedSoFar' = EnumeratedSoFar
    <3>1. DevicesBefore(mcfg, present, entry, device) = BusPages(mcfg, present, entry)
      BY <1>1, <1>5, AllDevices
    <3>2. BusesBefore(mcfg, present, entry + 1)
            = BusesBefore(mcfg, present, entry) \cup BusPages(mcfg, present, entry)
      BY LoopVariables, NextBus
    <3> QED
      BY <1>1, <1>2, <2>1, <3>1, <3>2 DEF EnumeratedSoFar
  <2> QED
    BY <1>1, <2>1, <2>2, <2>3, <2>4, MovingOnKeeps
<1>6. CASE device # DEVICES /\ device \in present[entry]
  <2>1. /\ MapPage(FunctionPage(mcfg[entry], device, 0), "function")
        /\ entry' = entry /\ device' = device
    BY <1>6 DEF EnumerateDevice
  <2>2. EnumerationTyped'
    BY <1>3, <2>1 DEF KernelInv, EnumerationTyped
  <2>3. pc' = "function" => EnumerationBound'
    BY <1>1, <1>6, <2>1 DEF EnumerationBound, Preparing, Mapping
  <2>4. pc' = "function" =>
          EnumeratedSoFar' = EnumeratedSoFar \cup {FunctionPage(mcfg[entry], device, 0)}
    <3>1. FunctionsBefore(mcfg, entry, device, 0) = {FunctionPage(mcfg[entry], device, 0)}
      BY LoopVariables, NextFunction
    <3> QED
      BY <1>1, <1>2, <2>1, <3>1 DEF EnumeratedSoFar
  <2> QED
    BY <1>1, <1>4, <1>6, <2>1, <2>2, <2>3, <2>4, MapPageKeeps
<1>7. CASE device # DEVICES /\ device \notin present[entry]
  <2>1. /\ MapPage(FunctionPage(mcfg[entry], device, 0), "device")
        /\ entry' = entry /\ device' = device + 1
    BY <1>7 DEF EnumerateDevice
  <2>2. EnumerationTyped'
    <3>1. entry' \in 1 .. Len(mcfg) + 1
      BY <2>1 DEF KernelInv, EnumerationTyped
    <3> QED
      BY <1>3, <1>7, <2>1, <3>1, LoopVariables
  <2>3. pc' = "device" => EnumerationBound'
    BY <1>1, <2>1 DEF EnumerationBound, Preparing, Mapping
  <2>4. pc' = "device" =>
          EnumeratedSoFar' = EnumeratedSoFar \cup {FunctionPage(mcfg[entry], device, 0)}
    <3>1. DevicePages(mcfg, present, entry, device)
            = {FunctionPage(mcfg[entry], device, 0)}
      BY <1>7, LoopVariables, NextDevice
    <3>2. DevicesBefore(mcfg, present, entry, device + 1)
            = DevicesBefore(mcfg, present, entry, device)
                \cup {FunctionPage(mcfg[entry], device, 0)}
      BY <3>1, LoopVariables, NextDevice
    <3> QED
      BY <1>1, <1>2, <2>1, <3>2 DEF EnumeratedSoFar
  <2> QED
    BY <1>1, <1>4, <1>7, <2>1, <2>2, <2>3, <2>4, MapPageKeeps
<1> QED
  BY <1>5, <1>6, <1>7

LEMMA EnumerateFunctionKeeps == KernelInv /\ EnumerateFunction => KernelInv'
<1> SUFFICES ASSUME KernelInv, EnumerateFunction  PROVE KernelInv'
  OBVIOUS
<1>1. /\ pc = "function" /\ entry' = entry
      /\ UNCHANGED <<environment, i, pml4, cr3, borrowed, mcfg, present>>
      /\ mcfg' = mcfg /\ present' = present
      /\ Enumerating /\ EnumerationTyped
      /\ entry <= Len(mcfg) /\ 0 \in present[entry] /\ entry \in DOMAIN mcfg
      /\ device \in present[entry] /\ device \in Devices
  BY LoopVariables DEF EnumerateFunction, KernelInv, Enumerating, EnumerationBound
<1>2. EnumeratedSoFar = BusesBefore(mcfg, present, entry)
                          \cup DevicesBefore(mcfg, present, entry, device)
                          \cup FunctionsBefore(mcfg, entry, device, function)
  BY <1>1 DEF EnumeratedSoFar
<1>3. device' \in 0 .. DEVICES /\ function' \in 0 .. FUNCTIONS => EnumerationTyped'
  BY <1>1 DEF EnumerationTyped
<1>4. CASE function = FUNCTIONS
  <2>1. /\ pc' = "device" /\ device' = device + 1
        /\ allocator' = allocator /\ tables' = tables /\ function' = function
    BY <1>4 DEF EnumerateFunction
  <2>2. EnumerationTyped'
    <3>1. function' \in 0 .. FUNCTIONS
      BY <2>1 DEF KernelInv, EnumerationTyped
    <3> QED
      BY <1>1, <1>3, <2>1, <3>1, LoopVariables
  <2>3. EnumerationBound'
    BY <1>1, <2>1 DEF EnumerationBound, Preparing, Mapping
  <2>4. EnumeratedSoFar' = EnumeratedSoFar
    <3>1. FunctionsBefore(mcfg, entry, device, function)
            = DevicePages(mcfg, present, entry, device)
      BY <1>1, <1>4, AllFunctions
    <3>2. DevicesBefore(mcfg, present, entry, device + 1)
            = DevicesBefore(mcfg, present, entry, device)
                \cup DevicePages(mcfg, present, entry, device)
      BY LoopVariables, NextDevice
    <3> QED
      BY <1>1, <1>2, <2>1, <3>1, <3>2 DEF EnumeratedSoFar
  <2> QED
    BY <1>1, <2>1, <2>2, <2>3, <2>4, MovingOnKeeps
<1>5. CASE function # FUNCTIONS
  <2>1. /\ MapPage(FunctionPage(mcfg[entry], device, function), "function")
        /\ function' = function + 1 /\ device' = device
    BY <1>5 DEF EnumerateFunction
  <2>2. FunctionPage(mcfg[entry], device, function) \in Frame
    BY <1>1, <1>5, McfgType, LoopVariables
  <2>3. EnumerationTyped'
    <3>1. device' \in 0 .. DEVICES
      BY <2>1 DEF KernelInv, EnumerationTyped
    <3> QED
      BY <1>3, <1>5, <2>1, <3>1, LoopVariables
  <2>4. pc' = "function" => EnumerationBound'
    BY <1>1, <2>1 DEF EnumerationBound, Preparing, Mapping
  <2>5. pc' = "function" =>
          EnumeratedSoFar'
            = EnumeratedSoFar \cup {FunctionPage(mcfg[entry], device, function)}
    <3>1. FunctionsBefore(mcfg, entry, device, function + 1)
            = FunctionsBefore(mcfg, entry, device, function)
                \cup {FunctionPage(mcfg[entry], device, function)}
      <4>1. function \in Nat
        BY LoopVariables
      <4> QED
        BY <4>1, NextFunction
    <3> QED
      BY <1>1, <1>2, <2>1, <3>1 DEF EnumeratedSoFar
  <2> QED
    BY <1>1, <2>1, <2>2, <2>3, <2>4, <2>5, MapPageKeeps
<1> QED
  BY <1>4, <1>5

LEMMA KernelStutters == KernelInv /\ UNCHANGED allVars => KernelInv'
<1> SUFFICES ASSUME KernelInv, UNCHANGED allVars  PROVE KernelInv'
  OBVIOUS
<1>1. /\ memory_map' = memory_map /\ kernel' = kernel /\ framebuffer' = framebuffer
      /\ pc' = pc /\ i' = i /\ pml4' = pml4 /\ allocator' = allocator
      /\ tables' = tables /\ cr3' = cr3
      /\ borrowed' = borrowed /\ mcfg' = mcfg /\ present' = present
      /\ entry' = entry /\ device' = device /\ function' = function
  BY DEF allVars, vars, pciVars
<1>2. /\ BitmapFits' = BitmapFits /\ Usable' = Usable /\ MappedPages' = MappedPages
      /\ KernelPages' = KernelPages /\ KernelEnd' = KernelEnd
      /\ FramebufferPages' = FramebufferPages /\ FramebufferEnd' = FramebufferEnd
      /\ MemoryPages' = MemoryPages
  BY <1>1 DEF BitmapFits, Usable, KernelPages, KernelEnd, FramebufferPages,
              FramebufferEnd, MappedPages, MemoryPages
<1>3. Preparing' = Preparing /\ Mapping' = Mapping /\ Enumerating' = Enumerating
  BY <1>1 DEF Preparing, Mapping, Enumerating
<1>4. Translated' = Translated
  <2>1. MappedSoFar' = MappedSoFar /\ EnumeratedSoFar' = EnumeratedSoFar
    BY <1>1, <1>2 DEF MappedSoFar, EnumeratedSoFar
  <2> QED
    BY <1>2, <1>3, <2>1 DEF Translated
<1>5. EnvironmentTyped' /\ MemoryTyped' /\ EnumerationTyped'
  BY <1>1 DEF KernelInv, EnvironmentTyped, MemoryTyped, EnumerationTyped
<1>6. LoopBound' /\ EnumerationBound'
  BY <1>1, <1>2, <1>3 DEF KernelInv, LoopBound, EnumerationBound
<1>7. Prepared' /\ Built' /\ Loaded'
  BY <1>1, <1>2, <1>3, <1>4 DEF KernelInv, Prepared, Built, Loaded
<1>8. IdentityMapped' /\ FaultOnlyBeyondRange'
  BY <1>1, <1>2 DEF KernelInv, IdentityMapped, FaultOnlyBeyondRange
<1> QED
  BY <1>5, <1>6, <1>7, <1>8 DEF KernelInv

-----------------------------------------------------------------------------
(* Whether initialisation survives.  The frames it may hand out, lowest    *)
(* first, are those Unlocked; the root gets the lowest, and the tables     *)
(* under it the next ones, as long as the moved bound lets them be found.  *)
Bound      == BitmapSize(memory_map) * BITS
BufferLock == 0 .. BitmapSize(memory_map) \div FRAME_BYTES
System     == FramesOfType(memory_map, {"mmio", "other"})

FramesLeft ==
  /\ pc = "lock kernel" =>
       FreeFrames(allocator) = ((0 .. Bound - 1) \ BufferLock) \ System
  /\ pc = "lock framebuffer" =>
       FreeFrames(allocator)
         = (((0 .. Bound - 1) \ BufferLock) \ System) \ KernelPagesToLock
  /\ pc = "request root" => FreeFrames(allocator) = Unlocked

RootLowest ==
  pc = "init manager" \/ Mapping =>
    pml4 \in Unlocked /\ \A f \in Unlocked : pml4 <= f

RootGranted ==
  pc = "init manager" =>
    /\ allocator.size = BitmapSize(memory_map)
    /\ Frontier(allocator, Unlocked, Bound, {pml4})

TablesGranted ==
  Mapping =>
    /\ allocator.size = pml4 * FRAME_BYTES
    /\ InOrder(MachineOf(allocator, tables, Usable), pml4, Unlocked, Bound)
    /\ Spans(tables, pml4, MappedSoFar, MappedSoFar, MappedSoFar)

BootInv == FramesLeft /\ RootLowest /\ RootGranted /\ TablesGranted /\ BootOutcome

(* An initial part of a set of numbers is its Lowest, and the first number *)
(* past it is among the Lowest when more are asked for.                    *)
LEMMA LowestFacts ==
  ASSUME NEW S \in SUBSET Nat, IsFiniteSet(S), NEW G \in SUBSET S,
         \A f \in S, g \in G : f <= g => f \in G
  PROVE  /\ IsFiniteSet(G) /\ Cardinality(G) \in Nat
         /\ Lowest(Cardinality(G), S) = G
         /\ \A n \in Nat, u \in S \ G :
              /\ Cardinality(G) < n
              /\ \A x \in S \ G : u <= x
              => u \in Lowest(n, S)
<1> DEFINE UpTo(f) == {g \in S : g <= f}
           size == Cardinality(G)
<1>1. IsFiniteSet(G) /\ size \in Nat
  BY FS_Subset, FS_CardinalityType
<1>2. \A f \in S : IsFiniteSet(UpTo(f)) /\ Cardinality(UpTo(f)) \in Nat
  BY FS_Subset, FS_CardinalityType
<1>3. ASSUME NEW f \in G  PROVE Cardinality(UpTo(f)) <= size
  <2>1. UpTo(f) \subseteq G
    OBVIOUS
  <2> QED
    BY <1>1, <2>1, FS_Subset
<1>4. ASSUME NEW f \in S \ G  PROVE ~(Cardinality(UpTo(f)) <= size)
  <2>1. f \notin G /\ IsFiniteSet(G \cup {f}) /\ Cardinality(G \cup {f}) = size + 1
    BY <1>1, FS_AddElement
  <2>2. \A g \in G : g \in S /\ g \in Nat /\ f \in Nat /\ ~(f <= g)
    OBVIOUS
  <2>3. G \cup {f} \subseteq UpTo(f)
    BY <2>2
  <2>4. Cardinality(G \cup {f}) <= Cardinality(UpTo(f))
    BY <1>2, <2>3, FS_Subset
  <2>5. Cardinality(UpTo(f)) \in Nat
    BY <1>2
  <2> HIDE DEF UpTo, size
  <2> QED
    BY <1>1, <2>1, <2>4, <2>5
<1>5. Lowest(size, S) = G
  BY <1>3, <1>4 DEF Lowest
<1>6. ASSUME NEW n \in Nat, NEW u \in S \ G, size < n, \A x \in S \ G : u <= x
      PROVE  u \in Lowest(n, S)
  <2>1. IsFiniteSet(G \cup {u}) /\ Cardinality(G \cup {u}) = size + 1
    BY <1>1, FS_AddElement
  <2>2. UpTo(u) \subseteq G \cup {u}
    <3> SUFFICES ASSUME NEW g \in S, g <= u, g \notin G  PROVE g = u
      OBVIOUS
    <3>1. u <= g /\ g \in Nat /\ u \in Nat
      BY <1>6
    <3> QED
      BY <3>1
  <2>3. Cardinality(UpTo(u)) <= size + 1
    BY <2>1, <2>2, FS_Subset
  <2>4. Cardinality(UpTo(u)) \in Nat
    BY <1>2
  <2>5. Cardinality(UpTo(u)) <= n
    <3> HIDE DEF UpTo, size
    <3> QED
      BY <1>1, <1>6, <2>3, <2>4
  <2> QED
    BY <2>5 DEF Lowest
<1> QED
  BY <1>1, <1>5, <1>6

(* While there are enough frames, none was granted beyond the bound. *)
LEMMA GrantedAreFree ==
  ASSUME NEW a, NEW bound \in Nat, NEW free \in SUBSET (0 .. bound - 1), IsFiniteSet(free),
         NEW G, IsFiniteSet(G), Frontier(a, free, bound, G),
         Cardinality(G) <= Cardinality(free)
  PROVE  G \subseteq free
<1> SUFFICES ASSUME NEW g \in G, g \notin free  PROVE FALSE
  OBVIOUS
<1>1. g \in Nat /\ g >= bound
  BY DEF Frontier
<1>2. \A f \in free : f \in Nat /\ f <= g
  BY <1>1
<1>3. free \cup {g} \subseteq G
  BY <1>2 DEF Frontier
<1>4. Cardinality(free \cup {g}) = Cardinality(free) + 1 /\ Cardinality(free) \in Nat
  BY FS_AddElement, FS_CardinalityType
<1>5. Cardinality(free \cup {g}) <= Cardinality(G) /\ Cardinality(G) \in Nat
  BY <1>3, FS_Subset, FS_CardinalityType
<1> QED
  BY <1>4, <1>5

LEMMA MoreTables ==
  ASSUME NEW Q, IsFiniteSet(Q), NEW P \in SUBSET Q
  PROVE  /\ TablesFor(P) \in Nat /\ TablesFor(Q) \in Nat /\ TablesFor(P) <= TablesFor(Q)
         /\ Q # {} => TablesFor(Q) >= 2
<1> DEFINE A1 == Above(P)
           A2 == Above(A1)
           A3 == Above(A2)
           B1 == Above(Q)
           B2 == Above(B1)
           B3 == Above(B2)
<1>1. \A S : IsFiniteSet(S) => IsFiniteSet(Above(S))
  BY AboveGrows
<1>2. IsFiniteSet(B1) /\ IsFiniteSet(B2) /\ IsFiniteSet(B3)
  BY <1>1
<1>3. A1 \subseteq B1 /\ A2 \subseteq B2 /\ A3 \subseteq B3
  BY DEF Above
<1>4. /\ Cardinality(A1) \in Nat /\ Cardinality(A2) \in Nat /\ Cardinality(A3) \in Nat
      /\ Cardinality(B1) \in Nat /\ Cardinality(B2) \in Nat /\ Cardinality(B3) \in Nat
      /\ Cardinality(A1) <= Cardinality(B1) /\ Cardinality(A2) <= Cardinality(B2)
      /\ Cardinality(A3) <= Cardinality(B3)
  <2> HIDE DEF A1, A2, A3, B1, B2, B3
  <2> QED
    BY <1>2, <1>3, FS_Subset, FS_CardinalityType
<1>5. Q # {} => Cardinality(B1) # 0
  <2>1. Q # {} => B1 # {}
    BY DEF Above
  <2> HIDE DEF B1
  <2> QED
    BY <1>2, <2>1, FS_EmptySet
<1>6. /\ TablesFor(P) = 1 + Cardinality(A3) + Cardinality(A2) + Cardinality(A1)
      /\ TablesFor(Q) = 1 + Cardinality(B3) + Cardinality(B2) + Cardinality(B1)
  BY DEF TablesFor
<1> HIDE DEF A1, A2, A3, B1, B2, B3
<1> QED
  BY <1>4, <1>5, <1>6

(* What the map, the kernel and the framebuffer determine. *)
LEMMA BootFacts ==
  ASSUME EnvironmentTyped
  PROVE  /\ Bound \in Nat /\ BitmapSize(memory_map) \in Nat
         /\ Unlocked \in SUBSET (0 .. Bound - 1)
         /\ Unlocked \in SUBSET Nat /\ IsFiniteSet(Unlocked)
         /\ Unlocked = ((((0 .. Bound - 1) \ BufferLock) \ System) \ KernelPagesToLock)
                         \ FramebufferPages
         /\ MappedPages \in SUBSET PageNumbers /\ MappedPages \in SUBSET Frame
         /\ IsFiniteSet(MappedPages) /\ MappedPages # {}
         /\ TableCount \in Nat /\ TableCount >= 2
<1>1. memory_map \in MemoryMaps /\ BITS \in Nat \ {0} /\ FRAME_BYTES \in Nat \ {0}
  BY FramesAssumption DEF EnvironmentTyped
<1>2. BitmapSize(memory_map) \in Nat /\ Bound \in Nat
  BY <1>1, MemorySizeType DEF Bound
<1>3. 0 \in BufferLock
  BY <1>1, <1>2 DEF BufferLock
<1>4. /\ Unlocked = ((((0 .. Bound - 1) \ BufferLock) \ System) \ KernelPagesToLock)
                      \ FramebufferPages
      /\ Unlocked \in SUBSET (0 .. Bound - 1) /\ Unlocked \in SUBSET Nat
  <2>1. Unlocked = (1 .. Bound - 1)
                     \ (KernelPagesToLock \cup FramebufferPages \cup System \cup BufferLock)
    BY DEF Unlocked, Bound, System, BufferLock
  <2>2. \A f : f \in 1 .. Bound - 1 <=> f \in 0 .. Bound - 1 /\ f # 0
    BY <1>2
  <2>3. 0 .. Bound - 1 \subseteq Nat
    BY <1>2
  <2> QED
    BY <1>3, <2>1, <2>2, <2>3
<1>5. IsFiniteSet(0 .. Bound - 1)
  BY <1>2, FS_Interval
<1>6. IsFiniteSet(Unlocked)
  BY <1>4, <1>5, FS_Subset
<1>7. MappedPages \in SUBSET Frame
  BY EnvironmentFacts DEF MappedPages, MemoryPages
<1>8. MappedPages \in SUBSET PageNumbers
  BY <1>7, FramesAreIndexed DEF PageNumbers
<1>9. IsFiniteSet(MappedPages)
  <2>1. IsFiniteSet(Frame)
    BY MapsAssumption, FS_Interval DEF Frame
  <2> QED
    BY <1>7, <2>1, FS_Subset
<1>10. MappedPages # {}
  <2>1. framebuffer.frame \in Nat /\ framebuffer.pages \in Nat
    BY EnvironmentAssumption, NotPresentIsNoFrame DEF EnvironmentTyped
  <2>2. framebuffer.frame \in FramebufferPages
    BY <2>1 DEF FramebufferPages, FramebufferEnd
  <2> QED
    BY <2>2 DEF MappedPages
<1>11. TableCount \in Nat /\ TableCount >= 2
  <2>1. MappedPages \in SUBSET MappedPages
    OBVIOUS
  <2> QED
    BY <1>9, <1>10, <2>1, MoreTables DEF TableCount
<1> QED
  BY <1>2, <1>4, <1>6, <1>7, <1>8, <1>9, <1>10, <1>11

(* The lowest frame is the root's. *)
LEMMA RootIsLowest ==
  ASSUME EnvironmentTyped, pml4 \in Unlocked, \A f \in Unlocked : pml4 <= f
  PROVE  Lowest(1, Unlocked) = {pml4}
<1>1. Unlocked \in SUBSET Nat /\ IsFiniteSet(Unlocked)
  BY BootFacts
<1>2. {pml4} \in SUBSET Unlocked /\ Cardinality({pml4}) = 1
  BY FS_Singleton
<1>3. \A f \in Unlocked, g \in {pml4} : f <= g => f \in {pml4}
  <2> SUFFICES ASSUME NEW f \in Unlocked, f <= pml4  PROVE f = pml4
    OBVIOUS
  <2>1. f \in Nat /\ pml4 \in Nat /\ pml4 <= f
    BY <1>1
  <2> QED
    BY <2>1
<1>4. Lowest(Cardinality({pml4}), Unlocked) = {pml4}
  BY <1>1, <1>2, <1>3, LowestFacts
<1> QED
  BY <1>2, <1>4

(* Once every table is made, they fill the lowest frames, below the bound. *)
LEMMA AllTablesMade ==
  ASSUME KernelInv, BootInv, pc = "load", Cardinality(Unlocked) >= TableCount
  PROVE  BootSafe
<1> DEFINE G == TablesOf(tables, pml4)
           m == MachineOf(allocator, tables, Usable)
<1>1. /\ EnvironmentTyped /\ BitmapFits /\ pml4 \in Frame /\ tables \in Tables
      /\ IsTree(tables, pml4) /\ G \subseteq Usable
  BY DEF KernelInv, Prepared, Built, Mapping, MemoryTyped, MapsOnly, SoundMachine,
         Translated, MachineOf
<1>2. /\ pml4 \in Unlocked /\ \A f \in Unlocked : pml4 <= f
      /\ allocator.size = pml4 * FRAME_BYTES
      /\ Frontier(allocator, Unlocked, Bound, G)
      /\ \A f \in G \ {pml4} : f < LastBit(allocator)
      /\ Spans(tables, pml4, MappedPages, MappedPages, MappedPages)
  BY DEF BootInv, RootLowest, TablesGranted, Mapping, InOrder, MachineOf, MappedSoFar
<1>3. /\ Bound \in Nat /\ Unlocked \in SUBSET (0 .. Bound - 1) /\ Unlocked \in SUBSET Nat
      /\ IsFiniteSet(Unlocked) /\ MappedPages \in SUBSET PageNumbers
      /\ IsFiniteSet(MappedPages) /\ TableCount \in Nat /\ TableCount >= 2
  BY <1>1, BootFacts
<1>4. pml4 \in G
  BY DEF TablesOf, Directories
<1> HIDE DEF G
<1>5. IsFiniteSet(G) /\ Cardinality(G) = TableCount
  BY <1>1, <1>2, <1>3, TreeSize DEF G, TableCount, TablesFor
<1>6. G \subseteq Unlocked
  <2>1. Cardinality(Unlocked) \in Nat
    BY <1>3, FS_CardinalityType
  <2>2. Cardinality(G) <= Cardinality(Unlocked)
    BY <1>3, <1>5, <2>1
  <2> QED
    BY <1>2, <1>3, <1>5, <2>2, GrantedAreFree
<1>7. Lowest(TableCount, Unlocked) = G
  <2>1. \A f \in Unlocked, g \in G : f <= g => f \in G
    BY <1>2 DEF Frontier
  <2> QED
    BY <1>3, <1>5, <1>6, <2>1, LowestFacts
<1>8. Lowest(1, Unlocked) = {pml4}
  BY <1>1, <1>2, RootIsLowest
<1>9. LastBit(allocator) = pml4 * FRAME_BYTES * BITS /\ LastBit(allocator) \in Nat
  BY <1>2, LastBitType DEF LastBit, KernelInv, MemoryTyped
<1>10. \A f \in G : f < LastBit(allocator)
  <2>1. PICK g \in G : g # pml4
    <3>1. ~(G \subseteq {pml4})
      <4>1. ASSUME G \subseteq {pml4}  PROVE FALSE
        <5>1. G = {pml4}
          BY <1>4, <4>1
        <5> QED
          BY <1>3, <1>5, <5>1, FS_Singleton
      <4> QED
        BY <4>1
    <3> QED
      BY <3>1
  <2>2. g \in Nat /\ pml4 \in Nat /\ pml4 <= g /\ g < LastBit(allocator)
    BY <1>2, <1>3, <1>6, <2>1
  <2> QED
    BY <1>2, <1>9, <2>2
<1> QED
  BY <1>1, <1>7, <1>8, <1>9, <1>10 DEF BootSafe

(* The call that is lost was about to take a frame that is not fit: had    *)
(* all those to be chosen been, it would have found the next of them.      *)
LEMMA StuckIsUnsafe ==
  ASSUME EnvironmentTyped, Cardinality(Unlocked) >= TableCount,
         pml4 \in Unlocked, \A f \in Unlocked : pml4 <= f,
         NEW m, m.allocator \in Allocator, m.allocator.size = pml4 * FRAME_BYTES,
         InOrder(m, pml4, Unlocked, Bound),
         NEW pages \in SUBSET MappedPages, NEW page \in MappedPages,
         Stuck(m, pml4, Usable, pages, page)
  PROVE  ~BootSafe
<1> SUFFICES ASSUME BootSafe  PROVE FALSE
  OBVIOUS
<1> DEFINE G == TablesOf(m.tables, pml4)
           a == m.allocator
           last == LastBit(a)
<1>1. /\ Bound \in Nat /\ Unlocked \in SUBSET (0 .. Bound - 1) /\ Unlocked \in SUBSET Nat
      /\ IsFiniteSet(Unlocked) /\ IsFiniteSet(MappedPages)
      /\ TableCount \in Nat
  BY BootFacts
<1>2. /\ RequestedPage(a) \notin Usable /\ IsFiniteSet(G)
      /\ Cardinality(G) < TablesFor(pages \cup {page})
      /\ Frontier(a, Unlocked, Bound, G)
  BY DEF Stuck, InOrder
<1>3. last = pml4 * FRAME_BYTES * BITS /\ last \in Nat /\ a \in Allocator
  BY LastBitType DEF LastBit
<1> HIDE DEF G, a, last
<1>4. /\ Cardinality(G) \in Nat /\ Cardinality(Unlocked) \in Nat
      /\ Cardinality(G) < TableCount
      /\ Cardinality(G) < Cardinality(Unlocked)
  <2>1. pages \cup {page} \in SUBSET MappedPages
    OBVIOUS
  <2>2. TablesFor(pages \cup {page}) \in Nat /\ TablesFor(pages \cup {page}) <= TableCount
    BY <1>1, <2>1, MoreTables DEF TableCount
  <2>3. Cardinality(G) \in Nat /\ Cardinality(Unlocked) \in Nat
    BY <1>1, <1>2, FS_CardinalityType
  <2> QED
    BY <1>1, <1>2, <2>2, <2>3
<1>5. G \subseteq Unlocked
  <2>1. Cardinality(G) <= Cardinality(Unlocked)
    BY <1>4
  <2> QED
    BY <1>1, <1>2, <2>1, GrantedAreFree
<1>6. Unlocked \ G # {}
  <2>1. Unlocked \subseteq G => G = Unlocked
    BY <1>5
  <2> QED
    BY <1>4, <2>1
<1>7. PICK u \in Unlocked \ G : \A x \in Unlocked \ G : u <= x
  <2>1. Unlocked \ G \in SUBSET Nat
    BY <1>1
  <2> QED
    BY <1>6, <2>1, Minimum
<1>8. u \in Lowest(TableCount, Unlocked)
  <2>1. G \in SUBSET Unlocked /\ \A f \in Unlocked, g \in G : f <= g => f \in G
    BY <1>2, <1>5 DEF Frontier
  <2> QED
    BY <1>1, <1>4, <1>7, <2>1, LowestFacts
<1>9. u \in Usable /\ u < last
  <2>1. Lowest(1, Unlocked) = {pml4}
    BY RootIsLowest
  <2> QED
    BY <1>3, <1>8, <2>1 DEF BootSafe
<1>10. \A f \in Nat : f < Bound /\ f < last => (f \notin a.bits <=> f \in Unlocked \ G)
  BY <1>2 DEF Frontier, last
<1>11. \A f \in Nat : f \in FreeFrames(a) <=> f < last /\ f \notin a.bits
  BY <1>3 DEF FreeFrames, bitmap_get, last
<1>12. u \in Nat /\ u < Bound
  BY <1>1
<1>13. u \in FreeFrames(a)
  BY <1>9, <1>10, <1>11, <1>12
<1>14. /\ RequestedPage(a) \in FreeFrames(a) /\ RequestedPage(a) <= u
       /\ RequestedPage(a) \in Nat
  BY <1>3, <1>13, RequestedPageFacts
<1>15. RequestedPage(a) \in Unlocked \ G
  <2>1. RequestedPage(a) < Bound
    BY <1>1, <1>12, <1>14
  <2> QED
    BY <1>10, <1>11, <1>14, <2>1
<1>16. RequestedPage(a) = u
  BY <1>7, <1>12, <1>14, <1>15
<1> QED
  BY <1>2, <1>9, <1>16

LEMMA BootConstants ==
  ASSUME UNCHANGED environment
  PROVE  /\ Bound' = Bound /\ BufferLock' = BufferLock /\ System' = System
         /\ BitmapSize(memory_map)' = BitmapSize(memory_map)
         /\ Unlocked' = Unlocked /\ Usable' = Usable /\ BitmapFits' = BitmapFits
         /\ KernelPagesToLock' = KernelPagesToLock
         /\ FramebufferPages' = FramebufferPages
         /\ MappedPages' = MappedPages /\ TableCount' = TableCount
         /\ BootSafe' = BootSafe
<1>1. memory_map' = memory_map /\ kernel' = kernel /\ framebuffer' = framebuffer
  BY DEF environment
<1>2. /\ KernelPagesToLock' = KernelPagesToLock /\ FramebufferPages' = FramebufferPages
      /\ KernelPages' = KernelPages
  BY <1>1 DEF KernelPagesToLock, FramebufferPages, FramebufferEnd, KernelPages, KernelEnd
<1>3. /\ Bound' = Bound /\ BufferLock' = BufferLock /\ System' = System
      /\ BitmapSize(memory_map)' = BitmapSize(memory_map)
  BY <1>1 DEF Bound, BufferLock, System
<1>4. Unlocked' = Unlocked
  BY <1>1, <1>2 DEF Unlocked
<1>5. Usable' = Usable /\ BitmapFits' = BitmapFits
  BY <1>1, <1>2 DEF Usable, BitmapFits
<1>6. MappedPages' = MappedPages
  BY <1>1, <1>2 DEF MappedPages
<1>7. TableCount' = TableCount
  BY <1>6 DEF TableCount
<1>8. BootSafe' = BootSafe
  BY <1>4, <1>5, <1>7 DEF BootSafe
<1> QED
  BY <1>2, <1>3, <1>4, <1>5, <1>6, <1>7, <1>8

LEMMA BootInit == PciInit => BootInv
<1> SUFFICES ASSUME PciInit  PROVE BootInv
  OBVIOUS
<1>1. pc = "read map"
  BY DEF PciInit, Init
<1> QED
  BY <1>1 DEF BootInv, FramesLeft, RootLowest, RootGranted, TablesGranted, BootOutcome,
              Mapping

LEMMA BootReadMemoryMap == KernelInv /\ ReadMemoryMap => BootInv'
<1> SUFFICES ASSUME KernelInv, ReadMemoryMap  PROVE BootInv'
  OBVIOUS
<1>1. /\ pc' = IF BitmapFits THEN "lock kernel" ELSE "lost"
      /\ UNCHANGED environment
  BY DEF ReadMemoryMap
<1>2. PICK found \in SUBSET {BitmapSize(memory_map) * BITS} :
        allocator' = AllocatorOf(memory_map, found)
  BY DEF ReadMemoryMap
<1>3. FreeFrames(allocator') = ((0 .. Bound - 1) \ BufferLock) \ System
  BY <1>2, AllocatorOfFree DEF KernelInv, EnvironmentTyped, Bound, BufferLock, System
<1>4. FramesLeft'
  BY <1>1, <1>3, BootConstants DEF FramesLeft
<1>5. RootLowest' /\ RootGranted' /\ TablesGranted'
  BY <1>1 DEF RootLowest, RootGranted, TablesGranted, Mapping
<1>6. BootOutcome'
  BY <1>1, BootConstants DEF BootOutcome, BootSafe
<1> QED
  BY <1>4, <1>5, <1>6 DEF BootInv

LEMMA BootLocks == KernelInv /\ BootInv /\ (LockKernel \/ LockFramebuffer) => BootInv'
<1> SUFFICES ASSUME KernelInv, BootInv, LockKernel \/ LockFramebuffer  PROVE BootInv'
  OBVIOUS
<1>1. UNCHANGED environment /\ allocator \in Allocator /\ EnvironmentTyped
  BY DEF LockKernel, LockFramebuffer, KernelInv, MemoryTyped
<1>2. pc' \in {"lock framebuffer", "request root"}
  BY DEF LockKernel, LockFramebuffer
<1>3. FramesLeft'
  <2>1. CASE LockKernel
    <3>1. /\ FreeFrames(allocator) = ((0 .. Bound - 1) \ BufferLock) \ System
          /\ allocator' = pfallocator_lock_pages(allocator, KernelPagesToLock)
          /\ pc' = "lock framebuffer"
      BY <2>1 DEF LockKernel, BootInv, FramesLeft
    <3>2. FreeFrames(allocator')
            = (((0 .. Bound - 1) \ BufferLock) \ System) \ KernelPagesToLock
      BY <1>1, <3>1, SettingTakes
    <3> QED
      BY <1>1, <3>1, <3>2, BootConstants DEF FramesLeft
  <2>2. CASE LockFramebuffer
    <3>1. /\ FreeFrames(allocator)
               = (((0 .. Bound - 1) \ BufferLock) \ System) \ KernelPagesToLock
          /\ allocator' = pfallocator_lock_pages(allocator, FramebufferPages)
          /\ pc' = "request root"
      BY <2>2 DEF LockFramebuffer, BootInv, FramesLeft
    <3>2. FreeFrames(allocator') = Unlocked
      BY <1>1, <3>1, SettingTakes, BootFacts
    <3> QED
      BY <1>1, <3>1, <3>2, BootConstants DEF FramesLeft
  <2> QED
    BY <2>1, <2>2
<1>4. RootLowest' /\ RootGranted' /\ TablesGranted' /\ BootOutcome'
  BY <1>2 DEF RootLowest, RootGranted, TablesGranted, Mapping, BootOutcome
<1> QED
  BY <1>3, <1>4 DEF BootInv

(* The root gets the lowest frame, which is the one safety is about. *)
LEMMA BootRequestRoot == KernelInv /\ BootInv /\ RequestRoot => BootInv'
<1> SUFFICES ASSUME KernelInv, BootInv, RequestRoot  PROVE BootInv'
  OBVIOUS
<1> DEFINE a == allocator
           page == RequestedPage(allocator)
<1>1. /\ pc = "request root" /\ pml4' = page /\ UNCHANGED environment
      /\ pc' = IF page \in Usable THEN "init manager" ELSE "lost"
      /\ allocator' = pfallocator_request_page(allocator)
      /\ cr3' = cr3
  BY DEF RequestRoot
<1>2. /\ FreeFrames(a) = Unlocked /\ a \in Allocator /\ WellFormed(a)
      /\ a.size = BitmapSize(memory_map) /\ EnvironmentTyped
      /\ Usable \subseteq Frame \ {NULL}
  BY <1>1, EnvironmentFacts DEF KernelInv, BootInv, FramesLeft, Prepared, MemoryTyped
<1>3. /\ Bound \in Nat /\ Unlocked \in SUBSET (0 .. Bound - 1) /\ Unlocked \in SUBSET Nat
      /\ IsFiniteSet(Unlocked) /\ TableCount \in Nat /\ TableCount >= 2
  BY <1>2, BootFacts
<1>4. LastBit(a) = Bound
  BY <1>2 DEF LastBit, Bound
<1>5. Unlocked # {} => page \in Unlocked /\ \A f \in Unlocked : page <= f
  BY <1>2, RequestedPageFacts
<1>6. ASSUME page \in Usable
      PROVE  /\ page \in Unlocked /\ \A f \in Unlocked : page <= f
             /\ allocator'.size = BitmapSize(memory_map)
             /\ Frontier(allocator', Unlocked, Bound, {page})
  <2>1. page # NULL
    BY <1>2, <1>6
  <2>2. Unlocked # {}
    BY <1>2, <2>1 DEF RequestedPage
  <2>3. allocator'.size = a.size
    BY <1>1, <1>2, <2>1, RequestSetsOneBit
  <2>4. Frontier(a, Unlocked, Bound, {})
    <3>1. \A f \in Nat : f \in FreeFrames(a) <=> f < LastBit(a) /\ f \notin a.bits
      BY <1>3, <1>4 DEF FreeFrames, bitmap_get
    <3> QED
      BY <1>2, <1>4, <3>1 DEF Frontier
  <2>5. Frontier(pfallocator_request_page(a), Unlocked, Bound, {} \cup {page})
    BY <1>2, <1>3, <2>1, <2>4, FrontierMoves
  <2>6. {} \cup {page} = {page}
    OBVIOUS
  <2> QED
    BY <1>1, <1>2, <1>5, <2>2, <2>3, <2>5, <2>6
<1>7. ASSUME page \notin Usable, Cardinality(Unlocked) >= TableCount, BootSafe
      PROVE  FALSE
  <2>1. Cardinality({}) = 0 /\ {} \in SUBSET Unlocked
    BY FS_EmptySet
  <2>2. Unlocked # {}
    BY <1>3, <1>7, <2>1
  <2>3. Cardinality({}) < TableCount
    BY <1>3, <2>1
  <2>4. page \in Lowest(TableCount, Unlocked)
    BY <1>3, <1>5, <2>1, <2>2, <2>3, LowestFacts
  <2> QED
    BY <1>7, <2>4 DEF BootSafe
<1> HIDE DEF page
<1>8. FramesLeft' /\ TablesGranted'
  BY <1>1 DEF FramesLeft, TablesGranted, Mapping
<1>9. RootLowest' /\ RootGranted'
  BY <1>1, <1>6, BootConstants DEF RootLowest, RootGranted, Mapping
<1>10. BootOutcome'
  BY <1>1, <1>7, BootConstants DEF BootOutcome
<1> QED
  BY <1>8, <1>9, <1>10 DEF BootInv

(* The bits the moved bound adds, whatever they hold, are past the frames  *)
(* there are.                                                              *)
LEMMA BootInitManager == KernelInv /\ BootInv /\ InitManager => BootInv'
<1> SUFFICES ASSUME KernelInv, BootInv, InitManager  PROVE BootInv'
  OBVIOUS
<1>1. /\ pc = "init manager" /\ pc' = "map memory" /\ i' = 0
      /\ UNCHANGED environment /\ pml4' = pml4 /\ tables' = tables
  BY DEF InitManager
<1>2. PICK beyond \in {{}, LastBit(allocator) + 1 .. pml4 * FRAME_BYTES * BITS} :
        allocator' = [allocator EXCEPT !.size = pml4 * FRAME_BYTES, !.bits = @ \cup beyond]
  BY DEF InitManager
<1>3. /\ allocator \in Allocator /\ EnvironmentTyped
      /\ \A j \in Index : tables[pml4][j] = NOT_PRESENT
      /\ pml4 \in Frame /\ pml4 # NULL /\ tables \in Tables
      /\ pml4 \in Unlocked /\ \A f \in Unlocked : pml4 <= f
      /\ allocator.size = BitmapSize(memory_map)
      /\ Frontier(allocator, Unlocked, Bound, {pml4})
  BY <1>1, EnvironmentFacts
  DEF KernelInv, MemoryTyped, Prepared, BootInv, RootLowest, RootGranted
<1>4. Bound \in Nat /\ LastBit(allocator) = Bound
  BY <1>3, BootFacts DEF LastBit, Bound
<1>5. /\ allocator'.size = pml4 * FRAME_BYTES
      /\ allocator'.bits = allocator.bits \cup beyond
  BY <1>2, <1>3 DEF Allocator
<1>6. \A f \in Nat : f < Bound => f \notin beyond
  <2> SUFFICES ASSUME NEW f \in Nat, f < Bound, f \in beyond  PROVE FALSE
    OBVIOUS
  <2>1. f \in LastBit(allocator) + 1 .. pml4 * FRAME_BYTES * BITS
    BY <1>2
  <2>2. f >= Bound + 1
    BY <1>4, <2>1
  <2> QED
    BY <1>4, <2>2
<1>7. Frontier(allocator', Unlocked, Bound, {pml4})
  <2>1. \A f \in Nat : f < Bound => (f \notin allocator'.bits <=> f \in Unlocked \ {pml4})
    BY <1>3, <1>4, <1>5, <1>6 DEF Frontier
  <2> QED
    BY <1>3, <2>1 DEF Frontier
<1>8. TablesOf(tables, pml4) = {pml4}
  BY <1>3, ZeroedRoot
<1>9. Pdps(tables, pml4) = {} /\ Pds(tables, pml4) = {} /\ Pts(tables, pml4) = {}
  <2>1. Children(tables, {pml4}) = {}
    BY <1>3 DEF Children
  <2>2. Children(tables, {}) = {}
    BY DEF Children
  <2> QED
    BY <2>1, <2>2 DEF Pdps, Pds, Pts
<1>10. Spans(tables, pml4, {}, {}, {})
  BY <1>9 DEF Spans, Covered
<1>11. MappedSoFar' = {}
  <2>1. MappedSoFar' = 0 .. i' - 1
    BY <1>1 DEF MappedSoFar
  <2>2. i' = 0
    BY <1>1
  <2> QED
    BY <2>1, <2>2
<1>12. InOrder(MachineOf(allocator', tables, Usable), pml4, Unlocked, Bound)
  BY <1>7, <1>8 DEF InOrder, MachineOf
<1>13. TablesGranted'
  BY <1>1, <1>5, <1>10, <1>11, <1>12, BootConstants DEF TablesGranted
<1>14. RootLowest'
  BY <1>1, <1>3, BootConstants DEF RootLowest
<1>15. FramesLeft' /\ RootGranted' /\ BootOutcome'
  BY <1>1 DEF FramesLeft, RootGranted, BootOutcome
<1> QED
  BY <1>13, <1>14, <1>15 DEF BootInv

LEMMA MappedIsPart ==
  ASSUME KernelInv, Mapping
  PROVE  MappedSoFar \subseteq MappedPages
<1>1. EnvironmentTyped /\ LoopBound /\ i \in Nat
  BY DEF KernelInv, MemoryTyped
<1>2. MappedPages = MemoryPages \cup KernelPages \cup FramebufferPages
  BY DEF MappedPages, MemoryPages
<1>3. CASE pc = "map memory"
  <2>1. i <= get_memory_size(memory_map) /\ get_memory_size(memory_map) \in Nat
    BY <1>1, <1>3, EnvironmentFacts DEF LoopBound
  <2>2. 0 .. i - 1 \subseteq MemoryPages
    BY <1>1, <2>1 DEF MemoryPages
  <2> QED
    BY <1>2, <1>3, <2>2 DEF MappedSoFar
<1>4. CASE pc = "map kernel"
  <2>1. i <= KernelEnd /\ KernelEnd \in Nat
    BY <1>1, <1>4, EnvironmentFacts DEF LoopBound
  <2>2. 0 .. i - 1 \subseteq KernelPages
    BY <1>1, <2>1 DEF KernelPages
  <2> QED
    BY <1>2, <1>4, <2>2 DEF MappedSoFar
<1>5. CASE pc = "map framebuffer"
  <2>1. i <= FramebufferEnd /\ FramebufferEnd \in Nat /\ framebuffer.frame \in Nat
    BY <1>1, <1>5, EnvironmentFacts DEF LoopBound
  <2>2. framebuffer.frame .. i - 1 \subseteq FramebufferPages
    BY <1>1, <2>1 DEF FramebufferPages
  <2> QED
    BY <1>2, <1>5, <2>2 DEF MappedSoFar
<1>6. CASE pc = "load"
  BY <1>6 DEF MappedSoFar
<1> QED
  BY <1>3, <1>4, <1>5, <1>6 DEF Mapping

LEMMA BootLoopStep ==
  ASSUME KernelInv, BootInv, NEW here, NEW end, NEW next, NEW first,
         LoopOver(here, end, next, first)
  PROVE  BootInv'
<1>1. /\ MapLoop(here, end, next, first) /\ Mapping /\ pc = here
      /\ here \in {"map memory", "map kernel", "map framebuffer"}
      /\ next \in {"map kernel", "map framebuffer", "load"}
      /\ UNCHANGED environment /\ pml4' = pml4 /\ cr3' = cr3
      /\ EnvironmentTyped /\ pml4 \in Frame /\ pml4 # NULL
      /\ MapsOnly(allocator, tables, pml4, Usable, MappedSoFar)
  BY DEF LoopOver, MapLoop, Mapping, KernelInv, MemoryTyped, Built, Translated
<1>2. /\ pml4 \in Unlocked /\ \A f \in Unlocked : pml4 <= f
      /\ allocator.size = pml4 * FRAME_BYTES
      /\ InOrder(MachineOf(allocator, tables, Usable), pml4, Unlocked, Bound)
      /\ Spans(tables, pml4, MappedSoFar, MappedSoFar, MappedSoFar)
  BY <1>1 DEF BootInv, RootLowest, TablesGranted
<1>3. /\ Bound \in Nat /\ Unlocked \in SUBSET (0 .. Bound - 1)
      /\ MappedPages \in SUBSET PageNumbers /\ MappedPages \in SUBSET Frame
      /\ IsFiniteSet(MappedPages) /\ MappedSoFar \in SUBSET MappedPages
      /\ MappedSoFar \in SUBSET PageNumbers
  BY <1>1, BootFacts, MappedIsPart
<1>4. ASSUME pc' \in {"map memory", "map kernel", "map framebuffer", "load"},
             allocator'.size = pml4 * FRAME_BYTES,
             InOrder(MachineOf(allocator', tables', Usable), pml4, Unlocked, Bound),
             Spans(tables', pml4, MappedSoFar', MappedSoFar', MappedSoFar')
      PROVE  BootInv'
  <2>1. FramesLeft' /\ RootGranted' /\ BootOutcome'
    BY <1>4 DEF FramesLeft, RootGranted, BootOutcome
  <2>2. RootLowest' /\ TablesGranted'
    BY <1>1, <1>2, <1>4, BootConstants DEF RootLowest, TablesGranted
  <2> QED
    BY <2>1, <2>2 DEF BootInv
<1>5. CASE i < end
  <2> DEFINE machine == MachineOf(allocator, tables, Usable)
             m == ptmanager_map_memory(machine, pml4, i, i)
             boot == allocator.bits \ TablesOf(tables, pml4)
  <2>1. Machine = machine
    BY DEF Machine, MachineOf
  <2>2. /\ pc' = IF m.lost THEN "lost" ELSE here
        /\ i' = i + 1 /\ allocator' = m.allocator /\ tables' = m.tables
    BY <1>1, <1>5, <2>1 DEF MapLoop
  <2>3. i \in MappedPages /\ i \in Frame /\ i \in PageNumbers
    BY <1>3, <1>5 DEF LoopOver
  <2>4. /\ SoundMachine(machine, pml4, boot) /\ ~machine.lost
        /\ machine.usable = Usable /\ machine.tables = tables
        /\ machine.allocator = allocator
    BY <1>1 DEF MapsOnly, MachineOf
  <2>5. IsFiniteSet(MappedSoFar)
    BY <1>3, FS_Subset
  <2> HIDE DEF machine, boot
  <2>6. /\ InOrder(m, pml4, Unlocked, Bound)
        /\ ~m.lost => Spans(m.tables, pml4, MappedSoFar \cup {i}, MappedSoFar \cup {i},
                            MappedSoFar \cup {i})
        /\ m.lost => Stuck(m, pml4, Usable, MappedSoFar, i)
    <3>1. InOrder(machine, pml4, Unlocked, Bound)
      BY <1>2 DEF machine
    <3>2. Spans(machine.tables, pml4, MappedSoFar, MappedSoFar, MappedSoFar)
      BY <1>2, <2>4
    <3> QED
      BY <1>1, <1>3, <2>3, <2>4, <2>5, <3>1, <3>2, MapMemoryCounts
  <2>7. SoundMachine(m, pml4, boot) /\ m.allocator.size = pml4 * FRAME_BYTES
    <3>1. i \in 0 .. RADIX * RADIX * RADIX * RADIX - 1
      BY <2>3 DEF PageNumbers
    <3>2. SoundMachine(m, pml4, boot) /\ m.allocator.size = machine.allocator.size
      BY <1>1, <2>3, <2>4, <3>1, MapMemoryFacts
    <3> QED
      BY <1>2, <2>4, <3>2
  <2> HIDE DEF m
  <2>8. CASE m.lost
    <3>1. m.allocator \in Allocator
      BY <2>7 DEF SoundMachine
    <3>2. Cardinality(Unlocked) >= TableCount => ~BootSafe
      BY <1>1, <1>2, <1>3, <2>3, <2>6, <2>7, <2>8, <3>1, StuckIsUnsafe
    <3>3. pc' = "lost"
      BY <2>2, <2>8
    <3>4. BootOutcome'
      BY <1>1, <3>2, <3>3, BootConstants DEF BootOutcome
    <3>5. FramesLeft' /\ RootGranted' /\ RootLowest' /\ TablesGranted'
      BY <3>3 DEF FramesLeft, RootGranted, RootLowest, TablesGranted, Mapping
    <3> QED
      BY <3>4, <3>5 DEF BootInv
  <2>9. CASE ~m.lost
    <3>1. pc' = here
      BY <2>2, <2>9
    <3>2. MappedSoFar' = MappedSoFar \cup {i}
      BY <1>5, <2>2, <3>1 DEF LoopOver
    <3>3. InOrder(MachineOf(allocator', tables', Usable), pml4, Unlocked, Bound)
      BY <2>2, <2>6 DEF InOrder, MachineOf
    <3> QED
      BY <1>1, <1>4, <2>2, <2>6, <2>7, <2>9, <3>1, <3>2, <3>3
  <2> QED
    BY <2>8, <2>9
<1>6. CASE ~(i < end)
  <2>1. pc' = next /\ i' = first /\ allocator' = allocator /\ tables' = tables
    BY <1>1, <1>6 DEF MapLoop
  <2>2. MappedSoFar' = MappedSoFar
    BY <1>6, <2>1 DEF LoopOver
  <2> QED
    BY <1>1, <1>2, <1>4, <2>1, <2>2
<1> QED
  BY <1>5, <1>6

LEMMA BootLoadTables == KernelInv /\ BootInv /\ LoadTables => BootInv'
<1> SUFFICES ASSUME KernelInv, BootInv, LoadTables  PROVE BootInv'
  OBVIOUS
<1>1. pc = "load" /\ pc' = "running" /\ UNCHANGED environment
  BY DEF LoadTables
<1>2. BootOutcome'
  BY <1>1, AllTablesMade, BootConstants DEF BootOutcome
<1>3. FramesLeft' /\ RootGranted' /\ RootLowest' /\ TablesGranted'
  BY <1>1 DEF FramesLeft, RootGranted, RootLowest, TablesGranted, Mapping
<1> QED
  BY <1>2, <1>3 DEF BootInv

(* Once the kernel runs on its tables, a loss is not one of initialisation.*)
LEMMA BootIsOver ==
  ASSUME KernelInv, FindMcfg \/ EnumerateBus \/ EnumerateDevice \/ EnumerateFunction
  PROVE  BootInv'
<1>1. /\ pc' \in {"halted", "bus", "device", "function", "fault", "lost"}
      /\ cr3' = cr3 /\ Enumerating
  BY DEF FindMcfg, EnumerateBus, EnumerateDevice, EnumerateFunction, MapPage, Enumerating
<1>2. cr3' # NULL
  BY <1>1 DEF KernelInv, Built, Loaded
<1> QED
  BY <1>1, <1>2 DEF BootInv, FramesLeft, RootGranted, RootLowest, TablesGranted,
                    BootOutcome, Mapping

LEMMA BootStutters == BootInv /\ UNCHANGED allVars => BootInv'
<1> SUFFICES ASSUME BootInv, UNCHANGED allVars  PROVE BootInv'
  OBVIOUS
<1>1. /\ UNCHANGED environment /\ memory_map' = memory_map /\ kernel' = kernel
      /\ framebuffer' = framebuffer /\ pc' = pc /\ i' = i /\ pml4' = pml4
      /\ allocator' = allocator /\ tables' = tables /\ cr3' = cr3
  BY DEF allVars, vars, environment
<1>2. Mapping' = Mapping
  BY <1>1 DEF Mapping
<1>3. MappedSoFar' = MappedSoFar
  BY <1>1, BootConstants DEF MappedSoFar, MemoryPages, KernelPages, KernelEnd
<1>4. FramesLeft'
  BY <1>1, BootConstants DEF BootInv, FramesLeft
<1>5. RootLowest' /\ RootGranted'
  BY <1>1, <1>2, BootConstants DEF BootInv, RootLowest, RootGranted
<1>6. TablesGranted'
  BY <1>1, <1>2, <1>3, BootConstants DEF BootInv, TablesGranted
<1>7. BootOutcome'
  BY <1>1, BootConstants DEF BootInv, BootOutcome
<1> QED
  BY <1>4, <1>5, <1>6, <1>7 DEF BootInv

LEMMA BootNext == KernelInv /\ BootInv /\ [PciNext]_allVars => BootInv'
<1> SUFFICES ASSUME KernelInv, BootInv, [PciNext]_allVars  PROVE BootInv'
  OBVIOUS
<1>1. CASE Next
  <2>1. CASE ReadMemoryMap
    BY <2>1, BootReadMemoryMap
  <2>2. CASE LockKernel \/ LockFramebuffer
    BY <2>2, BootLocks
  <2>3. CASE RequestRoot
    BY <2>3, BootRequestRoot
  <2>4. CASE InitManager
    BY <2>4, BootInitManager
  <2>5. CASE MapRange
    BY <2>5, RangeLoop, BootLoopStep
  <2>6. CASE MapKernel
    BY <2>6, KernelLoop, BootLoopStep
  <2>7. CASE MapFramebuffer
    BY <2>7, FramebufferLoop, BootLoopStep
  <2>8. CASE LoadTables
    BY <2>8, BootLoadTables
  <2> QED
    BY <1>1, <2>1, <2>2, <2>3, <2>4, <2>5, <2>6, <2>7, <2>8 DEF Next
<1>2. CASE FindMcfg \/ EnumerateBus \/ EnumerateDevice \/ EnumerateFunction
  BY <1>2, BootIsOver
<1>3. CASE UNCHANGED allVars
  BY <1>3, BootStutters
<1> QED
  BY <1>1, <1>2, <1>3 DEF PciNext

-----------------------------------------------------------------------------
(* The kernel runs through its initialisation and the enumeration, and the *)
(* invariant holds all along.                                              *)
LEMMA KernelNext == KernelInv /\ [PciNext]_allVars => KernelInv'
<1> SUFFICES ASSUME KernelInv, [PciNext]_allVars  PROVE KernelInv'
  OBVIOUS
<1>1. CASE Next /\ UNCHANGED pciVars
  <2>1. CASE ReadMemoryMap
    BY <1>1, <2>1, ReadMemoryMapKeeps
  <2>2. CASE LockKernel
    BY <1>1, <2>2, LockKernelKeeps
  <2>3. CASE LockFramebuffer
    BY <1>1, <2>3, LockFramebufferKeeps
  <2>4. CASE RequestRoot
    BY <1>1, <2>4, RequestRootKeeps
  <2>5. CASE InitManager
    BY <1>1, <2>5, InitManagerKeeps
  <2>6. CASE MapRange
    BY <1>1, <2>6, MapRangeKeeps
  <2>7. CASE MapKernel
    BY <1>1, <2>7, MapKernelKeeps
  <2>8. CASE MapFramebuffer
    BY <1>1, <2>8, MapFramebufferKeeps
  <2>9. CASE LoadTables
    BY <1>1, <2>9, LoadTablesKeeps
  <2> QED
    BY <1>1, <2>1, <2>2, <2>3, <2>4, <2>5, <2>6, <2>7, <2>8, <2>9 DEF Next
<1>2. CASE FindMcfg
  BY <1>2, FindMcfgKeeps
<1>3. CASE EnumerateBus
  BY <1>3, EnumerateBusKeeps
<1>4. CASE EnumerateDevice
  BY <1>4, EnumerateDeviceKeeps
<1>5. CASE EnumerateFunction
  BY <1>5, EnumerateFunctionKeeps
<1>6. CASE UNCHANGED allVars
  BY <1>6, KernelStutters
<1> QED
  BY <1>1, <1>2, <1>3, <1>4, <1>5, <1>6 DEF PciNext

LEMMA KernelInvariant == PciSpec => []KernelInv
<1>1. PciInit => KernelInv
  BY KernelInit
<1>2. KernelInv /\ [PciNext]_allVars => KernelInv'
  BY KernelNext
<1> QED
  BY <1>1, <1>2, PTL DEF PciSpec

(* The map, the sizes, the allocator, the tables and the loops' variables  *)
(* keep their types, whatever the memory behind the bitmap held.           *)
THEOREM KernelTypeCorrect == PciSpec => []PciTypeOK
<1>1. KernelInv => PciTypeOK
  <2> SUFFICES ASSUME KernelInv  PROVE PciTypeOK
    OBVIOUS
  <2>1. EnvironmentTyped /\ MemoryTyped /\ EnumerationTyped
    BY DEF KernelInv
  <2>2. \E n \in 0 .. MAX_DESCRIPTORS : memory_map \in [1 .. n -> Descriptor]
    BY <2>1, MapsAssumption DEF EnvironmentTyped
  <2>3. borrowed \in Frame
    BY <2>1 DEF EnvironmentTyped, FramesOfType
  <2>4. TypeOK
    BY <2>1, <2>2 DEF TypeOK, EnvironmentTyped, MemoryTyped
  <2> QED
    BY <2>1, <2>3, <2>4 DEF PciTypeOK, EnumerationTyped
<1> QED
  BY <1>1, KernelInvariant, PTL

(* Once cr3 is loaded every page the kernel mapped at boot stays mapped to *)
(* itself: through the move of the bitmap's bound, the enumeration, and    *)
(* also in the state a fault or the loss of the machine leaves.            *)
THEOREM KernelStaysMapped == PciSpec => []IdentityMapped
<1>1. KernelInv => IdentityMapped
  BY DEF KernelInv
<1> QED
  BY <1>1, KernelInvariant, PTL

(* The kernel faults on its own tables only where the memory map has holes *)
(* below its end, so that a frame it still uses is past the range mapped,  *)
(* or when memory has run out and the search of the bitmap goes past it.   *)
THEOREM KernelFaults == PciSpec => []FaultOnlyBeyondRange
<1>1. KernelInv => FaultOnlyBeyondRange
  BY DEF KernelInv
<1> QED
  BY <1>1, KernelInvariant, PTL

(* When the kernel halts its tables translate the pages mapped at boot and *)
(* those enumerated to themselves, and no other page.                      *)
THEOREM KernelTranslations == PciSpec => []TranslationsExact
<1>1. KernelInv => TranslationsExact
  <2> SUFFICES ASSUME KernelInv, pc = "halted"  PROVE TranslationsExact
    BY DEF TranslationsExact
  <2>1. /\ MapsOnly(allocator, tables, pml4, Usable, MappedPages \cup EnumeratedSoFar)
        /\ cr3 = pml4 /\ entry = Len(mcfg) + 1 /\ EnumerationTyped
    BY DEF KernelInv, Built, Loaded, Enumerating, Translated, Mapping, EnumerationBound
  <2>2. EnumeratedSoFar = EnumeratedPages
    <3>1. EnumeratedSoFar = BusesBefore(mcfg, present, entry)
      BY DEF EnumeratedSoFar
    <3> QED
      BY <2>1, <3>1, AllBuses
  <2>3. \A page \in Frame :
          Walk(tables, pml4, page)
            = IF page \in MappedPages \cup EnumeratedPages THEN page ELSE NOT_PRESENT
    BY <2>1, <2>2 DEF MapsOnly
  <2> QED
    BY <2>1, <2>3 DEF TranslationsExact
<1> QED
  BY <1>1, KernelInvariant, PTL

(* Whether initialisation survives is decided by the map, the kernel and   *)
(* the framebuffer alone: when frames are left for all the tables, exactly *)
(* if those the allocator will choose are fit for tables and below the     *)
(* bound the bitmap gets from the root's address.                          *)
THEOREM BootDecided == PciSpec => []BootOutcome
<1>1. PciInit => BootInv
  BY BootInit
<1>2. KernelInv /\ BootInv /\ [PciNext]_allVars => BootInv'
  BY BootNext
<1>3. BootInv => BootOutcome
  BY DEF BootInv
<1> QED
  BY <1>1, <1>2, <1>3, KernelInvariant, PTL DEF PciSpec
=============================================================================
