----------------------------- MODULE PciEnumeration -----------------------------
(***************************************************************************)
(* kinit_init_pci (misc/init/init.c) and pci_enumerate (devices/pci/pci.c) *)
(* after kinit_init_memory: the kernel runs on the tables it has just      *)
(* built, and goes on changing them.  Every frame it touches by its        *)
(* physical address, the bitmap, the tables, the new frames it clears, and *)
(* what it borrows from the firmware and the loader (stack, font, ACPI     *)
(* tables), must be mapped to itself, or the processor faults; there is no *)
(* fault handler.                                                          *)
(*                                                                         *)
(* One step is one call of ptmanager_map_memory with the read of the       *)
(* device header after it.  A configuration space is an array of pages,    *)
(* one for each function of each device of bus 0.                          *)
(***************************************************************************)
EXTENDS KernelMemory, Sequences

CONSTANTS
  DEVICES,     \* devices of a bus (32 in the code)
  FUNCTIONS,   \* functions of a device (8 in the code)
  McfgTables   \* the MCFG tables there may be: sequences of base pages

ASSUME PciAssumption ==
  /\ DEVICES \in Nat \ {0} /\ FUNCTIONS \in Nat \ {0}
  /\ McfgTables \subseteq Seq(Frame)
  /\ \A mcfg \in McfgTables : \A k \in DOMAIN mcfg :
       mcfg[k] + DEVICES * FUNCTIONS - 1 \in Frame

VARIABLES
  borrowed,  \* a frame the loader or the firmware left, which the kernel uses
  mcfg,      \* the base pages of the MCFG table, <<>> if there is none
  present,   \* of each of them, the devices whose identity is not 0 or 0xFFFF
  entry,     \* the loops' variables
  device,
  function

pciVars == <<borrowed, mcfg, present, entry, device, function>>
allVars == <<vars, pciVars>>

Devices   == 0 .. DEVICES - 1
Functions == 0 .. FUNCTIONS - 1

(* The pages of a device, its own being the one of its function 0. *)
FunctionPage(base, d, f) == base + d * FUNCTIONS + f

-----------------------------------------------------------------------------
Reachable(f) == Walk(tables, cr3, f) = f

(* The bits a call of ptmanager_map_memory looks at, m being its outcome:  *)
(* up to the last frame it was granted, and when the last request it made  *)
(* failed up to the frame that one found, or to the bound if there is none.*)
BitsSearched(m) ==
  {f \in 0 .. LastBit(allocator) - 1 :
     \/ \E g \in m.allocator.bits \ allocator.bits : f <= g
     \/ m.lost /\ \A g \in FreeFrames(m.allocator) : f <= g}

(* The frames of the bitmap they lie in. *)
BitmapRead(m) ==
  {LargestSegment(memory_map) + (f \div BITS) \div FRAME_BYTES : f \in BitsSearched(m)}

(* The frames the call touches: the structs at address 0, the tables on    *)
(* the page's path, and the bitmap where it was searched.                  *)
Touched(m, page) ==
  {NULL} \cup (PathTables(m.tables, cr3, page) \ {NOT_PRESENT}) \cup BitmapRead(m)

(* ptmanager_map_memory of a page to itself, on the loaded tables, and     *)
(* where the enumeration goes from there.                                  *)
MapPage(page, next) ==
  LET m == ptmanager_map_memory(Machine, pml4, page, page)
  IN  /\ pc' = IF \E f \in Touched(m, page) : ~Reachable(f) THEN "fault"
               ELSE IF m.lost THEN "lost"
               ELSE next
      /\ allocator' = m.allocator
      /\ tables' = m.tables

(* The revision of the RSDP, and acpi_find_table: without an RSDP of       *)
(* revision 2 or an MCFG table there is no enumeration.                    *)
FindMcfg ==
  /\ pc = "running"
  /\ IF Reachable(borrowed)
       THEN /\ mcfg' \in McfgTables \cup {<<>>}
            /\ present' \in [DOMAIN mcfg' -> SUBSET Devices]
            /\ pc' = IF mcfg' = <<>> THEN "halted" ELSE "bus"
       ELSE pc' = "fault" /\ UNCHANGED <<mcfg, present>>
  /\ UNCHANGED <<environment, i, pml4, allocator, tables, cr3, borrowed,
                 entry, device, function>>

(* pci_enumerate_bus, up to its loop: the bus is left alone when its first *)
(* device is absent.                                                       *)
EnumerateBus ==
  /\ pc = "bus"
  /\ IF entry > Len(mcfg)
       THEN pc' = "halted" /\ UNCHANGED <<allocator, tables, entry>>
       ELSE IF 0 \in present[entry]
       THEN MapPage(mcfg[entry], "device") /\ UNCHANGED entry
       ELSE MapPage(mcfg[entry], "bus") /\ entry' = entry + 1
  /\ device' = 0
  /\ UNCHANGED <<environment, i, pml4, cr3, borrowed, mcfg, present, function>>

(* pci_enumerate_device, up to its loop. *)
EnumerateDevice ==
  /\ pc = "device"
  /\ IF device = DEVICES
       THEN /\ pc' = "bus" /\ entry' = entry + 1
            /\ UNCHANGED <<allocator, tables, device>>
       ELSE IF device \in present[entry]
       THEN /\ MapPage(FunctionPage(mcfg[entry], device, 0), "function")
            /\ UNCHANGED <<entry, device>>
       ELSE /\ MapPage(FunctionPage(mcfg[entry], device, 0), "device")
            /\ device' = device + 1 /\ UNCHANGED entry
  /\ function' = 0
  /\ UNCHANGED <<environment, i, pml4, cr3, borrowed, mcfg, present>>

(* Mutant: the last function is left out. *)
EnumerateFewerFunctions ==
  /\ pc = "function"
  /\ IF function = FUNCTIONS - 1
       THEN /\ pc' = "device" /\ device' = device + 1
            /\ UNCHANGED <<allocator, tables, function>>
       ELSE /\ MapPage(FunctionPage(mcfg[entry], device, function), "function")
            /\ function' = function + 1 /\ UNCHANGED device
  /\ UNCHANGED <<environment, i, pml4, cr3, borrowed, mcfg, present, entry>>

(* Mutant: the loop's variable is too narrow to reach its bound. *)
EnumerateNarrowFunction ==
  /\ pc = "function"
  /\ IF function = FUNCTIONS
       THEN /\ pc' = "device" /\ device' = device + 1
            /\ UNCHANGED <<allocator, tables, function>>
       ELSE /\ MapPage(FunctionPage(mcfg[entry], device, function), "function")
            /\ function' = (function + 1) % FUNCTIONS /\ UNCHANGED device
  /\ UNCHANGED <<environment, i, pml4, cr3, borrowed, mcfg, present, entry>>

(* pci_enumerate_function.  It reads the header of the device, not of the  *)
(* function, and does nothing with it.                                     *)
EnumerateFunction ==
  /\ pc = "function"
  /\ IF function = FUNCTIONS
       THEN /\ pc' = "device" /\ device' = device + 1
            /\ UNCHANGED <<allocator, tables, function>>
       ELSE /\ MapPage(FunctionPage(mcfg[entry], device, function), "function")
            /\ function' = function + 1 /\ UNCHANGED device
  /\ UNCHANGED <<environment, i, pml4, cr3, borrowed, mcfg, present, entry>>

PciInit ==
  /\ Init
  /\ borrowed \in FramesOfType(memory_map, {"other"})
  /\ mcfg = <<>> /\ present = <<>>
  /\ entry = 1 /\ device = 0 /\ function = 0

PciNext ==
  \/ Next /\ UNCHANGED pciVars
  \/ FindMcfg \/ EnumerateBus \/ EnumerateDevice \/ EnumerateFunction

Stopped == pc \in {"halted", "fault", "lost"}

(* Weak fairness of PciNext, as Progress in KernelMemory. *)
PciProgress == []<>Stopped \/ []<><<PciNext>>_allVars

PciSpec == PciInit /\ [][PciNext]_allVars /\ PciProgress

-----------------------------------------------------------------------------
PciTypeOK ==
  /\ TypeOK
  /\ borrowed \in Frame
  /\ mcfg \in McfgTables \cup {<<>>}
  /\ present \in [DOMAIN mcfg -> SUBSET Devices]
  /\ entry \in 1 .. Len(mcfg) + 1
  /\ device \in 0 .. DEVICES /\ function \in 0 .. FUNCTIONS

(* The pages the enumeration promises to leave mapped to themselves: the   *)
(* first page of every bus; on a bus whose first device is there the first *)
(* page of every device, and every function of a device that is there.     *)
EnumeratedPages ==
  UNION {{mcfg[k]}
           \cup (IF 0 \notin present[k] THEN {}
                 ELSE {FunctionPage(mcfg[k], d, 0) : d \in Devices}
                        \cup {FunctionPage(mcfg[k], d, f) :
                                d \in present[k], f \in Functions}) :
           k \in DOMAIN mcfg}

(* When the kernel halts, the pages translated are those kernel            *)
(* initialisation mapped and those enumerated, each to itself, and no      *)
(* other: neither lost nor added a translation, whatever table either had  *)
(* to make for it and whatever the bitmap's bound had become.              *)
TranslationsExact ==
  pc = "halted" =>
    \A page \in Frame :
      Walk(tables, cr3, page) =
        (IF page \in MappedPages \cup EnumeratedPages THEN page ELSE NOT_PRESENT)

(* On a machine whose memory has no holes below its end the kernel never   *)
(* faults on its new tables, as long as a frame of memory is left: what it *)
(* still needs of the old address space is in the range it mapped.         *)
FaultOnlyBeyondRange ==
  pc = "fault" =>
    \/ \E f \in FramesOfType(memory_map, {"conventional", "other"}) :
         f >= get_memory_size(memory_map)
    \/ \A f \in FreeFrames(allocator) : f >= get_memory_size(memory_map)

(* The enumeration ends. *)
EnumerationEnds == <>Stopped
=============================================================================
