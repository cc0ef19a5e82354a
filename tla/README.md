# A verification of mmos

mmos (the "Modern Minimal Operating System") is a UEFI boot loader and a small
64-bit kernel.  The loader reads the kernel and a font from the boot volume,
gets the firmware's memory map and enters the kernel.  The kernel
builds a page-frame allocator from that map, builds its own page tables with
frames of the allocator, loads them, enumerates the PCI functions it finds
through ACPI, and halts.

This directory holds TLA+ modules for those parts, TLC configurations that check
them on small instances, and TLAPS proofs, for every value of the constants, of every safety property
the passing runs check: of the allocator and its bitmap, the page tables, the kernel's initialisation and
PCI enumeration, the loader, the heap and the log.  Paths below are those of the repository, from `src/` on.

## 1. The system

| component | state it keeps | operations | who calls it |
|---|---|---|---|
| boot loader `src/bootloader/main.c`, `fs/fs.c`, `graphics/` | the kernel's header and segments in memory, the firmware's memory map and its key, the RSDP | one pass through `efi_main` | the firmware |
| EFI memory map `src/kernel/memory/memory.c`, `efi_map/` | none; it is passed by value | `get_memory_size`, and the classification of descriptors | allocator, kernel initialisation |
| bitmap `src/kernel/memory/bitmap.c` | `size` bytes | `bitmap_get`, `bitmap_set` | allocator |
| page-frame allocator `src/kernel/memory/paging/page_frame_allocator/` | the bitmap, three counters, `initialized` | read the map; lock, free, reserve, release pages; request a page | kernel initialisation, page-table manager, heap |
| page-table manager `src/kernel/memory/paging/table_manager/`, `map_indexer/` | the root's address; tables in memory | `ptmanager_init`, `ptmanager_map_memory` | kernel initialisation, PCI, heap |
| kernel initialisation `src/kernel/misc/init/init.c`, `entry.c` | `cr3` | `kinit_init_display`, `kinit_init_memory`, `kinit_init_pci` | the loader |
| PCI enumeration `src/kernel/devices/pci/pci.c`, `acpi/` | translations it adds | `pci_enumerate` and its three loops | kernel initialisation |
| heap `src/kernel/memory/heap.c` | a list of segments | `heap_init`, `malloc`, `free`, `heap_expand`, splitting and merging | no code of the kernel yet |
| log `src/kernel/misc/klog/` | the mode; the line being formatted | `klogf`, `klog`, `klog_set_log_mode` | everybody, for messages |
| console `src/kernel/console/` | a text of 4096 characters, and the framebuffer's address right behind it | write, display | log |
| text drawing, framebuffer `src/kernel/graphics/` | the cursor while drawing; pixels | clear, draw | console |
| strings `src/kernel/misc/string/` | the static buffer of `itoa` | append, convert | log, PCI descriptions |
| PCI descriptions `src/kernel/devices/pci/descriptors.c` | none | names of vendors, devices, classes, interfaces | a message of `pci.c` that is in a comment |

Interaction is by call and by shared memory: there is one processor, no
interrupt handler and no thread.  What makes the code hard is elsewhere.

* **Bootstrapping.**  The allocator keeps its bitmap in memory it hands out; page
  tables are made of frames it hands out; after `cr3` is loaded both are
  reached only through those tables.
* **Aliasing.**  `global_allocator` and `global_pt_manager` are never assigned.  They are
  the null pointer of `.bss`, so both structures lie at address 0 and share
  a word: storing the root table's address makes the bitmap longer, after its first frame was
  requested and before every later request.
* **Stale memory.**  A new table, and the byte after the bitmap, which
  `bitmap_set` can reach, hold whatever memory held before.
* **Unchecked failure and unchecked limits.**  No caller tests `pfallocator_request_page` for `NULL`;
  the loader tests some statuses of the firmware and not others; nothing bounds a line of
  `klogf` or the rows of the screen; the heap's list code does not test `next` for `NULL`.
* **A shared static buffer.**  `itoa` returns a place in a buffer its next call writes again.
* **A concurrent firmware.**  Until `ExitBootServices` the firmware may change the
  memory map between any two calls of the loader.
* **Long sequences of calls**, with arithmetic on addresses, rounding and inclusive or
  exclusive bounds at each step.

What makes each part correct:

* *Bitmap.*  It is a set of indexes; an index out of range harms nobody else's memory.
* *Allocator.*  Its counters agree with each other and with the bitmap after any calls; a
  frame has one holder; firmware memory is not granted; `NULL` means that no frame is left.
* *Page tables.*  They form a tree of frames nobody else has, and
  translate each page as the last call for it asked.
* *Kernel initialisation.*  It reaches the end whenever memory allows, and then sees all it mapped.
* *PCI.*  It adds the translations of the functions it visits, changes no other, and ends.
* *Heap.*  Its list stays linked and its segments do not overlap; a block granted is as long as was asked,
  lies in the heap and overlaps no other block; `malloc` returns.
* *Log.*  A line says what the caller asked; the screen shows the text; nothing outside the buffers
  is written; every call ends.
* *Loader.*  It enters only a kernel it has checked, with a memory map that covers its
  own allocations, and announces only what happened.

## 2. Modules

```
PageFrames ─ MemoryMap ┬ PageFrameAllocator ─ FrameClients ──implements── PagePool
                       └ PageMapping ┬ PageTables ──implements── AddressSpace
                                     └ KernelMemory ─ PciEnumeration
Bitmap ──implements── BitSet        Heap ──implements── HeapArena        Loader
Strings ┬ Console ─────────┬ KernelLog
        └ PciDescriptions ─┘

PageLemmas ┬ FrameClientsProofs
           ├ PageTablesProofs
           └ KernelProofs
BitmapProofs     HeapProofs     KernelLogProofs     LoaderProofs
```

A line from left to right is EXTENDS; a module of proofs extends the module it is about as well.  Every
module `MC...` gives small values to the constants of the module after whose name it is called;
`MCMemoryMaps` generates memory maps: one page, then segments of any type and of given lengths,
with or without holes between them.

* **PageFrames**: the allocator as operators on a record of the bitmap (the set of the
  indexes whose bit is 1, its `size` in bytes) and the counters.  Each
  operator is a whole loop of `allocator.c` over the distinct pages of its
  range, including both bounds: `bitmap_get`/`bitmap_set` accept index
  `size * 8`, `pfallocator_request_page` stops before it.  Counters wrap modulo `MODULUS`.
* **MemoryMap**: descriptors, `get_memory_size`, the choice of the bitmap's place.  Four
  classes of memory type are kept, as many as the code tells apart.  `AllocatorOf` is the allocator that
  `pfallocator_read_efi_memory_map` makes of a map, with the lock of line 39 as it is (from the
  address of the struct, frame 0) and with either value of the stray bit behind the bitmap.
* **PageFrameAllocator**: a state machine, the reading of the map (once), then any sequence of
  the five functions on any range of pages.
* **FrameClients**: the same with the calls the kernel makes: pages locked by address, frames
  requested, frames freed by their holder, and `ClientInitManager`, which is `ptmanager_init` of `init.c:47` as the
  allocator sees it: the address of a requested frame becomes the bitmap's size, between the first request of the
  kernel and all later ones.  History variables say who holds
  what.  A holder may be given a frame of the bitmap itself, and the longer bitmap may reach memory that is
  held or not conventional; the model goes on until somebody writes there (`intact` becomes FALSE), the last state.
* **PagePool**: the abstract specification of an allocator: a set of frames, grants, refusals, returns, and once the
  replacement of the set by another that holds no granted frame.
* **PageMapping**: `map_index` and `ptmanager_map_memory` on memory read as tables, with
  each frame request and each clearing; `Walk` is the processor's, the last of the five frames of a `Path`.
  When a request returns `NULL` or a frame that holds something else, the code
  clears it all the same: the machine is *lost*, and no longer followed.
* **PageTables**: a manager and any sequence of mapping calls; it implements **AddressSpace**, a
  function from pages to frames.
* **KernelMemory**: `kinit_init_memory`, a statement or a loop iteration a step, with the aliasing of
  the two structs (`InitManager` overwrites the bitmap's size).
* **PciEnumeration**: the kernel from there to its halt.  Every frame it touches by physical
  address must be mapped to itself, or the step is a *fault*.
* **Loader**: `efi_main`, one firmware call and the test after it a step (the three allocations of
  `load_font_from_file` too), each call that may fail doing so at any time; `FirmwareEvent` changes the map behind the loader's back.
* **Heap**: the segment list as headers in memory, addresses in bytes.  `heapseg_split` and the merges are
  operators on the list, with what they write and read at address 0 when a `next` is `NULL`; `malloc`
  is one iteration of its walk a step, then a split or an expansion; `free` is one step.  The kernel
  does not call the heap, so a client makes any sequence of calls.  Mapping a page is abstracted to
  the frames it takes (one, and up to three for tables).  The list is followed as long as it
  describes the heap: a block shorter than asked (`short`), a segment that reaches over another
  (`overlong`), a missing frame (`lost`) and an expansion of no page, whose header goes behind the heap (`outside`),
  are last states.
* **HeapArena**: the abstract specification of a heap: disjoint blocks within limits, and the ways in which
  that promise may end: `broken` by a block that is not one, `starved` when all that was left did not suffice, `overrun`
  by a size the heap cannot be extended for (`Unmappable`).
* **Strings**: `strcat`, `strchrcat`, `itoa`.  A pointer is a text of the kernel image or a place in `itoa`'s
  buffer, so that what it points to depends on when it is read.
* **Console**: the text, its bound, the low byte of the pointer behind it, the cursor's rule, and the screen as the
  glyph at each place.
* **PciDescriptions**: the tables of names and the functions over them, with the cases that do not break.  A name
  counts as one character.
* **KernelLog**: `klogf` one character or conversion of its format a step, `itoa` one digit a step, `klog` in each
  mode, and the drawing one character a step.  The call `pci_enumerate_device` has in a
  comment is one of the callers, its arguments evaluated in any order, as C allows.  The log is *lost*
  where it writes outside what it owns, or reads outside what it was given.
* **Bitmap** and **BitSet**: the bytes and masks, and the set they implement, which is the
  licence for `PageFrames` to use a set.  A byte is the set of its bits that are 1, so that `&`, `|` and `~` are the
  operations on sets and a shift moves each bit, out of the byte at its end; a byte's number is
  nowhere used in the code.

Units: an address is a frame or page number, because the code divides by 4096
before it uses one and steps by 4096; only the heap's are bytes.

## 3. Runs

| run | question | what is checked |
|---|---|---|
| `bitmap` | do bytes and masks implement a set? | refinement `IsBitSet`; `OverrunIsOneBit`: at most one bit of the next byte is ever changed |
| `allocator` | do any calls on any ranges keep the books? | `CountersConserveMemory`, `CountersCountBits` |
| `clients` | do the kernel's calls get frames of their own? | `GrantedOnce`, `FirmwareBeyondFirstBitmap`, `CountersTruthful`, refinement `IsPagePool` |
| `reserved` | is memory reported as reserved kept? | violated, see section 6 |
| `tables` | is the result of mapping calls an address space? | `TablesFormTree`, `FramesAreTables`, refinement `IsAddressSpace` |
| `kernel` | when does the kernel survive, from `kinit_init_memory` to its halt? | `IdentityMapped`, `BootOutcome`, `TranslationsExact`, `FaultOnlyBeyondRange`, `EnumerationEnds` |
| `full_range` | is all of memory mapped? | violated, see section 6 |
| `loader` | what is true of the kernel that is entered? | `EnteredChecked`, `MapCoversLoader`, `SlackSuffices`, `KeyStaleByEventOnly`, `LoaderEnds` |
| `loader_rsdp`, `loader_image` | are two of its messages true? | violated, see section 6 |
| `heap` | is the heap a heap? | `ListSound`, `SegmentsTile`, refinement `IsArena`, `MallocReturns` |
| `log` | does the log say what it was told, and touch nothing else? | `PointerKept`, `ScreenShowsText`, `LineExact`, `DescriptionsOwn`, `LostOnlyAtLimits`, `LogEnds` |

Each passing run has one type invariant too.  The comments on the
properties, in the modules, state them in words and name the code.

### Bounds, and why they are enough

* `bitmap`: bytes of 4 bits, a buffer of two and the byte behind it, all 4096 contents at the
  start, indexes up to two beyond the last byte.  Two bytes are enough to confuse two
  indexes, and the bound, off by one, is reached from both sides.
* `allocator`, `clients`, `reserved`: bytes of 2 bits, frames of 2 bytes, at most 6 frames; a first page that is
  the loader's or a hole, then up to two segments of one or two pages of each type with holes.
  The bitmap's bound falls inside memory, at its end and beyond it; ranges
  cross it; counters wrap (modulo 16).  All reachable states are visited, so sequences of calls
  have no bound.  In `clients` the root is any frame granted that lies above the memory the bitmap functions reach; the bits
  its address adds are all clear or all set, and a request that the longer bitmap would answer with an address above
  `MAX_FRAME` is not followed (a constant of any size in the proofs).
* `tables`: tables of two entries, four levels, five pages that share 0 to 3 of the levels above the last,
  with frames enough for all of them or not, and memory that is blank at first or full of
  entries that look present.
* `kernel`, `full_range`: up to 73 frames, tables of 8 entries, maps with one or two segments with and without
  a hole of 5 pages, a kernel image with and without a partly filled last page, a framebuffer next to conventional
  memory and one beyond it.  Segments have 11 or 17 pages in `kernel`; 1, 14 or 17 in `full_range`.  The sizes
  make the bitmap's bound fall below, between and above the tables, before and after it is
  overwritten.  `kernel` goes on with two devices of two functions and up to two configuration
  spaces, at distances that make their pages share tables or not.
* `loader`: two segments, up to two changes of the map by the firmware, configuration tables of no
  and of two entries, and of three in `loader_rsdp`, where `CompareGuid` has one meaning, `Comparisons`, and not both.  The map grows by at most two descriptors per allocation (one descriptor is
  split in three), and by one per event.
* `heap`: grains of 2 bytes, headers of 4 (two grains, as in the code), pages of 12, a heap of one or two pages and three frames to
  grow with; requests of nothing, less than a grain, part of a segment, more than a segment and
  than a page, one so near the modulus that rounding wraps to 0, and one whose pages wrap to 0 though it does not.  Blocks and expansions are enough for
  lists of five segments, with merges in front of, behind and between held blocks.
* `log`: a text of 14 characters, lines of at most 14, a screen of four rows of four glyphs with one line of pixels left over,
  the low byte of the framebuffer pointer zero or not, an unknown mode, two calls after the banner.
  Messages use every conversion; some end in a percent sign, lack an argument or are too long; the devices have
  every class with a table and one without a name.  Two calls fill the text, fill the
  screen, and let one conversion overwrite another's digits.

Some sizes of the code are constants of the models: `BITS` (8), `FRAME_BYTES` (4096), `MODULUS` (2^52,
counting frames of a 64-bit counter of bytes), `RADIX` (512), `DEVICES` (32), `FUNCTIONS` (8), `GRAIN` (16), `HEADER` (32), `PAGE` (4096), `ITOA_CELLS` (64),
`LINE_SIZE` (1024), `OUTBUFFER_SIZE` (4096).

### Fairness

Only that the processor goes on executing.  `Loader` says so with weak fairness of its own steps, and
none for the firmware's events; `Heap` and `KernelLog` with weak fairness of the steps of a call that
has begun, and none for a client that makes one.  `KernelMemory` and `PciEnumeration` have one process, the kernel;
`Progress` and `PciProgress` are weak fairness of the next-state relation with its enabling condition
(not yet finished) written out, because evaluating it costs TLC far more
than checking the property.

## 4. Proofs

The constants are arbitrary: any memory map of any finite number of descriptors that do
not overlap, any number of bits in a byte, any width of the counters, page tables of any number of
entries, any sizes of pages, headers, buffers and screens.

* **BitmapProofs**: the mask of an index has one bit and no two indexes of the same byte have the same mask, since an
  index is determined by its quotient and remainder; an index within the bound lies in the buffer, or is the first
  bit of the byte behind it.  From these the step of each call: `BytesAreBitSet` (the refinement, whose abstract state
  is the set of the indexes whose bit is 1), `OverrunBounded` and `BitmapTypeCorrect`.
* **PageLemmas**, first about frames: what each operation does to the bits, and to each
  counter, from facts about finite cardinalities and modular sums.
* **FrameClientsProofs** first proves the state machine of the allocator alone: `CoreInv`, the conjunction of its type
  invariant and both counter invariants, is inductive.  The type invariant is needed for the other two: bits
  bounded by `LastBit` make the set finite, and so the counting exact.  From it
  `TypeCorrect`, `MemoryConserved`, `BitsCounted`.
  Then the allocator with its clients.  `GrantedOnce` alone is not inductive: a frame granted could be free in the
  bitmap.  `HoldersInv` adds that granted and pinned frames have their bit set,
  that they are distinct, that granted frames lie below the bound of the search,
  and that every firmware page as far as the first bitmap goes has its bit set and is not granted (so
  that no free can clear it).  That the bound moves costs these facts nothing, because it moves up: the root lies above the
  frames of the first bitmap, so the bits below the old bound keep their values.  Above it nothing was ever reserved, which is why
  `FirmwareSafe` says no more than it does.  From the invariant also `NoDoubleGrant`.
  `AllocatorIsPagePool` proves the refinement: the initial state is the pool's, and each call is a step of the
  pool (`ptmanager_init` the replacement of its frames) or a stutter; frame 0, the `NULL` of a refusal, is never in the pool because
  initialisation pins it.
  Two more theorems are about numbers.  `ClientTypeCorrect` is the type invariant.  `CountersTellTruth` has an assumption of its own,
  `WideCounters` (`MAX_FRAME + 1 < MODULUS`: a counter can count the bitmap's frames), without which
  the counters are right modulo their width only; `TruthInv` adds to `HoldersInv` that the bits counted have
  frame numbers (so that there are fewer than a counter can count) and that free memory is, modulo the width, what they leave of
  the sum of the sizes.  That difference can be negative, since frames are granted and locked which the sum leaves out:
  the theorem says exactly when `free_memory` wraps, and not that it never does.
* **PageLemmas**, then about tables: what `EnsureTable` and the write of the last entry do to a tree of tables.  A
  tree gains one table, which is new because the allocator had not given it before; a page's path
  changes in one place only, because a tree has one path to each table and
  pages that differ have different indexes (`map_index` is injective on pages of four indexes).
  Then how many: the tables of a tree are as many as the prefixes of the pages they serve (`TreeSize`), and a call of
  `ptmanager_map_memory` takes the lowest free frames and no more than the page needs (`MapMemoryCounts`).
* **PageTablesProofs**: `TablesInv`: the frames taken since boot are exactly the tables of the tree (without that a
  new table could be one in use, and the tree would be lost), and each page asked for translates
  to what was asked.  From it `TablesTypeCorrect`, `TablesStayTree`, `NoTableLeaks`, and the refinement
  `TablesAreAddressSpace`: a step is a mapping or a failure of the address space.
* **KernelProofs**: kernel initialisation and the enumeration after it, from the first statement of `kinit_init_memory` to
  the halt.  `IdentityMapped` is not inductive: it says nothing before `cr3` is loaded, nor that what the tables
  hold is not used for something else.  `KernelInv` says, for each place the code can be at, which pages translate
  to themselves (`Translated`: what the three loops, and then the loops over buses, devices and functions, have
  passed so far), that no other page of the address space translates, and that the tables are a tree on usable frames, each of which has its bit set
  in the bitmap (`MapsOnly`).  That the bitmap's bound moves when the root's address is written over its size costs
  nothing here: the bits below the old bound keep their values, those above only make fewer frames free, and a
  frame granted is one whose bit was clear, thus no table.  From it `KernelTypeCorrect`, `KernelStaysMapped`,
  `KernelTranslations`.  `KernelFaults` is the argument about the frames touched: a table is conventional memory
  below the end of the range mapped, or the map has holes; the bits searched end at the last frame granted, or at
  the frame found when a request fails, whose byte of the bitmap lies in a frame below that frame or in memory the
  search has gone past.
  `BootDecided` is that initialisation survives exactly when the map, the kernel and the framebuffer say so beforehand
  (`BootOutcome`).  `BootInv`, on top of `KernelInv`, says that the frames free before the root is requested are those
  `Unlocked`, and that from then on the tables are the lowest of these, all but the root below the moved bound, and
  those of the pages mapped so far.  When the loops are over, the tables are `TableCount` many, hence the frames
  `BootSafe` speaks of.  When a call is lost, fewer were made, and the frame it found is the next of those frames.
* **HeapProofs**: `HeapInv`.  `ListSound` says that pointers agree; it does not say that the list is in the order
  of addresses nor that nothing lies between a segment and its `next`, so the segment behind could be
  any.  `Linked` says both, without recursion, and `Tiled` that segments end before the next begins.
  Blocks held are segments taken, which makes them disjoint; as long as nothing was freed the segments
  cover the heap, so that a block too short can only be the one at the end.  From it `HeapTypeCorrect`,
  `ListAlwaysSound`, `SegmentsAlwaysTile` and the refinement `HeapIsArena`, where each way to end the promise has its
  condition: no frame left, a size in `Unmappable`, something released or a block too long.
* **KernelLogProofs**: `LogInv`.  The line built from an argument is a text only if the argument does not point
  to a NUL in `itoa`'s buffer.  `PointersSound` says that from each pointer on there are digits up to the
  last cell, and that the call of `itoa` in progress has left digits behind it.  From it `LogTypeCorrect` and `PointerAlwaysKept`.
  `ScreenAlwaysShowsText` is about the drawing, one character a step, and holds between any two steps of it.  `ScreenInv` says that the screen shows the
  first characters of the text, as many as are drawn, that the cursor is where the text so far leaves it, and that
  what was drawn by the last call is the beginning of the text.  It rests on two facts about the places
  of characters: no two visible characters of a text share a place, and a place does not change when the text
  grows.  The arithmetic is that of rows: how many rows a paragraph of a given length takes, when its last row is full or not.
  `LinesExact`, `DescriptionsAlwaysOwn` and `LostOnlyThere` are about what the lines say, and follow from `LineInv`.
  `LineExact` speaks of the end of a call only.  `FormatSound` says, for each place in the format that `klogf` can have reached, that the
  line is the expansion of what it has read, that the arguments taken are as many as the conversions passed, and,
  inside `itoa`, that the number left to convert and the digits written are together the numeral.  `DescribingSound` says the
  same of the arguments of a description while they are evaluated one after the other: an argument in `itoa`'s buffer keeps its
  length through later calls, because it ends where the buffer ends, and keeps its characters while it is
  the only one there (`Means`, `Says`).  When there are more, `klogf` reads what the last conversion left: `Told` and `Freshest` say that
  each is a name, or lies in the buffer for want of one, and that one of them still reads as its own numeral.
  `DescriptionsAlwaysOwn` follows for the line, which `LineSound` says is the expansion of what was read (`Printed`).  `DescribingSound` and `FormatSound` were checked by TLC on the instance of `log` before they were proved.
  A numeral and the expansion of a format are recursive functions, and TLA+ gives `f[n \in S] == e` the value of a
  `CHOOSE`: it satisfies its equation only if some function does.  `RecursionDefines` shows that one does whenever each value
  is a step from the value at a smaller number, by the least number whose initial piece would have none
  (`Minimum`, from the well-foundedness of `<`), thus without the library's induction theorems.  `NumeralsExist` and
  `ExpansionsExist` are its two uses; what the functions compute is then needed for one step at a time only.
* **LoaderProofs**: `LoaderInv`, for any number of segments, descriptors, configuration tables and events.
  It records what each stretch of `efi_main` has established: a valid header after the check, segments visited up to the loop's
  variable, the room and the key since the last `GetMemoryMap` as long as no event came between, and that nothing is
  allocated after the map is read.  `LoaderTypeCorrect` bounds how much the map grows: each thing is allocated once, so
  the changes of the map are those of the firmware and the things owned.  From it also `KernelEnteredChecked`, `MapComplete`, `RoomSuffices`, `KeyFresh`.

Assumptions on the constants.  `FramesAssumption`, `RadixAssumption`, `PciAssumption`, `LoaderAssumption`, `ConsoleAssumption`, `NamesAssumption`,
`StringsAssumption` give types and least sizes.  `MapsAssumption` says of the memory map what the
UEFI specification and `linker.ld` give: no overlap, some conventional memory,
frame 0 not conventional because the kernel image starts there; and that
`MAX_FRAME` is large enough to name every index of the bitmap.  `CallersAssumption` says that a virtual page has no
more than the four indexes.  `EnvironmentAssumption` says that the framebuffer with its added page has frame numbers, and
that the frames are no more than four indexes can name, because the kernel maps pages to themselves.  `HeapAssumption` says that a page holds a header and a grain.  `LogAssumption` says that no
caller of `klogf` passes what `itoa` returned, nor uses the format of the message about devices, except that message, which is modelled.  `NumbersAssumption` says that the
numbers callers pass have no more digits than `itoa` has room for: 62 in the code, where one of 64 bits has 20 at most.
`BitmapAssumption` says that a byte has a bit and the buffer a byte.

Only model-checked: liveness, which under fairness is beyond the prover: that enumeration ends (`EnumerationEnds`), that the loader
does (`LoaderEnds`), that `malloc` returns (`MallocReturns`) and that every call of the log ends (`LogEnds`).

## 5. Assumptions and abstractions

* `.bss` is zero when the kernel starts.  The loader does not clear it (it writes `p_filesz` bytes
  of a segment of `p_memsz`); under emulation it is.
* The memory map is a legal one (`MapsAssumption`), and the framebuffer's size a number of whole pages.
* Bits of the bitmap that become visible when its size is overwritten are all clear or all set (in `FrameClients`, `KernelMemory`
  and `PciEnumeration`).  In `FrameClients` the root given to `ptmanager_init` is a frame the bitmap functions do not reach:
  `init.c:45` clears it first, and clearing a frame of the bitmap ends the behaviour.
* A state `lost`, `fault`, `undefined`, `short`, `overlong`, `outside` or `intact = FALSE` is where the code destroys or
  reads something it does not know of; what happens afterwards is not modelled.
* Locks by address of pages that a client has been granted are followed as the code has
  them: the lock finds the bit set and does nothing.
* The heap's and the log's own calls are left out of `KernelMemory` and `PciEnumeration`: nothing calls the heap, and
  the log touches the framebuffer and the kernel image, both mapped.
* A client of the heap writes within the blocks it was given, and frees only blocks it holds, once.
* A header may lie anywhere in the heap; that two pages of it are mapped to different frames is what
  `PageTables` and `FrameClients` show.
* The arguments of `klogf` fit their conversions; what is read behind the last one is not followed.
* `CompareGuid` is the UEFI library's, which is not in the repository.  `Loader` allows both meanings of its result.

## 6. What the checks say of the code

Held: the allocator's counters agree with each other, modulo their width, and with the bits for any calls, and with the kernel's
calls used and reserved memory are exact; frames have one holder; below the first bound of the bitmap firmware pages
are never granted; page tables translate exactly what was asked for; initialisation survives exactly under the condition
`BootSafe`, which says what the aliasing at address 0 costs (the root's address
must be large enough to be the bitmap's size); the slack of two descriptors
suffices; the map key is stale only if the firmware made it so.

Not so good: `free_memory` is not the number of free frames.  It starts from the sum of the sizes, which leaves out holes, reserved
memory and memory-mapped I/O, and is debited for every page locked or granted, those included; so it wraps below zero, for
instance when a page of reserved memory is granted, and `CountersTruthful` says exactly when.  And `init.c:47` makes the bitmap longer
than the memory that was reserved: from then on requests may return firmware pages above the first bitmap
(`FirmwareBeyondFirstBitmap` says only there), or addresses that are no memory.

Of the heap: the list is always linked and `malloc` always returns, but the heap is an arena only until the first
of four things.  `malloc` takes the first free segment whatever its length (`heap.c:45`).  `heapseg_combine_forward` replaces
`segment->next` before it reads the length through it (lines 98 to 100), so a merge gives the length of the segment
behind the one absorbed, or of what lies at address 0: memory is lost, or a segment reaches over a block.
`heapseg_combine_backward` merges forward a second time.  A missing frame is not noticed.  And for a size near 2^64 with no free segment left
the number of pages `heap_expand` computes wraps to 0 (line 113): it maps nothing, writes a header at `heap_end`, behind the
heap, and `malloc`, called again, returns `NULL` if the size itself was rounded to 0 (line 36), or goes on to that
header.  `HeapArena` says this, and `HeapIsArena` that there is no fifth way.

Of the log: a line is what the caller asked, except that numbers without a name in one description share `itoa`'s buffer: the line
has for each of them, in its own length, a text that ends like the one evaluated last (`DescriptionsOwn`, of the line printed), which order C leaves open;
the screen shows the text after every character drawn; the framebuffer pointer survives unless a text fills the buffer to its last
byte; `LostOnlyAtLimits` names the six limits nothing checks.

Violated, each by a run of its own that checks a message of the code:

* `SystemMemoryReserved`: `allocator.c:44` skips reserved memory as well as conventional memory
  where it reserves pages, so reserved pages are granted; `init.c:41` says that system
  memory is reserved.
* `FullMemoryMapped`: `init.c:50` takes the sum of the sizes of memory for the end of the address range; with
  holes, conventional memory above the sum is not mapped; `init.c:49` says the full range is.
* `RsdpNotFound`: `main.c:157` advances the pointer it also indexes, so iteration i tests the GUID of entry 2i and uses the table
  of entry i; `main.c:161` says there is no RSDP 2 when there is one, for instance at an odd index.  The run takes a nonzero result of
  `CompareGuid` to mean equal GUIDs, so that this is the only cause.
* `KernelLoaded`: `main.c:98` and the calls after it ignore refusals; `main.c:104` says the kernel is loaded.

## 7. Not modelled, and why

* **Pixels.**  The loops over the bits of a glyph, its address in the font, colours: a glyph is its place.
* **`memcpy`, `memmove`, `memcmp`.**  `memset` is its effect where it is called; nothing of the kernel depends on the others.
* **`get_file_size`** of the loader: nothing calls it.
* **`init_gop`.**  Output only; when it fails the framebuffer is undefined, a state no later step can tell apart.
* `i * 4096` in `allocator.c` is a product of `int`: undefined from ranges of 2 GiB on.
* The header `pci_enumerate_function` reads is the device's, not the function's; the value is not used.

## 8. Plan

In order of weight; 1 to 7 are done, with the proofs named in section 4.

1. Allocator: `PageFrames`, `MemoryMap`, `PageFrameAllocator`; then its callers, `FrameClients`, and its
   promise, `PagePool`; proofs of the counters, of exclusive grants and of the refinement.
2. Page tables: `PageMapping`, `PageTables`, `AddressSpace`; proofs of the tree and of the refinement.
3. Composition: `KernelMemory`, then `PciEnumeration` on top of it.
4. `Bitmap` and `BitSet` under the allocator.
5. `Loader`, with proofs of its safety.
6. `Heap` and `HeapArena`, with proofs of the list and of the refinement.
7. `Strings`, `Console`, `PciDescriptions`, `KernelLog`, with proofs of the types and of the pointer.

Done after that: `KernelProofs`, on `PageLemmas`; the screen of the log; the loader's type; `BitmapProofs`, with a
mask as a set of bits; what the lines of the log say.

Left: kernel starts from a `.bss` that is not zero; ranges whose `i * 4096` overflows.
