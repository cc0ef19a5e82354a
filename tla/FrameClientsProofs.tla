-------------------------- MODULE FrameClientsProofs --------------------------
(***************************************************************************)
(* The page-frame allocator, called the way the kernel calls it, is a page *)
(* pool, for every memory map the assumption allows.  The properties are   *)
(* not inductive as they stand: HoldersInv adds that what is held or       *)
(* pinned is set in the bitmap, that the two do not meet, and that what    *)
(* the initialisation withheld stays set, whence the bound ptmanager_init  *)
(* writes is never below the first.                                        *)
(***************************************************************************)
EXTENDS FrameClients, PageLemmas

(* Of the allocator by itself, under any sequence of calls: CoreInv, the   *)
(* conjunction of its invariants, is inductive; that the counters agree    *)
(* with the bits needs the bits to be finitely many, which is part of      *)
(* TypeOK.                                                                 *)
CoreInv == TypeOK /\ CountersConserveMemory /\ CountersCountBits

-----------------------------------------------------------------------------
(* What CoreInv says of the allocator once it is initialised, in terms of  *)
(* the lemmas.                                                             *)
LEMMA CoreInvFacts ==
  ASSUME CoreInv
  PROVE  /\ WellFormed(allocator)
         /\ Cardinality(stale) \in Nat
         /\ Balanced(allocator, Cardinality(stale))
         /\ initialized => Total(allocator) % MODULUS
                             = get_memory_size(memory_map) % MODULUS
<1>1. WellFormed(allocator)  BY DEF CoreInv, TypeOK, WellFormed
<1>2. Cardinality(stale) \in Nat
  <2>1. IsFiniteSet({LastBit(allocator)})  BY FS_Singleton
  <2>2. IsFiniteSet(stale)  BY <2>1, FS_Subset DEF CoreInv, TypeOK
  <2> QED  BY <2>2, FS_CardinalityType
<1>3. Balanced(allocator, Cardinality(stale))
  BY DEF CoreInv, CountersCountBits, Balanced, AddUp
<1>4. initialized => Total(allocator) % MODULUS
                       = get_memory_size(memory_map) % MODULUS
  BY DEF CoreInv, CountersConserveMemory, Total
<1> QED  BY <1>1, <1>2, <1>3, <1>4

(* A step that replaces the allocator by one that conserves its counters   *)
(* preserves the invariant.                                                *)
LEMMA ConservingStep ==
  ASSUME CoreInv, Conserves(allocator, allocator'),
         UNCHANGED <<memory_map, initialized, stale>>
  PROVE  CoreInv'
<1>1. Balanced(allocator, Cardinality(stale))'
  BY CoreInvFacts DEF Conserves
<1>2. initialized' => Total(allocator)' % MODULUS
                        = get_memory_size(memory_map) % MODULUS
  BY CoreInvFacts DEF Conserves
<1>3. LastBit(allocator)' = LastBit(allocator)  BY DEF Conserves, LastBit
<1>4. TypeOK'
  BY <1>3 DEF CoreInv, TypeOK, Conserves, WellFormed
<1>5. CountersConserveMemory'  BY <1>2 DEF CountersConserveMemory, Total
<1>6. CountersCountBits'  BY <1>1 DEF CountersCountBits, Balanced, AddUp
<1> QED  BY <1>4, <1>5, <1>6 DEF CoreInv

LEMMA CoreInvInit == Init => CoreInv
<1> SUFFICES ASSUME Init  PROVE CoreInv  OBVIOUS
<1>1. Cardinality({}) = 0  BY FS_EmptySet
<1>2. MODULUS \in Nat \ {0} /\ BITS \in Nat  BY FramesAssumption
<1>3. 0 \in Counter  BY <1>2 DEF Counter
<1>4. TypeOK
  <2>1. allocator \in Allocator  BY <1>3 DEF Init, Allocator
  <2> QED  BY <2>1 DEF Init, TypeOK
<1>5. CountersConserveMemory  BY DEF Init, CountersConserveMemory
<1>6. CountersCountBits  BY <1>1 DEF Init, CountersCountBits
<1> QED  BY <1>4, <1>5, <1>6 DEF CoreInv

LEMMA CoreInvNext == CoreInv /\ [Next]_vars => CoreInv'
<1> SUFFICES ASSUME CoreInv, [Next]_vars  PROVE CoreInv'  OBVIOUS
<1>1. WellFormed(allocator)  BY CoreInvFacts
<1>2. CASE pfallocator_read_efi_memory_map
  <2>1. PICK found \in SUBSET {BitmapSize(memory_map) * BITS} :
          stale' = found /\ allocator' = AllocatorOf(memory_map, found)
    BY <1>2 DEF pfallocator_read_efi_memory_map
  <2>2. memory_map' = memory_map /\ initialized' = TRUE
        /\ memory_map \in MemoryMaps
    BY <1>2 DEF pfallocator_read_efi_memory_map, CoreInv, TypeOK
  <2>3. /\ WellFormed(allocator')
        /\ allocator'.size = BitmapSize(memory_map)
        /\ Total(allocator') % MODULUS = get_memory_size(memory_map) % MODULUS
        /\ Balanced(allocator', Cardinality(found))
    BY <2>1, <2>2, AllocatorOfFacts
  <2>4. TypeOK'
    BY <2>1, <2>2, <2>3 DEF TypeOK, WellFormed, LastBit
  <2>5. CountersConserveMemory'
    BY <2>2, <2>3 DEF CountersConserveMemory, Total
  <2>6. CountersCountBits'
    BY <2>1, <2>3 DEF CountersCountBits, Balanced, AddUp
  <2> QED  BY <2>4, <2>5, <2>6 DEF CoreInv
<1>3. CASE RequestPage
  BY <1>1, <1>3, RequestConserves, ConservingStep DEF RequestPage
<1>4. ASSUME NEW pages \in PageRanges
      PROVE  pages \in SUBSET Nat
  BY MapsAssumption DEF PageRanges, Frame
<1>5. ASSUME NEW pages \in PageRanges, LockPages(pages)  PROVE CoreInv'
  BY <1>1, <1>4, <1>5, SettingConserves, ConservingStep DEF LockPages
<1>6. ASSUME NEW pages \in PageRanges, FreePages(pages)  PROVE CoreInv'
  BY <1>1, <1>4, <1>6, ClearingConserves, ConservingStep DEF FreePages
<1>7. ASSUME NEW pages \in PageRanges, ReservePages(pages)  PROVE CoreInv'
  BY <1>1, <1>4, <1>7, SettingConserves, ConservingStep DEF ReservePages
<1>8. ASSUME NEW pages \in PageRanges, ReleasePages(pages)  PROVE CoreInv'
  BY <1>1, <1>4, <1>8, ClearingConserves, ConservingStep DEF ReleasePages
<1>9. CASE UNCHANGED vars
  BY <1>9 DEF vars, CoreInv, TypeOK, CountersConserveMemory, CountersCountBits
<1> QED  BY <1>2, <1>3, <1>5, <1>6, <1>7, <1>8, <1>9 DEF Next

(* The conjunction is an invariant of the allocator, for every memory map  *)
(* and every sequence of calls of its functions.                           *)
THEOREM CoreInvariant == Spec => []CoreInv
BY CoreInvInit, CoreInvNext, PTL DEF Spec

(* Whatever the calls, no bit beyond the one after the buffer is ever set, *)
(* and the counters of allocator.c stay counters.                          *)
THEOREM TypeCorrect == Spec => []TypeOK
<1>1. CoreInv => TypeOK  BY DEF CoreInv
<1> QED  BY <1>1, CoreInvariant, PTL

(* The three counters always add up to the size of memory, whatever is     *)
(* locked, freed, reserved, released or requested.                         *)
THEOREM MemoryConserved == Spec => []CountersConserveMemory
<1>1. CoreInv => CountersConserveMemory  BY DEF CoreInv
<1> QED  BY <1>1, CoreInvariant, PTL

(* Used plus reserved memory always is the number of bits set since the    *)
(* bitmap was cleared: allocator.c moves a counter exactly when a bit flips.*)
THEOREM BitsCounted == Spec => []CountersCountBits
<1>1. CoreInv => CountersCountBits  BY DEF CoreInv
<1> QED  BY <1>1, CoreInvariant, PTL

-----------------------------------------------------------------------------
(* Of the allocator under its callers.                                     *)

System == FramesOfType(memory_map, {"mmio", "other"})

(* What initialisation keeps from any request: the frames from the one of  *)
(* the struct on, and the reserved descriptors as far as the bitmap goes.  *)
Withheld ==
  (0 .. BitmapSize(memory_map) \div FRAME_BYTES)
    \cup {f \in System : f <= FirstLastBit}

HoldersInv ==
  /\ memory_map \in MemoryMaps
  /\ initialized \in BOOLEAN /\ refused \in BOOLEAN /\ intact \in BOOLEAN
  /\ WellFormed(allocator)
  /\ root \in Frame
  /\ grants \in [Frame -> {0, 1}]
  /\ pinned \subseteq Frame
  /\ ~initialized => root = NULL /\ granted = {} /\ pinned = {}
  /\ granted \subseteq allocator.bits
  /\ pinned \subseteq allocator.bits
  /\ stale \subseteq allocator.bits
  /\ stale \cap (granted \cup pinned) = {}
  /\ granted \cap pinned = {}
  /\ granted \subseteq 0 .. LastBit(allocator) - 1
  /\ initialized =>
       /\ allocator.size = IF root = NULL THEN BitmapSize(memory_map)
                           ELSE root * FRAME_BYTES
       /\ FirstLastBit <= LastBit(allocator)
       /\ Withheld \subseteq allocator.bits \ granted

-----------------------------------------------------------------------------
(* What the calls do to the bitmap.                                        *)
LEMMA LockBits ==
  ASSUME NEW a, WellFormed(a), NEW pages \in SUBSET Nat
  PROVE  LET b == pfallocator_lock_pages(a, pages)
         IN  /\ b.size = a.size
             /\ LastBit(b) = LastBit(a)
             /\ b.bits = a.bits \cup {p \in pages : p <= LastBit(a)}
<1>1. a \in Allocator  BY DEF WellFormed
<1>2. LET b == pfallocator_lock_pages(a, pages)
      IN  b.size = a.size /\ b.bits = a.bits \cup ClearPages(a, pages)
  BY <1>1 DEF pfallocator_lock_pages, Allocator
<1>3. a.bits \cup ClearPages(a, pages)
        = a.bits \cup {p \in pages : p <= LastBit(a)}
  BY DEF ClearPages, bitmap_get
<1> QED  BY <1>2, <1>3 DEF LastBit

LEMMA ReserveBits ==
  ASSUME NEW a, WellFormed(a), NEW pages \in SUBSET Nat
  PROVE  LET b == reserve_pages(a, pages)
         IN  /\ b.size = a.size
             /\ LastBit(b) = LastBit(a)
             /\ b.bits = a.bits \cup {p \in pages : p <= LastBit(a)}
<1>1. a \in Allocator  BY DEF WellFormed
<1>2. LET b == reserve_pages(a, pages)
      IN  b.size = a.size /\ b.bits = a.bits \cup ClearPages(a, pages)
  BY <1>1 DEF reserve_pages, Allocator
<1>3. a.bits \cup ClearPages(a, pages)
        = a.bits \cup {p \in pages : p <= LastBit(a)}
  BY DEF ClearPages, bitmap_get
<1> QED  BY <1>2, <1>3 DEF LastBit

LEMMA FreeBits ==
  ASSUME NEW a, WellFormed(a), NEW pages \in SUBSET Nat
  PROVE  LET b == pfallocator_free_pages(a, pages)
         IN  /\ b.size = a.size
             /\ LastBit(b) = LastBit(a)
             /\ b.bits = a.bits \ pages
<1>1. a \in Allocator /\ a.bits \subseteq 0 .. LastBit(a)  BY DEF WellFormed
<1>2. LET b == pfallocator_free_pages(a, pages)
      IN  b.size = a.size /\ b.bits = a.bits \ SetPages(a, pages)
  BY <1>1 DEF pfallocator_free_pages, Allocator
<1>3. a.bits \ SetPages(a, pages) = a.bits \ pages
  <2>1. \A p \in a.bits : p <= LastBit(a)  BY <1>1
  <2> QED  BY <2>1 DEF SetPages, bitmap_get
<1> QED  BY <1>2, <1>3 DEF LastBit

LEMMA QuotientSmall ==
  ASSUME NEW n \in Nat, NEW d \in Nat \ {0}
  PROVE  n \div d \in Nat /\ n \div d <= n
<1> DEFINE q == n \div d
<1>1. q \in Nat /\ n >= d * q
  OBVIOUS
<1> HIDE DEF q
<1>2. d * q >= q
  <2>1. \A i, j \in Nat : j * i >= 0  OBVIOUS
  <2>2. d - 1 \in Nat /\ (d - 1) * q >= 0  BY <1>1, <2>1
  <2>3. (d - 1) * q = d * q - q  BY <1>1
  <2>4. d * q \in Nat  BY <1>1
  <2> QED  BY <1>1, <2>2, <2>3, <2>4
<1>3. d * q \in Nat  BY <1>1
<1> QED  BY <1>1, <1>2, <1>3 DEF q

(* A page above the quotient has an address above the size. *)
LEMMA AboveQuotient ==
  ASSUME NEW n \in Nat, NEW d \in Nat \ {0}, NEW r \in Nat, r > n \div d
  PROVE  n < r * d
<1> DEFINE q == n \div d
<1>1. q \in Nat /\ n < d * q + d
  OBVIOUS
<1>2. r > q  OBVIOUS
<1> HIDE DEF q
<1>3. r - q - 1 \in Nat  BY <1>1, <1>2
<1>4. \A i, j \in Nat : i * j \in Nat  OBVIOUS
<1>5. (r - q - 1) * d \in Nat /\ r * d \in Nat /\ d * q \in Nat
  BY <1>1, <1>3, <1>4
<1>6. (r - q - 1) * d = r * d - d * q - d  BY <1>1
<1> QED  BY <1>1, <1>5, <1>6

LEMMA FreeFramesOf ==
  ASSUME NEW a, WellFormed(a)
  PROVE  FreeFrames(a) = (0 .. LastBit(a) - 1) \ a.bits
<1>1. \A f \in 0 .. LastBit(a) - 1 : f <= LastBit(a)  BY FiniteBits
<1> QED  BY <1>1 DEF FreeFrames, bitmap_get

(* The bitmap read from a map: what is locked are frames of the bitmap,    *)
(* and the frames up to size / 4096 and every frame of a reserved          *)
(* descriptor are set.                                                     *)
LEMMA AllocatorOfBits ==
  ASSUME NEW map \in MemoryMaps,
         NEW found \in SUBSET {BitmapSize(map) * BITS}
  PROVE  LET a == AllocatorOf(map, found)
             locked == ClearPages(BlankAllocator(map, found),
                         AllocatorFrame ..
                           AllocatorFrame + BitmapSize(map) \div FRAME_BYTES)
         IN  /\ LastBit(a) = BitmapSize(map) * BITS
             /\ LastBit(a) \in Frame
             /\ locked \subseteq Frame
             /\ locked \subseteq a.bits
             /\ found \subseteq a.bits /\ found \cap locked = {}
             /\ 0 .. BitmapSize(map) \div FRAME_BYTES \subseteq a.bits
             /\ \A f \in FramesOfType(map, {"mmio", "other"}) :
                  f <= LastBit(a) => f \in a.bits
<1> DEFINE blank == BlankAllocator(map, found)
           size == BitmapSize(map)
           pages == AllocatorFrame .. AllocatorFrame + blank.size \div FRAME_BYTES
           locking == pfallocator_lock_pages(blank, pages)
           system == FramesOfType(map, {"mmio", "other"})
           a == AllocatorOf(map, found)
<1>1. /\ size \in Nat \ {0}
      /\ size * BITS \in Frame /\ system \in SUBSET Nat
  <2>1. get_memory_size(map) \div BITS \in Nat
    BY MemorySizeType, FramesAssumption
  <2>2. size \in Nat \ {0}  BY <2>1 DEF BitmapSize
  <2> QED  BY <2>2, MemorySizeType
<1>2. blank.size = size /\ blank.bits = found
  BY DEF BlankAllocator
<1>3. size * BITS \in Nat /\ size * BITS > 0
  <2>1. \A b \in Nat \ {0}, s \in Nat \ {0} : s * b \in Nat /\ s * b > 0
    OBVIOUS
  <2> QED  BY <1>1, <2>1, FramesAssumption
<1>4. LastBit(blank) = size * BITS  BY <1>2 DEF LastBit
<1>5. WellFormed(blank)
  <2>1. 0 \in Counter  BY FramesAssumption DEF Counter
  <2>2. get_memory_size(map) % MODULUS \in Counter
    BY MemorySizeType, CounterType
  <2>3. found \in SUBSET Nat /\ found \subseteq 0 .. LastBit(blank)
    BY <1>3, <1>4
  <2>4. blank \in Allocator
    BY <1>1, <2>1, <2>2, <2>3 DEF BlankAllocator, Allocator
  <2> QED  BY <1>2, <2>3, <2>4 DEF WellFormed
<1>6. size \div FRAME_BYTES \in Nat /\ size \div FRAME_BYTES <= size * BITS
  <2>1. \A n \in Nat, d \in Nat \ {0} : n \div d \in Nat /\ n \div d <= n
    BY QuotientSmall
  <2>2. \A n \in Nat, b \in Nat \ {0} : n <= n * b
    OBVIOUS
  <2> HIDE DEF size
  <2> QED  BY <1>1, <1>3, <2>1, <2>2, FramesAssumption
<1>7. pages = 0 .. size \div FRAME_BYTES /\ pages \in SUBSET Nat
  BY <1>2, <1>6 DEF AllocatorFrame, NULL
<1> HIDE DEF blank, pages, system, a, size
<1>8. /\ LastBit(locking) = size * BITS
      /\ locking.bits = found \cup {p \in pages : p <= size * BITS}
  <2>1. /\ LastBit(locking) = LastBit(blank)
        /\ locking.bits = blank.bits \cup {p \in pages : p <= LastBit(blank)}
    BY <1>5, <1>7, LockBits
  <2> HIDE DEF locking
  <2> QED  BY <1>2, <1>4, <2>1
<1>9. WellFormed(locking)
  BY <1>5, <1>7, SettingConserves DEF Conserves
<1>10. a = reserve_pages(locking, system)
  BY DEF a, AllocatorOf, system, pages, blank
<1> HIDE DEF locking
<1>11. /\ LastBit(a) = size * BITS
       /\ a.bits = locking.bits \cup {p \in system : p <= size * BITS}
  <2>1. /\ LastBit(a) = LastBit(locking)
        /\ a.bits = locking.bits \cup {p \in system : p <= LastBit(locking)}
    BY <1>1, <1>9, <1>10, ReserveBits
  <2> QED  BY <1>8, <2>1
<1>12. ClearPages(blank, pages) \subseteq {p \in pages : p <= size * BITS}
  BY <1>4 DEF ClearPages
<1>13. pages \subseteq a.bits /\ found \subseteq a.bits
  <2>1. \A p \in pages : p <= size * BITS  BY <1>3, <1>6, <1>7
  <2> QED  BY <1>8, <1>11, <2>1
<1>14. ClearPages(blank, pages) \subseteq Frame
       /\ found \cap ClearPages(blank, pages) = {}
  <2>0. found \cap ClearPages(blank, pages) = {}
    BY <1>2 DEF ClearPages, bitmap_get
  <2>1. \A p \in pages : p <= size * BITS => p \in Frame
    BY <1>1, <1>7, MapsAssumption DEF Frame
  <2> QED  BY <1>7, <1>12, <2>0, <2>1
<1>15. pages = AllocatorFrame .. AllocatorFrame + BitmapSize(map) \div FRAME_BYTES
  BY <1>2 DEF pages, size
<1> QED  BY <1>1, <1>7, <1>8, <1>11, <1>12, <1>13, <1>14, <1>15
         DEF a, blank, system, size

-----------------------------------------------------------------------------
LEMMA HoldersInvInit == ClientInit => HoldersInv
<1> SUFFICES ASSUME ClientInit  PROVE HoldersInv  OBVIOUS
<1>1. WellFormed(allocator)  BY CoreInvInit, CoreInvFacts DEF ClientInit
<1>2. granted = {}  BY DEF ClientInit, granted
<1>3. NULL \in Frame  BY MapsAssumption DEF NULL, Frame
<1> QED  BY <1>1, <1>2, <1>3 DEF ClientInit, Init, HoldersInv

(* What holds of the frames and the bits of an initialised allocator. *)
LEMMA HoldersFacts ==
  ASSUME HoldersInv
  PROVE  /\ FirstLastBit \in Frame /\ FirstLastBit \in Nat
         /\ BitmapSize(memory_map) \in Nat
         /\ LastBit(allocator) \in Nat
         /\ Frame \subseteq Nat /\ System \subseteq Frame
         /\ granted = {f \in Frame : grants[f] = 1}
         /\ initialized /\ root = NULL => LastBit(allocator) = FirstLastBit
<1>1. /\ FirstLastBit \in Frame /\ BitmapSize(memory_map) \in Nat
      /\ System \subseteq Frame
  BY MemorySizeType DEF HoldersInv, FirstLastBit, System, FramesOfType
<1>2. Frame \subseteq Nat  BY MapsAssumption DEF Frame
<1>3. LastBit(allocator) \in Nat  BY FiniteBits DEF HoldersInv
<1>4. granted = {f \in Frame : grants[f] = 1}  BY DEF HoldersInv, granted
<1>5. initialized /\ root = NULL => LastBit(allocator) = FirstLastBit
  BY DEF HoldersInv, LastBit, FirstLastBit
<1> QED  BY <1>1, <1>2, <1>3, <1>4, <1>5

(* A request that succeeds takes a frame of the bitmap that nobody holds,  *)
(* and that was not withheld.                                              *)
LEMMA RequestTakes ==
  ASSUME HoldersInv, initialized, FreeFrames(allocator) # {}
  PROVE  LET f == RequestedPage(allocator)
         IN  /\ f \in FreeFrames(allocator)
             /\ f \in 0 .. LastBit(allocator) - 1
             /\ f # NULL
             /\ f \notin allocator.bits
             /\ f \notin granted \cup pinned \cup Withheld
             /\ allocator' = pfallocator_request_page(allocator) =>
                  /\ WellFormed(allocator')
                  /\ allocator'.size = allocator.size
                  /\ LastBit(allocator') = LastBit(allocator)
                  /\ allocator'.bits = allocator.bits \cup {f}
<1> DEFINE f == RequestedPage(allocator)
<1>1. WellFormed(allocator)  BY DEF HoldersInv
<1>2. f \in FreeFrames(allocator)  BY <1>1, RequestedPageFacts DEF WellFormed
<1>3. f \in 0 .. LastBit(allocator) - 1 /\ f \notin allocator.bits
  BY <1>1, <1>2, FreeFramesOf
<1>4. f \in Nat /\ f <= LastBit(allocator)
  BY <1>1, <1>3, FiniteBits
<1>5. 0 \in Withheld
  <2>1. BitmapSize(memory_map) \div FRAME_BYTES \in Nat
    BY HoldersFacts, QuotientSmall, FramesAssumption
  <2> QED  BY <2>1 DEF Withheld
<1>6. f \notin granted \cup pinned \cup Withheld  BY <1>3 DEF HoldersInv
<1>7. f # NULL  BY <1>5, <1>6 DEF NULL
<1>8. ASSUME allocator' = pfallocator_request_page(allocator)
      PROVE  /\ WellFormed(allocator')
             /\ allocator'.size = allocator.size
             /\ LastBit(allocator') = LastBit(allocator)
             /\ allocator'.bits = allocator.bits \cup {f}
  <2> DEFINE pages == {f}
  <2>1. allocator' = pfallocator_lock_pages(allocator, pages)
    BY <1>8 DEF pfallocator_request_page
  <2>2. pages \in SUBSET Nat /\ {p \in pages : p <= LastBit(allocator)} = {f}
    BY <1>4
  <2> HIDE DEF pages, f
  <2>3. /\ allocator'.size = allocator.size
        /\ LastBit(allocator') = LastBit(allocator)
        /\ allocator'.bits
             = allocator.bits \cup {p \in pages : p <= LastBit(allocator)}
    BY <1>1, <2>1, <2>2, LockBits
  <2>4. WellFormed(allocator')
    BY <1>1, <2>1, <2>2, SettingConserves DEF Conserves
  <2> QED  BY <2>2, <2>3, <2>4
<1> QED  BY <1>2, <1>3, <1>6, <1>7, <1>8

(* ptmanager_init moves the bound up, and adds bits above the old one.     *)
LEMMA InitManagerMoves ==
  ASSUME HoldersInv, ClientInitManager
  PROVE  /\ root' \in granted /\ root' # NULL
         /\ allocator'.size = root' * FRAME_BYTES
         /\ LastBit(allocator) = FirstLastBit
         /\ LastBit(allocator') \in Nat
         /\ LastBit(allocator) <= LastBit(allocator')
         /\ WellFormed(allocator')
         /\ allocator'.free_memory = allocator.free_memory
         /\ allocator'.used_memory = allocator.used_memory
         /\ allocator'.reserved_memory = allocator.reserved_memory
         /\ \E found \in SUBSET (LastBit(allocator) + 1 .. LastBit(allocator')) :
              /\ allocator'.bits = allocator.bits \cup found
              /\ stale' = stale \cup found
<1> DEFINE size == BitmapSize(memory_map)
           r == root'
<1>1. PICK found \in {{}, LastBit(allocator) + 1 .. r * FRAME_BYTES * BITS} :
        /\ allocator' = [allocator EXCEPT !.size = r * FRAME_BYTES,
                                          !.bits = @ \cup found]
        /\ stale' = stale \cup found
  BY DEF ClientInitManager
<1>2. r \in granted /\ initialized /\ root = NULL
  BY DEF ClientInitManager
<1>3. /\ size \in Nat /\ r \in Nat
      /\ LastBit(allocator) = FirstLastBit /\ LastBit(allocator) \in Nat
      /\ allocator.size = size
  BY <1>2, HoldersFacts DEF HoldersInv
<1>4. FRAME_BYTES \in Nat \ {0} /\ BITS \in Nat \ {0}  BY FramesAssumption
<1>5. r > size \div FRAME_BYTES
  <2>1. r \notin 0 .. size \div FRAME_BYTES
    BY <1>2 DEF HoldersInv, Withheld
  <2>2. size \div FRAME_BYTES \in Nat  BY <1>3, <1>4, QuotientSmall
  <2> HIDE DEF size, r
  <2> QED  BY <1>3, <2>1, <2>2
<1>6. size < r * FRAME_BYTES
  BY <1>3, <1>4, <1>5, AboveQuotient
<1> DEFINE new == r * FRAME_BYTES
<1>7. new \in Nat /\ new * BITS \in Nat /\ size * BITS <= new * BITS
  <2>1. \A m, n \in Nat : m * n \in Nat  OBVIOUS
  <2>2. \A m, n, b \in Nat : m < n => m * b <= n * b  OBVIOUS
  <2>3. new \in Nat  BY <1>3, <1>4, <2>1
  <2> HIDE DEF new, size
  <2> QED  BY <1>3, <1>4, <1>6, <2>1, <2>2, <2>3 DEF new
<1>8. allocator \in Allocator /\ allocator.bits \subseteq 0 .. LastBit(allocator)
  BY DEF HoldersInv, WellFormed
<1>9. LastBit(allocator) <= new * BITS
  BY <1>3, <1>7 DEF FirstLastBit
<1>10. found \in SUBSET (LastBit(allocator) + 1 .. new * BITS)
  BY <1>1
<1>11. r # NULL
  <2>1. size \div FRAME_BYTES \in Nat  BY <1>3, <1>4, QuotientSmall
  <2> HIDE DEF size, r
  <2> QED  BY <1>3, <1>5, <2>1 DEF NULL
<1> HIDE DEF size, new, r
<1>12. allocator' = [allocator EXCEPT !.size = new, !.bits = @ \cup found]
  BY <1>1 DEF new
<1>13. allocator.bits \cup found \subseteq 0 .. new * BITS
  <2> DEFINE top == new * BITS
             last == LastBit(allocator)
  <2>1. top \in Nat /\ last \in Nat /\ last <= top  BY <1>3, <1>7, <1>9
  <2>2. found \subseteq last + 1 .. top  BY <1>10
  <2>3. allocator.bits \subseteq 0 .. last  BY <1>8
  <2> HIDE DEF top, last
  <2>4. 0 .. last \subseteq 0 .. top /\ last + 1 .. top \subseteq 0 .. top
    BY <2>1
  <2>5. allocator.bits \cup found \subseteq 0 .. top  BY <2>2, <2>3, <2>4
  <2> QED  BY <2>5 DEF top
<1>14. /\ allocator'.size = new /\ allocator'.bits = allocator.bits \cup found
       /\ allocator'.free_memory = allocator.free_memory
       /\ allocator'.used_memory = allocator.used_memory
       /\ allocator'.reserved_memory = allocator.reserved_memory
       /\ allocator' \in Allocator
  <2>1. allocator.bits \cup found \in SUBSET Nat  BY <1>7, <1>13
  <2> QED  BY <1>7, <1>8, <1>12, <2>1 DEF Allocator
<1>15. LastBit(allocator') = new * BITS  BY <1>14 DEF LastBit
<1>16. WellFormed(allocator')  BY <1>13, <1>14, <1>15 DEF WellFormed
<1>17. \E extra \in SUBSET (LastBit(allocator) + 1 .. new * BITS) :
         /\ allocator'.bits = allocator.bits \cup extra
         /\ stale' = stale \cup extra
  BY <1>1, <1>10, <1>14
<1>18. r \in granted /\ LastBit(allocator) = FirstLastBit
  BY <1>2, <1>3
<1>19. LastBit(allocator') \in Nat /\ LastBit(allocator) <= LastBit(allocator')
  BY <1>7, <1>9, <1>15
<1>20. LastBit(allocator) + 1 .. LastBit(allocator')
         = LastBit(allocator) + 1 .. new * BITS
  BY <1>15
<1> QED
  BY <1>11, <1>14, <1>16, <1>17, <1>18, <1>19, <1>20, Zenon DEF r, new

(* A call that leaves the bound alone, and takes nothing held or withheld  *)
(* out of the bitmap.                                                      *)
LEMMA HoldersKept ==
  ASSUME HoldersInv, initialized,
         UNCHANGED <<memory_map, initialized, stale, root>>,
         WellFormed(allocator'), allocator'.size = allocator.size,
         refused' \in BOOLEAN, intact' \in BOOLEAN,
         grants' \in [Frame -> {0, 1}], pinned' \subseteq Frame,
         granted' \subseteq allocator'.bits \cap 0 .. LastBit(allocator) - 1,
         pinned' \subseteq allocator'.bits,
         granted' \cap pinned' = {},
         stale \cap (granted' \cup pinned') = {},
         allocator.bits \ granted \subseteq allocator'.bits,
         stale \subseteq allocator'.bits,
         granted' \cap Withheld = {}
  PROVE  HoldersInv'
<1>1. LastBit(allocator') = LastBit(allocator)  BY DEF LastBit
<1>2. FirstLastBit' = FirstLastBit /\ Withheld' = Withheld
  BY DEF FirstLastBit, Withheld, System
<1>3. Withheld \subseteq allocator'.bits \ granted'  BY DEF HoldersInv
<1> QED  BY <1>1, <1>2, <1>3 DEF HoldersInv

LEMMA HoldersInvNext == HoldersInv /\ [ClientNext]_clientVars => HoldersInv'
<1> SUFFICES ASSUME HoldersInv, [ClientNext]_clientVars  PROVE HoldersInv'
  OBVIOUS
<1>1. WellFormed(allocator)  BY DEF HoldersInv
<1>2. CASE ClientBoot
  <2>1. PICK found \in SUBSET {BitmapSize(memory_map) * BITS} :
          stale' = found /\ allocator' = AllocatorOf(memory_map, found)
    BY <1>2 DEF ClientBoot, pfallocator_read_efi_memory_map
  <2>2. /\ ~initialized /\ initialized' = TRUE
        /\ memory_map' = memory_map /\ memory_map \in MemoryMaps
        /\ grants' = grants /\ refused' = refused /\ intact' = intact
        /\ root' = root /\ root = NULL
        /\ pinned' = ClearPages(BlankAllocator(memory_map, found),
                       AllocatorFrame ..
                         AllocatorFrame + BitmapSize(memory_map) \div FRAME_BYTES)
    BY <1>2, <2>1
    DEF ClientBoot, pfallocator_read_efi_memory_map, HoldersInv
  <2>3. granted' = {} /\ System' = System /\ FirstLastBit' = FirstLastBit
        /\ Withheld' = Withheld
    BY <2>2 DEF HoldersInv, granted, System, FirstLastBit, Withheld
  <2>4. WellFormed(allocator') /\ allocator'.size = BitmapSize(memory_map)
    BY <2>1, <2>2, AllocatorOfFacts
  <2>5. /\ LastBit(allocator') = FirstLastBit
        /\ pinned' \subseteq Frame /\ pinned' \subseteq allocator'.bits
        /\ stale' \subseteq allocator'.bits /\ stale' \cap pinned' = {}
        /\ Withheld \subseteq allocator'.bits
    BY <2>1, <2>2, AllocatorOfBits DEF Withheld, System, FirstLastBit
  <2>6. FirstLastBit \in Nat  BY HoldersFacts
  <2> QED  BY <2>2, <2>3, <2>4, <2>5, <2>6 DEF HoldersInv
<1>3. CASE ClientRequest
  <2>1. /\ initialized /\ pinned' = pinned /\ intact' = intact
        /\ RequestedPage(allocator) \in Frame
        /\ UNCHANGED <<memory_map, initialized, stale, root>>
        /\ allocator' = pfallocator_request_page(allocator)
    BY <1>3 DEF ClientRequest, RequestPage
  <2>2. CASE FreeFrames(allocator) = {}
    <3>1. allocator' = allocator /\ grants' = grants /\ refused' \in BOOLEAN
      BY <1>3, <2>1, <2>2
      DEF ClientRequest, pfallocator_request_page, RequestedPage
    <3>2. granted' = granted  BY <3>1 DEF granted
    <3> QED  BY <2>1, <3>1, <3>2, HoldersKept DEF HoldersInv
  <2>3. CASE FreeFrames(allocator) # {}
    <3> DEFINE f == RequestedPage(allocator)
    <3>1. /\ f \in 0 .. LastBit(allocator) - 1 /\ f \in Frame /\ f # NULL
          /\ f \notin allocator.bits
          /\ f \notin granted \cup pinned \cup Withheld
          /\ WellFormed(allocator') /\ allocator'.size = allocator.size
          /\ allocator'.bits = allocator.bits \cup {f}
      BY <2>1, <2>3, RequestTakes
    <3>2. grants' = [grants EXCEPT ![f] = @ + 1] /\ refused' = refused
      BY <1>3, <3>1 DEF ClientRequest
    <3> HIDE DEF f
    <3>3. grants[f] = 0  BY <3>1 DEF HoldersInv, granted
    <3>4. grants' \in [Frame -> {0, 1}]
      <4>1. grants' = [grants EXCEPT ![f] = 1]  BY <3>2, <3>3
      <4> QED  BY <4>1 DEF HoldersInv
    <3>5. granted' = granted \cup {f}
      BY <3>1, <3>2, <3>3 DEF HoldersInv, granted
    <3>6. /\ granted' \subseteq allocator'.bits \cap 0 .. LastBit(allocator) - 1
          /\ pinned' \subseteq allocator'.bits /\ pinned' \subseteq Frame
          /\ granted' \cap pinned' = {} /\ granted' \cap Withheld = {}
          /\ stale \subseteq allocator'.bits
          /\ stale \cap (granted' \cup pinned') = {}
          /\ refused' \in BOOLEAN /\ intact' \in BOOLEAN
      BY <2>1, <3>1, <3>2, <3>5 DEF HoldersInv
    <3> QED  BY <2>1, <3>1, <3>4, <3>6, HoldersKept
  <2> QED  BY <2>2, <2>3
<1>4. CASE ClientInitManager
  <2>1. /\ initialized /\ UNCHANGED <<memory_map, initialized>>
        /\ grants' = grants /\ granted' = granted /\ pinned' = pinned
        /\ refused' = refused /\ intact' = intact
    BY <1>4 DEF ClientInitManager, granted
  <2>2. /\ root' \in granted /\ root' # NULL
        /\ allocator'.size = root' * FRAME_BYTES
        /\ LastBit(allocator) = FirstLastBit
        /\ LastBit(allocator') \in Nat
        /\ LastBit(allocator) <= LastBit(allocator')
        /\ WellFormed(allocator')
        /\ \E found \in SUBSET (LastBit(allocator) + 1 .. LastBit(allocator')) :
             /\ allocator'.bits = allocator.bits \cup found
             /\ stale' = stale \cup found
    BY <1>4, InitManagerMoves
  <2>3. FirstLastBit' = FirstLastBit /\ Withheld' = Withheld /\ root' \in Frame
    BY <2>1, <2>2 DEF FirstLastBit, Withheld, System, granted
  <2>4. /\ granted \subseteq 0 .. LastBit(allocator') - 1
        /\ granted \cup pinned \subseteq 0 .. LastBit(allocator)
    BY <2>2, HoldersFacts DEF HoldersInv, WellFormed
  <2>5. /\ stale' \subseteq allocator'.bits
        /\ stale' \cap (granted \cup pinned) = {}
        /\ allocator.bits \subseteq allocator'.bits
    BY <2>2, <2>4, HoldersFacts DEF HoldersInv
  <2> QED  BY <2>1, <2>2, <2>3, <2>4, <2>5 DEF HoldersInv
<1>5. ASSUME NEW pages \in PageRanges
      PROVE  pages \in SUBSET Nat /\ pages \subseteq Frame
  BY MapsAssumption DEF PageRanges, Frame
<1>6. ASSUME NEW pages \in PageRanges, ClientLock(pages)  PROVE HoldersInv'
  <2>1. /\ initialized /\ UNCHANGED <<memory_map, initialized, stale, root>>
        /\ granted' = granted /\ grants' = grants
        /\ refused' = refused /\ intact' = intact
        /\ allocator' = pfallocator_lock_pages(allocator, pages)
        /\ pinned' = pinned \cup ClearPages(allocator, pages)
    BY <1>6 DEF ClientLock, LockPages, granted
  <2>2. /\ allocator'.size = allocator.size /\ WellFormed(allocator')
        /\ allocator'.bits
             = allocator.bits \cup {p \in pages : p <= LastBit(allocator)}
    BY <1>1, <1>5, <2>1, LockBits, SettingConserves DEF Conserves
  <2>3. /\ ClearPages(allocator, pages) \subseteq allocator'.bits
        /\ ClearPages(allocator, pages) \subseteq Frame
        /\ ClearPages(allocator, pages) \cap allocator.bits = {}
    BY <1>1, <1>5, <2>2, ClearPagesFacts DEF ClearPages
  <2>4. /\ granted' \cap pinned' = {}
        /\ pinned' \subseteq allocator'.bits /\ pinned' \subseteq Frame
        /\ granted' \subseteq allocator'.bits \cap 0 .. LastBit(allocator) - 1
        /\ stale \subseteq allocator'.bits /\ granted' \cap Withheld = {}
        /\ stale \cap (granted' \cup pinned') = {}
    BY <2>1, <2>2, <2>3 DEF HoldersInv
  <2> QED  BY <2>1, <2>2, <2>4, HoldersKept DEF HoldersInv
<1>7. ASSUME NEW pages \in PageRanges, ClientFree(pages)  PROVE HoldersInv'
  <2>1. /\ initialized /\ UNCHANGED <<memory_map, initialized, stale, root>>
        /\ pinned' = pinned /\ refused' = refused /\ intact' = intact
        /\ pages \subseteq granted
        /\ allocator' = pfallocator_free_pages(allocator, pages)
        /\ grants' = [f \in Frame |->
                        IF f \in pages THEN grants[f] - 1 ELSE grants[f]]
    BY <1>7 DEF ClientFree, FreePages
  <2>2. /\ allocator'.size = allocator.size /\ WellFormed(allocator')
        /\ allocator'.bits = allocator.bits \ pages
    BY <1>1, <1>5, <2>1, FreeBits, ClearingConserves DEF Conserves
  <2>3. \A f \in pages : f \in Frame /\ grants[f] = 1
    BY <2>1 DEF HoldersInv, granted
  <2>4. grants' \in [Frame -> {0, 1}]
    <3>1. grants' = [f \in Frame |-> IF f \in pages THEN 0 ELSE grants[f]]
      BY <2>1, <2>3
    <3> QED  BY <3>1 DEF HoldersInv
  <2>5. granted' = granted \ pages
    BY <2>1, <2>3 DEF HoldersInv, granted
  <2>6. /\ granted' \subseteq allocator'.bits \cap 0 .. LastBit(allocator) - 1
        /\ pinned' \subseteq allocator'.bits /\ pinned' \subseteq Frame
        /\ granted' \cap pinned' = {} /\ stale \subseteq allocator'.bits
        /\ stale \cap (granted' \cup pinned') = {}
        /\ allocator.bits \ granted \subseteq allocator'.bits
        /\ refused' \in BOOLEAN /\ intact' \in BOOLEAN
    BY <2>1, <2>2, <2>5 DEF HoldersInv
  <2>7. granted' \cap Withheld = {}
    BY <2>1, <2>5 DEF HoldersInv
  <2> QED  BY <2>1, <2>2, <2>4, <2>6, <2>7, HoldersKept
<1>8. CASE ClientOverwrite
  <2>1. /\ initialized /\ UNCHANGED <<memory_map, initialized, stale, root>>
        /\ granted' = granted /\ intact' = FALSE
        /\ UNCHANGED <<allocator, grants, pinned, refused>>
    BY <1>8 DEF ClientOverwrite, granted
  <2> QED  BY <2>1, HoldersKept DEF HoldersInv
<1>9. CASE UNCHANGED clientVars
  BY <1>9 DEF clientVars, HoldersInv, granted, Withheld, System, FirstLastBit
<1> QED  BY <1>2, <1>3, <1>4, <1>6, <1>7, <1>8, <1>9 DEF ClientNext

THEOREM HoldersInvariant == ClientSpec => []HoldersInv
BY HoldersInvInit, HoldersInvNext, PTL DEF ClientSpec

(* No frame is returned by pfallocator_request_page while it has a holder. *)
THEOREM NoDoubleGrant == ClientSpec => []GrantedOnce
<1>1. HoldersInv => GrantedOnce  BY DEF HoldersInv, GrantedOnce
<1> QED  BY <1>1, HoldersInvariant, PTL

(* A frame of a descriptor the initialisation reserved is returned only    *)
(* after ptmanager_init has moved the bitmap's bound, and only from above  *)
(* the first bound: below it the reservation holds for good.               *)
THEOREM FirmwareSafe == ClientSpec => []FirmwareBeyondFirstBitmap
<1>1. HoldersInv => FirmwareBeyondFirstBitmap
  <2> SUFFICES ASSUME HoldersInv, NEW f \in granted \cap System
               PROVE  root # NULL /\ f > FirstLastBit
    BY DEF FirmwareBeyondFirstBitmap, System
  <2>1. initialized  BY DEF HoldersInv
  <2>2. f \notin Withheld  BY <2>1 DEF HoldersInv
  <2>3. f \in Nat /\ FirstLastBit \in Nat  BY HoldersFacts
  <2>4. f > FirstLastBit  BY <2>2, <2>3 DEF Withheld
  <2>5. root # NULL
    <3> SUFFICES ASSUME root = NULL  PROVE FALSE  OBVIOUS
    <3>1. LastBit(allocator) = FirstLastBit  BY <2>1, HoldersFacts
    <3>2. f \in 0 .. FirstLastBit - 1  BY <3>1 DEF HoldersInv
    <3> QED  BY <2>3, <2>4, <3>2
  <2> QED  BY <2>4, <2>5
<1> QED  BY <1>1, HoldersInvariant, PTL

-----------------------------------------------------------------------------
(* The allocator implements the page pool.                                 *)

LEMMA PoolInit == ClientInit => Pool!Init
BY DEF ClientInit, Init, Pool!Init, granted, NULL

(* The pool never holds the frame whose address is NULL. *)
LEMMA NullTaken ==
  HoldersInv /\ initialized => FreeFrames(allocator) \subseteq Nat \ {NULL}
<1> SUFFICES ASSUME HoldersInv, initialized
             PROVE  FreeFrames(allocator) \subseteq Nat \ {NULL}
  OBVIOUS
<1>1. 0 \in Withheld
  <2>1. BitmapSize(memory_map) \div FRAME_BYTES \in Nat
    BY HoldersFacts, QuotientSmall, FramesAssumption
  <2> QED  BY <2>1 DEF Withheld
<1>2. 0 \in allocator.bits  BY <1>1 DEF HoldersInv
<1>3. LastBit(allocator) \in Nat  BY HoldersFacts
<1>4. FreeFrames(allocator) = (0 .. LastBit(allocator) - 1) \ allocator.bits
  BY FreeFramesOf DEF HoldersInv
<1> QED  BY <1>2, <1>3, <1>4 DEF NULL

LEMMA PoolStep == HoldersInv /\ HoldersInv' /\ ClientNext => Pool!Next
<1> SUFFICES ASSUME HoldersInv, HoldersInv', ClientNext  PROVE Pool!Next
  OBVIOUS
<1>0. intact  BY DEF ClientNext
<1> DEFINE pool == IF initialized THEN FreeFrames(allocator) ELSE {}
<1>1. WellFormed(allocator) /\ WellFormed(allocator')
  BY DEF HoldersInv
<1>2. FreeFrames(allocator) = (0 .. LastBit(allocator) - 1) \ allocator.bits
      /\ FreeFrames(allocator') = (0 .. LastBit(allocator') - 1) \ allocator'.bits
  BY <1>1, FreeFramesOf
<1>null. initialized' => FreeFrames(allocator') \subseteq Nat \ {NULL}
  <2>1. (HoldersInv /\ initialized => FreeFrames(allocator) \subseteq Nat \ {NULL})'
    BY NullTaken, PTL
  <2> QED  BY <2>1
<1>3. CASE ClientBoot
  <2>1. /\ ~initialized /\ initialized' /\ granted' = granted
        /\ refused' = refused /\ intact' = intact /\ root' = root
    BY <1>3 DEF ClientBoot, pfallocator_read_efi_memory_map, granted
  <2>2. FreeFrames(allocator') \subseteq Nat \ {NULL}
    BY <1>null, <2>1
  <2>3. Pool!Open
    BY <2>1, <2>2 DEF Pool!Open
  <2> QED  BY <1>0, <2>3 DEF Pool!Next
<1>4. CASE ClientRequest
  <2>1. /\ initialized /\ initialized' = initialized
        /\ intact' = intact /\ root' = root
        /\ RequestedPage(allocator) \in Frame
        /\ allocator' = pfallocator_request_page(allocator)
    BY <1>4 DEF ClientRequest, RequestPage
  <2>2. CASE FreeFrames(allocator) = {}
    <3>1. allocator' = allocator /\ grants' = grants /\ refused' = TRUE
      BY <1>4, <2>1, <2>2
      DEF ClientRequest, pfallocator_request_page, RequestedPage
    <3>2. Pool!Refuse
      BY <2>1, <2>2, <3>1 DEF Pool!Refuse, granted
    <3> QED  BY <1>0, <3>2 DEF Pool!Next
  <2>3. CASE FreeFrames(allocator) # {}
    <3> DEFINE f == RequestedPage(allocator)
    <3>1. /\ f \in FreeFrames(allocator) /\ f \in Frame /\ f # NULL
          /\ f \notin granted
          /\ LastBit(allocator') = LastBit(allocator)
          /\ allocator'.bits = allocator.bits \cup {f}
      BY <2>1, <2>3, RequestTakes, Zenon
    <3>2. grants' = [grants EXCEPT ![f] = @ + 1] /\ refused' = refused
      BY <1>4, <3>1 DEF ClientRequest
    <3> HIDE DEF f
    <3>3. grants[f] = 0  BY <3>1 DEF HoldersInv, granted
    <3>4. granted' = granted \cup {f}
      BY <3>1, <3>2, <3>3 DEF HoldersInv, granted
    <3>5. FreeFrames(allocator') = FreeFrames(allocator) \ {f}
      BY <1>2, <3>1
    <3>6. Pool!Grant(f)
      BY <2>1, <3>1, <3>2, <3>4, <3>5 DEF Pool!Grant
    <3>7. f \in pool  BY <2>1, <3>1
    <3> QED  BY <1>0, <3>6, <3>7 DEF Pool!Next
  <2> QED  BY <2>2, <2>3
<1>5. ASSUME NEW pages \in PageRanges
      PROVE  pages \in SUBSET Nat
  BY MapsAssumption DEF PageRanges, Frame
<1>6. ASSUME NEW pages \in PageRanges, ClientLock(pages)
      PROVE  Pool!Withdraw
  <2>1. /\ initialized /\ initialized' = initialized
        /\ granted' = granted /\ refused' = refused /\ intact' = intact
        /\ root' = root
        /\ allocator' = pfallocator_lock_pages(allocator, pages)
    BY <1>6 DEF ClientLock, LockPages, granted
  <2>2. /\ LastBit(allocator') = LastBit(allocator)
        /\ allocator'.bits
             = allocator.bits \cup {p \in pages : p <= LastBit(allocator)}
    BY <1>1, <1>5, <2>1, LockBits
  <2>3. FreeFrames(allocator') \subseteq FreeFrames(allocator)
    BY <1>2, <2>2
  <2> QED  BY <2>1, <2>3 DEF Pool!Withdraw
<1>7. ASSUME NEW pages \in PageRanges, ClientFree(pages)
      PROVE  pages \subseteq granted /\ Pool!Return(pages)
  <2>1. /\ initialized /\ initialized' = initialized
        /\ refused' = refused /\ intact' = intact /\ root' = root
        /\ pages \subseteq granted
        /\ allocator' = pfallocator_free_pages(allocator, pages)
        /\ grants' = [f \in Frame |->
                        IF f \in pages THEN grants[f] - 1 ELSE grants[f]]
    BY <1>7 DEF ClientFree, FreePages
  <2>2. /\ LastBit(allocator') = LastBit(allocator)
        /\ allocator'.bits = allocator.bits \ pages
    BY <1>1, <1>5, <2>1, FreeBits
  <2>3. \A f \in pages : f \in Frame /\ grants[f] = 1
    BY <2>1 DEF HoldersInv, granted
  <2>4. granted' = granted \ pages
    BY <2>1, <2>3 DEF HoldersInv, granted
  <2>5. FreeFrames(allocator') = FreeFrames(allocator) \cup pages
    BY <1>2, <2>1, <2>2 DEF HoldersInv
  <2> QED  BY <2>1, <2>4, <2>5 DEF Pool!Return
<1>8. CASE ClientOverwrite
  <2>1. Pool!Destroy  BY <1>8 DEF ClientOverwrite, Pool!Destroy, granted
  <2> QED  BY <1>0, <2>1 DEF Pool!Next
<1>9. CASE ClientInitManager
  <2>1. /\ initialized /\ initialized' = initialized /\ root = NULL
        /\ granted' = granted /\ refused' = refused /\ intact' = intact
    BY <1>9 DEF ClientInitManager, granted
  <2>2. root' \in granted /\ root' # NULL  BY <1>9, InitManagerMoves
  <2>3. FreeFrames(allocator') \subseteq Nat \ {NULL}
    BY <1>null, <2>1
  <2>4. FreeFrames(allocator') \cap granted = {}
    BY <1>2, <2>1 DEF HoldersInv
  <2>5. Pool!Replace
    BY <2>1, <2>2, <2>3, <2>4 DEF Pool!Replace
  <2> QED  BY <1>0, <2>5 DEF Pool!Next
<1> QED
  <2>1. CASE \E pages \in PageRanges : ClientLock(pages)
    BY <1>0, <1>6, <2>1 DEF Pool!Next
  <2>2. CASE \E pages \in PageRanges : ClientFree(pages)
    BY <1>0, <1>7, <2>2 DEF Pool!Next
  <2> QED  BY <1>3, <1>4, <1>8, <1>9, <2>1, <2>2 DEF ClientNext

LEMMA PoolNext ==
  HoldersInv /\ HoldersInv' /\ [ClientNext]_clientVars => [Pool!Next]_Pool!vars
<1>1. UNCHANGED clientVars => UNCHANGED Pool!vars
  BY DEF clientVars, Pool!vars, granted
<1> QED  BY <1>1, PoolStep

(* Seen by its callers, the allocator is the page pool: a null answer      *)
(* means that no frame is left, and a frame has one owner at a time.       *)
THEOREM AllocatorIsPagePool == ClientSpec => IsPagePool
BY HoldersInvariant, PoolInit, PoolNext, PTL
   DEF ClientSpec, IsPagePool, Pool!Spec

-----------------------------------------------------------------------------
(* With the kernel's calls the allocator and what the callers hold keep    *)
(* their types: no free takes a holder away from a frame that has none     *)
(* (allocator.c:56-125), and the size ptmanager_init writes is no less     *)
(* than the one the map called for.                                        *)
THEOREM ClientTypeCorrect == ClientSpec => []ClientTypeOK
<1>1. HoldersInv => ClientTypeOK
  <2> SUFFICES ASSUME HoldersInv  PROVE ClientTypeOK
    OBVIOUS
  <2>1. grants \in [Frame -> Nat]  BY DEF HoldersInv
  <2>2. \E n \in 0 .. MAX_DESCRIPTORS : memory_map \in [1 .. n -> Descriptor]
    BY MapsAssumption DEF HoldersInv
  <2> QED  BY <2>1, <2>2 DEF HoldersInv, WellFormed, ClientTypeOK
<1> QED  BY <1>1, HoldersInvariant, PTL

-----------------------------------------------------------------------------
(* The counters tell the truth when they are wide enough for the bitmap.   *)
WideCounters == MAX_FRAME + 1 < MODULUS

(* The frames the counters count: those used memory should, those reserved *)
(* memory should.                                                          *)
Counted  == allocator.bits \ stale
Used     == granted \cup pinned
Reserved == allocator.bits \ (Used \cup stale)

(* CountersTruthful with what makes it inductive: what is counted has an   *)
(* address, since calls set no other bits.                                 *)
TruthInv ==
  /\ HoldersInv
  /\ Counted \subseteq Frame
  /\ allocator.used_memory = Cardinality(Used)
  /\ allocator.reserved_memory = Cardinality(Reserved)
  /\ initialized =>
       allocator.free_memory
         = (get_memory_size(memory_map) - Cardinality(Counted)) % MODULUS

LEMMA SmallMod ==
  ASSUME NEW M \in Nat \ {0}, NEW x \in 0 .. M - 1
  PROVE  x % M = x
OBVIOUS

(* A number a little below zero wraps. *)
LEMMA WrappedMod ==
  ASSUME NEW M \in Nat \ {0}, NEW x \in Int, -M < x, x < 0
  PROVE  x % M = x + M
<1>1. x + M \in 0 .. M - 1  OBVIOUS
<1>2. (x + M) % M = x + M  BY <1>1, SmallMod
<1>3. \A k \in Int : (x + k * M) % M = x % M  BY ModPeriod
<1>4. (x + 1 * M) % M = x % M /\ x + 1 * M = x + M  BY <1>3
<1> QED  BY <1>2, <1>4

(* Reducing a term first does not matter. *)
LEMMA ModAdd ==
  ASSUME NEW M \in Nat \ {0}, NEW x \in Int, NEW n \in Int
  PROVE  ((x % M) + n) % M = (x + n) % M
<1>1. PICK k \in Int : x % M = x + k * M  BY ModDivides
<1>2. x + n \in Int /\ (x % M) + n = (x + n) + k * M  BY <1>1
<1>3. ((x + n) + k * M) % M = (x + n) % M  BY <1>2, ModPeriod
<1> QED  BY <1>2, <1>3

(* Nor does reducing before something more is subtracted. *)
LEMMA ModLess ==
  ASSUME NEW size \in Nat, NEW c \in Int, NEW n \in Int
  PROVE  (((size - c) % MODULUS) - n) % MODULUS = (size - (c + n)) % MODULUS
<1>1. MODULUS \in Nat \ {0} /\ size - c \in Int /\ -n \in Int
  BY FramesAssumption
<1>2. (((size - c) % MODULUS) + (-n)) % MODULUS = ((size - c) + (-n)) % MODULUS
  BY <1>1, ModAdd
<1>3. (size - c) % MODULUS \in Int  BY <1>1
<1>4. ((size - c) % MODULUS) + (-n) = ((size - c) % MODULUS) - n  BY <1>3
<1>5. (size - c) + (-n) = size - (c + n)  OBVIOUS
<1> QED  BY <1>2, <1>4, <1>5

(* Sets of frames are counted exactly. *)
LEMMA CountFits ==
  ASSUME WideCounters, NEW S \in SUBSET Frame
  PROVE  /\ IsFiniteSet(S) /\ Cardinality(S) \in Nat
         /\ Cardinality(S) < MODULUS
         /\ Cardinality(S) % MODULUS = Cardinality(S)
<1>1. MAX_FRAME \in Nat  BY MapsAssumption
<1>2. IsFiniteSet(0 .. MAX_FRAME) /\ Cardinality(0 .. MAX_FRAME) = MAX_FRAME + 1
  BY <1>1, FS_Interval
<1>3. IsFiniteSet(S) /\ Cardinality(S) <= MAX_FRAME + 1 /\ Cardinality(S) \in Nat
  BY <1>2, FS_Subset, FS_CardinalityType DEF Frame
<1>4. MODULUS \in Nat \ {0}  BY FramesAssumption
<1>5. Cardinality(S) < MODULUS /\ Cardinality(S) \in 0 .. MODULUS - 1
  BY <1>1, <1>3, <1>4 DEF WideCounters
<1> QED  BY <1>3, <1>4, <1>5, SmallMod

(* So is the sum of the descriptors' sizes. *)
LEMMA SizeFits ==
  ASSUME WideCounters, NEW map \in MemoryMaps
  PROVE  get_memory_size(map) \in Nat /\ get_memory_size(map) < MODULUS
<1> DEFINE m == get_memory_size(map)
           q == m \div BITS
<1>1. m \in Nat /\ BITS \in Nat \ {0} /\ MODULUS \in Nat
  BY MemorySizeType, FramesAssumption
<1>2. (q + 1) * BITS \in Nat /\ (q + 1) * BITS <= MAX_FRAME /\ MAX_FRAME \in Nat
  BY MemorySizeType, MapsAssumption DEF BitmapSize, Frame
<1>3. q \in Nat  BY <1>1, QuotientSmall
<1>4. m < (q + 1) * BITS
  <2>1. q + 1 \in Nat /\ q + 1 > q  BY <1>3
  <2> HIDE DEF m
  <2> QED  BY <1>1, <2>1, AboveQuotient
<1> HIDE DEF m, q
<1>5. m < MODULUS  BY <1>1, <1>2, <1>4 DEF WideCounters
<1> QED  BY <1>1, <1>5 DEF m

(* Before the map is read, and right after it. *)
LEMMA TruthInit == ClientInit => TruthInv
<1> SUFFICES ASSUME ClientInit  PROVE TruthInv  OBVIOUS
<1>1. HoldersInv  BY HoldersInvInit
<1>2. /\ Used = {} /\ stale = {} /\ allocator.bits = {} /\ ~initialized
      /\ allocator.used_memory = 0 /\ allocator.reserved_memory = 0
  BY DEF ClientInit, Init, Used, granted
<1>3. Reserved = {} /\ Counted = {}  BY <1>2 DEF Reserved, Counted
<1> QED  BY <1>1, <1>2, <1>3, FS_EmptySet DEF TruthInv

LEMMA BootTruthful ==
  ASSUME WideCounters, NEW map \in MemoryMaps,
         NEW found \in SUBSET {BitmapSize(map) * BITS}
  PROVE  LET a == AllocatorOf(map, found)
             locked == ClearPages(BlankAllocator(map, found),
                         AllocatorFrame ..
                           AllocatorFrame + BitmapSize(map) \div FRAME_BYTES)
         IN  /\ found \subseteq a.bits /\ found \cap locked = {}
             /\ a.used_memory = Cardinality(locked)
             /\ a.reserved_memory = Cardinality(a.bits \ (locked \cup found))
             /\ a.bits \ found \subseteq Frame
             /\ a.free_memory
                  = (get_memory_size(map) - Cardinality(a.bits \ found)) % MODULUS
<1> DEFINE blank == BlankAllocator(map, found)
           size == BitmapSize(map)
           pages == AllocatorFrame .. AllocatorFrame + blank.size \div FRAME_BYTES
           locking == pfallocator_lock_pages(blank, pages)
           system == FramesOfType(map, {"mmio", "other"})
           a == AllocatorOf(map, found)
           locked == ClearPages(blank, pages)
           rest == ClearPages(locking, system)
           m == get_memory_size(map)
<1>1. /\ size \in Nat /\ size * BITS \in Frame /\ system \in SUBSET Nat
      /\ size * BITS \in Nat
  BY MemorySizeType, MapsAssumption DEF Frame
<1>2. /\ blank.size = size /\ blank.bits = found
      /\ blank.used_memory = 0 /\ blank.reserved_memory = 0
      /\ blank.free_memory = m % MODULUS
  BY DEF BlankAllocator
<1>3. LastBit(blank) = size * BITS  BY <1>2 DEF LastBit
<1>4. WellFormed(blank)
  <2>1. 0 \in Counter  BY FramesAssumption DEF Counter
  <2>2. get_memory_size(map) % MODULUS \in Counter
    BY MemorySizeType, CounterType
  <2>3. found \in SUBSET Nat /\ found \subseteq 0 .. LastBit(blank)
    BY <1>1, <1>3
  <2>4. blank \in Allocator
    BY <1>1, <2>1, <2>2, <2>3 DEF BlankAllocator, Allocator
  <2> QED  BY <1>2, <2>3, <2>4 DEF WellFormed
<1>5. pages \in SUBSET Nat
  BY <1>1, <1>2, FramesAssumption DEF AllocatorFrame, NULL
<1>6. pages = AllocatorFrame .. AllocatorFrame + size \div FRAME_BYTES
  BY <1>2
<1>7. a = reserve_pages(locking, system)
  BY DEF AllocatorOf
<1>8. blank \in Allocator /\ m \in Int /\ MODULUS \in Nat \ {0}
  BY <1>4, MemorySizeType, FramesAssumption DEF WellFormed
<1> HIDE DEF blank, size, pages, system, a, m
<1>9. /\ locking.bits = found \cup locked
      /\ locking.free_memory = (m - Cardinality(locked)) % MODULUS
      /\ locking.used_memory = Cardinality(locked) % MODULUS
      /\ locking.reserved_memory = 0
  <2>1. /\ locking.bits = blank.bits \cup locked
        /\ locking.used_memory = (blank.used_memory + Cardinality(locked)) % MODULUS
        /\ locking.reserved_memory = blank.reserved_memory
        /\ locking.free_memory = (blank.free_memory - Cardinality(locked)) % MODULUS
    BY <1>8 DEF pfallocator_lock_pages, Allocator
  <2>2. Cardinality(locked) \in Nat
    BY <1>4, <1>5, ClearPagesFacts
  <2> HIDE DEF locking, locked
  <2> DEFINE l == Cardinality(locked)
  <2>3. l \in Int /\ m \in Nat /\ 0 \in Int  BY <2>2, MemorySizeType DEF m
  <2> HIDE DEF l
  <2>4. (((m - 0) % MODULUS) - l) % MODULUS = (m - (0 + l)) % MODULUS
    BY <2>3, ModLess
  <2>5. locking.free_memory = (m - Cardinality(locked)) % MODULUS
    <3>1. m - 0 = m /\ m - (0 + l) = m - l  BY <2>3
    <3> QED  BY <1>2, <2>1, <2>4, <3>1 DEF l
  <2> QED  BY <1>2, <2>1, <2>2, <2>5
<1>10. WellFormed(locking) /\ LastBit(locking) = LastBit(blank)
  BY <1>4, <1>5, SettingConserves DEF Conserves, LastBit
<1>11. locking \in Allocator  BY <1>10 DEF WellFormed
<1> HIDE DEF locking
<1>12. /\ a.bits = locking.bits \cup rest
       /\ a.used_memory = locking.used_memory
       /\ a.reserved_memory = (locking.reserved_memory + Cardinality(rest)) % MODULUS
       /\ a.free_memory = (locking.free_memory - Cardinality(rest)) % MODULUS
  BY <1>7, <1>11 DEF reserve_pages, Allocator
<1>13. locked \subseteq 0 .. LastBit(blank) /\ locked \cap found = {}
  BY <1>2, <1>4, <1>5, ClearPagesFacts
<1>14. rest \subseteq 0 .. LastBit(blank) /\ rest \cap locking.bits = {}
  BY <1>1, <1>10, ClearPagesFacts
<1> HIDE DEF locked, rest
<1>15. /\ Cardinality(locked) % MODULUS = Cardinality(locked)
       /\ Cardinality(rest) % MODULUS = Cardinality(rest)
       /\ IsFiniteSet(locked) /\ IsFiniteSet(rest)
       /\ Cardinality(rest) \in Nat /\ Cardinality(locked) \in Nat
       /\ locked \subseteq Frame /\ rest \subseteq Frame
  <2>1. 0 .. LastBit(blank) \subseteq Frame
    BY <1>1, <1>3, MapsAssumption DEF Frame
  <2>2. locked \in SUBSET Frame /\ rest \in SUBSET Frame  BY <1>13, <1>14, <2>1
  <2> QED  BY <2>2, CountFits
<1>16. a.bits \ (locked \cup found) = rest
  BY <1>9, <1>12, <1>14
<1>17. a.used_memory = Cardinality(locked) /\ a.reserved_memory = Cardinality(rest)
  BY <1>9, <1>12, <1>15
<1>18. found \subseteq a.bits  BY <1>9, <1>12
<1>20. a.bits \ found \subseteq Frame
       /\ a.free_memory = (m - Cardinality(a.bits \ found)) % MODULUS
  <2>2. a.bits \ found = locked \cup rest /\ locked \cap rest = {}
    BY <1>9, <1>12, <1>13, <1>14
  <2>3. Cardinality(a.bits \ found) = Cardinality(locked) + Cardinality(rest)
    BY <1>15, <2>2, DisjointSum
  <2> DEFINE l == Cardinality(locked)
             n == Cardinality(rest)
  <2>4. l \in Int /\ n \in Int /\ m \in Nat
    BY <1>15, MemorySizeType DEF m
  <2> HIDE DEF l, n
  <2>7. (((m - l) % MODULUS) - n) % MODULUS = (m - (l + n)) % MODULUS
    BY <2>4, ModLess
  <2>8. a.free_memory = (((m - l) % MODULUS) - n) % MODULUS
    BY <1>9, <1>12 DEF l, n
  <2>9. Cardinality(a.bits \ found) = l + n  BY <2>3 DEF l, n
  <2> QED  BY <1>15, <2>2, <2>7, <2>8, <2>9
<1>19. locked = ClearPages(BlankAllocator(map, found),
                  AllocatorFrame .. AllocatorFrame + BitmapSize(map) \div FRAME_BYTES)
  BY <1>6 DEF locked, blank, size
<1> QED  BY <1>13, <1>16, <1>17, <1>18, <1>19, <1>20 DEF a, m

(* A call that takes clear bits for somebody counts them as used. *)
LEMMA CountedUp ==
  ASSUME WideCounters, TruthInv, HoldersInv', initialized, NEW fresh,
         fresh \cap allocator.bits = {}, fresh \subseteq Frame,
         UNCHANGED <<memory_map, initialized, stale>>,
         allocator'.bits = allocator.bits \cup fresh,
         Used' = Used \cup fresh,
         allocator'.used_memory = (allocator.used_memory + Cardinality(fresh)) % MODULUS,
         allocator'.free_memory = (allocator.free_memory - Cardinality(fresh)) % MODULUS,
         allocator'.reserved_memory = allocator.reserved_memory
  PROVE  TruthInv'
<1>1. /\ Used \subseteq allocator.bits /\ Used \subseteq Frame
      /\ stale \subseteq allocator.bits
  BY DEF TruthInv, HoldersInv, Used, granted
<1>2. /\ Used \in SUBSET Frame /\ fresh \in SUBSET Frame /\ Counted \in SUBSET Frame
      /\ Used \cup fresh \in SUBSET Frame
      /\ Counted' = Counted \cup fresh /\ Counted \cap fresh = {}
      /\ Used \cap fresh = {}
  BY <1>1 DEF TruthInv, Counted
<1>3. /\ IsFiniteSet(Used) /\ IsFiniteSet(fresh) /\ IsFiniteSet(Counted)
      /\ Cardinality(Used) \in Nat /\ Cardinality(fresh) \in Nat
      /\ Cardinality(Counted) \in Nat
      /\ Cardinality(Used \cup fresh) % MODULUS = Cardinality(Used \cup fresh)
  BY <1>2, CountFits
<1>4. /\ Cardinality(Used \cup fresh) = Cardinality(Used) + Cardinality(fresh)
      /\ Cardinality(Counted') = Cardinality(Counted) + Cardinality(fresh)
  BY <1>2, <1>3, DisjointSum
<1>5. allocator'.used_memory = Cardinality(Used')
  BY <1>3, <1>4 DEF TruthInv
<1>6. Reserved' = Reserved  BY <1>1 DEF Reserved
<1>7. allocator'.free_memory
        = (get_memory_size(memory_map) - Cardinality(Counted')) % MODULUS
  <2>1. allocator'.free_memory
          = (((get_memory_size(memory_map) - Cardinality(Counted)) % MODULUS)
               - Cardinality(fresh)) % MODULUS
    BY DEF TruthInv
  <2>2. get_memory_size(memory_map) \in Nat
    BY MemorySizeType DEF TruthInv, HoldersInv
  <2> QED  BY <1>3, <1>4, <2>1, <2>2, ModLess
<1>8. Counted' \subseteq Frame  BY <1>2
<1> QED  BY <1>5, <1>6, <1>7, <1>8 DEF TruthInv

(* A call that frees what somebody was granted counts it no longer. *)
LEMMA CountedDown ==
  ASSUME WideCounters, TruthInv, HoldersInv', initialized, NEW pages,
         pages \subseteq Used,
         UNCHANGED <<memory_map, initialized, stale>>,
         allocator'.bits = allocator.bits \ pages,
         Used' = Used \ pages,
         allocator'.used_memory = (allocator.used_memory - Cardinality(pages)) % MODULUS,
         allocator'.free_memory = (allocator.free_memory + Cardinality(pages)) % MODULUS,
         allocator'.reserved_memory = allocator.reserved_memory
  PROVE  TruthInv'
<1>1. /\ Used \subseteq allocator.bits /\ Used \subseteq Frame
      /\ stale \subseteq allocator.bits /\ stale \cap Used = {}
  BY DEF TruthInv, HoldersInv, Used, granted
<1>2. /\ Used \ pages \in SUBSET Frame /\ pages \in SUBSET Frame
      /\ Counted' \in SUBSET Frame
      /\ Counted = Counted' \cup pages /\ Counted' \cap pages = {}
      /\ Used = (Used \ pages) \cup pages /\ (Used \ pages) \cap pages = {}
  BY <1>1 DEF TruthInv, Counted
<1> DEFINE left == Used \ pages
<1>3. /\ IsFiniteSet(left) /\ IsFiniteSet(pages) /\ IsFiniteSet(Counted')
      /\ Cardinality(left) \in Nat /\ Cardinality(pages) \in Nat
      /\ Cardinality(Counted') \in Nat
      /\ Cardinality(left) % MODULUS = Cardinality(left)
  BY <1>2, CountFits
<1>4. Cardinality(Counted) = Cardinality(Counted') + Cardinality(pages)
  BY <1>2, <1>3, DisjointSum
<1>5. Cardinality(Used) = Cardinality(left) + Cardinality(pages)
  <2> HIDE DEF left
  <2>1. Used = left \cup pages /\ left \cap pages = {}  BY <1>2 DEF left
  <2> QED  BY <1>3, <2>1, DisjointSum
<1>6. allocator'.used_memory = Cardinality(Used')
  <2>1. Cardinality(Used) - Cardinality(pages) = Cardinality(left)
    BY <1>3, <1>5
  <2> QED  BY <1>3, <2>1 DEF TruthInv
<1>7. Reserved' = Reserved  BY DEF Reserved
<1>8. allocator'.free_memory
        = (get_memory_size(memory_map) - Cardinality(Counted')) % MODULUS
  <2> DEFINE n == -Cardinality(pages)
             c == Cardinality(Counted)
             d == Cardinality(Counted')
  <2>1. get_memory_size(memory_map) \in Nat
    BY MemorySizeType DEF TruthInv, HoldersInv
  <2>2. n \in Int /\ c \in Int /\ d \in Int /\ d = c + n  BY <1>3, <1>4
  <2>3. allocator.free_memory = (get_memory_size(memory_map) - c) % MODULUS
    BY DEF TruthInv
  <2>4. allocator.free_memory \in Int
    <3>1. MODULUS \in Nat \ {0}  BY FramesAssumption
    <3> HIDE DEF c
    <3> QED  BY <2>1, <2>2, <2>3, <3>1
  <2>5. allocator'.free_memory = (allocator.free_memory - n) % MODULUS
    <3>1. allocator.free_memory - n = allocator.free_memory + Cardinality(pages)
      BY <1>3, <2>4
    <3> QED  BY <3>1
  <2> HIDE DEF n, c, d
  <2>6. allocator'.free_memory = (get_memory_size(memory_map) - d) % MODULUS
    BY <2>1, <2>2, <2>3, <2>5, ModLess
  <2> QED  BY <2>6 DEF d
<1>9. Counted' \subseteq Frame  BY <1>2
<1> QED  BY <1>6, <1>7, <1>8, <1>9 DEF TruthInv

LEMMA TruthNext ==
  ASSUME WideCounters, TruthInv, [ClientNext]_clientVars
  PROVE  TruthInv'
<1>1. HoldersInv /\ HoldersInv'  BY HoldersInvNext DEF TruthInv
<1>2. CASE ClientBoot
  <2>1. PICK found \in SUBSET {BitmapSize(memory_map) * BITS} :
          stale' = found /\ allocator' = AllocatorOf(memory_map, found)
    BY <1>2 DEF ClientBoot, pfallocator_read_efi_memory_map
  <2> DEFINE locked == ClearPages(BlankAllocator(memory_map, found),
                         AllocatorFrame ..
                           AllocatorFrame + BitmapSize(memory_map) \div FRAME_BYTES)
  <2>2. /\ pinned' = locked /\ grants' = grants /\ ~initialized
        /\ memory_map' = memory_map
    BY <1>2, <2>1 DEF ClientBoot, pfallocator_read_efi_memory_map
  <2>3. Used' = locked
    BY <1>1, <2>2 DEF Used, granted, HoldersInv
  <2>4. memory_map \in MemoryMaps  BY <1>1 DEF HoldersInv
  <2>5. /\ allocator'.used_memory = Cardinality(locked)
        /\ allocator'.reserved_memory
             = Cardinality(allocator'.bits \ (locked \cup found))
        /\ allocator'.bits \ found \subseteq Frame
        /\ allocator'.free_memory
             = (get_memory_size(memory_map)
                  - Cardinality(allocator'.bits \ found)) % MODULUS
    BY <2>1, <2>4, BootTruthful
  <2> HIDE DEF locked
  <2>6. Counted' = allocator'.bits \ found  BY <2>1 DEF Counted
  <2>7. Reserved' = allocator'.bits \ (locked \cup found)
    BY <2>1, <2>3 DEF Reserved
  <2> QED  BY <1>1, <2>2, <2>3, <2>5, <2>6, <2>7 DEF TruthInv
<1>3. /\ WellFormed(allocator) /\ allocator \in Allocator
      /\ Used \subseteq allocator.bits
  BY <1>1 DEF WellFormed, HoldersInv, Used
<1>4. ASSUME NEW pages \in SUBSET Frame, initialized,
             UNCHANGED <<memory_map, initialized, stale>>,
             allocator' = pfallocator_lock_pages(allocator, pages),
             Used' = Used \cup ClearPages(allocator, pages)
      PROVE  TruthInv'
  <2> DEFINE fresh == ClearPages(allocator, pages)
  <2>1. /\ allocator'.bits = allocator.bits \cup fresh
        /\ allocator'.used_memory
             = (allocator.used_memory + Cardinality(fresh)) % MODULUS
        /\ allocator'.free_memory
             = (allocator.free_memory - Cardinality(fresh)) % MODULUS
        /\ allocator'.reserved_memory = allocator.reserved_memory
    BY <1>3, <1>4 DEF pfallocator_lock_pages, Allocator
  <2>2. fresh \cap allocator.bits = {} /\ fresh \subseteq Frame
    <3>1. pages \in SUBSET Nat  BY <1>4, MapsAssumption DEF Frame
    <3>2. fresh \cap allocator.bits = {}  BY <1>3, <3>1, ClearPagesFacts
    <3> QED  BY <1>4, <3>2 DEF ClearPages
  <2> HIDE DEF fresh
  <2>3. Used' = Used \cup fresh  BY <1>4 DEF fresh
  <2> QED  BY <1>1, <1>4, <2>1, <2>2, <2>3, CountedUp
<1>5. ASSUME NEW pages \in PageRanges
      PROVE  pages \in SUBSET Frame
  BY MapsAssumption DEF PageRanges, Frame
<1>6. CASE ClientRequest
  <2>1. /\ initialized /\ UNCHANGED <<memory_map, initialized, stale>>
        /\ pinned' = pinned /\ RequestedPage(allocator) \in Frame
        /\ allocator' = pfallocator_request_page(allocator)
    BY <1>6 DEF ClientRequest, RequestPage
  <2>2. CASE FreeFrames(allocator) = {}
    <3>1. allocator' = allocator /\ grants' = grants
      BY <1>6, <2>1, <2>2
      DEF ClientRequest, pfallocator_request_page, RequestedPage
    <3> QED  BY <1>1, <2>1, <3>1 DEF TruthInv, Used, Reserved, Counted, granted
  <2>3. CASE FreeFrames(allocator) # {}
    <3> DEFINE f == RequestedPage(allocator)
    <3>1. /\ f \in 0 .. LastBit(allocator) - 1 /\ f \in Frame /\ f # NULL
          /\ f \notin allocator.bits /\ f \notin granted
      BY <1>1, <2>1, <2>3, RequestTakes
    <3>2. grants' = [grants EXCEPT ![f] = @ + 1]
      BY <1>6, <3>1 DEF ClientRequest
    <3>3. allocator' = pfallocator_lock_pages(allocator, {f})
      BY <2>1, <2>3 DEF pfallocator_request_page
    <3> HIDE DEF f
    <3>4. grants[f] = 0  BY <1>1, <3>1 DEF HoldersInv, granted
    <3>5. granted' = granted \cup {f}
      BY <1>1, <3>1, <3>2, <3>4 DEF HoldersInv, granted
    <3>6. {f} \in SUBSET Frame /\ ClearPages(allocator, {f}) = {f}
      <4>1. f \in Nat /\ f <= LastBit(allocator)
        BY <1>3, <3>1, FiniteBits
      <4> QED  BY <3>1, <4>1 DEF ClearPages, bitmap_get
    <3>7. Used' = Used \cup {f}  BY <2>1, <3>5 DEF Used
    <3> QED  BY <1>4, <2>1, <3>3, <3>6, <3>7
  <2> QED  BY <2>2, <2>3
<1>7. ASSUME NEW pages \in PageRanges, ClientLock(pages)  PROVE TruthInv'
  <2>1. /\ initialized /\ UNCHANGED <<memory_map, initialized, stale>>
        /\ grants' = grants
        /\ allocator' = pfallocator_lock_pages(allocator, pages)
        /\ pinned' = pinned \cup ClearPages(allocator, pages)
    BY <1>7 DEF ClientLock, LockPages
  <2>2. Used' = Used \cup ClearPages(allocator, pages)
    BY <2>1 DEF Used, granted
  <2> QED  BY <1>4, <1>5, <2>1, <2>2
<1>8. ASSUME NEW pages \in PageRanges, ClientFree(pages)  PROVE TruthInv'
  <2>1. /\ initialized /\ UNCHANGED <<memory_map, initialized, stale>>
        /\ pinned' = pinned /\ pages \subseteq granted
        /\ allocator' = pfallocator_free_pages(allocator, pages)
        /\ grants' = [f \in Frame |->
                        IF f \in pages THEN grants[f] - 1 ELSE grants[f]]
    BY <1>8 DEF ClientFree, FreePages
  <2>2. \A f \in pages : f \in Frame /\ grants[f] = 1
    BY <1>1, <2>1 DEF HoldersInv, granted
  <2>3. granted' = granted \ pages
    BY <1>1, <2>1, <2>2 DEF HoldersInv, granted
  <2>4. Used' = Used \ pages /\ pages \subseteq Used
    BY <1>1, <2>1, <2>3 DEF Used, HoldersInv
  <2>5. SetPages(allocator, pages) = pages
    <3>1. \A p \in allocator.bits : p <= LastBit(allocator)
      BY <1>3, <2>1, FiniteBits DEF WellFormed
    <3> QED  BY <1>3, <2>1, <2>4, <3>1 DEF SetPages, bitmap_get
  <2>6. /\ allocator'.bits = allocator.bits \ pages
        /\ allocator'.used_memory
             = (allocator.used_memory - Cardinality(pages)) % MODULUS
        /\ allocator'.free_memory
             = (allocator.free_memory + Cardinality(pages)) % MODULUS
        /\ allocator'.reserved_memory = allocator.reserved_memory
    BY <1>3, <2>1, <2>5 DEF pfallocator_free_pages, Allocator
  <2> QED  BY <1>1, <2>1, <2>4, <2>6, CountedDown
<1>9. CASE ClientInitManager
  <2>1. UNCHANGED <<memory_map, initialized, grants, pinned>>
    BY <1>9 DEF ClientInitManager
  <2>2. PICK found \in SUBSET (LastBit(allocator) + 1 .. LastBit(allocator')) :
          allocator'.bits = allocator.bits \cup found /\ stale' = stale \cup found
    BY <1>1, <1>9, InitManagerMoves
  <2>3. /\ allocator'.free_memory = allocator.free_memory
        /\ allocator'.used_memory = allocator.used_memory
        /\ allocator'.reserved_memory = allocator.reserved_memory
        /\ LastBit(allocator) \in Nat /\ LastBit(allocator') \in Nat
    BY <1>1, <1>9, InitManagerMoves, HoldersFacts
  <2>4. allocator.bits \cap found = {}
    BY <1>3, <2>2, <2>3 DEF WellFormed
  <2>5. Used' = Used /\ Counted' = Counted /\ Reserved' = Reserved
    BY <1>3, <2>1, <2>2, <2>4 DEF Used, Counted, Reserved, granted
  <2> QED  BY <1>1, <2>1, <2>3, <2>5 DEF TruthInv
<1>10. CASE ClientOverwrite \/ UNCHANGED clientVars
  <2>1. UNCHANGED <<memory_map, initialized, allocator, stale, grants, pinned>>
    BY <1>10 DEF ClientOverwrite, clientVars
  <2> QED  BY <1>1, <2>1 DEF TruthInv, Used, Reserved, Counted, granted
<1> QED  BY <1>2, <1>6, <1>7, <1>8, <1>9, <1>10 DEF ClientNext

(* As long as callers free only what they hold, get_used_memory and        *)
(* get_reserved_memory tell the truth, also after ptmanager_init, for      *)
(* every map and every sequence of calls, on counters wide enough to count *)
(* frames; get_free_memory is what they leave of the sum of the sizes, and *)
(* wraps exactly when they leave less than nothing.                        *)
THEOREM CountersTellTruth ==
  ASSUME WideCounters
  PROVE  ClientSpec => []CountersTruthful
<1>1. TruthInv => CountersTruthful
  <2> SUFFICES ASSUME TruthInv  PROVE CountersTruthful  OBVIOUS
  <2> DEFINE m == get_memory_size(memory_map)
             c == Cardinality(Counted)
             left == m - c
  <2>1. m \in Nat /\ m < MODULUS  BY SizeFits DEF TruthInv, HoldersInv
  <2>2. c \in Nat /\ c < MODULUS  BY CountFits DEF TruthInv
  <2>3. MODULUS \in Nat \ {0}  BY FramesAssumption
  <2>4. left % MODULUS = IF left >= 0 THEN left ELSE left + MODULUS
    <3> HIDE DEF m, c
    <3>1. CASE left >= 0
      <4>1. left \in 0 .. MODULUS - 1  BY <2>1, <2>2, <2>3, <3>1
      <4> QED  BY <2>3, <3>1, <4>1, SmallMod
    <3>2. CASE left < 0
      <4>1. left \in Int /\ -MODULUS < left  BY <2>1, <2>2, <2>3
      <4> HIDE DEF left
      <4> QED  BY <2>3, <3>2, <4>1, WrappedMod
    <3> QED  BY <2>1, <2>2, <3>1, <3>2
  <2>5. initialized => allocator.free_memory = left % MODULUS  BY DEF TruthInv
  <2> QED
    BY <2>4, <2>5 DEF TruthInv, CountersTruthful, Used, Reserved, Counted
<1>2. TruthInv /\ [ClientNext]_clientVars => TruthInv'
  BY TruthNext
<1> QED  BY <1>1, <1>2, TruthInit, PTL DEF ClientSpec
=============================================================================
