-------------------------- MODULE PageFrameAllocator --------------------------
(***************************************************************************)
(* The page-frame allocator as a state machine: its initialisation from    *)
(* the memory map (pfallocator_read_efi_memory_map), then any sequence of  *)
(* calls of its functions on any range of pages.  The kernel is single-    *)
(* threaded and runs with no interrupt handler of its own, so a call is    *)
(* one step.                                                               *)
(***************************************************************************)
EXTENDS MemoryMap

VARIABLES
  memory_map,   \* the map the kernel was entered with; never changes
  initialized,  \* the static guard of pfallocator_read_efi_memory_map
  allocator,    \* bitmap and counters, an element of Allocator
  stale         \* history: the bits found set in the byte after the bitmap

vars == <<memory_map, initialized, allocator, stale>>

(* Ranges an address and a page count of a call can denote. *)
PageRanges == {lo .. hi : lo, hi \in Frame}

-----------------------------------------------------------------------------
pfallocator_read_efi_memory_map ==
  /\ ~initialized
  /\ initialized' = TRUE
  /\ \E found \in SUBSET {BitmapSize(memory_map) * BITS} :
       /\ stale' = found
       /\ allocator' = AllocatorOf(memory_map, found)
  /\ UNCHANGED memory_map

-----------------------------------------------------------------------------
(* The functions of allocator.h.                                           *)

LockPages(pages) ==
  /\ initialized
  /\ allocator' = pfallocator_lock_pages(allocator, pages)
  /\ UNCHANGED <<memory_map, initialized, stale>>

FreePages(pages) ==
  /\ initialized
  /\ allocator' = pfallocator_free_pages(allocator, pages)
  /\ UNCHANGED <<memory_map, initialized, stale>>

ReservePages(pages) ==
  /\ initialized
  /\ allocator' = reserve_pages(allocator, pages)
  /\ UNCHANGED <<memory_map, initialized, stale>>

ReleasePages(pages) ==
  /\ initialized
  /\ allocator' = release_pages(allocator, pages)
  /\ UNCHANGED <<memory_map, initialized, stale>>

RequestPage ==
  /\ initialized
  /\ allocator' = pfallocator_request_page(allocator)
  /\ UNCHANGED <<memory_map, initialized, stale>>

Init ==
  /\ memory_map \in MemoryMaps
  /\ initialized = FALSE
  /\ allocator = [size |-> 0, bits |-> {}, free_memory |-> 0,
                  used_memory |-> 0, reserved_memory |-> 0]
  /\ stale = {}

Next ==
  \/ pfallocator_read_efi_memory_map
  \/ RequestPage
  \/ \E pages \in PageRanges : \/ LockPages(pages)
                               \/ FreePages(pages)
                               \/ ReservePages(pages)
                               \/ ReleasePages(pages)

Spec == Init /\ [][Next]_vars

-----------------------------------------------------------------------------
(* The counters stay counters, the bitmap keeps the size it got, and no    *)
(* bit is set beyond the one after the buffer.                             *)
TypeOK ==
  /\ memory_map \in MemoryMaps
  /\ initialized \in BOOLEAN
  /\ allocator \in Allocator
  /\ allocator.bits \subseteq 0 .. LastBit(allocator)
  /\ initialized => allocator.size = BitmapSize(memory_map)
  /\ stale \subseteq {LastBit(allocator)}

(* Whatever the calls, a page that leaves one counter enters another: the  *)
(* three counters of allocator.c always add up to get_memory_size, modulo  *)
(* 2^64 bytes, because every path that changes one changes two.            *)
CountersConserveMemory ==
  initialized =>
    (allocator.free_memory + allocator.used_memory + allocator.reserved_memory)
      % MODULUS = get_memory_size(memory_map) % MODULUS

(* Whatever the calls, even a page freed by one function after it was set  *)
(* by another, used plus reserved memory is the number of set bits, modulo *)
(* 2^64 bytes: a counter moves exactly when a bit flips.  The bit found    *)
(* set after the buffer at initialisation was never counted.               *)
CountersCountBits ==
  (allocator.used_memory + allocator.reserved_memory + Cardinality(stale))
    % MODULUS = Cardinality(allocator.bits) % MODULUS
=============================================================================
