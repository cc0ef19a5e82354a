----------------------------- MODULE FrameClients -----------------------------
(***************************************************************************)
(* The page-frame allocator and the kernel code that calls it, as          *)
(* kinit_init_memory, ptmanager_map_memory and heap.c do: pages are locked *)
(* by address (the kernel image, the framebuffer), and frames are taken    *)
(* with pfallocator_request_page, used whatever it returned (no caller     *)
(* tests for NULL) and freed, if ever, by the one who holds them.  The     *)
(* functions with a __ prefix are called by the allocator alone.           *)
(*                                                                         *)
(* One call changes the allocator behind its back.  The page-table manager *)
(* and the allocator's struct both lie at address 0, so ptmanager_init     *)
(* (init.c:47) writes the address of the root table over page_bitmap.size: *)
(* from then on the bitmap is as long as the root's address says.  That is *)
(* longer than the map called for: the pages locked when the map was read  *)
(* are those from 0 to size / 4096, so the root's lies above them.         *)
(*                                                                         *)
(* The bitmap's buffer lies in a conventional segment, and the lock that   *)
(* should keep its frames (allocator.c:39) is given the address of the     *)
(* struct instead: a request may return a frame of the buffer, and a       *)
(* bitmap grown longer reaches memory that was granted already or is not   *)
(* conventional.  The model follows the allocator until such memory is     *)
(* written to, and stops there, with intact = FALSE.                       *)
(***************************************************************************)
EXTENDS PageFrameAllocator

VARIABLES
  root,    \* the root table given to ptmanager_init, NULL before
  grants,  \* history: how many holders each frame has
  pinned,  \* history: the frames locked by address, the lock having taken
  refused, \* history: some request has returned NULL
  intact   \* nobody has written over the bitmap

clientVars ==
  <<memory_map, initialized, allocator, stale, root, grants, pinned, refused, intact>>

granted == {f \in Frame : grants[f] > 0}

(* The last bit of the bitmap as read from the map, and the frames of the  *)
(* bytes the bitmap functions reach now, the one after the buffer included.*)
FirstLastBit    == BitmapSize(memory_map) * BITS
ReachableFrames == LargestSegment(memory_map) ..
                     LargestSegment(memory_map) + allocator.size \div FRAME_BYTES

-----------------------------------------------------------------------------
(* pfallocator_read_efi_memory_map, called once from kinit_init_memory;    *)
(* what it locks itself counts as pinned.                                  *)
ClientBoot ==
  /\ pfallocator_read_efi_memory_map
  /\ pinned' = ClearPages(BlankAllocator(memory_map, stale'),
                 AllocatorFrame ..
                   AllocatorFrame + BitmapSize(memory_map) \div FRAME_BYTES)
  /\ UNCHANGED <<root, grants, refused, intact>>

(* pfallocator_lock_pages on the kernel image or on the framebuffer. *)
ClientLock(pages) ==
  /\ LockPages(pages)
  /\ pinned' = pinned \cup ClearPages(allocator, pages)
  /\ UNCHANGED <<root, grants, refused, intact>>

(* The caller takes a non-null answer for a frame of its own.  A bitmap    *)
(* grown longer may answer with an address MAX_FRAME does not reach: the   *)
(* model does not follow that request.                                     *)
ClientRequest ==
  /\ RequestedPage(allocator) \in Frame
  /\ RequestPage
  /\ IF RequestedPage(allocator) = NULL
       THEN refused' = TRUE /\ UNCHANGED grants
       ELSE /\ grants' = [grants EXCEPT ![RequestedPage(allocator)] = @ + 1]
            /\ UNCHANGED refused
  /\ UNCHANGED <<root, pinned, intact>>

(* ptmanager_init, once, with a frame requested and cleared (init.c:44-47; *)
(* clearing a frame of the bitmap would have ended the behaviour).  The    *)
(* bits the new bound adds are whatever memory holds behind the buffer,    *)
(* all clear or all set here.                                              *)
ClientInitManager ==
  /\ initialized /\ root = NULL
  /\ root' \in granted \ ReachableFrames
  /\ \E found \in {{}, LastBit(allocator) + 1 .. root' * FRAME_BYTES * BITS} :
       /\ allocator' = [allocator EXCEPT !.size = root' * FRAME_BYTES,
                                         !.bits = @ \cup found]
       /\ stale' = stale \cup found
  /\ UNCHANGED <<memory_map, initialized, grants, pinned, refused, intact>>

ClientFree(pages) ==
  /\ pages # {} /\ pages \subseteq granted
  /\ FreePages(pages)
  /\ grants' = [f \in Frame |-> IF f \in pages THEN grants[f] - 1 ELSE grants[f]]
  /\ UNCHANGED <<root, pinned, refused, intact>>

(* Somebody writes to memory the bitmap functions reach: the holder of a   *)
(* frame of it, or whoever uses what is not conventional memory.           *)
ClientOverwrite ==
  /\ initialized
  /\ ~(ReachableFrames \subseteq Conventional(memory_map) \ granted)
  /\ intact' = FALSE
  /\ UNCHANGED <<memory_map, initialized, allocator, stale, root, grants, pinned,
                 refused>>

ClientInit ==
  /\ Init
  /\ root = NULL
  /\ grants = [f \in Frame |-> 0]
  /\ pinned = {}
  /\ refused = FALSE
  /\ intact = TRUE

ClientNext ==
  /\ intact
  /\ \/ ClientBoot
     \/ ClientRequest
     \/ ClientInitManager
     \/ \E pages \in PageRanges : ClientLock(pages) \/ ClientFree(pages)
     \/ ClientOverwrite

ClientSpec == ClientInit /\ [][ClientNext]_clientVars

-----------------------------------------------------------------------------
(* The variables keep their types, the bitmap has the size the map called  *)
(* for or, which is no less, the root's address, and no bit is set beyond  *)
(* the one after the buffer.                                               *)
ClientTypeOK ==
  /\ \E n \in 0 .. MAX_DESCRIPTORS : memory_map \in [1 .. n -> Descriptor]
  /\ initialized \in BOOLEAN /\ refused \in BOOLEAN /\ intact \in BOOLEAN
  /\ allocator \in Allocator
  /\ initialized =>
       allocator.size = IF root = NULL THEN BitmapSize(memory_map)
                        ELSE root * FRAME_BYTES
  /\ initialized => FirstLastBit <= LastBit(allocator)
  /\ allocator.bits \subseteq 0 .. LastBit(allocator)
  /\ stale \subseteq allocator.bits
  /\ root \in Frame
  /\ grants \in [Frame -> Nat]
  /\ pinned \subseteq Frame

(* No frame has two holders: between the request that returned it and the  *)
(* call that frees it, pfallocator_request_page does not return it again.  *)
GrantedOnce == \A f \in Frame : grants[f] <= 1

(* The initialisation reserves the pages of every descriptor that is       *)
(* neither conventional nor reserved (loader and kernel image, runtime     *)
(* services, ACPI tables, memory-mapped I/O), as far as the first bitmap   *)
(* goes.  A request returns such a page only after ptmanager_init has made *)
(* the bitmap longer, and then only one above the first bitmap: where the  *)
(* first bitmap reached, neither locks, frees nor the moved bound undo the *)
(* reservation.                                                            *)
FirmwareBeyondFirstBitmap ==
  \A f \in granted \cap FramesOfType(memory_map, {"mmio", "other"}) :
    root # NULL /\ f > FirstLastBit

(* The counters as long as callers free only what they hold, also after    *)
(* the bound has moved.  get_used_memory and get_reserved_memory never     *)
(* wrap: used memory is the frames granted or pinned, reserved memory the  *)
(* other bits set, those found in memory not counted.  get_free_memory is  *)
(* what they leave of the sum of the descriptors' sizes, not the number of *)
(* free frames: holes, reserved-type pages and memory-mapped I/O taken are *)
(* subtracted from a sum they are not part of, and it wraps once more      *)
(* pages are counted than the sum has.                                     *)
CountersTruthful ==
  LET left == get_memory_size(memory_map) - Cardinality(allocator.bits \ stale)
  IN  /\ allocator.used_memory = Cardinality(granted \cup pinned)
      /\ allocator.reserved_memory
           = Cardinality(allocator.bits \ (granted \cup pinned \cup stale))
      /\ initialized =>
           allocator.free_memory = IF left >= 0 THEN left ELSE left + MODULUS

(* The allocator, as its callers see it, is a pool of frames: a null       *)
(* answer means that no frame is left (frame 0 is never in the pool,       *)
(* because the lock meant for the bitmap covers frame 0), a granted frame  *)
(* was in the pool, and a freed frame is back in it.  The pool is replaced *)
(* once, by one that holds no granted frame.                               *)
Pool == INSTANCE PagePool WITH
          Frames   <- Nat,
          opened   <- initialized,
          replaced <- root # NULL,
          pool     <- IF initialized THEN FreeFrames(allocator) ELSE {}

IsPagePool == Pool!Spec

(* init.c:41 "Map read and system memory reserved!": the memory the        *)
(* firmware reports as reserved is not handed out.  The code skips         *)
(* EFI_RESERVED_MEMORY_TYPE where it reserves pages.                       *)
SystemMemoryReserved ==
  granted \cap FramesOfType(memory_map, {"reserved"}) = {}
=============================================================================
