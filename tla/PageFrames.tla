------------------------------ MODULE PageFrames ------------------------------
(***************************************************************************)
(* The page-frame allocator of memory/paging/page_frame_allocator and the  *)
(* bitmap it keeps (memory/bitmap.c), as operators on one value: a record  *)
(* holding the bitmap and the three global counters.  Modules that need    *)
(* the allocator (its own state machine, the page tables, kernel           *)
(* initialisation) keep such a record in a variable and apply these        *)
(* operators to it.                                                        *)
(*                                                                         *)
(* Units.  An address of the code is a frame number here: every function   *)
(* of allocator.c divides its address by 4096 before using it, and adds    *)
(* multiples of 4096 to step to the next page.  The counters hold bytes in *)
(* the code, always multiples of 4096, so they are counted in frames       *)
(* modulo MODULUS (2^64 \div 4096).                                        *)
(*                                                                         *)
(* The bitmap is the set of the indexes whose bit is 1; module Bitmap      *)
(* shows that the byte buffer with its masks implements such a set.  The   *)
(* set may hold index size * BITS, the first bit of the byte AFTER the     *)
(* buffer, because the bound of bitmap_get and bitmap_set lets it through. *)
(***************************************************************************)
EXTENDS Integers, FiniteSets

CONSTANTS
  BITS,         \* bits in a byte of the bitmap (8 in the code)
  FRAME_BYTES,  \* bytes in a frame (4096 in the code)
  MODULUS       \* the counters count frames modulo this (2^52 in the code)

ASSUME FramesAssumption ==
  /\ BITS \in Nat \ {0}
  /\ FRAME_BYTES \in Nat \ {0}
  /\ MODULUS \in Nat \ {0}

(* The null pointer, which is also the address of frame 0. *)
NULL == 0

Counter == 0 .. MODULUS - 1

Allocator == [size            : Nat,
              bits            : SUBSET Nat,
              free_memory     : Counter,
              used_memory     : Counter,
              reserved_memory : Counter]

-----------------------------------------------------------------------------
(* bitmap.c                                                                *)

(* bitmap_get and bitmap_set refuse an index above this one. *)
LastBit(a) == a.size * BITS

bitmap_get(a, index) == index <= LastBit(a) /\ index \in a.bits

(* Mutant: no bound on the index of bitmap_set. *)
UnboundedClearPages(a, pages) == {p \in pages : ~bitmap_get(a, p)}

(* The pages of a set whose bit is clear, resp. set, and can be written:   *)
(* the ones for which both bitmap_get lets the caller go on and bitmap_set *)
(* returns true.                                                           *)
ClearPages(a, pages) == {p \in pages : p <= LastBit(a) /\ ~bitmap_get(a, p)}
SetPages(a, pages)   == {p \in pages : bitmap_get(a, p)}

-----------------------------------------------------------------------------
(* allocator.c: each operator is the whole loop of the function over the   *)
(* distinct pages of its range.                                            *)

(* Mutant: free memory is not debited. *)
LockWithoutDebit(a, pages) ==
  LET fresh == ClearPages(a, pages)
  IN  [a EXCEPT !.bits        = @ \cup fresh,
                !.used_memory = (@ + Cardinality(fresh)) % MODULUS]

(* Mutant: a page already locked is counted again. *)
LockAgain(a, pages) ==
  LET n == Cardinality({p \in pages : p <= LastBit(a)})
  IN  [a EXCEPT !.bits        = @ \cup ClearPages(a, pages),
                !.free_memory = (@ - n) % MODULUS,
                !.used_memory = (@ + n) % MODULUS]

pfallocator_lock_pages(a, pages) ==
  LET fresh == ClearPages(a, pages)
      n     == Cardinality(fresh)
  IN  [a EXCEPT !.bits        = @ \cup fresh,
                !.free_memory = (@ - n) % MODULUS,
                !.used_memory = (@ + n) % MODULUS]

(* Mutant: the body of release_pages. *)
FreeFromReserved(a, pages) ==
  LET held == SetPages(a, pages)
      n    == Cardinality(held)
  IN  [a EXCEPT !.bits            = @ \ held,
                !.free_memory     = (@ + n) % MODULUS,
                !.reserved_memory = (@ - n) % MODULUS]

pfallocator_free_pages(a, pages) ==
  LET held == SetPages(a, pages)
      n    == Cardinality(held)
  IN  [a EXCEPT !.bits        = @ \ held,
                !.free_memory = (@ + n) % MODULUS,
                !.used_memory = (@ - n) % MODULUS]

reserve_pages(a, pages) ==
  LET fresh == ClearPages(a, pages)
      n     == Cardinality(fresh)
  IN  [a EXCEPT !.bits            = @ \cup fresh,
                !.free_memory     = (@ - n) % MODULUS,
                !.reserved_memory = (@ + n) % MODULUS]

release_pages(a, pages) ==
  LET held == SetPages(a, pages)
      n    == Cardinality(held)
  IN  [a EXCEPT !.bits            = @ \ held,
                !.free_memory     = (@ + n) % MODULUS,
                !.reserved_memory = (@ - n) % MODULUS]

(* The frames pfallocator_request_page searches: index < size * 8. *)
FreeFrames(a) == {f \in 0 .. LastBit(a) - 1 : ~bitmap_get(a, f)}

(* What pfallocator_request_page returns: the lowest frame whose bit is    *)
(* clear, or NULL when there is none.                                      *)
RequestedPage(a) ==
  LET free == FreeFrames(a)
  IN  IF free = {} THEN NULL
      ELSE CHOOSE f \in free : \A g \in free : f <= g

(* Mutant: the frame is returned and not locked. *)
RequestWithoutLock(a) == a

(* ... and the allocator it leaves. *)
pfallocator_request_page(a) ==
  IF FreeFrames(a) = {}
    THEN a
    ELSE pfallocator_lock_pages(a, {RequestedPage(a)})
=============================================================================
