---------------------------------- MODULE Heap ----------------------------------
(***************************************************************************)
(* memory/heap.c: a list of segments, each a header followed by its bytes, *)
(* in pages mapped one behind the other.                                   *)
(*                                                                         *)
(* `header' is memory read as headers: of the segments of the list, and of *)
(* address 0.  heapseg_split writes the field `last' of segment->next and  *)
(* heapseg_combine_forward reads the length of segment->next without       *)
(* testing it: when it is NULL they write and read address 0, where the    *)
(* kernel image and the allocator's struct lie, whose first word is the    *)
(* address of the root page table.                                         *)
(***************************************************************************)
EXTENDS Integers, FiniteSets

CONSTANTS
  GRAIN,        \* sizes are rounded up to it (0x10)
  HEADER,       \* sizeof(HEAP_SEGMENT_HEADER) (32)
  PAGE,         \* 0x1000
  MODULUS,      \* of size_t (2^64)
  TABLES,       \* frames that mapping one page may take for tables (3)
  FRAMES,       \* frames there are for the heap and its tables
  HeapAddresses, PageCounts,  \* what heap_init may be given
  Requests,     \* sizes asked of malloc
  Roots         \* the addresses the root page table may have

ASSUME HeapAssumption ==
  /\ GRAIN \in Nat \ {0} /\ HEADER \in Nat \ {0} /\ PAGE \in Nat
  /\ PAGE >= HEADER + GRAIN
  /\ MODULUS \in Nat /\ MODULUS >= PAGE /\ TABLES \in Nat /\ FRAMES \in Nat
  /\ HeapAddresses \subseteq Nat \ {0}
  /\ PageCounts \subseteq Nat \ {0}
  /\ Requests \subseteq 0 .. MODULUS - 1
  /\ Roots \subseteq Nat

NULL == 0

VARIABLES
  heap_start, heap_end,
  list,      \* header and last: the headers in memory, and heap_last_header
  frames,    \* frames not yet taken
  pc,        \* where malloc is; "ready" between two calls
  asked,     \* the argument of the call of malloc in progress
  size,      \* the same after rounding
  current_segment

(* History: the blocks clients hold, with the sizes they asked for, and    *)
(* whether free was ever called.                                           *)
VARIABLES held, freed

call == <<asked, size, current_segment>>
history == <<held, freed>>
vars == <<heap_start, heap_end, list, frames, pc, call, history>>

Header == [length : Nat, next : Nat, last : Nat, free : BOOLEAN]

Segments == DOMAIN list.header \ {NULL}

-----------------------------------------------------------------------------
(* malloc's rounding, in the arithmetic of size_t. *)
Rounded(n) ==
  (IF n % GRAIN > 0 THEN n - (n % GRAIN) + GRAIN ELSE n) % MODULUS

(* heap_expand's: the pages of a segment of n bytes, header included. *)
PagesFor(n) == ((n + PAGE - 1) % MODULUS) \div PAGE

(* A header behind the first length bytes of a segment, for the rest. *)
SplitAt(l, segment, length, rest) ==
  LET next == l.header[segment].next
      new  == segment + length + HEADER
  IN  [header |-> [a \in DOMAIN l.header \cup {new} |->
         IF a = new THEN [length |-> rest, next |-> next, last |-> segment,
                          free |-> l.header[segment].free]
         ELSE IF a = segment THEN [l.header[a] EXCEPT !.next = new, !.length = length]
         ELSE IF a = next THEN [l.header[a] EXCEPT !.last = new]
         ELSE l.header[a]],
       last |-> IF l.last = segment THEN new ELSE l.last]

(* Mutant: the new header is not taken off the rest. *)
SplitWithoutHeader(l, segment, length) ==
  LET rest == l.header[segment].length - length
  IN  IF length < GRAIN \/ rest < GRAIN THEN l ELSE SplitAt(l, segment, length, rest)

(* Mutant: the rest may be too small for a header. *)
SplitAnyRest(l, segment, length) ==
  LET rest == l.header[segment].length - length - HEADER
  IN  IF length < GRAIN THEN l ELSE SplitAt(l, segment, length, rest)

(* Mutant: heap_last_header is not updated. *)
SplitKeepingLast(l, segment, length) ==
  LET rest == l.header[segment].length - length - HEADER
  IN  IF length < GRAIN \/ rest < GRAIN THEN l
      ELSE [SplitAt(l, segment, length, rest) EXCEPT !.last = l.last]

heapseg_split(l, segment, length) ==
  LET rest == l.header[segment].length - length - HEADER
  IN  IF length < GRAIN \/ rest < GRAIN THEN l ELSE SplitAt(l, segment, length, rest)

(* The length becomes that of the segment behind the one absorbed, plus a  *)
(* header.  The header absorbed is memory again.                           *)
heapseg_combine_forward(l, segment) ==
  LET next  == l.header[segment].next
      after == l.header[next].next
  IN  IF next = NULL \/ ~l.header[next].free THEN l
      ELSE [header |-> [a \in DOMAIN l.header \ {next} |->
              IF a = segment
                THEN [l.header[a] EXCEPT !.next = after,
                                         !.length = l.header[after].length + HEADER]
              ELSE IF a = after /\ after # NULL THEN [l.header[a] EXCEPT !.last = segment]
              ELSE l.header[a]],
            last |-> IF next = l.last THEN segment ELSE l.last]

(* Absorbs the segment in front of it never, the one behind it again. *)
heapseg_combine_backward(l, segment) ==
  LET last == l.header[segment].last
  IN  IF last # NULL /\ l.header[last].free THEN heapseg_combine_forward(l, segment)
      ELSE l

(* A free segment behind the last one. *)
WithSegment(l, new, length) ==
  [header |-> [a \in DOMAIN l.header \cup {new} |->
     IF a = new THEN [length |-> length, next |-> NULL, last |-> l.last, free |-> TRUE]
     ELSE IF a = l.last THEN [l.header[a] EXCEPT !.next = new]
     ELSE l.header[a]],
   last |-> new]

WithFree(l, segment, value) ==
  [header |-> [a \in DOMAIN l.header |->
     IF a = segment THEN [l.header[a] EXCEPT !.free = value] ELSE l.header[a]],
   last |-> l.last]

(* Mutant: the segment is granted and stays free. *)
LeftFree(l, segment) == l

Taken(l, segment) == WithFree(l, segment, FALSE)

(* Where a segment ends, and where its memory does: at the next segment,   *)
(* or with the heap.                                                       *)
EndOf(l, s)      == s + HEADER + l.header[s].length
Bound(l, s, end) == IF l.header[s].next = NULL THEN end ELSE l.header[s].next

-----------------------------------------------------------------------------
(* Mapping n pages, a frame each and some for tables.  No call tests the   *)
(* result of pfallocator_request_page: without a frame a page is mapped to *)
(* frame 0, and the heap's headers go over the kernel image ("lost").  For *)
(* n = 0, which heap_expand comes to when the number of pages wraps, no    *)
(* page is mapped and the header of the new segment goes to heap_end,      *)
(* which is not the heap's ("outside"): malloc, called again, then answers *)
(* NULL if its size was rounded to 0, and else walks on to that header.    *)
MapPages(n, next) ==
  \E used \in n .. n * (1 + TABLES) :
    /\ pc' = IF n = 0 THEN "outside" ELSE IF used > frames THEN "lost" ELSE next
    /\ frames' = IF used > frames THEN 0 ELSE frames - used

heap_init ==
  /\ pc = "off"
  /\ \E page_count \in PageCounts :
       /\ MapPages(page_count, "ready")
       /\ heap_end' = heap_start + page_count * PAGE
       /\ list' =
            [header |-> [a \in {NULL, heap_start} |->
               IF a = NULL THEN list.header[NULL]
               ELSE [length |-> page_count * PAGE - HEADER, next |-> NULL,
                     last |-> NULL, free |-> TRUE]],
             last |-> heap_start]
  /\ UNCHANGED <<heap_start, call, history>>

(* malloc up to its loop.  A size of 0 is answered NULL at once. *)
malloc(n) ==
  /\ pc = "ready"
  /\ n # 0
  /\ pc' = "walk"
  /\ asked' = n
  /\ size' = Rounded(n)
  /\ current_segment' = heap_start
  /\ UNCHANGED <<heap_start, heap_end, list, frames, history>>

(* Mutant: behind the last segment the walk begins again. *)
WalkInCircles ==
  /\ pc = "walk"
  /\ ~list.header[current_segment].free
  /\ current_segment' = IF list.header[current_segment].next = NULL
                          THEN heap_start ELSE list.header[current_segment].next
  /\ UNCHANGED <<pc, heap_start, heap_end, list, frames, asked, size, history>>

(* An iteration of the loop: the next segment, or none. *)
NextSegment ==
  /\ pc = "walk"
  /\ ~list.header[current_segment].free
  /\ IF list.header[current_segment].next = NULL
       THEN pc' = "expand" /\ UNCHANGED current_segment
       ELSE current_segment' = list.header[current_segment].next /\ UNCHANGED pc
  /\ UNCHANGED <<heap_start, heap_end, list, frames, asked, size, history>>

(* The loop's first free segment is taken, whatever its length.  When that *)
(* is less than what was asked the block is "short": its owner will write  *)
(* on behind it.  The call is over, and its variables with it.             *)
TakeSegment ==
  /\ pc = "walk"
  /\ list.header[current_segment].free
  /\ list' = Taken(IF list.header[current_segment].length > size
                     THEN heapseg_split(list, current_segment, size) ELSE list,
                   current_segment)
  /\ pc' = IF list'.header[current_segment].length >= asked THEN "ready" ELSE "short"
  /\ held' = [b \in DOMAIN held \cup {current_segment + HEADER} |->
                IF b = current_segment + HEADER THEN asked ELSE held[b]]
  /\ asked' = 0 /\ size' = 0 /\ current_segment' = NULL
  /\ UNCHANGED <<heap_start, heap_end, frames, freed>>

(* heap_expand, and malloc called again with the rounded size. *)
heap_expand ==
  /\ pc = "expand"
  /\ LET pages == PagesFor(size)
     IN  /\ MapPages(pages, "walk")
         /\ heap_end' = heap_end + pages * PAGE
         /\ list' = heapseg_combine_backward(
                      WithSegment(list, heap_end, (pages * PAGE - HEADER) % MODULUS),
                      heap_end)
  /\ current_segment' = heap_start
  /\ UNCHANGED <<heap_start, asked, size, history>>

(* free.  A segment that now reaches over the next one, or over the end of *)
(* the heap, is "overlong": memory somebody else has is free in the list.  *)
free(address) ==
  LET segment == address - HEADER
  IN  /\ pc = "ready"
      /\ address \in DOMAIN held
      /\ list' = heapseg_combine_backward(
                   heapseg_combine_forward(WithFree(list, segment, TRUE), segment),
                   segment)
      /\ pc' = IF EndOf(list', segment) <= Bound(list', segment, heap_end)
               THEN "ready" ELSE "overlong"
      /\ held' = [b \in DOMAIN held \ {address} |-> held[b]]
      /\ freed' = TRUE
      /\ UNCHANGED <<heap_start, heap_end, frames, call>>

Init ==
  /\ heap_start \in HeapAddresses /\ heap_end = heap_start
  /\ \E root \in Roots :
       list = [header |-> [a \in {NULL} |->
                 [length |-> root, next |-> NULL, last |-> NULL, free |-> FALSE]],
               last |-> NULL]
  /\ frames = FRAMES
  /\ pc = "off" /\ asked = 0 /\ size = 0 /\ current_segment = NULL
  /\ held = [b \in {} |-> 0] /\ freed = FALSE

Malloc == NextSegment \/ TakeSegment \/ heap_expand

Next ==
  \/ heap_init
  \/ \E n \in Requests : malloc(n)
  \/ Malloc
  \/ \E address \in DOMAIN held : free(address)

(* The processor goes on with a call of malloc; nothing obliges a client   *)
(* to make one.                                                            *)
Spec == Init /\ [][Next]_vars /\ WF_vars(Malloc)

-----------------------------------------------------------------------------
Modes == {"off", "ready", "walk", "expand", "short", "overlong", "lost", "outside"}

(* The modes in which the list describes the heap. *)
Sound == pc \in {"ready", "walk", "expand"}

HeapTypeOK ==
  /\ heap_start \in Nat /\ heap_end \in Nat
  /\ list = [header |-> list.header, last |-> list.last] /\ list.last \in Nat
  /\ DOMAIN list.header \subseteq Nat /\ NULL \in DOMAIN list.header
  /\ list.header \in [DOMAIN list.header -> Header]
  /\ frames \in 0 .. FRAMES
  /\ pc \in Modes /\ freed \in BOOLEAN
  /\ asked \in 0 .. MODULUS - 1 /\ size \in 0 .. MODULUS - 1
  /\ current_segment \in Nat
  /\ DOMAIN held \subseteq Nat /\ held \in [DOMAIN held -> 0 .. MODULUS - 1]

(* The list of heap.c is doubly linked from heap_start to heap_last_header:*)
(* no split, merge or expansion, in any order, loses a segment, leaves a   *)
(* pointer to one that was absorbed or a heap_last_header that is not last.*)
ListSound ==
  Sound =>
    /\ heap_start \in Segments /\ list.header[heap_start].last = NULL
    /\ list.last \in Segments /\ list.header[list.last].next = NULL
    /\ \A s \in Segments \ {list.last} :
         /\ list.header[s].next \in Segments
         /\ list.header[list.header[s].next].last = s
    /\ \A s \in Segments \ {heap_start} :
         /\ list.header[s].last \in Segments
         /\ list.header[list.header[s].last].next = s

(* Each segment ends no later than the next begins; and exactly there, the *)
(* whole heap being covered, as long as nothing was freed: merging is what *)
(* loses memory.                                                           *)
SegmentsTile ==
  Sound => \A s \in Segments :
    /\ EndOf(list, s) <= Bound(list, s, heap_end)
    /\ ~freed => EndOf(list, s) = Bound(list, s, heap_end)

(* The sizes for which heap_expand's number of pages wraps to 0. *)
Unmappable == {n \in 1 .. MODULUS - 1 : PagesFor(Rounded(n)) = 0}

(* The heap is an arena: the blocks held lie within it and overlap no other*)
(* block; the promise ends by a merge, by a segment too short, when the    *)
(* frames have run out, or by an expansion of no page, which only a size   *)
(* that wraps can cause; a block too short is granted, before anything was *)
(* freed, only when it does not fit in what is left at the heap's end.     *)
Promise ==
  IF pc = "lost" THEN "starved"
  ELSE IF pc = "outside" THEN "overrun"
  ELSE IF pc \in {"short", "overlong"} THEN "broken" ELSE "kept"

Arena == INSTANCE HeapArena WITH
  left <- frames, wanted <- asked,
  start <- heap_start, limit <- heap_end, blocks <- held, released <- freed,
  promise <- Promise

IsArena == Arena!Spec

(* Every call of malloc ends: the walk reaches a free segment or the end,  *)
(* and after an expansion it finds the segment added.                      *)
MallocReturns == pc = "walk" ~> pc \notin {"walk", "expand"}
=============================================================================
