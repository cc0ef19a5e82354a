----------------------------- MODULE AddressSpace -----------------------------
(***************************************************************************)
(* What the page-table manager promises: an address space, a function from *)
(* virtual pages to frames, in which one call changes the translation of   *)
(* one page and of no other.  The promise ends when the machine runs out   *)
(* of frames fit for tables.                                               *)
(***************************************************************************)
CONSTANTS Pages,     \* the virtual pages
          Frames,    \* the frames a page may translate to
          UNMAPPED   \* the translation of a page that has none

VARIABLES
  asked,        \* what callers asked for last, page by page
  translation,  \* what the processor finds
  lost

vars == <<asked, translation, lost>>

Init ==
  /\ asked = [page \in Pages |-> UNMAPPED]
  /\ translation = asked
  /\ lost = FALSE

Map(page, frame) ==
  /\ ~lost
  /\ asked' = [asked EXCEPT ![page] = frame]
  /\ translation' = asked'
  /\ UNCHANGED lost

Lose ==
  /\ ~lost
  /\ lost' = TRUE
  /\ UNCHANGED asked

Next == (\E page \in Pages, frame \in Frames : Map(page, frame)) \/ Lose

Spec == Init /\ [][Next]_vars
=============================================================================
