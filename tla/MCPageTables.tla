----------------------------- MODULE MCPageTables -----------------------------
(* One page of the loader, RAM of FIRST_PAGES pages, one page of another   *)
(* kind, and a longer segment of RAM, which the bitmap goes to: enough     *)
(* frames below the bitmap for all the tables, or too few.                 *)
EXTENDS PageTables

CONSTANTS FIRST_PAGES, SECOND_PAGES, MIDDLE_TYPES

Segment(t, start, pages) == [type |-> t, frame |-> start, page_count |-> pages]

MCMemoryMaps ==
  {<<Segment("other", 0, 1), Segment("conventional", 1, n),
     Segment(t, n + 1, 1), Segment("conventional", n + 2, SECOND_PAGES)>> :
     n \in FIRST_PAGES, t \in MIDDLE_TYPES}
=============================================================================
