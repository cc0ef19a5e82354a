----------------------------- MODULE MCMemoryMaps -----------------------------
(* Memory maps small enough for TLC: one page that is not conventional     *)
(* (absent for the first type "hole"), then up to SEGMENTS segments of     *)
(* SEGMENT_PAGES pages, each of any type and after a hole of HOLE_PAGES    *)
(* pages, in order of address.                                             *)
EXTENDS MemoryMap, Sequences

CONSTANTS SEGMENTS, SEGMENT_PAGES, HOLE_PAGES, FIRST_TYPES

EndOf(map) ==
  IF map = <<>> THEN 1 ELSE map[Len(map)].frame + map[Len(map)].page_count

Shortest ==
  {IF t = "hole" THEN <<>> ELSE <<[type |-> t, frame |-> 0, page_count |-> 1]>> :
     t \in FIRST_TYPES}

Longer(maps) ==
  {Append(map, [type |-> t, frame |-> EndOf(map) + hole, page_count |-> pages]) :
     map \in maps, t \in MemoryTypes, hole \in HOLE_PAGES, pages \in SEGMENT_PAGES}

Layouts[n \in 0 .. SEGMENTS] ==
  IF n = 0 THEN Shortest ELSE Layouts[n - 1] \cup Longer(Layouts[n - 1])

MCMemoryMaps ==
  {map \in Layouts[SEGMENTS] :
     /\ EndOf(map) <= MAX_FRAME + 1
     /\ Conventional(map) # {}
     /\ BitmapSize(map) * BITS <= MAX_FRAME}
=============================================================================
