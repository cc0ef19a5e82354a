--------------------------------- MODULE BitSet ---------------------------------
(***************************************************************************)
(* What a bitmap promises: a set of indexes up to a last one, with the     *)
(* answer to the last call.  PageFrames uses the bitmap as such a set.     *)
(***************************************************************************)
EXTENDS Naturals

CONSTANTS Indexes,  \* the indexes callers pass
          LAST      \* the last one accepted

VARIABLES members, answer

vars == <<members, answer>>

(* bitmap_initialize: the index LAST is out of its reach. *)
Clear ==
  /\ members' = members \cap {LAST}
  /\ UNCHANGED answer

Get(index) ==
  /\ answer' = (index <= LAST /\ index \in members)
  /\ UNCHANGED members

Put(index, value) ==
  /\ answer' = (index <= LAST)
  /\ members' = IF index > LAST THEN members
                ELSE IF value THEN members \cup {index}
                ELSE members \ {index}

Init == members \subseteq 0 .. LAST /\ answer = FALSE

Next ==
  \/ Clear
  \/ \E index \in Indexes : Get(index) \/ (\E value \in BOOLEAN : Put(index, value))

Spec == Init /\ [][Next]_vars
=============================================================================
