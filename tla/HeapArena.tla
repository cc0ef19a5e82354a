------------------------------- MODULE HeapArena -------------------------------
(***************************************************************************)
(* What a heap promises the code that calls it: blocks of memory that lie  *)
(* within the heap and overlap no other block, as long as somebody keeps   *)
(* them.  The promise may end in three ways: the machine's memory has run  *)
(* out when the heap is to be extended; a size was asked that the heap     *)
(* cannot be extended for, and memory behind the heap's end is written     *)
(* instead; or a block is granted that is not one.  As long as nothing was *)
(* ever released, a block granted wrongly is one that reaches beyond the   *)
(* heap's end.                                                             *)
(***************************************************************************)
EXTENDS Integers

CONSTANT Unmappable  \* the sizes that the heap cannot be extended for

VARIABLES
  start, limit,  \* the heap is start .. limit - 1, empty before it is set up
  left,          \* how much memory there is to extend it with
  wanted,        \* the size asked by the call in progress, or 0
  blocks,        \* the size asked for each block held, by address
  released,      \* some block has been released
  promise        \* "kept", "starved", "overrun" or "broken"

vars == <<start, limit, left, wanted, blocks, released, promise>>

Bytes(a, size) == a .. a + size - 1

Init ==
  /\ start \in Nat /\ limit = start
  /\ left \in Nat /\ wanted = 0
  /\ blocks = [a \in {} |-> 0]
  /\ released = FALSE
  /\ promise = "kept"

Ask ==
  /\ wanted = 0 /\ wanted' # 0
  /\ UNCHANGED <<start, limit, left, blocks, released, promise>>

Extend ==
  /\ wanted \notin Unmappable
  /\ limit' > limit
  /\ left' < left
  /\ UNCHANGED <<start, wanted, blocks, released, promise>>

Grant(a) ==
  /\ wanted # 0 /\ wanted' = 0
  /\ a >= start /\ a + wanted <= limit
  /\ \A b \in DOMAIN blocks : Bytes(b, blocks[b]) \cap Bytes(a, wanted) = {}
  /\ blocks' = [b \in DOMAIN blocks \cup {a} |-> IF b = a THEN wanted ELSE blocks[b]]
  /\ UNCHANGED <<start, limit, left, released, promise>>

Release(a) ==
  /\ wanted = 0
  /\ blocks' = [b \in DOMAIN blocks \ {a} |-> blocks[b]]
  /\ released' = TRUE
  /\ UNCHANGED <<start, limit, left, wanted, promise>>

(* All that was left did not suffice. *)
Starve ==
  /\ promise' = "starved"
  /\ wanted \notin Unmappable
  /\ left' = 0
  /\ UNCHANGED <<start, wanted, blocks, released>>

(* Whatever is left; the heap itself and its blocks stay what they are.    *)
Overrun ==
  /\ promise' = "overrun"
  /\ wanted \in Unmappable
  /\ UNCHANGED <<start, limit, left, wanted, blocks, released>>

Break ==
  /\ promise' = "broken"
  /\ wanted' = 0
  /\ UNCHANGED <<start, limit, left>>
  /\ \/ released'
     \/ \E a \in DOMAIN blocks' : a + blocks'[a] > limit

Next ==
  /\ promise = "kept"
  /\ \/ Ask
     \/ Extend
     \/ \E a \in DOMAIN blocks' : Grant(a)
     \/ \E a \in DOMAIN blocks : Release(a)
     \/ Starve
     \/ Overrun
     \/ Break

Spec == Init /\ [][Next]_vars
=============================================================================
