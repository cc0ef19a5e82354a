------------------------------- MODULE PagePool -------------------------------
(***************************************************************************)
(* What the page-frame allocator promises the code that calls it: a pool   *)
(* of frames, opened once, from which each request takes a frame nobody    *)
(* else holds, and to which a holder may return what it holds.  NULL is    *)
(* the answer "the pool is empty" and never a frame of the pool.  Once,    *)
(* after a grant, the pool may be replaced by another one that keeps clear *)
(* of what is held.  The promise ends if somebody destroys the pool's      *)
(* records, which lie in memory that is not the pool's own.                *)
(***************************************************************************)
CONSTANTS Frames,  \* the frames there may be
          NULL     \* the answer of a request that fails

VARIABLES
  opened,   \* the pool has been set up
  replaced, \* another pool has taken its place
  pool,     \* the frames a request may be given
  granted,  \* the frames held by clients
  refused,  \* some request has been answered NULL
  intact    \* nobody has destroyed the pool's records

vars == <<opened, replaced, pool, granted, refused, intact>>

Init ==
  /\ opened = FALSE /\ replaced = FALSE
  /\ pool = {} /\ granted = {}
  /\ refused = FALSE /\ intact = TRUE

Open ==
  /\ ~opened
  /\ opened' = TRUE
  /\ pool' \subseteq Frames \ {NULL}
  /\ UNCHANGED <<replaced, granted, refused, intact>>

Grant(f) ==
  /\ f \in pool
  /\ pool' = pool \ {f}
  /\ granted' = granted \cup {f}
  /\ UNCHANGED <<opened, replaced, refused, intact>>

Replace ==
  /\ ~replaced /\ granted # {}
  /\ replaced' = TRUE
  /\ pool' \subseteq Frames \ {NULL}
  /\ pool' \cap granted = {}
  /\ UNCHANGED <<opened, granted, refused, intact>>

Refuse ==
  /\ opened /\ pool = {}
  /\ refused' = TRUE
  /\ UNCHANGED <<opened, replaced, pool, granted, intact>>

(* Frames taken out of the pool for good, without being granted. *)
Withdraw ==
  /\ opened
  /\ pool' \subseteq pool
  /\ UNCHANGED <<opened, replaced, granted, refused, intact>>

Return(S) ==
  /\ S \subseteq granted
  /\ pool' = pool \cup S
  /\ granted' = granted \ S
  /\ UNCHANGED <<opened, replaced, refused, intact>>

Destroy ==
  /\ opened
  /\ intact' = FALSE
  /\ UNCHANGED <<opened, replaced, pool, granted, refused>>

Next ==
  /\ intact
  /\ \/ Open
     \/ \E f \in pool : Grant(f)
     \/ Refuse
     \/ Replace
     \/ Withdraw
     \/ \E S \in SUBSET granted : Return(S)
     \/ Destroy

Spec == Init /\ [][Next]_vars
=============================================================================
