------------------------------- MODULE HeapProofs -------------------------------
(***************************************************************************)
(* Proofs about the heap's list, for heaps of any size, any sequence of    *)
(* calls and any sizes asked.                                              *)
(***************************************************************************)
EXTENDS Heap, TLAPS

Segs(l) == DOMAIN l.header \ {NULL}

Typed(l) ==
  /\ l = [header |-> l.header, last |-> l.last]
  /\ DOMAIN l.header \subseteq Nat /\ NULL \in DOMAIN l.header
  /\ l.header \in [DOMAIN l.header -> Header]
  /\ l.last \in Nat

(* The list runs through the segments in the order of their addresses.     *)
(* The last conjunct says it without recursion: nothing lies between a     *)
(* segment and its next.                                                   *)
Linked(l, start) ==
  /\ start \in Segs(l) /\ l.header[start].last = NULL
  /\ l.last \in Segs(l) /\ l.header[l.last].next = NULL
  /\ \A s \in Segs(l) \ {l.last} :
       /\ l.header[s].next \in Segs(l)
       /\ l.header[l.header[s].next].last = s
       /\ s < l.header[s].next
  /\ \A s \in Segs(l) \ {start} :
       /\ l.header[s].last \in Segs(l)
       /\ l.header[l.header[s].last].next = s
  /\ \A s, t \in Segs(l) : s < t => l.header[s].next # NULL /\ l.header[s].next <= t

Tiled(l, end) == \A s \in Segs(l) : EndOf(l, s) <= Bound(l, s, end)

TiledExactly(l, end) == \A s \in Segs(l) : EndOf(l, s) = Bound(l, s, end)

-----------------------------------------------------------------------------
(* No segment begins behind heap_last_header, and none ends behind the     *)
(* heap's end.                                                             *)
LEMMA LastIsLast ==
  ASSUME NEW l, NEW start, Typed(l), Linked(l, start), NEW s \in Segs(l)
  PROVE  s \in Nat /\ s <= l.last
BY DEF Typed, Linked, Segs

LEMMA NextBelow ==
  ASSUME NEW l, NEW start, Linked(l, start), NEW s \in Segs(l), NEW t \in Segs(l), s < t
  PROVE  l.header[s].next # NULL /\ l.header[s].next <= t
BY DEF Linked

LEMMA EndsWithin ==
  ASSUME NEW l, NEW start, NEW end \in Nat, Typed(l), Linked(l, start), Tiled(l, end), NEW s \in Segs(l)
  PROVE  EndOf(l, s) \in Nat /\ EndOf(l, s) <= end
<1>1. s \in Nat /\ l.last \in Nat /\ s <= l.last
  BY LastIsLast DEF Typed
<1>2. l.header[s] \in Header /\ l.header[l.last] \in Header
  BY DEF Typed, Segs, Linked
<1>3. EndOf(l, l.last) <= end
  BY DEF Tiled, Linked, Bound, Segs
<1>4. CASE s = l.last
  BY <1>1, <1>2, <1>3, <1>4, HeapAssumption DEF EndOf, Header
<1>5. CASE s # l.last
  <2>1. l.header[s].next \in Segs(l) /\ l.header[s].next # NULL
    BY <1>5 DEF Linked, Segs
  <2>2. EndOf(l, s) <= l.header[s].next
    BY <2>1 DEF Tiled, Bound
  <2>3. l.header[s].next \in Nat /\ l.header[s].next <= l.last
    BY <2>1, LastIsLast
  <2>4. QED
    BY <1>1, <1>2, <1>3, <2>2, <2>3, HeapAssumption DEF EndOf, Header
<1>6. QED
  BY <1>4, <1>5

(* Of two segments, the first ends before the second begins. *)
LEMMA Apart ==
  ASSUME NEW l, NEW start, NEW end \in Nat, Typed(l), Linked(l, start), Tiled(l, end),
         NEW s \in Segs(l), NEW t \in Segs(l), s < t
  PROVE  EndOf(l, s) <= t
<1>1. l.header[s].next # NULL /\ l.header[s].next <= t
  BY DEF Linked
<1>2. EndOf(l, s) <= l.header[s].next
  BY <1>1 DEF Tiled, Bound
<1>3. l.header[s] \in Header /\ s \in Nat /\ t \in Nat
  BY DEF Typed, Segs
<1>4. QED
  BY <1>1, <1>2, <1>3, HeapAssumption DEF EndOf, Header

-----------------------------------------------------------------------------
(* What the operations on the list preserve. *)

(* A segment may be marked free or taken: the list k is l with x so marked.*)
Marked(l, start, x, v, k) ==
  /\ Typed(k) /\ Linked(k, start) /\ Segs(k) = Segs(l) /\ k.last = l.last
  /\ \A s \in Segs(l) :
       /\ k.header[s].length = l.header[s].length
       /\ k.header[s].next = l.header[s].next
       /\ k.header[s].free = IF s = x THEN v ELSE l.header[s].free

LEMMA WithFreeSound ==
  ASSUME NEW l, NEW start, NEW x \in Segs(l), NEW v \in BOOLEAN, Typed(l), Linked(l, start)
  PROVE  Marked(l, start, x, v, WithFree(l, x, v))
<1> DEFINE k == WithFree(l, x, v)
<1>1. k = [header |-> k.header, last |-> k.last] /\ k.last = l.last
      /\ DOMAIN k.header = DOMAIN l.header /\ Segs(k) = Segs(l)
  BY DEF WithFree, Segs
<1>2. \A s \in DOMAIN l.header :
        k.header[s] = IF s = x THEN [l.header[s] EXCEPT !.free = v] ELSE l.header[s]
  BY DEF WithFree
<1> HIDE DEF k
<1>3. \A s \in DOMAIN l.header :
        /\ k.header[s] \in Header
        /\ k.header[s].length = l.header[s].length
        /\ k.header[s].next = l.header[s].next
        /\ k.header[s].last = l.header[s].last
        /\ k.header[s].free = IF s = x THEN v ELSE l.header[s].free
  BY <1>2 DEF Typed, Header
<1>4. k.header \in [DOMAIN k.header -> Header]
  <2>1. k.header = [s \in DOMAIN l.header |-> k.header[s]]
    BY DEF k, WithFree
  <2>2. QED  BY <2>1, <1>1, <1>3
<1>5. Typed(k)
  BY <1>1, <1>4 DEF Typed
<1>6. Linked(k, start)
  BY <1>1, <1>3 DEF Linked, Segs
<1>7. QED
  BY <1>1, <1>3, <1>5, <1>6 DEF k, Segs, Marked

(* A split puts a segment into the memory of the one it splits. *)
LEMMA SplitSound ==
  ASSUME NEW l, NEW start, NEW x \in Segs(l), NEW n \in Nat, NEW rest \in Nat, NEW end \in Nat,
         Typed(l), Linked(l, start), Tiled(l, end),
         rest = l.header[x].length - n - HEADER
  PROVE  LET k   == SplitAt(l, x, n, rest)
             new == x + n + HEADER
         IN  /\ Typed(k) /\ Linked(k, start) /\ Tiled(k, end)
             /\ TiledExactly(l, end) => TiledExactly(k, end)
             /\ new \notin Segs(l) /\ Segs(k) = Segs(l) \cup {new}
             /\ k.header[x].length = n /\ k.header[x].free = l.header[x].free
             /\ k.header[new].free = l.header[x].free
             /\ k.last = (IF l.last = x THEN new ELSE l.last)
             /\ \A s \in Segs(l) \ {x} :
                  /\ k.header[s].length = l.header[s].length
                  /\ k.header[s].free = l.header[s].free
<1> DEFINE k   == SplitAt(l, x, n, rest)
           new == x + n + HEADER
           nx  == l.header[x].next
<1>0. /\ \A s \in DOMAIN l.header : s \in Nat /\ l.header[s] \in Header
      /\ x \in Nat \ {0} /\ x \in DOMAIN l.header /\ HEADER \in Nat \ {0} /\ nx \in Nat
  BY HeapAssumption DEF Typed, Segs, NULL, Header
<1>1. new \in Nat \ {0} /\ x < new /\ EndOf(l, x) = new + HEADER + rest
  BY <1>0 DEF EndOf, Header
<1>2. \A t \in Segs(l) : x < t => new < t
  <2> SUFFICES ASSUME NEW t \in Segs(l), x < t PROVE new < t
    OBVIOUS
  <2>1. EndOf(l, x) <= t
    BY Apart
  <2>2. QED
    BY <1>0, <1>1, <2>1 DEF Segs
<1>3. new \notin DOMAIN l.header
  BY <1>0, <1>1, <1>2 DEF Segs, NULL
<1>4. nx # NULL => nx \in Segs(l) /\ x < nx
  BY <1>0 DEF Linked, Segs
<1>5. /\ k = [header |-> k.header, last |-> k.last]
      /\ k.last = (IF l.last = x THEN new ELSE l.last)
      /\ DOMAIN k.header = DOMAIN l.header \cup {new}
      /\ k.header = [a \in DOMAIN l.header \cup {new} |-> k.header[a]]
  BY DEF SplitAt
<1>6. nx \in DOMAIN l.header
  BY <1>4 DEF Segs, Typed
<1>7. nx # x /\ nx # new /\ x # new
  BY <1>0, <1>1, <1>2, <1>4 DEF NULL
<1>8. /\ k.header[new] = [length |-> rest, next |-> nx, last |-> x,
                          free |-> l.header[x].free]
      /\ k.header[x] = [l.header[x] EXCEPT !.next = new, !.length = n]
      /\ k.header[nx] = [l.header[nx] EXCEPT !.last = new]
      /\ \A a \in DOMAIN l.header \ {x, nx} : k.header[a] = l.header[a]
  <2>1. k.header = [a \in DOMAIN l.header \cup {new} |->
         IF a = new THEN [length |-> rest, next |-> nx, last |-> x,
                          free |-> l.header[x].free]
         ELSE IF a = x THEN [l.header[a] EXCEPT !.next = new, !.length = n]
         ELSE IF a = nx THEN [l.header[a] EXCEPT !.last = new]
         ELSE l.header[a]]
    BY ZenonT(30) DEF SplitAt
  <2> HIDE DEF k, new, nx
  <2>2. k.header[new] = [length |-> rest, next |-> nx, last |-> x,
                         free |-> l.header[x].free]
    BY <2>1
  <2>3. k.header[x] = [l.header[x] EXCEPT !.next = new, !.length = n]
    BY <2>1, <1>0, <1>7
  <2>4. k.header[nx] = [l.header[nx] EXCEPT !.last = new]
    BY <2>1, <1>6, <1>7
  <2>5. \A a \in DOMAIN l.header \ {x, nx} : k.header[a] = l.header[a]
    BY <2>1, <1>3
  <2>6. QED
    BY <2>2, <2>3, <2>4, <2>5
<1> HIDE DEF k, new, nx
<1>9. /\ k.header[new] \in Header /\ k.header[new].length = rest
      /\ k.header[new].next = nx /\ k.header[new].last = x
      /\ k.header[new].free = l.header[x].free
  BY <1>0, <1>8 DEF Header
<1>10. /\ k.header[x] \in Header /\ k.header[x].length = n
      /\ k.header[x].next = new /\ k.header[x].last = l.header[x].last
      /\ k.header[x].free = l.header[x].free
  <2>1. l.header[x] \in Header /\ n \in Nat /\ new \in Nat
    BY <1>0, <1>1
  <2>2. k.header[x] = [l.header[x] EXCEPT !.next = new, !.length = n]
    BY <1>8
  <2>3. QED
    BY <2>1, <2>2 DEF Header
<1>11. \A a \in DOMAIN l.header \ {x} :
         /\ k.header[a] \in Header
         /\ k.header[a].length = l.header[a].length
         /\ k.header[a].next = l.header[a].next
         /\ k.header[a].free = l.header[a].free
         /\ k.header[a].last = IF a = nx THEN new ELSE l.header[a].last
  BY <1>0, <1>1, <1>8, <1>7, <1>6 DEF Header
<1>12. Segs(k) = Segs(l) \cup {new} /\ new \notin Segs(l)
  BY <1>1, <1>3, <1>5 DEF Segs, NULL
<1>13. Typed(k)
  <2>1. \A a \in DOMAIN k.header : k.header[a] \in Header
    BY <1>5, <1>9, <1>10, <1>11
  <2>2. k.header \in [DOMAIN k.header -> Header]
    BY <2>1, <1>5
  <2>3. k.last \in Nat
    BY <1>1, <1>5 DEF Typed
  <2>4. QED
    BY <1>0, <1>1, <1>5, <2>2, <2>3 DEF Typed
<1>14. Linked(k, start)
  <2>1. start \in Segs(k) /\ k.header[start].last = NULL
    <3>1. start # nx
      <4>1. CASE nx = NULL
        BY <4>1 DEF Linked, Segs
      <4>2. CASE nx # NULL
        <5>1. x # l.last
          BY <4>2 DEF Linked, nx
        <5>2. l.header[nx].last = x
          BY <5>1 DEF Linked, nx
        <5>3. QED
          BY <5>2, <1>0 DEF Linked, NULL
      <4>3. QED
        BY <4>1, <4>2
    <3>2. QED
      BY <3>1, <1>10, <1>11, <1>12 DEF Linked, Segs
  <2>2. k.last \in Segs(k) /\ k.header[k.last].next = NULL
    <3>1. CASE l.last = x
      BY <3>1, <1>5, <1>9, <1>12 DEF Linked, nx
    <3>2. CASE l.last # x
      <4>1. k.last = l.last /\ l.last \in Segs(l) /\ l.header[l.last].next = NULL
        BY <3>2, <1>5 DEF Linked
      <4>2. l.last \in DOMAIN l.header \ {x}
        BY <4>1, <3>2 DEF Segs
      <4>3. QED
        BY <4>1, <4>2, <1>11, <1>12
    <3>3. QED
      BY <3>1, <3>2
  <2>3. \A s \in Segs(k) \ {k.last} :
          /\ k.header[s].next \in Segs(k)
          /\ k.header[k.header[s].next].last = s
          /\ s < k.header[s].next
    <3> SUFFICES ASSUME NEW s \in Segs(k) \ {k.last}
                 PROVE  /\ k.header[s].next \in Segs(k)
                        /\ k.header[k.header[s].next].last = s
                        /\ s < k.header[s].next
      OBVIOUS
    <3>1. CASE s = x
      BY <3>1, <1>1, <1>9, <1>10, <1>12
    <3>2. CASE s = new
      <4>1. l.last # x
        BY <3>2, <1>5
      <4>2. nx \in Segs(l)
        BY <4>1 DEF Linked, nx
      <4>3. x < nx /\ new < nx
        BY <4>2, <1>4, <1>2 DEF Segs
      <4>4. QED
        BY <3>2, <4>2, <4>3, <1>7, <1>9, <1>11, <1>12 DEF Segs
    <3>3. CASE s # x /\ s # new
      <4>1. s \in Segs(l) \ {l.last}
        BY <3>3, <1>5, <1>12
      <4>2. /\ l.header[s].next \in Segs(l) /\ s < l.header[s].next
            /\ l.header[l.header[s].next].last = s
        BY <4>1 DEF Linked
      <4>3. k.header[s].next = l.header[s].next
        BY <4>1, <3>3, <1>11 DEF Segs
      <4>4. l.header[s].next # nx
        <5>1. CASE l.last = x
          BY <5>1, <4>2 DEF Linked, nx, Segs
        <5>2. CASE l.last # x
          BY <5>2, <4>2, <3>3 DEF Linked, nx
        <5>3. QED
          BY <5>1, <5>2
      <4>5. k.header[l.header[s].next].last = s
        BY <4>2, <4>4, <1>10, <1>11 DEF Segs
      <4>6. QED
        BY <4>2, <4>3, <4>5, <1>12
    <3>4. QED
      BY <3>1, <3>2, <3>3
  <2>4. \A s \in Segs(k) \ {start} :
          /\ k.header[s].last \in Segs(k)
          /\ k.header[k.header[s].last].next = s
    <3> SUFFICES ASSUME NEW s \in Segs(k) \ {start}
                 PROVE  /\ k.header[s].last \in Segs(k)
                        /\ k.header[k.header[s].last].next = s
      OBVIOUS
    <3>1. CASE s = new
      BY <3>1, <1>9, <1>10, <1>12
    <3>2. CASE s = nx
      BY <3>2, <1>7, <1>9, <1>6, <1>11, <1>12
    <3>3. CASE s # new /\ s # nx
      <4>1. s \in Segs(l) \ {start}
        BY <3>3, <1>12
      <4>2. l.header[s].last \in Segs(l) /\ l.header[l.header[s].last].next = s
        BY <4>1 DEF Linked
      <4>3. k.header[s].last = l.header[s].last
        BY <4>1, <3>3, <1>10, <1>11 DEF Segs
      <4>4. l.header[s].last # x
        BY <4>2, <3>3 DEF nx
      <4>5. k.header[l.header[s].last].next = s
        BY <4>2, <4>4, <1>11 DEF Segs
      <4>6. QED
        BY <4>2, <4>3, <4>5, <1>12
    <3>4. QED
      BY <3>1, <3>2, <3>3
  <2>5. \A s, t \in Segs(k) :
          s < t => k.header[s].next # NULL /\ k.header[s].next <= t
    <3> SUFFICES ASSUME NEW s \in Segs(k), NEW t \in Segs(k), s < t
                 PROVE  k.header[s].next # NULL /\ k.header[s].next <= t
      OBVIOUS
    <3>0. s \in Nat /\ t \in Nat
      BY <1>13 DEF Typed, Segs
    <3>1. CASE s = x
      <4>1. new <= t
        BY <3>0, <3>1, <1>1, <1>2, <1>12
      <4>2. QED
        BY <4>1, <3>1, <1>1, <1>10 DEF NULL
    <3>2. CASE s = new
      <4>1. t \in Segs(l) /\ x < t
        BY <3>0, <3>2, <1>0, <1>1, <1>12
      <4>2. l.header[x].next # NULL /\ l.header[x].next <= t
        BY <4>1 DEF Linked
      <4>3. QED
        BY <4>2, <3>2, <1>9 DEF nx
    <3>3. CASE s # x /\ s # new
      <4>1. s \in Segs(l) /\ k.header[s].next = l.header[s].next
        BY <3>3, <1>11, <1>12 DEF Segs
      <4>2. CASE t # new
        BY <4>1, <4>2, <1>12 DEF Linked
      <4>3. CASE t = new
        <5>1. s < x
          BY <4>1, <4>3, <3>0, <3>3, <1>0, <1>2
        <5>2. l.header[s].next # NULL /\ l.header[s].next <= x
          BY <4>1, <5>1 DEF Linked
        <5>3. l.header[s].next \in Nat
          BY <4>1, <1>0 DEF Header, Segs
        <5>4. QED
          BY <4>1, <4>3, <5>2, <5>3, <1>0, <1>1
      <4>4. QED
        BY <4>2, <4>3
    <3>4. QED
      BY <3>1, <3>2, <3>3
  <2>6. QED
    BY <2>1, <2>2, <2>3, <2>4, <2>5 DEF Linked
<1>15. /\ EndOf(k, x) = new /\ Bound(k, x, end) = new
       /\ EndOf(k, new) = EndOf(l, x) /\ Bound(k, new, end) = Bound(l, x, end)
       /\ \A s \in Segs(l) \ {x} :
            EndOf(k, s) = EndOf(l, s) /\ Bound(k, s, end) = Bound(l, s, end)
  <2>1. EndOf(k, x) = new /\ Bound(k, x, end) = new
    BY <1>0, <1>1, <1>10 DEF EndOf, Bound, NULL, new
  <2>2. EndOf(k, new) = EndOf(l, x)
    BY <1>0, <1>1, <1>9 DEF EndOf
  <2>3. Bound(k, new, end) = Bound(l, x, end)
    BY <1>9 DEF Bound, nx
  <2>4. \A s \in Segs(l) \ {x} :
            EndOf(k, s) = EndOf(l, s) /\ Bound(k, s, end) = Bound(l, s, end)
    BY <1>11 DEF EndOf, Bound, Segs
  <2>5. QED
    BY <2>1, <2>2, <2>3, <2>4
<1>16. Tiled(k, end)
  BY <1>1, <1>12, <1>15 DEF Tiled
<1>17. TiledExactly(l, end) => TiledExactly(k, end)
  BY <1>1, <1>12, <1>15 DEF TiledExactly
<1>18. QED
  BY <1>5, <1>9, <1>10, <1>11, <1>12, <1>13, <1>14, <1>16, <1>17 DEF k, new, Segs

(* A merge takes the next segment, a free one, out of the list.  Nothing   *)
(* is said of where the segment it is taken into ends.                     *)
LEMMA CombineSound ==
  ASSUME NEW l, NEW start, NEW x \in Segs(l), NEW end \in Nat, Typed(l), Linked(l, start)
  PROVE  LET k == heapseg_combine_forward(l, x)
         IN  /\ Typed(k) /\ Linked(k, start)
             /\ Segs(k) \subseteq Segs(l) /\ x \in Segs(k)
             /\ \A s \in Segs(l) \ Segs(k) : l.header[s].free
             /\ \A s \in Segs(k) : k.header[s].free = l.header[s].free
             /\ \A s \in Segs(k) \ {x} :
                  /\ k.header[s].length = l.header[s].length
                  /\ Bound(k, s, end) = Bound(l, s, end)
<1> DEFINE k     == heapseg_combine_forward(l, x)
           nx    == l.header[x].next
           after == l.header[nx].next
<1>0. /\ \A s \in DOMAIN l.header : s \in Nat /\ l.header[s] \in Header
      /\ x \in Nat \ {0} /\ x \in DOMAIN l.header /\ HEADER \in Nat \ {0} /\ nx \in Nat
  BY HeapAssumption DEF Typed, Segs, NULL, Header
<1>1. CASE nx = NULL \/ ~l.header[nx].free
  BY <1>1 DEF heapseg_combine_forward
<1>2. CASE nx # NULL /\ l.header[nx].free
  <2>1. x # l.last /\ nx \in Segs(l) /\ x < nx /\ l.header[nx].last = x
    BY <1>2 DEF Linked
  <2>2. nx \in DOMAIN l.header /\ nx # x /\ nx # start
    BY <2>1, <1>0 DEF Linked, Segs, NULL
  <2>3. after \in DOMAIN l.header /\ after # nx /\ after # x
    <3>1. CASE nx = l.last
      BY <3>1, <2>1, <1>0, <1>2 DEF Linked, Typed, NULL
    <3>2. CASE nx # l.last
      <4>1. after \in Segs(l) /\ nx < after
        BY <3>2, <2>1 DEF Linked
      <4>2. QED
        BY <4>1, <2>1, <2>2, <1>0 DEF Segs
    <3>3. QED
      BY <3>1, <3>2
  <2>4. after # NULL =>
          after \in Segs(l) /\ nx < after /\ l.header[after].last = nx /\ nx # l.last
    BY <2>1 DEF Linked
  <2>5. /\ k = [header |-> k.header, last |-> k.last]
        /\ k.last = (IF nx = l.last THEN x ELSE l.last)
        /\ DOMAIN k.header = DOMAIN l.header \ {nx}
        /\ k.header = [a \in DOMAIN l.header \ {nx} |-> k.header[a]]
    BY <1>2 DEF heapseg_combine_forward
  <2>6. /\ k.header[x] = [l.header[x] EXCEPT !.next = after,
                                             !.length = l.header[after].length + HEADER]
        /\ after # NULL => k.header[after] = [l.header[after] EXCEPT !.last = x]
        /\ \A a \in DOMAIN l.header \ {x, nx} :
             a # after \/ a = NULL => k.header[a] = l.header[a]
    <3>1. k.header = [a \in DOMAIN l.header \ {nx} |->
              IF a = x
                THEN [l.header[a] EXCEPT !.next = after,
                                         !.length = l.header[after].length + HEADER]
              ELSE IF a = after /\ after # NULL THEN [l.header[a] EXCEPT !.last = x]
              ELSE l.header[a]]
      BY <1>2 DEF heapseg_combine_forward
    <3> HIDE DEF k, nx, after
    <3>2. QED
      BY <3>1, <1>0, <2>2, <2>3
  <2> HIDE DEF k, nx, after
  <2>7. /\ k.header[x] \in Header /\ k.header[x].next = after
        /\ k.header[x].last = l.header[x].last
        /\ k.header[x].free = l.header[x].free
    <3>1. l.header[after].length + HEADER \in Nat /\ after \in Nat
      BY <1>0, <2>3 DEF Header
    <3>2. QED
      BY <3>1, <1>0, <2>6 DEF Header
  <2>8. \A a \in DOMAIN k.header \ {x} :
           /\ k.header[a] \in Header
           /\ k.header[a].length = l.header[a].length
           /\ k.header[a].next = l.header[a].next
           /\ k.header[a].free = l.header[a].free
           /\ k.header[a].last = IF a = after /\ a # NULL THEN x ELSE l.header[a].last
    <3> SUFFICES ASSUME NEW a \in DOMAIN k.header \ {x}
                 PROVE  /\ k.header[a] \in Header
                        /\ k.header[a].length = l.header[a].length
                        /\ k.header[a].next = l.header[a].next
                        /\ k.header[a].free = l.header[a].free
                        /\ k.header[a].last = IF a = after /\ a # NULL THEN x ELSE l.header[a].last
      OBVIOUS
    <3>1. a \in DOMAIN l.header \ {x, nx}
      BY <2>5
    <3>2. CASE a = after /\ a # NULL
      BY <3>1, <3>2, <1>0, <2>6 DEF Header
    <3>3. CASE ~(a = after /\ a # NULL)
      BY <3>1, <3>3, <1>0, <2>6
    <3>4. QED
      BY <3>2, <3>3
  <2>9. Segs(k) = Segs(l) \ {nx}
    BY <2>5 DEF Segs
  <2>10. Typed(k)
    <3>1. \A a \in DOMAIN k.header : k.header[a] \in Header
      BY <2>7, <2>8
    <3>2. k.header \in [DOMAIN k.header -> Header]
      BY <3>1, <2>5
    <3>3. k.last \in Nat /\ NULL \in DOMAIN k.header
      BY <1>0, <1>2, <2>5 DEF Typed
    <3>4. QED
      BY <1>0, <2>5, <3>2, <3>3 DEF Typed
  <2>11. start \in Segs(k) /\ k.header[start].last = NULL
    <3>1. start \in Segs(l) /\ l.header[start].last = NULL
      BY DEF Linked
    <3>2. start # after
      BY <3>1, <1>0, <1>2, <2>1, <2>2, <2>4 DEF Segs, NULL
    <3>3. QED
      BY <3>1, <3>2, <2>2, <2>7, <2>8, <2>9 DEF Segs
  <2>12. k.last \in Segs(k) /\ k.header[k.last].next = NULL
    <3>1. CASE nx = l.last
      BY <3>1, <2>2, <2>5, <2>7, <2>9 DEF Linked, after
    <3>2. CASE nx # l.last
      <4>1. k.last = l.last /\ l.last \in Segs(l) /\ l.header[l.last].next = NULL
        BY <3>2, <2>5 DEF Linked
      <4>2. l.last \in Segs(k) \ {x}
        BY <4>1, <3>2, <2>1, <2>9
      <4>3. l.last \in DOMAIN k.header \ {x}
        BY <4>2 DEF Segs
      <4>4. k.header[l.last].next = NULL
        BY <4>1, <4>3, <2>8
      <4>5. QED
        BY <4>1, <4>2, <4>4
    <3>3. QED
      BY <3>1, <3>2
  <2>13. ASSUME NEW s \in Segs(k) \ {k.last}
         PROVE  /\ k.header[s].next \in Segs(k)
                /\ k.header[k.header[s].next].last = s
                /\ s < k.header[s].next
    <3>1. CASE s = x
      <4>1. nx # l.last
        BY <3>1, <2>5
      <4>2. after \in Segs(l) /\ nx < after
        BY <4>1, <2>1 DEF Linked, after
      <4>3. after \in Segs(k) /\ after \in DOMAIN k.header \ {x} /\ after # NULL
        BY <4>2, <2>3, <2>9 DEF Segs
      <4>4. x < after
        BY <4>2, <2>1, <1>0 DEF Segs
      <4>5. QED
        BY <3>1, <4>3, <4>4, <2>7, <2>8
    <3>2. CASE s # x
      <4>1. s \in Segs(l) \ {l.last} /\ s # nx
        BY <3>2, <2>5, <2>9
      <4>2. /\ l.header[s].next \in Segs(l) /\ s < l.header[s].next
            /\ l.header[l.header[s].next].last = s
        BY <4>1 DEF Linked
      <4>3. k.header[s].next = l.header[s].next
        BY <4>1, <3>2, <2>8, <2>9 DEF Segs
      <4>4. l.header[s].next # nx
        BY <4>2, <3>2, <2>1
      <4>5. l.header[s].next # after \/ after = NULL
        BY <4>1, <4>2, <2>4
      <4>6. l.header[s].next \in Segs(k) /\ l.header[s].next \in DOMAIN k.header
        BY <4>2, <4>4, <2>9 DEF Segs
      <4>7. k.header[l.header[s].next].last = s
        BY <4>2, <4>5, <4>6, <2>7, <2>8
      <4>8. QED
        BY <4>2, <4>3, <4>6, <4>7
    <3>3. QED
      BY <3>1, <3>2
  <2>14. ASSUME NEW s \in Segs(k) \ {start}
         PROVE  /\ k.header[s].last \in Segs(k)
                /\ k.header[k.header[s].last].next = s
    <3>1. s \in Segs(l) \ {start} /\ s # nx /\ s # NULL
      BY <2>9 DEF Segs
    <3>2. l.header[s].last \in Segs(l) /\ l.header[l.header[s].last].next = s
      BY <3>1 DEF Linked
    <3>3. CASE s = after
      BY <3>3, <3>1, <2>2, <2>3, <2>7, <2>8, <2>9 DEF Segs
    <3>4. CASE s # after
      <4>1. k.header[s].last = l.header[s].last
        BY <3>1, <3>4, <2>7, <2>8, <2>9 DEF Segs
      <4>2. l.header[s].last # x
        BY <3>1, <3>2 DEF nx
      <4>3. l.header[s].last # nx
        BY <3>2, <3>4 DEF after
      <4>4. l.header[s].last \in Segs(k)
        BY <3>2, <4>3, <2>9
      <4>5. QED
        BY <3>2, <4>1, <4>2, <4>4, <2>8 DEF Segs
    <3>5. QED
      BY <3>3, <3>4
  <2>15. ASSUME NEW s \in Segs(k), NEW t \in Segs(k), s < t
         PROVE  k.header[s].next # NULL /\ k.header[s].next <= t
    <3>1. s \in Segs(l) /\ t \in Segs(l) /\ t # nx /\ s \in Nat /\ t \in Nat
      BY <2>9, <1>0 DEF Segs
    <3>2. l.header[s].next # NULL /\ l.header[s].next <= t
      BY <2>15, <3>1, NextBelow
    <3>3. CASE s = x
      <4>1. nx < t
        BY <3>1, <3>2, <3>3, <1>0 DEF nx
      <4>2. after # NULL /\ after <= t
        BY <3>1, <4>1, <2>1, NextBelow DEF after
      <4>3. QED
        BY <3>3, <4>2, <2>7
    <3>4. CASE s # x
      BY <3>1, <3>2, <3>4, <2>8, <2>9 DEF Segs
    <3>5. QED
      BY <3>3, <3>4
  <2>16. Linked(k, start)
    BY <2>11, <2>12, <2>13, <2>14, <2>15 DEF Linked
  <2>17. \A s \in Segs(k) \ {x} : Bound(k, s, end) = Bound(l, s, end)
    BY <2>8 DEF Bound, Segs
  <2>18. x \in Segs(k) /\ Segs(k) \subseteq Segs(l)
         /\ \A s \in Segs(l) \ Segs(k) : l.header[s].free
    BY <1>2, <2>2, <2>9 DEF nx
  <2>19. QED
    BY <2>7, <2>8, <2>10, <2>16, <2>17, <2>18 DEF k, Segs
<1>3. QED
  BY <1>1, <1>2

(* A segment may be added behind all the others. *)
LEMMA WithSegmentSound ==
  ASSUME NEW l, NEW start, NEW new \in Nat, NEW length \in Nat, NEW end \in Nat,
         Typed(l), Linked(l, start), Tiled(l, new), new + HEADER + length <= end
  PROVE  LET k == heapseg_combine_backward(WithSegment(l, new, length), new)
         IN  /\ Typed(k) /\ Linked(k, start) /\ Tiled(k, end)
             /\ TiledExactly(l, new) /\ new + HEADER + length = end => TiledExactly(k, end)
             /\ new \notin Segs(l) /\ Segs(k) = Segs(l) \cup {new} /\ k.last = new
             /\ \A s \in Segs(l) :
                  /\ k.header[s].length = l.header[s].length
                  /\ k.header[s].free = l.header[s].free
<1> DEFINE k == WithSegment(l, new, length)
<1>0. /\ \A s \in DOMAIN l.header : s \in Nat /\ l.header[s] \in Header
      /\ HEADER \in Nat \ {0}
      /\ l.last \in Segs(l) /\ l.last \in DOMAIN l.header /\ l.last \in Nat
  BY HeapAssumption DEF Typed, Segs, Linked
<1>1. \A s \in Segs(l) : s \in Nat /\ s < new
  <2> SUFFICES ASSUME NEW s \in Segs(l) PROVE s \in Nat /\ s < new
    OBVIOUS
  <2>1. EndOf(l, s) <= new
    BY EndsWithin
  <2>2. QED
    BY <2>1, <1>0 DEF EndOf, Segs, Header
<1>2. new # NULL /\ new \notin Segs(l) /\ new \notin DOMAIN l.header /\ new # l.last
  BY <1>0, <1>1 DEF Segs, NULL
<1>3. /\ k = [header |-> k.header, last |-> new]
      /\ DOMAIN k.header = DOMAIN l.header \cup {new} /\ k.last = new
      /\ k.header = [a \in DOMAIN l.header \cup {new} |-> k.header[a]]
      /\ k.header[new] = [length |-> length, next |-> NULL, last |-> l.last, free |-> TRUE]
      /\ k.header[l.last] = [l.header[l.last] EXCEPT !.next = new]
      /\ \A a \in DOMAIN l.header \ {l.last} : k.header[a] = l.header[a]
  BY <1>0, <1>2 DEF WithSegment
<1> HIDE DEF k
<1>4. /\ k.header[new] \in Header /\ k.header[new].length = length
      /\ k.header[new].next = NULL /\ k.header[new].last = l.last
  <2>1. k.header[new] = [length |-> length, next |-> NULL, last |-> l.last, free |-> TRUE]
    BY <1>3
  <2>2. length \in Nat /\ NULL \in Nat /\ l.last \in Nat
    BY <1>0 DEF NULL
  <2>3. QED
    BY <2>1, <2>2 DEF Header
<1>5. heapseg_combine_backward(k, new) = k
  <2>1. heapseg_combine_forward(k, new) = k
    BY <1>4 DEF heapseg_combine_forward
  <2>2. QED
    BY <2>1 DEF heapseg_combine_backward
<1>6. /\ k.header[l.last] \in Header /\ k.header[l.last].next = new
      /\ k.header[l.last].length = l.header[l.last].length
      /\ k.header[l.last].last = l.header[l.last].last
      /\ k.header[l.last].free = l.header[l.last].free
  BY <1>0, <1>3 DEF Header
<1>7. Segs(k) = Segs(l) \cup {new}
  BY <1>2, <1>3 DEF Segs
<1>8. Typed(k)
  <2>1. \A a \in DOMAIN k.header : k.header[a] \in Header
    BY <1>0, <1>3, <1>4, <1>6
  <2>2. k.header \in [DOMAIN k.header -> Header]
    BY <2>1, <1>3
  <2>3. QED
    BY <1>0, <1>3, <2>2 DEF Typed
<1>9. start \in Segs(k) /\ k.header[start].last = NULL
  BY <1>3, <1>6, <1>7 DEF Linked, Segs
<1>10. ASSUME NEW s \in Segs(k) \ {k.last}
       PROVE  /\ k.header[s].next \in Segs(k)
              /\ k.header[k.header[s].next].last = s
              /\ s < k.header[s].next
  <2>1. s \in Segs(l)
    BY <1>3, <1>7
  <2>2. CASE s = l.last
    BY <2>2, <1>0, <1>1, <1>4, <1>6, <1>7
  <2>3. CASE s # l.last
    <3>1. /\ l.header[s].next \in Segs(l) /\ s < l.header[s].next
          /\ l.header[l.header[s].next].last = s
      BY <2>1, <2>3 DEF Linked
    <3>2. k.header[s].next = l.header[s].next
      BY <2>1, <2>3, <1>3 DEF Segs
    <3>3. k.header[l.header[s].next].last = s
      BY <3>1, <1>3, <1>6 DEF Segs
    <3>4. QED
      BY <3>1, <3>2, <3>3, <1>7
  <2>4. QED
    BY <2>2, <2>3
<1>11. ASSUME NEW s \in Segs(k) \ {start}
       PROVE  /\ k.header[s].last \in Segs(k)
              /\ k.header[k.header[s].last].next = s
  <2>1. CASE s = new
    BY <2>1, <1>0, <1>4, <1>6, <1>7
  <2>2. CASE s # new
    <3>1. s \in Segs(l) \ {start}
      BY <2>2, <1>7
    <3>2. l.header[s].last \in Segs(l) /\ l.header[l.header[s].last].next = s
      BY <3>1 DEF Linked
    <3>3. k.header[s].last = l.header[s].last
      BY <3>1, <1>3, <1>6 DEF Segs
    <3>4. l.header[s].last # l.last
      BY <3>1, <3>2 DEF Linked, Segs
    <3>5. QED
      <4>1. l.header[s].last \in DOMAIN l.header \ {l.last}
        BY <3>2, <3>4 DEF Segs
      <4>2. k.header[l.header[s].last] = l.header[l.header[s].last]
        BY <4>1, <1>3
      <4>3. QED
        BY <3>2, <3>3, <4>2, <1>7
  <2>3. QED
    BY <2>1, <2>2
<1>12. ASSUME NEW s \in Segs(k), NEW t \in Segs(k), s < t
       PROVE  k.header[s].next # NULL /\ k.header[s].next <= t
  <2>1. s \in Segs(l)
    <3>1. t \in Nat /\ t <= new
      BY <1>1, <1>7
    <3>2. s # new
      BY <1>12, <3>1
    <3>3. QED
      BY <3>2, <1>7
  <2>2. CASE s = l.last
    <3>1. t = new
      <4> SUFFICES ASSUME t \in Segs(l) PROVE FALSE
        BY <1>7
      <4>1. t <= l.last /\ t \in Nat
        BY LastIsLast
      <4>2. QED
        BY <1>12, <4>1, <2>1, <2>2, <1>1
    <3>2. QED
      BY <3>1, <2>2, <1>2, <1>6
  <2>3. CASE s # l.last
    <3>1. k.header[s].next = l.header[s].next /\ l.header[s].next \in Segs(l)
      BY <2>1, <2>3, <1>3 DEF Linked, Segs
    <3>2. CASE t = new
      BY <3>1, <3>2, <1>1 DEF Segs
    <3>3. CASE t # new
      BY <1>12, <3>1, <3>3, <2>1, <1>7, NextBelow
    <3>4. QED
      BY <3>2, <3>3
  <2>4. QED
    BY <2>2, <2>3
<1>13. Linked(k, start)
  BY <1>3, <1>4, <1>7, <1>9, <1>10, <1>11, <1>12 DEF Linked
<1>14. EndOf(k, new) = new + HEADER + length /\ Bound(k, new, end) = end
  BY <1>4 DEF EndOf, Bound
<1>15. \A s \in Segs(l) : /\ k.header[s].length = l.header[s].length
                          /\ k.header[s].free = l.header[s].free
                          /\ EndOf(k, s) = EndOf(l, s)
                          /\ Bound(k, s, end) = Bound(l, s, new)
  <2> SUFFICES ASSUME NEW s \in Segs(l)
               PROVE  /\ k.header[s].length = l.header[s].length
                      /\ k.header[s].free = l.header[s].free
                      /\ EndOf(k, s) = EndOf(l, s)
                      /\ Bound(k, s, end) = Bound(l, s, new)
    OBVIOUS
  <2>1. CASE s = l.last
    BY <2>1, <1>2, <1>6 DEF EndOf, Bound, Linked
  <2>2. CASE s # l.last
    <3>1. l.header[s].next # NULL /\ k.header[s] = l.header[s]
      BY <2>2, <1>3 DEF Linked, Segs
    <3>2. QED
      BY <3>1 DEF EndOf, Bound
  <2>3. QED
    BY <2>1, <2>2
<1>16. Tiled(k, end)
  BY <1>7, <1>14, <1>15 DEF Tiled
<1>17. TiledExactly(l, new) /\ new + HEADER + length = end => TiledExactly(k, end)
  BY <1>7, <1>14, <1>15 DEF TiledExactly
<1>18. QED
  BY <1>2, <1>3, <1>5, <1>7, <1>8, <1>13, <1>15, <1>16, <1>17 DEF k

-----------------------------------------------------------------------------
(* Sizes.                                                                  *)

LEMMA OnceOver ==
  ASSUME NEW M \in Nat \ {0}, NEW x \in Nat, M <= x, x < 2 * M
  PROVE  x % M = x - M
<1> DEFINE q == x \div M
           r == x % M
<1>1. q \in Nat /\ r \in 0 .. M - 1 /\ x = M * q + r
  OBVIOUS
<1> HIDE DEF q, r
<1>2. q # 0
  BY <1>1
<1>3. q < 2
  <2> SUFFICES ASSUME q >= 2 PROVE FALSE
    BY <1>1
  <2>1. M * q >= M * 2
    BY <1>1
  <2>2. QED
    BY <2>1, <1>1
<1>4. q = 1
  BY <1>1, <1>2, <1>3
<1>5. x = M + r
  BY <1>1, <1>4
<1>6. QED
  BY <1>1, <1>5 DEF r

(* Rounding gives no less than was asked, unless it wraps: then it gives   *)
(* less than GRAIN, and nothing is split.                                  *)
LEMMA RoundedSize ==
  ASSUME NEW n \in 0 .. MODULUS - 1
  PROVE  /\ Rounded(n) \in 0 .. MODULUS - 1
         /\ Rounded(n) >= GRAIN => Rounded(n) >= n
<1> DEFINE up == IF n % GRAIN > 0 THEN n - (n % GRAIN) + GRAIN ELSE n
<1>0. GRAIN \in Nat \ {0} /\ MODULUS \in Nat \ {0} /\ n \in Nat /\ n < MODULUS
  BY HeapAssumption
<1>1. n % GRAIN \in 0 .. GRAIN - 1
  BY <1>0
<1>2. up \in Nat /\ up >= n /\ up - GRAIN < MODULUS
  BY <1>0, <1>1
<1> HIDE DEF up
<1>3. up % MODULUS \in 0 .. MODULUS - 1
  BY <1>0, <1>2
<1>4. CASE up < MODULUS
  <2>1. up % MODULUS = up
    BY <1>0, <1>2, <1>4
  <2>2. QED
    BY <2>1, <1>2, <1>3 DEF Rounded, up
<1>5. CASE up >= MODULUS
  <2>1. GRAIN < MODULUS
    BY HeapAssumption
  <2>2. up < 2 * MODULUS
    BY <1>0, <1>2, <2>1
  <2>3. up % MODULUS = up - MODULUS
    BY <1>0, <1>2, <1>5, <2>2, OnceOver
  <2>4. up % MODULUS < GRAIN
    BY <1>0, <1>2, <2>3
  <2>5. QED
    BY <2>4, <1>0, <1>3 DEF Rounded, up
<1>6. QED
  BY <1>0, <1>2, <1>4, <1>5

LEMMA PagesSize ==
  ASSUME NEW n \in 0 .. MODULUS - 1
  PROVE  /\ PagesFor(n) \in Nat
         /\ PagesFor(n) # 0 => /\ PagesFor(n) * PAGE \in Nat
                              /\ PagesFor(n) * PAGE >= PAGE
                              /\ PagesFor(n) * PAGE < MODULUS
<1> DEFINE x == (n + PAGE - 1) % MODULUS
           q == x \div PAGE
<1>0. PAGE \in Nat \ {0} /\ MODULUS \in Nat \ {0} /\ n \in Nat
  BY HeapAssumption
<1>1. n + PAGE - 1 \in Nat
  BY <1>0
<1>2. x \in 0 .. MODULUS - 1
  BY <1>0, <1>1
<1> HIDE DEF x
<1>3. q \in Nat /\ x = PAGE * q + (x % PAGE) /\ x % PAGE \in 0 .. PAGE - 1
  BY <1>0, <1>2
<1> HIDE DEF q
<1>4. q * PAGE \in Nat /\ q * PAGE <= x
  BY <1>0, <1>2, <1>3
<1>5. q # 0 => q * PAGE >= PAGE
  BY <1>0, <1>3
<1>6. QED
  BY <1>0, <1>2, <1>3, <1>4, <1>5 DEF PagesFor, x, q

-----------------------------------------------------------------------------
(* The inductive invariant.                                                *)

(* Blocks held lie in segments that are taken and long enough for them. *)
HeldOK(l, h) ==
  \A b \in DOMAIN h :
    /\ b - HEADER \in Segs(l)
    /\ ~l.header[b - HEADER].free
    /\ h[b] <= l.header[b - HEADER].length

(* Until something is freed the segments cover the heap, and only the last *)
(* may be free.                                                            *)
Untouched(l, end) ==
  /\ TiledExactly(l, end)
  /\ \A s \in Segs(l) : l.header[s].free => s = l.last

Structure(l, start, end, h, f) ==
  /\ Linked(l, start) /\ Tiled(l, end) /\ HeldOK(l, h)
  /\ \A s \in Segs(l) : start <= s
  /\ f \/ Untouched(l, end)

Calling ==
  /\ asked # 0 /\ size = Rounded(asked)
  /\ size >= GRAIN => size >= asked
  /\ pc = "walk" => current_segment \in Segs(list)
  /\ pc = "expand" => ~list.header[list.last].free

HeapInv ==
  /\ HeapTypeOK
  /\ pc = "off" => DOMAIN held = {} /\ ~freed /\ heap_end = heap_start
                   /\ heap_start # NULL
  /\ Sound => Structure(list, heap_start, heap_end, held, freed)
  /\ pc \in {"walk", "expand"} => Calling
  /\ pc \in {"off", "ready"} => asked = 0

LEMMA InitHeapInv == Init => HeapInv
<1> SUFFICES ASSUME Init PROVE HeapInv
  OBVIOUS
<1>1. heap_start \in Nat \ {0} /\ heap_end = heap_start /\ pc = "off"
      /\ asked = 0 /\ size = 0 /\ current_segment = 0 /\ frames = FRAMES /\ freed = FALSE
  BY HeapAssumption DEF Init, NULL
<1>2. PICK root \in Nat :
        list = [header |-> [a \in {NULL} |->
                  [length |-> root, next |-> NULL, last |-> NULL, free |-> FALSE]],
                last |-> NULL]
  BY HeapAssumption DEF Init
<1>3. Typed(list)
  BY <1>2 DEF Typed, Header, NULL
<1>4. held = [b \in {} |-> 0]
  BY DEF Init
<1>5. HeapTypeOK
  <2>1. DOMAIN held = {} /\ held \in [{} -> 0 .. MODULUS - 1]
    BY <1>4
  <2>2. DOMAIN held \subseteq Nat /\ held \in [DOMAIN held -> 0 .. MODULUS - 1]
    BY <2>1
  <2>3. 0 \in 0 .. MODULUS - 1 /\ frames \in 0 .. FRAMES
    BY <1>1, HeapAssumption
  <2>4. QED
    BY <1>1, <1>3, <2>2, <2>3 DEF HeapTypeOK, Typed, Modes
<1>6. QED
  BY <1>1, <1>4, <1>5 DEF HeapInv, Sound, NULL

LEMMA MapPagesType ==
  ASSUME NEW n \in Nat, NEW CONSTANT next, MapPages(n, next), frames \in 0 .. FRAMES
  PROVE  /\ frames' \in 0 .. FRAMES
         /\ pc' \in {"lost", "outside"} \/ (pc' = next /\ n # 0)
<1>1. PICK used \in n .. n * (1 + TABLES) :
        /\ pc' = IF n = 0 THEN "outside" ELSE IF used > frames THEN "lost" ELSE next
        /\ frames' = IF used > frames THEN 0 ELSE frames - used
  BY DEF MapPages
<1>2. used \in Nat
  <2>1. n * (1 + TABLES) \in Int
    BY HeapAssumption
  <2>2. QED
    BY <1>1, <2>1
<1>3. QED
  BY <1>1, <1>2, HeapAssumption

LEMMA heap_initInv == HeapInv /\ heap_init => HeapInv'
<1> SUFFICES ASSUME HeapInv, heap_init PROVE HeapInv'
  OBVIOUS
<1>0. /\ heap_start' = heap_start /\ asked' = asked /\ size' = size
      /\ current_segment' = current_segment /\ held' = held /\ freed' = freed
      /\ heap_start \in Nat \ {0} /\ DOMAIN held = {} /\ ~freed /\ HeapTypeOK
      /\ asked = 0
  BY DEF heap_init, call, history, HeapInv, HeapTypeOK, NULL
<1>1. PICK n \in PageCounts :
        /\ MapPages(n, "ready")
        /\ heap_end' = heap_start + n * PAGE
        /\ list' =
            [header |-> [a \in {NULL, heap_start} |->
               IF a = NULL THEN list.header[NULL]
               ELSE [length |-> n * PAGE - HEADER, next |-> NULL,
                     last |-> NULL, free |-> TRUE]],
             last |-> heap_start]
  BY DEF heap_init
<1>2. n * PAGE \in Nat /\ n * PAGE - HEADER \in Nat
  <2>1. n \in Nat \ {0} /\ PAGE \in Nat /\ HEADER \in Nat /\ PAGE >= HEADER
    BY HeapAssumption
  <2>2. n * PAGE >= PAGE
    BY <2>1
  <2>3. QED
    BY <2>1, <2>2
<1>3. pc' \in {"ready", "lost", "outside"} /\ frames' \in 0 .. FRAMES
  <2>1. n \in Nat
    BY HeapAssumption
  <2>2. QED
    BY <1>0, <1>1, <2>1, MapPagesType DEF HeapTypeOK
<1>4. list.header[NULL] \in Header
  BY <1>0 DEF HeapTypeOK
<1>5. /\ DOMAIN list'.header = {NULL, heap_start} /\ list'.last = heap_start
      /\ list'.header[heap_start] = [length |-> n * PAGE - HEADER, next |-> NULL,
                                     last |-> NULL, free |-> TRUE]
      /\ list'.header[NULL] = list.header[NULL]
      /\ list' = [header |-> list'.header, last |-> list'.last]
      /\ list'.header = [a \in {NULL, heap_start} |-> list'.header[a]]
  BY <1>0, <1>1 DEF NULL
<1>6. list'.header[heap_start] \in Header
  BY <1>2, <1>5 DEF Header, NULL
<1>7. Typed(list')
  BY <1>0, <1>4, <1>5, <1>6 DEF Typed, NULL
<1>8. Segs(list') = {heap_start}
  BY <1>0, <1>5 DEF Segs, NULL
<1>9. Linked(list', heap_start)
  BY <1>0, <1>5, <1>8 DEF Linked
<1>10. EndOf(list', heap_start) = Bound(list', heap_start, heap_end')
       /\ EndOf(list', heap_start) \in Nat
  <2> DEFINE room == n * PAGE
  <2>1. /\ EndOf(list', heap_start) = heap_start + HEADER + (room - HEADER)
        /\ Bound(list', heap_start, heap_end') = heap_start + room
    BY <1>1, <1>5 DEF EndOf, Bound
  <2>2. room \in Nat /\ heap_start \in Nat /\ HEADER \in Nat
    BY <1>0, <1>2, HeapAssumption
  <2> HIDE DEF room
  <2>3. QED
    BY <2>1, <2>2
<1>11. TiledExactly(list', heap_end') /\ Tiled(list', heap_end')
  BY <1>8, <1>10 DEF Tiled, TiledExactly
<1>12. Structure(list', heap_start, heap_end', held, freed)
  <2>1. \A s \in Segs(list') : heap_start <= s
    BY <1>0, <1>8
  <2>2. QED
    BY <2>1, <1>0, <1>5, <1>8, <1>9, <1>10, <1>11 DEF Structure, Untouched, HeldOK
<1>13. HeapTypeOK'
  BY <1>0, <1>1, <1>2, <1>3, <1>7 DEF HeapTypeOK, Typed, Modes
<1>14. QED
  BY <1>0, <1>3, <1>12, <1>13 DEF HeapInv

LEMMA mallocInv == ASSUME HeapInv, NEW n \in Requests, malloc(n) PROVE HeapInv'
<1>1. /\ heap_start' = heap_start /\ heap_end' = heap_end /\ list' = list
      /\ frames' = frames /\ held' = held /\ freed' = freed
      /\ pc = "ready" /\ pc' = "walk" /\ asked' = n /\ size' = Rounded(n)
      /\ current_segment' = heap_start
      /\ HeapTypeOK /\ Structure(list, heap_start, heap_end, held, freed)
  BY DEF malloc, history, HeapInv, Sound
<1>2. n \in 0 .. MODULUS - 1 /\ n \in Nat
  BY HeapAssumption
<1>3. Rounded(n) \in 0 .. MODULUS - 1 /\ (Rounded(n) >= GRAIN => Rounded(n) >= n)
  BY <1>2, RoundedSize
<1>4. HeapTypeOK'
  BY <1>1, <1>2, <1>3 DEF HeapTypeOK, Modes
<1>5. heap_start \in Segs(list)
  BY <1>1 DEF Structure, Linked
<1>6. Calling'
  <2>1. n # 0
    BY DEF malloc
  <2>2. QED
    BY <2>1, <1>1, <1>3, <1>5 DEF Calling, Rounded
<1>7. QED
  BY <1>1, <1>4, <1>6 DEF HeapInv

LEMMA NextSegmentInv == HeapInv /\ NextSegment => HeapInv'
<1> SUFFICES ASSUME HeapInv, NextSegment PROVE HeapInv'
  OBVIOUS
<1>1. /\ heap_start' = heap_start /\ heap_end' = heap_end /\ list' = list
      /\ frames' = frames /\ held' = held /\ freed' = freed
      /\ asked' = asked /\ size' = size /\ pc = "walk"
      /\ ~list.header[current_segment].free
      /\ HeapTypeOK /\ Structure(list, heap_start, heap_end, held, freed) /\ Calling
  BY DEF NextSegment, history, HeapInv, Sound
<1>2. current_segment \in Segs(list) /\ Linked(list, heap_start)
  BY <1>1 DEF Calling, Structure
<1>3. CASE list.header[current_segment].next = NULL
  <2>1. pc' = "expand" /\ current_segment' = current_segment
    BY <1>3 DEF NextSegment
  <2>2. current_segment = list.last
    BY <1>2, <1>3 DEF Linked, Segs
  <2>3. HeapTypeOK'
    BY <1>1, <2>1 DEF HeapTypeOK, Modes
  <2>4. Calling'
    BY <1>1, <2>1, <2>2 DEF Calling
  <2>5. QED
    BY <1>1, <2>1, <2>3, <2>4 DEF HeapInv
<1>4. CASE list.header[current_segment].next # NULL
  <2>1. pc' = "walk" /\ current_segment' = list.header[current_segment].next
    BY <1>1, <1>4 DEF NextSegment
  <2>2. current_segment # list.last
    BY <1>2, <1>4 DEF Linked
  <2>3. current_segment' \in Segs(list)
    BY <1>2, <2>1, <2>2 DEF Linked
  <2>4. current_segment' \in Nat
    BY <2>3, <1>1 DEF HeapTypeOK, Segs
  <2>5. HeapTypeOK'
    BY <1>1, <2>1, <2>4 DEF HeapTypeOK, Modes
  <2>6. Calling'
    BY <1>1, <2>1, <2>3 DEF Calling
  <2>7. QED
    BY <1>1, <2>1, <2>5, <2>6 DEF HeapInv
<1>5. QED
  BY <1>3, <1>4

(* The segment at the loop's position, split or not. *)
LEMMA SplitStep ==
  ASSUME NEW l, NEW start, NEW end \in Nat, NEW x \in Segs(l), NEW n \in Nat,
         Typed(l), Linked(l, start), Tiled(l, end)
  PROVE  LET k == IF l.header[x].length > n THEN heapseg_split(l, x, n) ELSE l
         IN  /\ Typed(k) /\ Linked(k, start) /\ Tiled(k, end)
             /\ TiledExactly(l, end) => TiledExactly(k, end)
             /\ Segs(l) \subseteq Segs(k) /\ k.header[x].free = l.header[x].free
             /\ \A s \in Segs(l) \ {x} :
                  /\ k.header[s].length = l.header[s].length
                  /\ k.header[s].free = l.header[s].free
             /\ \/ k = l
                \/ /\ n >= GRAIN /\ k.header[x].length = n
                   /\ \E new \in Segs(k) \ Segs(l) :
                        /\ Segs(k) = Segs(l) \cup {new} /\ x < new
                        /\ k.last = (IF l.last = x THEN new ELSE l.last)
<1> DEFINE k    == IF l.header[x].length > n THEN heapseg_split(l, x, n) ELSE l
           rest == l.header[x].length - n - HEADER
<1>0. l.header[x].length \in Nat /\ GRAIN \in Nat /\ HEADER \in Nat
  BY HeapAssumption DEF Typed, Segs, Header
<1>1. CASE l.header[x].length > n /\ n >= GRAIN /\ rest >= GRAIN
  <2>1. k = SplitAt(l, x, n, rest)
    BY <1>0, <1>1 DEF heapseg_split
  <2>2. rest \in Nat
    BY <1>0, <1>1
  <2> HIDE DEF rest
  <2>3. rest = l.header[x].length - n - HEADER
    BY DEF rest
  <2>4. LET k0  == SplitAt(l, x, n, rest)
            new == x + n + HEADER
        IN  /\ Typed(k0) /\ Linked(k0, start) /\ Tiled(k0, end)
            /\ TiledExactly(l, end) => TiledExactly(k0, end)
            /\ new \notin Segs(l) /\ Segs(k0) = Segs(l) \cup {new}
            /\ k0.header[x].length = n /\ k0.header[x].free = l.header[x].free
            /\ k0.header[new].free = l.header[x].free
            /\ k0.last = (IF l.last = x THEN new ELSE l.last)
            /\ \A s \in Segs(l) \ {x} :
                 /\ k0.header[s].length = l.header[s].length
                 /\ k0.header[s].free = l.header[s].free
    BY <2>2, <2>3, SplitSound
  <2>5. x < x + n + HEADER
    BY <1>0, HeapAssumption DEF Typed, Segs
  <2> HIDE DEF k
  <2>6. QED
    BY <1>1, <2>1, <2>4, <2>5 DEF k
<1>2. CASE ~(l.header[x].length > n /\ n >= GRAIN /\ rest >= GRAIN)
  <2>1. k = l
    BY <1>0, <1>2 DEF heapseg_split
  <2>2. QED
    BY <2>1
<1>3. QED
  BY <1>1, <1>2

(* What the loop takes keeps its length, or has the size asked for.         *)
LEMMA TakenLength ==
  ASSUME HeapInv, TakeSegment
  PROVE  LET c == current_segment
             n == list'.header[c].length
         IN  n \in Nat /\ (n = list.header[c].length \/ n >= asked)
<1> DEFINE c == current_segment
           k == IF list.header[c].length > size THEN heapseg_split(list, c, size) ELSE list
<1>1. list' = WithFree(k, c, FALSE) /\ pc = "walk"
  BY DEF TakeSegment, Taken
<1>2. HeapTypeOK /\ Structure(list, heap_start, heap_end, held, freed) /\ Calling
  BY <1>1 DEF HeapInv, Sound
<1>3. /\ c \in Segs(list) /\ Linked(list, heap_start) /\ Tiled(list, heap_end)
      /\ Typed(list) /\ heap_end \in Nat /\ size \in Nat
      /\ size >= GRAIN => size >= asked
  BY <1>1, <1>2 DEF Calling, Structure, HeapTypeOK, Typed
<1> HIDE DEF c
<1>4. /\ Typed(k) /\ c \in Segs(k)
      /\ k = list \/ (size >= GRAIN /\ k.header[c].length = size)
  BY <1>3, SplitStep
<1> HIDE DEF k
<1>5. k.header[c] \in Header /\ c \in DOMAIN k.header
  BY <1>4 DEF Typed, Segs
<1>6. list'.header[c] = [k.header[c] EXCEPT !.free = FALSE]
  BY <1>1, <1>5 DEF WithFree
<1>7. list'.header[c].length = k.header[c].length
  BY <1>5, <1>6 DEF Header
<1>8. QED
  BY <1>3, <1>4, <1>5, <1>7 DEF c, Header

LEMMA TakeSegmentInv == HeapInv /\ TakeSegment => HeapInv'
<1> SUFFICES ASSUME HeapInv, TakeSegment PROVE HeapInv'
  OBVIOUS
<1> DEFINE c == current_segment
           k == IF list.header[c].length > size THEN heapseg_split(list, c, size) ELSE list
<1>1. /\ heap_start' = heap_start /\ heap_end' = heap_end /\ frames' = frames
      /\ freed' = freed /\ asked' = 0 /\ size' = 0 /\ current_segment' = NULL
      /\ pc = "walk" /\ list.header[c].free
      /\ list' = WithFree(k, c, FALSE)
      /\ pc' = IF list'.header[c].length >= asked THEN "ready" ELSE "short"
      /\ held' = [b \in DOMAIN held \cup {c + HEADER} |->
                    IF b = c + HEADER THEN asked ELSE held[b]]
  BY DEF TakeSegment, Taken
<1>2. /\ HeapTypeOK /\ Structure(list, heap_start, heap_end, held, freed) /\ Calling
  BY <1>1 DEF HeapInv, Sound
<1>3. /\ c \in Segs(list) /\ Linked(list, heap_start) /\ Tiled(list, heap_end)
      /\ HeldOK(list, held) /\ (freed \/ Untouched(list, heap_end))
      /\ \A s \in Segs(list) : heap_start <= s
  BY <1>1, <1>2 DEF Calling, Structure
<1>4. Typed(list) /\ heap_end \in Nat /\ size \in Nat /\ c \in Nat /\ HEADER \in Nat
      /\ heap_start \in Nat
  BY <1>2, HeapAssumption DEF HeapTypeOK, Typed
<1> HIDE DEF c
<1>5. /\ Typed(k) /\ Linked(k, heap_start) /\ Tiled(k, heap_end)
      /\ TiledExactly(list, heap_end) => TiledExactly(k, heap_end)
      /\ Segs(list) \subseteq Segs(k) /\ k.header[c].free = list.header[c].free
      /\ \A s \in Segs(list) \ {c} :
           /\ k.header[s].length = list.header[s].length
           /\ k.header[s].free = list.header[s].free
      /\ \/ k = list
         \/ /\ size >= GRAIN /\ k.header[c].length = size
            /\ \E new \in Segs(k) \ Segs(list) :
                 /\ Segs(k) = Segs(list) \cup {new} /\ c < new
                 /\ k.last = (IF list.last = c THEN new ELSE list.last)
  BY <1>3, <1>4, SplitStep
<1> HIDE DEF k
<1>6. /\ Typed(list') /\ Linked(list', heap_start) /\ Segs(list') = Segs(k)
      /\ list'.last = k.last
      /\ \A s \in Segs(k) :
           /\ list'.header[s].length = k.header[s].length
           /\ list'.header[s].next = k.header[s].next
           /\ list'.header[s].free = IF s = c THEN FALSE ELSE k.header[s].free
  <2>1. c \in Segs(k) /\ Typed(k) /\ Linked(k, heap_start)
    BY <1>3, <1>5
  <2>2. FALSE \in BOOLEAN
    OBVIOUS
  <2>3. Marked(k, heap_start, c, FALSE, WithFree(k, c, FALSE))
    BY <2>1, <2>2, WithFreeSound, Zenon
  <2>4. QED
    BY <2>3, <1>1 DEF Marked
<1>7. \A s \in Segs(k) : /\ EndOf(list', s) = EndOf(k, s)
                         /\ Bound(list', s, heap_end) = Bound(k, s, heap_end)
  BY <1>6 DEF EndOf, Bound
<1>8. Tiled(list', heap_end) /\ (TiledExactly(list, heap_end) => TiledExactly(list', heap_end))
  BY <1>5, <1>6, <1>7 DEF Tiled, TiledExactly
<1>9. ASSUME pc' = "ready" PROVE HeldOK(list', held')
  <2> SUFFICES ASSUME NEW b \in DOMAIN held'
               PROVE  /\ b - HEADER \in Segs(list')
                      /\ ~list'.header[b - HEADER].free
                      /\ held'[b] <= list'.header[b - HEADER].length
    BY DEF HeldOK
  <2>1. asked \in Nat /\ asked <= list'.header[c].length
    <3>1. asked \in Nat
      BY <1>2 DEF HeapTypeOK
    <3>2. list'.header[c].length >= asked
      BY <1>1, <1>9
    <3>3. list'.header[c].length \in Nat
      BY <1>3, <1>5, <1>6 DEF Typed, Segs, Header
    <3>4. QED
      BY <3>1, <3>2, <3>3
  <2>2. CASE b = c + HEADER
    <3>1. b - HEADER = c /\ held'[b] = asked
      BY <1>1, <1>4, <2>2
    <3>2. QED
      BY <3>1, <2>1, <1>3, <1>5, <1>6
  <2>3. CASE b # c + HEADER
    <3>1. b \in DOMAIN held /\ held'[b] = held[b]
      BY <1>1, <2>3
    <3>2. /\ b - HEADER \in Segs(list) /\ ~list.header[b - HEADER].free
          /\ held[b] <= list.header[b - HEADER].length
      BY <3>1, <1>3 DEF HeldOK
    <3>3. b - HEADER # c
      BY <3>2, <1>1
    <3>4. /\ b - HEADER \in Segs(list')
          /\ list'.header[b - HEADER].length = k.header[b - HEADER].length
          /\ list'.header[b - HEADER].free = k.header[b - HEADER].free
      BY <3>2, <3>3, <1>5, <1>6
    <3>5. /\ k.header[b - HEADER].length = list.header[b - HEADER].length
          /\ k.header[b - HEADER].free = list.header[b - HEADER].free
      BY <3>2, <3>3, <1>5
    <3>6. QED
      BY <3>1, <3>2, <3>4, <3>5
  <2>4. QED
    BY <2>2, <2>3
<1>10. freed \/ Untouched(list', heap_end)
  <2> SUFFICES ASSUME ~freed PROVE Untouched(list', heap_end)
    OBVIOUS
  <2>1. TiledExactly(list', heap_end) /\ list.last = c
    BY <1>1, <1>3, <1>8 DEF Untouched
  <2>2. ASSUME NEW s \in Segs(list'), list'.header[s].free PROVE s = list'.last
    <3>1. s # c /\ k.header[s].free /\ s \in Segs(k)
      BY <2>2, <1>6
    <3>2. s \notin Segs(list)
      BY <3>1, <2>1, <1>3, <1>5 DEF Untouched
    <3>3. PICK new \in Segs(k) \ Segs(list) :
            Segs(k) = Segs(list) \cup {new} /\ k.last = new
      BY <3>1, <3>2, <2>1, <1>5
    <3>4. QED
      BY <3>1, <3>2, <3>3, <1>6
  <2>3. QED
    BY <2>1, <2>2 DEF Untouched
<1>11. Sound' => Structure(list', heap_start, heap_end, held', freed)
  <2>1. Sound' => pc' = "ready"
    BY <1>1 DEF Sound
  <2>2. \A s \in Segs(k) : heap_start <= s
    <3>1. heap_start <= c /\ \A s \in Segs(k) : s \in Nat
      BY <1>3, <1>5 DEF Typed, Segs
    <3>2. QED
      BY <3>1, <1>3, <1>4, <1>5
  <2>3. QED
    BY <2>1, <2>2, <1>6, <1>8, <1>9, <1>10 DEF Structure
<1>12. HeapTypeOK'
  <2>1. asked \in 0 .. MODULUS - 1 /\ c + HEADER \in Nat
    BY <1>2, <1>4 DEF HeapTypeOK
  <2>2. DOMAIN held' \subseteq Nat /\ held' \in [DOMAIN held' -> 0 .. MODULUS - 1]
    BY <1>1, <1>2, <2>1 DEF HeapTypeOK
  <2>3. 0 \in 0 .. MODULUS - 1 /\ NULL \in Nat
    BY HeapAssumption DEF NULL
  <2>4. pc' \in Modes
    BY <1>1 DEF Modes
  <2>5. QED
    BY <1>1, <1>2, <1>6, <2>2, <2>3, <2>4 DEF HeapTypeOK, Typed
<1>13. QED
  <2>1. pc' \notin {"off", "walk", "expand"}
    BY <1>1
  <2>2. QED
    BY <1>1, <1>11, <1>12, <2>1 DEF HeapInv

(* An expansion adds its pages as a segment; without frames or pages only *)
(* left.                                                                   *)
LEMMA heap_expandInv == HeapInv /\ heap_expand => HeapInv'
<1> SUFFICES ASSUME HeapInv, heap_expand PROVE HeapInv'
  OBVIOUS
<1> DEFINE pages  == PagesFor(size)
           room   == pages * PAGE
           length == (room - HEADER) % MODULUS
           k      == heapseg_combine_backward(WithSegment(list, heap_end, length), heap_end)
<1>1. /\ heap_start' = heap_start /\ asked' = asked /\ size' = size
      /\ held' = held /\ freed' = freed /\ current_segment' = heap_start
      /\ pc = "expand" /\ MapPages(pages, "walk") /\ heap_end' = heap_end + room
      /\ list' = k
  BY DEF heap_expand, history
<1>2. /\ HeapTypeOK /\ Structure(list, heap_start, heap_end, held, freed) /\ Calling
  BY <1>1 DEF HeapInv, Sound
<1>3. /\ Typed(list) /\ Linked(list, heap_start) /\ Tiled(list, heap_end)
      /\ HeldOK(list, held) /\ (freed \/ Untouched(list, heap_end))
      /\ heap_end \in Nat /\ heap_start \in Nat /\ ~list.header[list.last].free
      /\ \A s \in Segs(list) : heap_start <= s
      /\ frames \in 0 .. FRAMES
  BY <1>1, <1>2 DEF HeapTypeOK, Typed, Structure, Calling
<1>4. /\ pages \in Nat
      /\ pages # 0 => room \in Nat /\ room >= PAGE /\ room < MODULUS
  BY <1>2, PagesSize DEF HeapTypeOK
<1>5. /\ frames' \in 0 .. FRAMES
      /\ pc' \in {"lost", "outside"} \/ (pc' = "walk" /\ pages # 0)
  BY <1>1, <1>3, <1>4, MapPagesType
<1>6. room \in Nat
  BY <1>4, HeapAssumption
<1> HIDE DEF room, pages
<1>7. length \in Nat /\ (pages # 0 => heap_end + HEADER + length = heap_end + room)
  <2>1. HEADER \in Nat /\ MODULUS \in Nat \ {0} /\ PAGE >= HEADER /\ PAGE \in Nat
    BY HeapAssumption
  <2>2. length \in Nat
    BY <2>1, <1>6
  <2>3. ASSUME pages # 0 PROVE length = room - HEADER
    <3>1. room - HEADER \in 0 .. MODULUS - 1
      BY <2>1, <2>3, <1>4
    <3>2. QED
      BY <2>1, <3>1
  <2> HIDE DEF length
  <2>4. QED
    BY <2>1, <2>2, <2>3, <1>3, <1>6
<1> HIDE DEF length
<1> DEFINE end == heap_end + HEADER + length
<1>8. end \in Nat
  BY <1>3, <1>7, HeapAssumption
<1> HIDE DEF end
<1>9. /\ Typed(k) /\ Linked(k, heap_start) /\ Tiled(k, end)
      /\ TiledExactly(list, heap_end) => TiledExactly(k, end)
      /\ Segs(k) = Segs(list) \cup {heap_end} /\ k.last = heap_end
      /\ \A s \in Segs(list) :
           /\ k.header[s].length = list.header[s].length
           /\ k.header[s].free = list.header[s].free
  <2>1. heap_end + HEADER + length <= end /\ heap_end + HEADER + length = end
    BY <1>8 DEF end
  <2>2. LET w == heapseg_combine_backward(WithSegment(list, heap_end, length), heap_end)
        IN  /\ Typed(w) /\ Linked(w, heap_start) /\ Tiled(w, end)
            /\ TiledExactly(list, heap_end) /\ heap_end + HEADER + length = end
                 => TiledExactly(w, end)
            /\ heap_end \notin Segs(list)
            /\ Segs(w) = Segs(list) \cup {heap_end} /\ w.last = heap_end
            /\ \A s \in Segs(list) :
                 /\ w.header[s].length = list.header[s].length
                 /\ w.header[s].free = list.header[s].free
    BY <2>1, <1>3, <1>7, <1>8, WithSegmentSound
  <2>3. QED
    BY <2>1, <2>2
<1> HIDE DEF k
<1>10. ASSUME pc' = "walk" PROVE Structure(list', heap_start, heap_end', held, freed)
  <2>1. heap_end' = end
    BY <1>10, <1>1, <1>5, <1>7 DEF end
  <2>2. HeldOK(list', held)
    BY <1>1, <1>3, <1>9 DEF HeldOK
  <2>3. ASSUME ~freed PROVE Untouched(list', heap_end')
    <3>1. TiledExactly(list, heap_end) /\ \A s \in Segs(list) : list.header[s].free => s = list.last
      BY <2>3, <1>3 DEF Untouched
    <3>2. \A s \in Segs(list) : ~list.header[s].free
      BY <3>1, <1>3
    <3>3. QED
      BY <3>1, <3>2, <2>1, <1>1, <1>9 DEF Untouched
  <2>4. heap_start <= heap_end
    <3>1. heap_start \in Segs(list) /\ EndOf(list, heap_start) <= heap_end
      BY <1>3, EndsWithin DEF Linked
    <3>2. list.header[heap_start].length \in Nat /\ HEADER \in Nat
      BY <3>1, <1>3, HeapAssumption DEF Typed, Segs, Header
    <3>3. QED
      BY <3>1, <3>2, <1>3 DEF EndOf
  <2>5. QED
    BY <2>1, <2>2, <2>3, <2>4, <1>1, <1>3, <1>9 DEF Structure
<1>11. HeapTypeOK'
  <2>1. heap_end' \in Nat
    BY <1>1, <1>3, <1>6
  <2>2. QED
    BY <1>1, <1>2, <1>3, <1>5, <1>9, <2>1 DEF HeapTypeOK, Typed, Modes
<1>12. pc' = "walk" => Calling'
  <2>1. heap_start \in Segs(list')
    BY <1>1, <1>9 DEF Linked
  <2>2. QED
    BY <1>1, <1>2, <2>1 DEF Calling
<1>13. QED
  BY <1>1, <1>5, <1>10, <1>11, <1>12 DEF HeapInv, Sound

(* A release merges segments that are free, so no block is lost; where the *)
(* segment released then ends is tested by the model, which goes on only   *)
(* if that is not over the next one.                                       *)
LEMMA freeInv == ASSUME HeapInv, NEW a \in DOMAIN held, free(a) PROVE HeapInv'
<1> DEFINE x == a - HEADER
           w == WithFree(list, x, TRUE)
           f == heapseg_combine_forward(w, x)
           k == heapseg_combine_backward(f, x)
<1>1. /\ heap_start' = heap_start /\ heap_end' = heap_end /\ frames' = frames
      /\ asked' = asked /\ size' = size /\ current_segment' = current_segment
      /\ freed' = TRUE /\ pc = "ready" /\ list' = k
      /\ pc' = IF EndOf(k, x) <= Bound(k, x, heap_end) THEN "ready" ELSE "overlong"
      /\ held' = [b \in DOMAIN held \ {a} |-> held[b]]
  BY DEF free, call
<1>2. HeapTypeOK /\ Structure(list, heap_start, heap_end, held, freed)
  BY <1>1 DEF HeapInv, Sound
<1>3. /\ Typed(list) /\ Linked(list, heap_start) /\ Tiled(list, heap_end)
      /\ HeldOK(list, held) /\ heap_end \in Nat /\ x \in Segs(list)
      /\ \A s \in Segs(list) : heap_start <= s
  BY <1>2 DEF HeapTypeOK, Typed, Structure, HeldOK
<1>4. a \in Nat /\ HEADER \in Nat /\ \A b \in DOMAIN held : b \in Nat
  BY <1>2, HeapAssumption DEF HeapTypeOK
<1> HIDE DEF x
<1>5. /\ Typed(w) /\ Linked(w, heap_start) /\ Segs(w) = Segs(list)
      /\ \A s \in Segs(list) :
           /\ w.header[s].length = list.header[s].length
           /\ w.header[s].next = list.header[s].next
           /\ w.header[s].free = IF s = x THEN TRUE ELSE list.header[s].free
  <2>1. TRUE \in BOOLEAN
    OBVIOUS
  <2>2. Marked(list, heap_start, x, TRUE, WithFree(list, x, TRUE))
    BY <2>1, <1>3, WithFreeSound, Zenon
  <2>3. QED
    BY <2>2 DEF Marked
<1> HIDE DEF w
<1>6. /\ Typed(f) /\ Linked(f, heap_start) /\ Segs(f) \subseteq Segs(w) /\ x \in Segs(f)
      /\ \A s \in Segs(w) \ Segs(f) : w.header[s].free
      /\ \A s \in Segs(f) : f.header[s].free = w.header[s].free
      /\ \A s \in Segs(f) \ {x} :
           /\ f.header[s].length = w.header[s].length
           /\ Bound(f, s, heap_end) = Bound(w, s, heap_end)
  <2>1. x \in Segs(w)
    BY <1>3, <1>5
  <2>2. LET v == heapseg_combine_forward(w, x)
        IN  /\ Typed(v) /\ Linked(v, heap_start)
            /\ Segs(v) \subseteq Segs(w) /\ x \in Segs(v)
            /\ \A s \in Segs(w) \ Segs(v) : w.header[s].free
            /\ \A s \in Segs(v) : v.header[s].free = w.header[s].free
            /\ \A s \in Segs(v) \ {x} :
                 /\ v.header[s].length = w.header[s].length
                 /\ Bound(v, s, heap_end) = Bound(w, s, heap_end)
    BY <2>1, <1>3, <1>5, CombineSound
  <2>3. QED
    BY <2>2
<1> HIDE DEF f
<1>7. /\ Typed(k) /\ Linked(k, heap_start) /\ Segs(k) \subseteq Segs(f) /\ x \in Segs(k)
      /\ \A s \in Segs(f) \ Segs(k) : f.header[s].free
      /\ \A s \in Segs(k) : k.header[s].free = f.header[s].free
      /\ \A s \in Segs(k) \ {x} :
           /\ k.header[s].length = f.header[s].length
           /\ Bound(k, s, heap_end) = Bound(f, s, heap_end)
  <2>1. CASE k = f
    BY <2>1, <1>6
  <2>2. CASE k = heapseg_combine_forward(f, x)
    <3>1. LET v == heapseg_combine_forward(f, x)
          IN  /\ Typed(v) /\ Linked(v, heap_start)
              /\ Segs(v) \subseteq Segs(f) /\ x \in Segs(v)
              /\ \A s \in Segs(f) \ Segs(v) : f.header[s].free
              /\ \A s \in Segs(v) : v.header[s].free = f.header[s].free
              /\ \A s \in Segs(v) \ {x} :
                   /\ v.header[s].length = f.header[s].length
                   /\ Bound(v, s, heap_end) = Bound(f, s, heap_end)
      BY <1>3, <1>6, CombineSound
    <3> HIDE DEF k
    <3>2. QED
      BY <3>1, <2>2
  <2>3. QED
    BY <2>1, <2>2 DEF heapseg_combine_backward
<1> HIDE DEF k
<1>8. /\ Segs(k) \subseteq Segs(list)
      /\ \A s \in Segs(list) \ Segs(k) : s = x \/ list.header[s].free
      /\ \A s \in Segs(k) \ {x} :
           /\ k.header[s].length = list.header[s].length
           /\ k.header[s].free = list.header[s].free
           /\ Bound(k, s, heap_end) = Bound(list, s, heap_end)
  <2>1. \A s \in Segs(list) : Bound(w, s, heap_end) = Bound(list, s, heap_end)
    BY <1>5 DEF Bound
  <2>2. QED
    BY <2>1, <1>5, <1>6, <1>7
<1>9. ASSUME pc' = "ready" PROVE Tiled(list', heap_end)
  <2>1. EndOf(k, x) <= Bound(k, x, heap_end)
    BY <1>9, <1>1
  <2>2. \A s \in Segs(k) \ {x} : EndOf(k, s) <= Bound(k, s, heap_end)
    BY <1>3, <1>8 DEF Tiled, EndOf
  <2>3. QED
    BY <2>1, <2>2, <1>1 DEF Tiled
<1>10. HeldOK(list', held')
  <2> SUFFICES ASSUME NEW b \in DOMAIN held'
               PROVE  /\ b - HEADER \in Segs(k)
                      /\ ~k.header[b - HEADER].free
                      /\ held'[b] <= k.header[b - HEADER].length
    BY <1>1 DEF HeldOK
  <2>1. b \in DOMAIN held /\ b # a /\ held'[b] = held[b]
    BY <1>1
  <2>2. /\ b - HEADER \in Segs(list) /\ ~list.header[b - HEADER].free
        /\ held[b] <= list.header[b - HEADER].length
    BY <2>1, <1>3 DEF HeldOK
  <2>3. b - HEADER # x
    BY <2>1, <1>4 DEF x
  <2>4. QED
    BY <2>1, <2>2, <2>3, <1>8
<1>11. Sound' => Structure(list', heap_start, heap_end, held', freed')
  <2>1. Sound' => pc' = "ready"
    BY <1>1 DEF Sound
  <2>2. QED
    BY <2>1, <1>1, <1>3, <1>7, <1>8, <1>9, <1>10 DEF Structure
<1>12. HeapTypeOK'
  BY <1>1, <1>2, <1>7 DEF HeapTypeOK, Typed, Modes
<1>13. QED
  BY <1>1, <1>11, <1>12 DEF HeapInv

-----------------------------------------------------------------------------
LEMMA StepHeapInv == HeapInv /\ [Next]_vars => HeapInv'
<1> SUFFICES ASSUME HeapInv, [Next]_vars PROVE HeapInv'
  OBVIOUS
<1>1. CASE heap_init
  BY <1>1, heap_initInv
<1>2. CASE \E n \in Requests : malloc(n)
  BY <1>2, mallocInv
<1>3. CASE NextSegment
  BY <1>3, NextSegmentInv
<1>4. CASE TakeSegment
  BY <1>4, TakeSegmentInv
<1>5. CASE heap_expand
  BY <1>5, heap_expandInv
<1>6. CASE \E a \in DOMAIN held : free(a)
  BY <1>6, freeInv
<1>7. CASE UNCHANGED vars
  BY <1>7 DEF vars, call, history, HeapInv, HeapTypeOK, Sound, Calling
<1>8. QED
  BY <1>1, <1>2, <1>3, <1>4, <1>5, <1>6, <1>7 DEF Next, Malloc

LEMMA HeapInvariant == Spec => []HeapInv
BY InitHeapInv, StepHeapInv, PTL DEF Spec

(* Headers, pointers and sizes keep their types: no split leaves a segment *)
(* of negative length, whatever is asked (heap.c:67-86).                   *)
THEOREM HeapTypeCorrect == Spec => []HeapTypeOK
<1>1. HeapInv => HeapTypeOK
  BY DEF HeapInv
<1>2. QED
  BY <1>1, HeapInvariant, PTL

(* No sequence of splits, merges and expansions breaks the list's links    *)
(* (heap.c:67-129).                                                        *)
THEOREM ListAlwaysSound == Spec => []ListSound
<1>1. HeapInv => ListSound
  BY DEF HeapInv, ListSound, Structure, Linked, Segs, Segments
<1>2. QED
  BY <1>1, HeapInvariant, PTL

(* The segments never overlap, and cover the heap until something is freed *)
(* (heap.c:67-129).                                                        *)
THEOREM SegmentsAlwaysTile == Spec => []SegmentsTile
<1>1. HeapInv => SegmentsTile
  BY DEF HeapInv, SegmentsTile, Structure, Tiled, Untouched, TiledExactly, Segs, Segments
<1>2. QED
  BY <1>1, HeapInvariant, PTL

-----------------------------------------------------------------------------
(* The heap and the arena it promises: a step of the heap is one of the    *)
(* arena or leaves it as it is.                                            *)

LEMMA ExtendsArena ==
  ASSUME HeapInv, NEW n \in Nat, NEW CONSTANT next \in {"ready", "walk"},
         MapPages(n, next), heap_end' = heap_end + n * PAGE,
         UNCHANGED <<heap_start, held, freed, asked>>,
         n = 0 <=> asked \in Unmappable, pc \in {"off", "expand"}
  PROVE  Arena!Next
<1>1. Promise = "kept"
  BY DEF Promise
<1>2. PICK used \in n .. n * (1 + TABLES) :
        /\ pc' = IF n = 0 THEN "outside" ELSE IF used > frames THEN "lost" ELSE next
        /\ frames' = IF used > frames THEN 0 ELSE frames - used
  BY DEF MapPages
<1>3. used \in Int /\ used >= n /\ (n = 0 => used = 0) /\ frames \in Nat /\ heap_end \in Nat
  <2>1. n * (1 + TABLES) \in Int /\ (n = 0 => n * (1 + TABLES) = 0)
    BY HeapAssumption
  <2>2. QED
    BY <1>2, <2>1, HeapAssumption DEF HeapInv, HeapTypeOK
<1>4. CASE n = 0
  <2>1. heap_end' = heap_end /\ frames' = frames /\ pc' = "outside"
    <3>1. n * PAGE = 0 /\ PAGE \in Nat
      BY <1>4, HeapAssumption
    <3>2. QED
      BY <1>2, <1>3, <1>4, <3>1
  <2>2. QED
    BY <1>1, <1>4, <2>1 DEF Promise, Arena!Next, Arena!Overrun
<1>5. CASE n # 0 /\ used > frames
  BY <1>1, <1>2, <1>5 DEF Promise, Arena!Next, Arena!Starve
<1>6. CASE n # 0 /\ ~(used > frames)
  <2>1. heap_end' > heap_end
    <3> DEFINE room == n * PAGE
    <3>1. PAGE \in Nat \ {0}
      BY HeapAssumption
    <3>2. room \in Nat \ {0}
      BY <1>6, <3>1
    <3> HIDE DEF room
    <3>3. heap_end' = heap_end + room
      BY DEF room
    <3>4. QED
      BY <1>3, <3>2, <3>3
  <2>2. frames' < frames /\ pc' = next
    BY <1>2, <1>3, <1>6
  <2>3. QED
    BY <1>1, <1>6, <2>1, <2>2 DEF Promise, Arena!Next, Arena!Extend
<1>7. QED
  BY <1>4, <1>5, <1>6

LEMMA TakesFromArena == HeapInv /\ TakeSegment => Arena!Next
<1> SUFFICES ASSUME HeapInv, TakeSegment PROVE Arena!Next
  OBVIOUS
<1> DEFINE c == current_segment
           a == c + HEADER
<1>1. /\ heap_start' = heap_start /\ heap_end' = heap_end /\ freed' = freed
      /\ pc = "walk" /\ list.header[c].free
      /\ pc' = IF list'.header[c].length >= asked THEN "ready" ELSE "short"
      /\ held' = [b \in DOMAIN held \cup {a} |-> IF b = a THEN asked ELSE held[b]]
      /\ asked' = 0 /\ frames' = frames
  BY DEF TakeSegment
<1>2. HeapTypeOK /\ Structure(list, heap_start, heap_end, held, freed) /\ Calling
  BY <1>1 DEF HeapInv, Sound
<1>3. /\ c \in Segs(list) /\ heap_start <= c /\ HeldOK(list, held)
      /\ Typed(list) /\ Linked(list, heap_start) /\ Tiled(list, heap_end)
      /\ heap_end \in Nat /\ heap_start \in Nat /\ HEADER \in Nat \ {0}
      /\ c \in Nat /\ asked \in Nat /\ size \in Nat
      /\ freed \/ Untouched(list, heap_end)
      /\ size >= GRAIN => size >= asked
      /\ asked # 0
  BY <1>1, <1>2, HeapAssumption DEF HeapTypeOK, Typed, Structure, Calling
<1>4. Promise = "kept"
  BY <1>1 DEF Promise
<1>5. HeapInv'
  BY TakeSegmentInv
<1> HIDE DEF c
<1>6. a \in DOMAIN held' /\ held'[a] = asked
  BY <1>1
<1>7. CASE pc' = "ready"
  <2>1. /\ Typed(list') /\ Linked(list', heap_start) /\ Tiled(list', heap_end)
        /\ HeldOK(list', held')
    BY <1>1, <1>5, <1>7 DEF HeapInv, HeapTypeOK, Typed, Sound, Structure
  <2>2. /\ c \in Segs(list') /\ asked <= list'.header[c].length
        /\ list'.header[c].length \in Nat
    <3>1. a - HEADER = c
      BY <1>3
    <3>2. c \in Segs(list') /\ asked <= list'.header[c].length
      BY <3>1, <2>1, <1>6 DEF HeldOK
    <3>3. QED
      BY <3>2, <2>1 DEF Typed, Segs, Header
  <2>3. a >= heap_start /\ a + asked <= heap_end
    <3>1. EndOf(list', c) <= heap_end
      BY <2>1, <2>2, <1>3, EndsWithin
    <3>2. QED
      BY <3>1, <2>2, <1>3 DEF EndOf
  <2>4. ASSUME NEW b \in DOMAIN held
        PROVE  Arena!Bytes(b, held[b]) \cap Arena!Bytes(a, asked) = {}
    <3> DEFINE s == b - HEADER
    <3>1. s \in Segs(list) /\ s # c /\ b \in Nat /\ s \in Nat
      BY <1>1, <1>2, <1>3 DEF HeldOK, HeapTypeOK, Segs, Typed
    <3>2. b # a
      BY <3>1, <1>3
    <3>3. b \in DOMAIN held' /\ held'[b] = held[b]
      BY <3>2, <1>1
    <3>4. s \in Segs(list') /\ held[b] <= list'.header[s].length
      BY <3>3, <2>1 DEF HeldOK
    <3>5. list'.header[s].length \in Nat /\ held[b] \in Nat /\ b = s + HEADER
      BY <3>1, <3>4, <2>1, <1>2, <1>3 DEF Typed, Segs, Header, HeapTypeOK
    <3> HIDE DEF s
    <3>6. CASE s < c
      <4>1. EndOf(list', s) <= c
        BY <3>4, <3>6, <2>1, <2>2, <1>3, Apart
      <4>2. b + held[b] <= a
        BY <4>1, <3>1, <3>4, <3>5, <1>3 DEF EndOf
      <4>3. QED
        BY <4>2, <3>1, <3>5, <1>3 DEF Arena!Bytes
    <3>7. CASE c < s
      <4>1. EndOf(list', c) <= s
        BY <3>4, <3>7, <2>1, <2>2, <1>3, Apart
      <4>2. a + asked <= b
        BY <4>1, <2>2, <3>1, <3>5, <1>3 DEF EndOf
      <4>3. QED
        BY <4>2, <3>1, <3>5, <1>3 DEF Arena!Bytes
    <3>8. QED
      BY <3>1, <3>6, <3>7, <1>3
  <2>5. Promise' = "kept"
    BY <1>7 DEF Promise
  <2>6. Arena!Grant(a)
    BY <2>3, <2>4, <2>5, <1>1, <1>3, <1>4, <1>6 DEF Arena!Grant
  <2>7. QED
    BY <2>6, <1>4, <1>6 DEF Arena!Next
<1>8. CASE pc' = "short"
  <2>1. Promise' = "broken"
    BY <1>8 DEF Promise
  <2>2. ASSUME ~freed PROVE a + held'[a] > heap_end
    <3>1. c = list.last /\ EndOf(list, c) = Bound(list, c, heap_end)
      BY <2>2, <1>1, <1>3 DEF Untouched, TiledExactly
    <3>2. c + HEADER + list.header[c].length = heap_end
      BY <3>1, <1>3 DEF EndOf, Bound, Linked
    <3>3. list'.header[c].length < asked /\ list'.header[c].length \in Nat
      <4>1. ~(list'.header[c].length >= asked)
        BY <1>1, <1>8
      <4>2. list'.header[c].length \in Nat
        BY <1>3, <1>5, TakenLength DEF c
      <4>3. QED
        BY <4>1, <4>2, <1>3
    <3>4. list'.header[c].length = list.header[c].length
      BY <3>3, <1>3, TakenLength DEF c
    <3>5. QED
      BY <3>2, <3>3, <3>4, <1>3, <1>6
  <2>3. Arena!Break
    BY <2>1, <2>2, <1>1, <1>6 DEF Arena!Break
  <2>4. QED
    BY <2>3, <1>4 DEF Arena!Next
<1>9. QED
  BY <1>1, <1>7, <1>8

LEMMA ReleasesToArena == ASSUME HeapInv, NEW b \in DOMAIN held, free(b) PROVE Arena!Next
<1>1. /\ heap_start' = heap_start /\ heap_end' = heap_end /\ freed' = TRUE /\ pc = "ready"
      /\ pc' \in {"ready", "overlong"}
      /\ held' = [a \in DOMAIN held \ {b} |-> held[a]]
      /\ frames' = frames /\ asked = 0 /\ asked' = 0
  BY DEF free, call, HeapInv
<1>2. Promise = "kept"
  BY <1>1 DEF Promise
<1>3. CASE pc' = "ready"
  <2>1. Arena!Release(b)
    BY <1>1, <1>2, <1>3 DEF Promise, Arena!Release
  <2>2. QED
    BY <2>1, <1>2 DEF Arena!Next
<1>4. CASE pc' = "overlong"
  <2>1. Arena!Break
    BY <1>1, <1>4 DEF Promise, Arena!Break
  <2>2. QED
    BY <2>1, <1>2 DEF Arena!Next
<1>5. QED
  BY <1>1, <1>3, <1>4

LEMMA StepArena == HeapInv /\ [Next]_vars => [Arena!Next]_(Arena!vars)
<1> SUFFICES ASSUME HeapInv, [Next]_vars PROVE [Arena!Next]_(Arena!vars)
  OBVIOUS
<1>1. CASE heap_init
  <2>1. /\ pc = "off" /\ UNCHANGED <<heap_start, held, freed, asked>>
    BY <1>1 DEF heap_init, call, history
  <2>2. PICK n \in PageCounts :
          MapPages(n, "ready") /\ heap_end' = heap_start + n * PAGE
    BY <1>1 DEF heap_init
  <2>3. heap_end = heap_start /\ asked = 0
    BY <2>1 DEF HeapInv
  <2>4. n \in Nat \ {0} /\ asked \notin Unmappable
    BY <2>3, HeapAssumption DEF Unmappable
  <2>5. QED
    BY <2>1, <2>2, <2>3, <2>4, ExtendsArena
<1>2. CASE \E n \in Requests : malloc(n)
  <2>1. /\ UNCHANGED <<heap_start, heap_end, held, freed, frames>>
        /\ pc = "ready" /\ pc' = "walk" /\ asked' # 0
    BY <1>2 DEF malloc, history
  <2>2. Promise' = Promise /\ Promise = "kept" /\ asked = 0
    BY <2>1 DEF Promise, HeapInv
  <2>3. QED
    BY <2>1, <2>2 DEF Arena!Next, Arena!Ask
<1>3. CASE NextSegment
  <2>1. UNCHANGED <<heap_start, heap_end, held, freed, frames, asked>> /\ pc = "walk"
        /\ pc' \in {"walk", "expand"}
    BY <1>3 DEF NextSegment, history
  <2>2. Promise' = Promise
    BY <2>1 DEF Promise
  <2>3. QED
    BY <2>1, <2>2 DEF Arena!vars
<1>4. CASE TakeSegment
  BY <1>4, TakesFromArena
<1>5. CASE heap_expand
  <2>1. /\ pc = "expand" /\ UNCHANGED <<heap_start, held, freed, asked>>
        /\ MapPages(PagesFor(size), "walk") /\ heap_end' = heap_end + PagesFor(size) * PAGE
    BY <1>5 DEF heap_expand, history
  <2>2. PagesFor(size) \in Nat
    BY PagesSize DEF HeapInv, HeapTypeOK
  <2>3. PagesFor(size) = 0 <=> asked \in Unmappable
    <3>1. asked \in 0 .. MODULUS - 1 /\ asked # 0 /\ size = Rounded(asked)
      BY <2>1 DEF HeapInv, HeapTypeOK, Calling
    <3>2. asked \in 1 .. MODULUS - 1
      BY <3>1, HeapAssumption
    <3>3. QED
      BY <3>1, <3>2 DEF Unmappable
  <2>4. QED
    BY <2>1, <2>2, <2>3, ExtendsArena
<1>6. CASE \E a \in DOMAIN held : free(a)
  BY <1>6, ReleasesToArena
<1>7. CASE UNCHANGED vars
  BY <1>7 DEF vars, call, history, Arena!vars, Promise
<1>8. QED
  BY <1>1, <1>2, <1>3, <1>4, <1>5, <1>6, <1>7 DEF Next, Malloc

(* For heaps of any size the blocks held lie in the heap and overlap no    *)
(* other, until a merge, a segment too short, a lack of frames or a size   *)
(* for which no page is mapped ends that; before anything is freed, a      *)
(* segment is too short only for a request larger than what is left at the *)
(* heap's end (heap.c:35-65, 108-128).                                     *)
THEOREM HeapIsArena == Spec => IsArena
<1>1. Init => Arena!Init
  <2> SUFFICES ASSUME Init PROVE Arena!Init
    OBVIOUS
  <2>1. heap_start \in Nat /\ heap_end = heap_start /\ pc = "off" /\ ~freed
        /\ held = [b \in {} |-> 0] /\ freed = FALSE /\ frames \in Nat /\ asked = 0
    BY HeapAssumption DEF Init
  <2>2. QED
    BY <2>1 DEF Arena!Init, Promise
<1>2. QED
  BY <1>1, HeapInvariant, StepArena, PTL DEF Spec, IsArena, Arena!Spec
=============================================================================
