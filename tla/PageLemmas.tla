------------------------------ MODULE PageLemmas ------------------------------
(***************************************************************************)
(* Lemmas about modular counters, about the operators of PageFrames, for   *)
(* every bitmap and range of pages, and about the allocator a memory map   *)
(* gives; then what ptmanager_map_memory does to a tree of page tables,    *)
(* for tables of any number of entries.                                    *)
(***************************************************************************)
EXTENDS PageMapping, FiniteSetTheorems, WellFoundedInduction, TLAPS

-----------------------------------------------------------------------------
(* Arithmetic modulo M.                                                    *)

(* Remainders are unique: two numbers that differ by a multiple of M and   *)
(* lie in 0 .. M - 1 are equal.                                            *)
LEMMA ModUnique ==
  ASSUME NEW M \in Nat \ {0}, NEW q1 \in Int, NEW q2 \in Int,
         NEW r1 \in 0 .. M - 1, NEW r2 \in 0 .. M - 1,
         q1 * M + r1 = q2 * M + r2
  PROVE  r1 = r2
<1>1. ~(q1 < q2)
  <2> SUFFICES ASSUME q1 < q2 PROVE FALSE  OBVIOUS
  <2>1. (q2 - q1) * M >= M  OBVIOUS
  <2>2. (q2 - q1) * M = r1 - r2  OBVIOUS
  <2> QED  BY <2>1, <2>2
<1>2. ~(q2 < q1)
  <2> SUFFICES ASSUME q2 < q1 PROVE FALSE  OBVIOUS
  <2>1. (q1 - q2) * M >= M  OBVIOUS
  <2>2. (q1 - q2) * M = r2 - r1  OBVIOUS
  <2> QED  BY <2>1, <2>2
<1> QED  BY <1>1, <1>2

(* Reducing modulo M gives a number below M that differs by a multiple. *)
LEMMA ModDivides ==
  ASSUME NEW M \in Nat \ {0}, NEW x \in Int
  PROVE  /\ x % M \in 0 .. M - 1
         /\ \E k \in Int : x % M = x + k * M
<1>1. x % M \in 0 .. M - 1  OBVIOUS
<1>2. x = M * (x \div M) + (x % M)  OBVIOUS
<1>3. -(x \div M) \in Int  OBVIOUS
<1>4. x % M = x + (-(x \div M)) * M  BY <1>1, <1>2
<1> QED  BY <1>1, <1>3, <1>4

(* A multiple of M does not count. *)
LEMMA ModPeriod ==
  ASSUME NEW M \in Nat \ {0}, NEW x \in Int, NEW k \in Int
  PROVE  (x + k * M) % M = x % M
<1> DEFINE y == x + k * M
           r == x % M
           s == y % M
<1>1. y \in Int  OBVIOUS
<1>2. PICK i \in Int : r = x + i * M  BY ModDivides
<1> HIDE DEF y, r, s
<1>3. PICK j \in Int : s = y + j * M  BY <1>1, ModDivides DEF s
<1>4. r \in 0 .. M - 1 /\ s \in 0 .. M - 1  BY <1>1, ModDivides DEF r, s
<1>5. s = x + (k + j) * M  BY <1>3 DEF y
<1>6. (-i) * M + r = x  BY <1>2, <1>4
<1>7. (-(k + j)) * M + s = x
  <2>1. k + j \in Int  OBVIOUS
  <2> QED  BY <1>5, <1>4, <2>1
<1>8. -i \in Int /\ -(k + j) \in Int  OBVIOUS
<1>9. r = s  BY <1>4, <1>6, <1>7, <1>8, ModUnique
<1> QED  BY <1>9 DEF r, s, y

(* Reducing twice is reducing once. *)
LEMMA ModIdempotent ==
  ASSUME NEW M \in Nat \ {0}, NEW x \in Int
  PROVE  (x % M) % M = x % M
<1>1. PICK k \in Int : x % M = x + k * M  BY ModDivides
<1>2. (x + k * M) % M = x % M  BY ModPeriod
<1> QED  BY <1>1, <1>2

(* A sum that is congruent to a count stays so when one of its terms, a    *)
(* counter, and the count move by n.                                       *)
LEMMA ModCount ==
  ASSUME NEW M \in Nat \ {0}, NEW counter \in Int, NEW rest \in Int,
         NEW s \in Int, NEW count \in Int, NEW n \in Int,
         (counter + rest + s) % M = count % M
  PROVE  (((counter + n) % M) + rest + s) % M = (count + n) % M
<1> DEFINE sum == counter + rest + s
<1>0. counter + n \in Int /\ sum \in Int  OBVIOUS
<1>1. PICK i \in Int : (counter + n) % M = counter + n + i * M
  BY <1>0, ModDivides, Zenon
<1>2. PICK j \in Int : sum % M = sum + j * M
  BY <1>0, ModDivides, Zenon
<1>3. PICK k \in Int : count % M = count + k * M  BY ModDivides
<1> DEFINE z == count + n
           m == i + k - j
<1>4. m \in Int /\ z \in Int  OBVIOUS
<1>5. sum = count + (k - j) * M  BY <1>0, <1>2, <1>3
<1>6. ((counter + n) % M) + rest + s = sum + n + i * M  BY <1>1
<1> HIDE DEF sum
<1>7. ((counter + n) % M) + rest + s = z + m * M  BY <1>0, <1>5, <1>6
<1> HIDE DEF z, m
<1>8. (z + m * M) % M = z % M  BY <1>4, ModPeriod
<1> QED  BY <1>7, <1>8 DEF z

-----------------------------------------------------------------------------
(* Allocators.                                                             *)

WellFormed(a) == a \in Allocator /\ a.bits \subseteq 0 .. LastBit(a)

Total(a) == a.free_memory + a.used_memory + a.reserved_memory

(* Three numbers add up to a count, modulo MODULUS. *)
AddUp(x, y, z, count) == (x + y + z) % MODULUS = count % MODULUS

(* Used plus reserved frames, and s more, are the bits set. *)
Balanced(a, s) ==
  AddUp(a.used_memory, a.reserved_memory, s, Cardinality(a.bits))

(* They still do when one of them, a counter, and the count move by n. *)
LEMMA AddUpMoves ==
  ASSUME NEW x \in Int, NEW y \in Int, NEW z \in Int, NEW count \in Int,
         NEW n \in Int, AddUp(x, y, z, count)
  PROVE  /\ AddUp((x + n) % MODULUS, y, z, count + n)
         /\ AddUp(y, (x + n) % MODULUS, z, count + n)
<1>1. MODULUS \in Nat \ {0}  BY FramesAssumption
<1>2. (((x + n) % MODULUS) + y + z) % MODULUS = (count + n) % MODULUS
  BY <1>1, ModCount, SMT DEF AddUp
<1>3. (x + n) % MODULUS \in Int  BY <1>1, ModDivides
<1> QED  BY <1>2, <1>3 DEF AddUp

(* The bits of an allocator are finitely many. *)
LEMMA FiniteBits ==
  ASSUME NEW a, WellFormed(a)
  PROVE  /\ LastBit(a) \in Nat
         /\ IsFiniteSet(0 .. LastBit(a))
         /\ IsFiniteSet(a.bits)
         /\ Cardinality(a.bits) \in Nat
<1>1. LastBit(a) \in Nat
  BY FramesAssumption DEF WellFormed, Allocator, LastBit
<1>2. IsFiniteSet(0 .. LastBit(a))  BY <1>1, FS_Interval
<1>3. IsFiniteSet(a.bits)  BY <1>2, FS_Subset DEF WellFormed
<1> QED  BY <1>1, <1>2, <1>3, FS_CardinalityType

(* The pages found clear are clear bits, and setting them adds as many. *)
LEMMA ClearPagesFacts ==
  ASSUME NEW a, WellFormed(a), NEW pages \in SUBSET Nat
  PROVE  LET S == ClearPages(a, pages)
         IN  /\ S \subseteq 0 .. LastBit(a)
             /\ S \cap a.bits = {}
             /\ Cardinality(S) \in Nat
             /\ Cardinality(a.bits \cup S) = Cardinality(a.bits) + Cardinality(S)
<1> DEFINE S == ClearPages(a, pages)
<1>1. S \subseteq 0 .. LastBit(a)
  <2> SUFFICES ASSUME NEW p \in S  PROVE p \in 0 .. LastBit(a)  OBVIOUS
  <2>1. p \in Nat /\ p <= LastBit(a)  BY DEF ClearPages
  <2> QED  BY <2>1, FiniteBits
<1>2. S \cap a.bits = {}  BY DEF ClearPages, bitmap_get
<1>3. IsFiniteSet(S)  BY <1>1, FiniteBits, FS_Subset
<1>4. Cardinality(S) \in Nat  BY <1>3, FS_CardinalityType
<1>5. Cardinality(a.bits \cup S)
        = Cardinality(a.bits) + Cardinality(S) - Cardinality(a.bits \cap S)
  BY <1>3, FiniteBits, FS_Union
<1>6. Cardinality(a.bits \cap S) = 0  BY <1>2, FS_EmptySet
<1>7. Cardinality(a.bits) \in Nat  BY FiniteBits
<1> QED  BY <1>1, <1>2, <1>4, <1>5, <1>6, <1>7

(* The pages found set are set bits, and clearing them removes as many. *)
LEMMA SetPagesFacts ==
  ASSUME NEW a, WellFormed(a), NEW pages \in SUBSET Nat
  PROVE  LET S == SetPages(a, pages)
         IN  /\ S \subseteq a.bits
             /\ Cardinality(S) \in Nat
             /\ Cardinality(a.bits \ S) = Cardinality(a.bits) - Cardinality(S)
<1> DEFINE S == SetPages(a, pages)
<1>1. S \subseteq a.bits  BY DEF SetPages, bitmap_get
<1>2. IsFiniteSet(S)  BY <1>1, FiniteBits, FS_Subset
<1>3. Cardinality(S) \in Nat  BY <1>2, FS_CardinalityType
<1>4. Cardinality(a.bits \ S) = Cardinality(a.bits) - Cardinality(a.bits \cap S)
  BY FiniteBits, <1>2, FS_Difference
<1>5. a.bits \cap S = S  BY <1>1
<1> QED  BY <1>1, <1>3, <1>4, <1>5

(* A counter that moves stays a counter. *)
LEMMA CounterType ==
  ASSUME NEW x \in Int
  PROVE  x % MODULUS \in Counter
BY FramesAssumption, ModDivides DEF Counter

(* What every call leaves true of the counters: their total, and their     *)
(* agreement with the bits.                                                *)
Conserves(a, b) ==
  /\ WellFormed(b) /\ b.size = a.size
  /\ Total(b) % MODULUS = Total(a) % MODULUS
  /\ \A s \in Nat : Balanced(a, s) => Balanced(b, s)

(* Their total is kept when n goes from one to another.                    *)
LEMMA TransferTotals ==
  ASSUME NEW f \in Int, NEW u \in Int, NEW r \in Int, NEW n \in Int
  PROVE  AddUp((f - n) % MODULUS, (u + n) % MODULUS, r, f + u + r)
<1> DEFINE M == MODULUS
<1>1. M \in Nat \ {0}
  BY FramesAssumption
<1> HIDE DEF M
<1>2. f - n \in Int /\ u + n \in Int
  OBVIOUS
<1>3. PICK i \in Int : (f - n) % M = f - n + i * M
  BY <1>1, <1>2, ModDivides, Zenon
<1>4. PICK j \in Int : (u + n) % M = u + n + j * M
  BY <1>1, <1>2, ModDivides, Zenon
<1>5. ((f - n) % M) + ((u + n) % M) + r = (f + u + r) + (i + j) * M
  BY <1>1, <1>3, <1>4
<1>6. f + u + r \in Int /\ i + j \in Int
  OBVIOUS
<1>7. ((f + u + r) + (i + j) * M) % M = (f + u + r) % M
  BY <1>1, <1>6, ModPeriod
<1> QED
  BY <1>5, <1>7 DEF AddUp, M

(* A call that moves n from free memory to used or to reserved memory, and *)
(* sets n bits more (n < 0: clears -n bits), conserves the counters.       *)
LEMMA TransferConserves ==
  ASSUME NEW a, WellFormed(a), NEW b \in Allocator, NEW n \in Int,
         b.size = a.size,
         b.bits \subseteq 0 .. LastBit(a),
         Cardinality(b.bits) = Cardinality(a.bits) + n,
         b.free_memory = (a.free_memory - n) % MODULUS,
         \/ /\ b.used_memory = (a.used_memory + n) % MODULUS
            /\ b.reserved_memory = a.reserved_memory
         \/ /\ b.reserved_memory = (a.reserved_memory + n) % MODULUS
            /\ b.used_memory = a.used_memory
  PROVE  Conserves(a, b)
<1> DEFINE f == a.free_memory
           u == a.used_memory
           r == a.reserved_memory
<1>1. WellFormed(b)  BY DEF WellFormed, LastBit
<1>2. f \in Int /\ u \in Int /\ r \in Int /\ MODULUS \in Nat \ {0}
  BY FramesAssumption DEF WellFormed, Allocator, Counter
<1>3. Total(b) % MODULUS = Total(a) % MODULUS
  <2>1. CASE b.used_memory = (u + n) % MODULUS /\ b.reserved_memory = r
    <3> HIDE DEF f, u, r
    <3>1. AddUp((f - n) % MODULUS, (u + n) % MODULUS, r, f + u + r)
      BY <1>2, TransferTotals
    <3> QED  BY <2>1, <3>1 DEF AddUp, Total, f, u, r
  <2>2. CASE b.reserved_memory = (r + n) % MODULUS /\ b.used_memory = u
    <3> HIDE DEF f, u, r
    <3>1. AddUp((f - n) % MODULUS, (r + n) % MODULUS, u, f + r + u)
      BY <1>2, TransferTotals
    <3>2. (f - n) % MODULUS \in Int /\ (r + n) % MODULUS \in Int
      BY <2>2 DEF Allocator, Counter, f, u, r
    <3>3. ((f - n) % MODULUS) + ((r + n) % MODULUS) + u
            = ((f - n) % MODULUS) + u + ((r + n) % MODULUS)
      BY <1>2, <3>2
    <3>4. f + r + u = f + u + r  BY <1>2
    <3> QED  BY <2>2, <3>1, <3>3, <3>4 DEF AddUp, Total, f, u, r
  <2> QED  BY <2>1, <2>2
<1>4. ASSUME NEW s \in Nat, Balanced(a, s)
      PROVE  Balanced(b, s)
  <2> DEFINE c == Cardinality(a.bits)
  <2>1. c \in Int  BY FiniteBits
  <2>2. AddUp(u, r, s, c) /\ AddUp(r, u, s, c)
    BY <1>2, <1>4 DEF Balanced, AddUp
  <2> HIDE DEF c
  <2>3. AddUp((u + n) % MODULUS, r, s, c + n)
        /\ AddUp(u, (r + n) % MODULUS, s, c + n)
    BY <1>2, <2>1, <2>2, AddUpMoves
  <2> QED  BY <2>3 DEF Balanced, c
<1> QED  BY <1>1, <1>3, <1>4 DEF Conserves

(* The four functions that flip bits.                                      *)
LEMMA SettingConserves ==
  ASSUME NEW a, WellFormed(a), NEW pages \in SUBSET Nat
  PROVE  /\ Conserves(a, pfallocator_lock_pages(a, pages))
         /\ Conserves(a, reserve_pages(a, pages))
<1> DEFINE S == ClearPages(a, pages)
           n == Cardinality(S)
           f == a.free_memory
           u == a.used_memory
           r == a.reserved_memory
           free == (f - n) % MODULUS
           used == (u + n) % MODULUS
           reserved == (r + n) % MODULUS
           lock == [a EXCEPT !.bits = a.bits \cup S, !.free_memory = free,
                             !.used_memory = used]
           reserve == [a EXCEPT !.bits = a.bits \cup S, !.free_memory = free,
                                !.reserved_memory = reserved]
<1>1. /\ S \subseteq 0 .. LastBit(a) /\ n \in Int
      /\ Cardinality(a.bits \cup S) = Cardinality(a.bits) + n
  BY ClearPagesFacts, SMTT(30)
<1>2. /\ a \in Allocator /\ a.bits \subseteq 0 .. LastBit(a)
      /\ f \in Int /\ u \in Int /\ r \in Int
  BY DEF WellFormed, Allocator, Counter
<1>3. /\ lock = pfallocator_lock_pages(a, pages)
      /\ reserve = reserve_pages(a, pages)
  BY DEF pfallocator_lock_pages, reserve_pages
<1> HIDE DEF n
<1>4. f - n \in Int /\ u + n \in Int /\ r + n \in Int  BY <1>1, <1>2
<1>5. free \in Counter /\ used \in Counter /\ reserved \in Counter
  BY <1>4, CounterType, Zenon
<1>6. a.bits \cup S \in SUBSET Nat /\ a.bits \cup S \subseteq 0 .. LastBit(a)
  BY <1>1, <1>2 DEF Allocator
<1> HIDE DEF S, free, used, reserved
<1>7. /\ lock \in Allocator /\ lock.size = a.size
      /\ lock.bits = a.bits \cup S /\ lock.free_memory = free
      /\ lock.used_memory = used /\ lock.reserved_memory = r
  BY <1>2, <1>5, <1>6 DEF Allocator
<1>8. /\ reserve \in Allocator /\ reserve.size = a.size
      /\ reserve.bits = a.bits \cup S /\ reserve.free_memory = free
      /\ reserve.used_memory = u /\ reserve.reserved_memory = reserved
  BY <1>2, <1>5, <1>6 DEF Allocator
<1> HIDE DEF lock, reserve
<1>9. Conserves(a, lock)
  BY <1>1, <1>6, <1>7, TransferConserves DEF free, used
<1>10. Conserves(a, reserve)
  BY <1>1, <1>6, <1>8, TransferConserves DEF free, reserved
<1> QED  BY <1>3, <1>9, <1>10

LEMMA ClearingConserves ==
  ASSUME NEW a, WellFormed(a), NEW pages \in SUBSET Nat
  PROVE  /\ Conserves(a, pfallocator_free_pages(a, pages))
         /\ Conserves(a, release_pages(a, pages))
<1> DEFINE S == SetPages(a, pages)
           n == Cardinality(S)
           f == a.free_memory
           u == a.used_memory
           r == a.reserved_memory
           free == (f + n) % MODULUS
           used == (u - n) % MODULUS
           reserved == (r - n) % MODULUS
           unlock == [a EXCEPT !.bits = a.bits \ S, !.free_memory = free,
                               !.used_memory = used]
           release == [a EXCEPT !.bits = a.bits \ S, !.free_memory = free,
                                !.reserved_memory = reserved]
<1>1. S \subseteq a.bits /\ n \in Int
      /\ Cardinality(a.bits \ S) = Cardinality(a.bits) - n
  BY SetPagesFacts
<1>2. /\ a \in Allocator /\ a.bits \subseteq 0 .. LastBit(a)
      /\ f \in Int /\ u \in Int /\ r \in Int
      /\ Cardinality(a.bits) \in Int
  BY FiniteBits DEF WellFormed, Allocator, Counter
<1>3. /\ unlock = pfallocator_free_pages(a, pages)
      /\ release = release_pages(a, pages)
  BY DEF pfallocator_free_pages, release_pages
<1> HIDE DEF n
<1>4. f + n \in Int /\ u - n \in Int /\ r - n \in Int  BY <1>1, <1>2
<1>5. free \in Counter /\ used \in Counter /\ reserved \in Counter
  BY <1>4, CounterType, Zenon
<1>6. a.bits \ S \in SUBSET Nat /\ a.bits \ S \subseteq 0 .. LastBit(a)
  BY <1>2 DEF Allocator
<1> DEFINE m == -n
<1>7. /\ m \in Int
      /\ Cardinality(a.bits \ S) = Cardinality(a.bits) + m
      /\ free = (f - m) % MODULUS
      /\ used = (u + m) % MODULUS
      /\ reserved = (r + m) % MODULUS
  <2>1. m \in Int /\ f - m = f + n /\ u + m = u - n /\ r + m = r - n
        /\ Cardinality(a.bits) + m = Cardinality(a.bits) - n
    BY <1>1, <1>2
  <2> HIDE DEF m
  <2> QED  BY <1>1, <2>1
<1> HIDE DEF S, m, free, used, reserved
<1>8. /\ unlock \in Allocator /\ unlock.size = a.size
      /\ unlock.bits = a.bits \ S /\ unlock.free_memory = free
      /\ unlock.used_memory = used /\ unlock.reserved_memory = r
  BY <1>2, <1>5, <1>6 DEF Allocator
<1>9. /\ release \in Allocator /\ release.size = a.size
      /\ release.bits = a.bits \ S /\ release.free_memory = free
      /\ release.used_memory = u /\ release.reserved_memory = reserved
  BY <1>2, <1>5, <1>6 DEF Allocator
<1> HIDE DEF unlock, release
<1>10. Conserves(a, unlock)
  BY <1>6, <1>7, <1>8, TransferConserves
<1>11. Conserves(a, release)
  BY <1>6, <1>7, <1>9, TransferConserves
<1> QED  BY <1>3, <1>10, <1>11

-----------------------------------------------------------------------------
(* Requests.                                                               *)

(* A set of natural numbers has a least one. *)
LEMMA Minimum ==
  ASSUME NEW S \in SUBSET Nat, S # {}
  PROVE  \E m \in S : \A x \in S : m <= x
<1> DEFINE R == OpToRel(<, Nat)
<1>1. IsWellFoundedOn(R, Nat)  BY NatLessThanWellFounded, Zenon
<1>2. R = {ss \in Nat \X Nat : ss[1] < ss[2]}  BY DEF OpToRel
<1> HIDE DEF R
<1>3. PICK m \in S : \A x \in S : ~(<<x, m>> \in R)  BY <1>1, WFMin
<1>4. ASSUME NEW x \in S  PROVE m <= x
  <2>1. x \in Nat /\ m \in Nat  OBVIOUS
  <2>2. ~(x < m)
    <3> SUFFICES ASSUME x < m PROVE FALSE  OBVIOUS
    <3>1. <<x, m>> \in R  BY <1>2, <2>1
    <3> QED  BY <1>3, <3>1
  <2> QED  BY <2>1, <2>2
<1> QED  BY <1>4

(* The bound is a number, whatever the bits. *)
LEMMA LastBitType ==
  ASSUME NEW a \in Allocator
  PROVE  LastBit(a) \in Nat
BY FramesAssumption DEF Allocator, LastBit

(* A request that finds a frame returns the lowest whose bit is clear.     *)
LEMMA RequestedPageFacts ==
  ASSUME NEW a \in Allocator, FreeFrames(a) # {}
  PROVE  /\ RequestedPage(a) \in FreeFrames(a)
         /\ \A f \in FreeFrames(a) : RequestedPage(a) <= f
         /\ FreeFrames(a) \in SUBSET Nat
<1> DEFINE F == FreeFrames(a)
<1>1. F \in SUBSET Nat
  <2> SUFFICES ASSUME NEW p \in F  PROVE p \in Nat  OBVIOUS
  <2>1. p \in 0 .. LastBit(a) - 1  BY DEF FreeFrames
  <2> QED  BY <2>1, LastBitType
<1> HIDE DEF F
<1>2. \E m \in F : \A x \in F : m <= x  BY <1>1, Minimum DEF F
<1>3. RequestedPage(a) = CHOOSE m \in F : \A x \in F : m <= x
  BY DEF RequestedPage, F
<1>4. RequestedPage(a) \in F /\ \A x \in F : RequestedPage(a) <= x
  BY <1>2, <1>3
<1> QED  BY <1>1, <1>4 DEF F

LEMMA RequestConserves ==
  ASSUME NEW a, WellFormed(a)
  PROVE  Conserves(a, pfallocator_request_page(a))
<1>1. CASE FreeFrames(a) = {}
  BY <1>1 DEF pfallocator_request_page, Conserves
<1>2. CASE FreeFrames(a) # {}
  <2> DEFINE pages == {RequestedPage(a)}
  <2>1. pages \in SUBSET Nat  BY <1>2, RequestedPageFacts DEF WellFormed
  <2>2. pfallocator_request_page(a) = pfallocator_lock_pages(a, pages)
    BY <1>2 DEF pfallocator_request_page
  <2> HIDE DEF pages
  <2>3. Conserves(a, pfallocator_lock_pages(a, pages))
    BY <2>1, SettingConserves
  <2> QED  BY <2>2, <2>3
<1> QED  BY <1>1, <1>2

(* Pages locked or reserved are no longer free, and no others.             *)
LEMMA SettingTakes ==
  ASSUME NEW a \in Allocator, NEW pages
  PROVE  /\ FreeFrames(pfallocator_lock_pages(a, pages)) = FreeFrames(a) \ pages
         /\ FreeFrames(reserve_pages(a, pages)) = FreeFrames(a) \ pages
<1> DEFINE fresh == ClearPages(a, pages)
<1>1. ASSUME NEW b, b.size = a.size, b.bits = a.bits \cup fresh
      PROVE  FreeFrames(b) = FreeFrames(a) \ pages
  <2>1. LastBit(b) = LastBit(a) /\ LastBit(a) \in Nat
    BY <1>1, LastBitType DEF LastBit
  <2>2. \A f \in 0 .. LastBit(a) - 1 :
          f \in fresh <=> f \in pages /\ f \notin a.bits
    BY <2>1 DEF ClearPages, bitmap_get
  <2> HIDE DEF fresh
  <2> QED
    BY <1>1, <2>1, <2>2 DEF FreeFrames, bitmap_get
<1>2. /\ pfallocator_lock_pages(a, pages).size = a.size
      /\ pfallocator_lock_pages(a, pages).bits = a.bits \cup fresh
  BY DEF pfallocator_lock_pages, Allocator
<1>3. /\ reserve_pages(a, pages).size = a.size
      /\ reserve_pages(a, pages).bits = a.bits \cup fresh
  BY DEF reserve_pages, Allocator
<1> QED
  BY <1>1, <1>2, <1>3

-----------------------------------------------------------------------------
(* Memory maps.                                                            *)

(* The size of memory is a number: a map has finitely many descriptors.    *)
LEMMA MemorySizeType ==
  ASSUME NEW map \in MemoryMaps
  PROVE  /\ get_memory_size(map) \in Nat
         /\ BitmapSize(map) \in Nat
         /\ BitmapSize(map) * BITS \in Frame
         /\ FramesOfType(map, {"mmio", "other"}) \in SUBSET Nat
<1> DEFINE P == (DOMAIN map) \X Frame
           S == {s \in P : /\ map[s[1]].type \notin {"reserved", "mmio"}
                           /\ s[2] < map[s[1]].page_count}
<1>1. IsFiniteSet(DOMAIN map) /\ IsFiniteSet(Frame)
  <2>1. PICK n \in 0 .. MAX_DESCRIPTORS : map \in [1 .. n -> Descriptor]
    BY MapsAssumption
  <2>2. IsFiniteSet(1 .. n)  BY <2>1, MapsAssumption, FS_Interval
  <2>3. IsFiniteSet(0 .. MAX_FRAME)  BY MapsAssumption, FS_Interval
  <2> QED  BY <2>1, <2>2, <2>3 DEF Frame
<1>2. IsFiniteSet(P)  BY <1>1, FS_Product
<1>3. IsFiniteSet(S)  BY <1>2, FS_Subset
<1>4. get_memory_size(map) \in Nat
  BY <1>3, FS_CardinalityType DEF get_memory_size
<1>5. BitmapSize(map) \in Nat
  <2>1. get_memory_size(map) \div BITS \in Nat  BY <1>4, FramesAssumption
  <2> QED  BY <2>1 DEF BitmapSize
<1>6. BitmapSize(map) * BITS \in Frame
  <2>1. BitmapSize(map) * BITS \in Nat  BY <1>5, FramesAssumption
  <2> QED  BY <2>1, MapsAssumption DEF Frame
<1>7. FramesOfType(map, {"mmio", "other"}) \in SUBSET Nat
  BY MapsAssumption DEF FramesOfType, Frame
<1> QED  BY <1>4, <1>5, <1>6, <1>7

(* The allocator read from a map: of the map's size, its total the size    *)
(* of memory, its bits counted but for the one found after the buffer.     *)
LEMMA AllocatorOfFacts ==
  ASSUME NEW map \in MemoryMaps,
         NEW found \in SUBSET {BitmapSize(map) * BITS}
  PROVE  LET a == AllocatorOf(map, found)
         IN  /\ WellFormed(a)
             /\ a.size = BitmapSize(map)
             /\ Cardinality(found) \in Nat
             /\ Total(a) % MODULUS = get_memory_size(map) % MODULUS
             /\ Balanced(a, Cardinality(found))
<1> DEFINE blank == BlankAllocator(map, found)
           c == Cardinality(found)
           m == get_memory_size(map)
           pages == AllocatorFrame .. AllocatorFrame + blank.size \div FRAME_BYTES
           locked == pfallocator_lock_pages(blank, pages)
           system == FramesOfType(map, {"mmio", "other"})
           a == AllocatorOf(map, found)
<1>1. /\ m \in Nat /\ BitmapSize(map) \in Nat
      /\ BitmapSize(map) * BITS \in Nat /\ system \in SUBSET Nat
  BY MemorySizeType, MapsAssumption DEF Frame
<1>2. c \in Nat
  <2>1. IsFiniteSet({BitmapSize(map) * BITS})  BY FS_Singleton
  <2>2. IsFiniteSet(found)  BY <2>1, FS_Subset
  <2> QED  BY <2>2, FS_CardinalityType
<1>3. MODULUS \in Nat \ {0}  BY FramesAssumption
<1>4. m % MODULUS \in Counter /\ 0 \in Counter
  BY <1>1, <1>3, CounterType DEF Counter
<1>5. /\ blank.size = BitmapSize(map) /\ blank.bits = found
      /\ blank.free_memory = m % MODULUS
      /\ blank.used_memory = 0 /\ blank.reserved_memory = 0
  BY DEF BlankAllocator
<1>6. WellFormed(blank)
  <2>1. found \in SUBSET Nat  BY <1>1
  <2>2. blank \in Allocator
    BY <1>1, <1>4, <2>1 DEF BlankAllocator, Allocator
  <2>3. LastBit(blank) = BitmapSize(map) * BITS  BY <1>5 DEF LastBit
  <2>4. found \subseteq 0 .. LastBit(blank)  BY <1>1, <2>3
  <2> QED  BY <1>5, <2>2, <2>4 DEF WellFormed
<1>7. Total(blank) % MODULUS = m % MODULUS
  <2>1. Total(blank) = m % MODULUS  BY <1>4, <1>5 DEF Total, Counter
  <2>2. m \in Int  BY <1>1
  <2> HIDE DEF m
  <2>3. (m % MODULUS) % MODULUS = m % MODULUS
    BY <1>3, <2>2, ModIdempotent
  <2> QED  BY <2>1, <2>3
<1>8. Balanced(blank, c)
  BY <1>2, <1>5 DEF Balanced, AddUp
<1>9. pages \in SUBSET Nat
  BY <1>1, <1>5, FramesAssumption DEF AllocatorFrame, NULL
<1> HIDE DEF blank, c, m, pages, system
<1>10. Conserves(blank, locked)  BY <1>6, <1>9, SettingConserves
<1>11. a = reserve_pages(locked, system)
  BY DEF AllocatorOf, blank, pages, system
<1> HIDE DEF locked, a
<1>12. Conserves(locked, a)
  BY <1>1, <1>10, <1>11, SettingConserves DEF Conserves
<1>13. WellFormed(a) /\ a.size = BitmapSize(map)
  BY <1>5, <1>10, <1>12 DEF Conserves
<1>14. Total(a) % MODULUS = m % MODULUS
  BY <1>7, <1>10, <1>12 DEF Conserves
<1>15. Balanced(a, c)  BY <1>2, <1>8, <1>10, <1>12 DEF Conserves
<1> QED  BY <1>2, <1>13, <1>14, <1>15 DEF a, c, m

(* What is free then: the bitmap's frames but those locked and reserved.   *)
LEMMA AllocatorOfFree ==
  ASSUME NEW map \in MemoryMaps,
         NEW found \in SUBSET {BitmapSize(map) * BITS}
  PROVE  FreeFrames(AllocatorOf(map, found))
           = ((0 .. BitmapSize(map) * BITS - 1)
                \ (0 .. BitmapSize(map) \div FRAME_BYTES))
                \ FramesOfType(map, {"mmio", "other"})
<1> DEFINE blank == BlankAllocator(map, found)
           pages == AllocatorFrame .. AllocatorFrame + blank.size \div FRAME_BYTES
           locked == pfallocator_lock_pages(blank, pages)
           system == FramesOfType(map, {"mmio", "other"})
<1>1. /\ BitmapSize(map) \in Nat /\ BitmapSize(map) * BITS \in Nat
      /\ get_memory_size(map) \in Nat
  BY MemorySizeType, MapsAssumption DEF Frame
<1>2. /\ blank.size = BitmapSize(map) /\ blank.bits = found
      /\ pages = 0 .. BitmapSize(map) \div FRAME_BYTES
      /\ pages \in SUBSET Nat
  <2>1. blank.size = BitmapSize(map) /\ blank.bits = found
    BY DEF BlankAllocator
  <2> HIDE DEF blank
  <2>2. BitmapSize(map) \div FRAME_BYTES \in Nat
    BY <1>1, FramesAssumption
  <2> QED
    BY <2>1, <2>2 DEF AllocatorFrame, NULL
<1>3. blank \in Allocator /\ WellFormed(blank)
  <2>1. found \in SUBSET Nat  BY <1>1
  <2>2. get_memory_size(map) % MODULUS \in Counter /\ 0 \in Counter
    BY <1>1, FramesAssumption, CounterType DEF Counter
  <2>3. blank \in Allocator
    BY <1>1, <2>1, <2>2 DEF BlankAllocator, Allocator
  <2>4. found \subseteq 0 .. LastBit(blank)  BY <1>1, <1>2 DEF LastBit
  <2> QED  BY <1>2, <2>3, <2>4 DEF WellFormed
<1>4. FreeFrames(blank) = 0 .. BitmapSize(map) * BITS - 1
  <2>1. LastBit(blank) = BitmapSize(map) * BITS  BY <1>2 DEF LastBit
  <2>2. \A f \in 0 .. BitmapSize(map) * BITS - 1 : f \notin blank.bits
    BY <1>1, <1>2
  <2> HIDE DEF blank
  <2> QED  BY <2>1, <2>2 DEF FreeFrames, bitmap_get
<1>5. AllocatorOf(map, found) = reserve_pages(locked, system)
  BY DEF AllocatorOf
<1> HIDE DEF blank, pages, system
<1>6. locked \in Allocator /\ FreeFrames(locked) = FreeFrames(blank) \ pages
  BY <1>2, <1>3, SettingTakes, SettingConserves DEF Conserves, WellFormed
<1> HIDE DEF locked
<1>7. FreeFrames(AllocatorOf(map, found)) = FreeFrames(locked) \ system
  BY <1>5, <1>6, SettingTakes
<1> QED
  BY <1>2, <1>4, <1>6, <1>7 DEF system

-----------------------------------------------------------------------------
(* Trees of page tables.                                                   *)

(* The three levels below the root. *)
Pdps(t, r) == Children(t, {r})
Pds(t, r)  == Children(t, Pdps(t, r))
Pts(t, r)  == Children(t, Pds(t, r))

IsTree(t, r) ==
  LET D == Directories(t, r)
  IN  /\ r \notin Children(t, D)
      /\ \A d, e \in D, i, j \in Index :
           (t[d][i] # NOT_PRESENT /\ t[d][i] = t[e][j]) => d = e /\ i = j

-----------------------------------------------------------------------------
LEMMA NotPresentIsNoFrame == NOT_PRESENT \notin Frame /\ Frame \subseteq Nat
BY MapsAssumption DEF NOT_PRESENT, Frame

LEMMA ChildrenAreFrames ==
  ASSUME NEW t \in Tables, NEW S \in SUBSET Frame
  PROVE  Children(t, S) \in SUBSET Frame
<1> SUFFICES ASSUME NEW f \in Children(t, S)  PROVE f \in Frame
  OBVIOUS
<1>1. PICK d \in S, i \in Index : f = t[d][i] /\ f # NOT_PRESENT
  BY DEF Children
<1>2. t[d] \in [Index -> Entry]
  BY DEF Tables
<1>3. t[d][i] \in Entry
  BY <1>2
<1> QED
  BY <1>1, <1>3 DEF Entry

LEMMA ChildrenUnion ==
  ASSUME NEW t, NEW S, NEW T
  PROVE  Children(t, S \cup T) = Children(t, S) \cup Children(t, T)
BY DEF Children

LEMMA ChildOf ==
  ASSUME NEW t, NEW S, NEW d \in S, NEW i \in Index, t[d][i] # NOT_PRESENT
  PROVE  t[d][i] \in Children(t, S)
BY DEF Children

LEMMA TreeParts ==
  ASSUME NEW t \in Tables, NEW r \in Frame
  PROVE  /\ Pdps(t, r) \in SUBSET Frame /\ Pds(t, r) \in SUBSET Frame
         /\ Pts(t, r) \in SUBSET Frame
         /\ Directories(t, r) = {r} \cup Pdps(t, r) \cup Pds(t, r)
         /\ Children(t, Directories(t, r)) = Pdps(t, r) \cup Pds(t, r) \cup Pts(t, r)
         /\ TablesOf(t, r) = {r} \cup Pdps(t, r) \cup Pds(t, r) \cup Pts(t, r)
         /\ Directories(t, r) \in SUBSET Frame
<1>1. Pdps(t, r) \in SUBSET Frame
  BY ChildrenAreFrames DEF Pdps
<1>2. Pds(t, r) \in SUBSET Frame
  BY <1>1, ChildrenAreFrames DEF Pds
<1>3. Pts(t, r) \in SUBSET Frame
  BY <1>2, ChildrenAreFrames DEF Pts
<1>4. Directories(t, r) = ({r} \cup Pdps(t, r)) \cup Pds(t, r)
  BY DEF Directories, Pdps, Pds
<1>5. Children(t, Directories(t, r)) = (Pdps(t, r) \cup Pds(t, r)) \cup Pts(t, r)
  <2>1. Children(t, Directories(t, r))
          = Children(t, {r} \cup Pdps(t, r)) \cup Children(t, Pds(t, r))
    BY <1>4, ChildrenUnion
  <2>2. Children(t, {r} \cup Pdps(t, r)) = Children(t, {r}) \cup Children(t, Pdps(t, r))
    BY ChildrenUnion
  <2> QED
    BY <2>1, <2>2 DEF Pdps, Pds, Pts
<1>6. TablesOf(t, r) = Directories(t, r) \cup Children(t, Directories(t, r))
  BY DEF TablesOf
<1> QED
  BY <1>1, <1>2, <1>3, <1>4, <1>5, <1>6

(* In a tree the levels do not meet. *)
LEMMA LevelsDisjoint ==
  ASSUME NEW t \in Tables, NEW r \in Frame, IsTree(t, r)
  PROVE  /\ r \notin Pdps(t, r) /\ r \notin Pds(t, r) /\ r \notin Pts(t, r)
         /\ Pdps(t, r) \cap Pds(t, r) = {}
         /\ Pdps(t, r) \cap Pts(t, r) = {}
         /\ Pds(t, r) \cap Pts(t, r) = {}
<1> DEFINE D == Directories(t, r)
<1>1. r \notin Pdps(t, r) /\ r \notin Pds(t, r) /\ r \notin Pts(t, r)
  BY TreeParts DEF IsTree
<1>2. \A d, e \in D, i, j \in Index :
        (t[d][i] # NOT_PRESENT /\ t[d][i] = t[e][j]) => d = e
  BY DEF IsTree
<1>3. {r} \subseteq D /\ Pdps(t, r) \subseteq D /\ Pds(t, r) \subseteq D
  BY TreeParts
<1> HIDE DEF D
<1>4. ASSUME NEW S \in SUBSET D, NEW T \in SUBSET D, S \cap T = {}
      PROVE  Children(t, S) \cap Children(t, T) = {}
  <2> SUFFICES ASSUME NEW f \in Children(t, S), f \in Children(t, T)  PROVE FALSE
    OBVIOUS
  <2>1. PICK d \in S, i \in Index : f = t[d][i] /\ f # NOT_PRESENT
    BY DEF Children
  <2>2. PICK e \in T, j \in Index : f = t[e][j]
    BY DEF Children
  <2>3. d \in D /\ e \in D
    BY <1>4, <2>1, <2>2
  <2>4. t[d][i] # NOT_PRESENT /\ t[d][i] = t[e][j]
    BY <2>1, <2>2
  <2>5. d = e
    BY <1>2, <2>3, <2>4
  <2> QED
    BY <1>4, <2>5
<1>5. Pdps(t, r) \cap Pds(t, r) = {}
  BY <1>1, <1>3, <1>4 DEF Pdps, Pds
<1>6. Pdps(t, r) \cap Pts(t, r) = {}
  <2>1. {r} \cap Pds(t, r) = {}
    BY <1>1
  <2> QED
    BY <1>3, <1>4, <2>1 DEF Pdps, Pts
<1>7. Pds(t, r) \cap Pts(t, r) = {}
  BY <1>3, <1>4, <1>5 DEF Pds, Pts
<1> QED
  BY <1>1, <1>5, <1>6, <1>7

-----------------------------------------------------------------------------
(* An entry made to point to a new table. *)
WithTable(t, table, index, page) ==
  [t EXCEPT ![page] = ZeroedTable, ![table][index] = page]

LEMMA WithTableFacts ==
  ASSUME NEW t \in Tables, NEW table \in Frame, NEW index \in Index,
         NEW page \in Frame, page # table
  PROVE  LET u == WithTable(t, table, index, page)
         IN  /\ u \in Tables
             /\ u[table][index] = page
             /\ \A i \in Index : u[page][i] = NOT_PRESENT
             /\ \A d \in Frame, i \in Index :
                  d # page /\ ~(d = table /\ i = index) => u[d][i] = t[d][i]
<1> DEFINE u == WithTable(t, table, index, page)
           row == [t[table] EXCEPT ![index] = page]
<1>1. t[table] \in [Index -> Entry]
  BY DEF Tables
<1>2. row \in [Index -> Entry] /\ row[index] = page
      /\ \A i \in Index : i # index => row[i] = t[table][i]
  BY <1>1 DEF Entry
<1>3. ZeroedTable \in [Index -> Entry] /\ \A i \in Index : ZeroedTable[i] = NOT_PRESENT
  BY DEF ZeroedTable, Entry
<1>4. u = [d \in Frame |-> IF d = table THEN row ELSE IF d = page THEN ZeroedTable ELSE t[d]]
  BY DEF Tables, WithTable
<1> HIDE DEF u, row
<1>5. u[table] = row /\ u[page] = ZeroedTable
      /\ \A d \in Frame : d # table /\ d # page => u[d] = t[d]
  BY <1>4
<1>6. u \in Tables
  BY <1>2, <1>3, <1>4 DEF Tables
<1>7. \A d \in Frame, i \in Index :
        d # page /\ ~(d = table /\ i = index) => u[d][i] = t[d][i]
  BY <1>2, <1>5
<1> QED
  BY <1>2, <1>3, <1>5, <1>6, <1>7 DEF u

(* It adds one table, a level below, and keeps the tree. *)
LEMMA WithTableTree ==
  ASSUME NEW t \in Tables, NEW r \in Frame, IsTree(t, r),
         NEW table \in Directories(t, r), NEW index \in Index,
         t[table][index] = NOT_PRESENT,
         NEW page \in Frame, page \notin TablesOf(t, r)
  PROVE  LET u == WithTable(t, table, index, page)
         IN  /\ IsTree(u, r)
             /\ TablesOf(u, r) = TablesOf(t, r) \cup {page}
             /\ Pdps(u, r) = Pdps(t, r) \cup (IF table = r THEN {page} ELSE {})
             /\ Pds(u, r) = Pds(t, r) \cup (IF table \in Pdps(t, r) THEN {page} ELSE {})
             /\ Pts(u, r) = Pts(t, r) \cup (IF table \in Pds(t, r) THEN {page} ELSE {})
<1> DEFINE u == WithTable(t, table, index, page)
           A == Pdps(t, r)
           B == Pds(t, r)
           C == Pts(t, r)
           D == Directories(t, r)
<1>1. /\ A \in SUBSET Frame /\ B \in SUBSET Frame /\ C \in SUBSET Frame
      /\ D = {r} \cup A \cup B
      /\ page \notin {r} \cup A \cup B \cup C
      /\ table \in Frame /\ table # page /\ page # NOT_PRESENT
  BY TreeParts, NotPresentIsNoFrame
<1>2. /\ u \in Tables /\ u[table][index] = page
      /\ \A i \in Index : u[page][i] = NOT_PRESENT
      /\ \A d \in Frame, i \in Index :
           d # page /\ ~(d = table /\ i = index) => u[d][i] = t[d][i]
  BY <1>1, WithTableFacts
<1>3. r \notin A /\ r \notin B /\ r \notin C /\ A \cap B = {}
  BY LevelsDisjoint
<1>4. /\ A = Children(t, {r}) /\ B = Children(t, A) /\ C = Children(t, B)
      /\ Pdps(u, r) = Children(u, {r}) /\ Pds(u, r) = Children(u, Pdps(u, r))
      /\ Pts(u, r) = Children(u, Pds(u, r))
  BY DEF Pdps, Pds, Pts
<1>5. \A d \in D, e \in D, i, j \in Index :
        (t[d][i] # NOT_PRESENT /\ t[d][i] = t[e][j]) => d = e /\ i = j
  BY DEF IsTree
<1>6. \A d \in D, i \in Index : t[d][i] # page
  <2>1. \A d \in D, i \in Index : t[d][i] # NOT_PRESENT => t[d][i] \in Children(t, D)
    BY ChildOf
  <2>2. Children(t, D) = A \cup B \cup C
    BY TreeParts
  <2> QED
    BY <1>1, <2>1, <2>2
<1> HIDE DEF u, A, B, C, D
<1>7. ASSUME NEW S \in SUBSET Frame, page \notin S
      PROVE  Children(u, S) = Children(t, S) \cup (IF table \in S THEN {page} ELSE {})
  <2>1. ASSUME NEW f \in Children(u, S)
        PROVE  f \in Children(t, S) \cup (IF table \in S THEN {page} ELSE {})
    <3>1. PICK d \in S, i \in Index : f = u[d][i] /\ f # NOT_PRESENT
      BY <2>1 DEF Children
    <3>2. CASE d = table /\ i = index
      BY <1>2, <3>1, <3>2
    <3>3. CASE ~(d = table /\ i = index)
      <4>1. f = t[d][i]
        BY <1>2, <1>7, <3>1, <3>3
      <4> QED
        BY <3>1, <4>1, ChildOf
    <3> QED
      BY <3>2, <3>3
  <2>2. ASSUME NEW f \in Children(t, S)  PROVE f \in Children(u, S)
    <3>1. PICK d \in S, i \in Index : f = t[d][i] /\ f # NOT_PRESENT
      BY <2>2 DEF Children
    <3>2. ~(d = table /\ i = index)
      BY <3>1
    <3>3. u[d][i] = f
      BY <1>2, <1>7, <3>1, <3>2
    <3> QED
      BY <3>1, <3>3, ChildOf
  <2>3. ASSUME table \in S  PROVE page \in Children(u, S)
    BY <1>1, <1>2, <2>3, ChildOf
  <2> QED
    BY <2>1, <2>2, <2>3
<1>8. Children(u, {page}) = {}
  BY <1>2 DEF Children
<1>9. Children(u, {}) = {}
  BY DEF Children
<1>10. Pdps(u, r) = A \cup (IF table = r THEN {page} ELSE {})
  <2>1. table \in {r} <=> table = r
    OBVIOUS
  <2> QED
    BY <1>1, <1>4, <1>7, <2>1
<1>11. ASSUME NEW S \in SUBSET Frame, page \notin S, NEW P \in SUBSET {page}
       PROVE  Children(u, S \cup P)
                = Children(t, S) \cup (IF table \in S THEN {page} ELSE {})
  <2>1. Children(u, P) = {}
    BY <1>8, <1>9, <1>11
  <2> QED
    BY <1>7, <1>11, <2>1, ChildrenUnion
<1>12. Pds(u, r) = B \cup (IF table \in A THEN {page} ELSE {})
  <2> DEFINE P == IF table = r THEN {page} ELSE {}
  <2>1. P \in SUBSET {page}
    OBVIOUS
  <2>2. Pdps(u, r) = A \cup P
    BY <1>10
  <2> HIDE DEF P
  <2>3. A \in SUBSET Frame /\ page \notin A
    BY <1>1
  <2>4. Children(u, A \cup P) = Children(t, A) \cup (IF table \in A THEN {page} ELSE {})
    BY <1>11, <2>1, <2>3
  <2>5. Pds(u, r) = Children(u, A \cup P)
    BY <1>4, <2>2
  <2> QED
    BY <1>4, <2>4, <2>5
<1>13. Pts(u, r) = C \cup (IF table \in B THEN {page} ELSE {})
  <2> DEFINE P == IF table \in A THEN {page} ELSE {}
  <2>1. P \in SUBSET {page}
    OBVIOUS
  <2>2. Pds(u, r) = B \cup P
    BY <1>12
  <2> HIDE DEF P
  <2>3. B \in SUBSET Frame /\ page \notin B
    BY <1>1
  <2>4. Children(u, B \cup P) = Children(t, B) \cup (IF table \in B THEN {page} ELSE {})
    BY <1>11, <2>1, <2>3
  <2>5. Pts(u, r) = Children(u, B \cup P)
    BY <1>4, <2>2
  <2> QED
    BY <1>4, <2>4, <2>5
<1>14. TablesOf(u, r) = TablesOf(t, r) \cup {page}
  <2>1. TablesOf(u, r) = {r} \cup Pdps(u, r) \cup Pds(u, r) \cup Pts(u, r)
        /\ TablesOf(t, r) = {r} \cup A \cup B \cup C
    BY <1>2, TreeParts DEF A, B, C
  <2>2. table = r \/ table \in A \/ table \in B
    BY <1>1 DEF D
  <2> QED
    BY <1>10, <1>12, <1>13, <2>1, <2>2
<1>15. IsTree(u, r)
  <2>1. Directories(u, r) \subseteq D \cup {page}
        /\ Children(u, Directories(u, r)) \subseteq A \cup B \cup C \cup {page}
    <3>1. Directories(u, r) = {r} \cup Pdps(u, r) \cup Pds(u, r)
          /\ Children(u, Directories(u, r)) = Pdps(u, r) \cup Pds(u, r) \cup Pts(u, r)
      BY <1>2, TreeParts
    <3> QED
      BY <1>1, <1>10, <1>12, <1>13, <3>1
  <2>2. r \notin Children(u, Directories(u, r))
    BY <1>1, <1>3, <2>1
  <2>3. ASSUME NEW d \in D \cup {page}, NEW e \in D \cup {page},
               NEW i \in Index, NEW j \in Index,
               u[d][i] # NOT_PRESENT, u[d][i] = u[e][j]
        PROVE  d = e /\ i = j
    <3>1. d # page /\ e # page
      BY <1>2, <2>3
    <3>2. d \in D /\ e \in D /\ d \in Frame /\ e \in Frame
      BY <1>1, <3>1
    <3>3. CASE d = table /\ i = index
      BY <1>2, <1>6, <2>3, <3>1, <3>2, <3>3
    <3>4. CASE ~(d = table /\ i = index) /\ e = table /\ j = index
      BY <1>2, <1>6, <2>3, <3>1, <3>2, <3>4
    <3>5. CASE ~(d = table /\ i = index) /\ ~(e = table /\ j = index)
      <4>1. u[d][i] = t[d][i] /\ u[e][j] = t[e][j]
        BY <1>2, <3>1, <3>2, <3>5
      <4> QED
        <5>1. t[d][i] # NOT_PRESENT /\ t[d][i] = t[e][j]
          BY <2>3, <4>1
        <5> QED
          BY <1>5, <3>2, <5>1
    <3> QED
      BY <3>3, <3>4, <3>5
  <2> QED
    BY <2>1, <2>2, <2>3 DEF IsTree
<1> QED
  BY <1>10, <1>12, <1>13, <1>14, <1>15 DEF u, A, B, C

-----------------------------------------------------------------------------
(* Addresses. *)
LEMMA IndexesTyped ==
  ASSUME NEW page \in Nat
  PROVE  LET i == map_index(page)
         IN  /\ i.p_index \in Index /\ i.pt_index \in Index
             /\ i.pd_index \in Index /\ i.pdp_index \in Index
<1>1. \A n \in Nat : n \div RADIX \in Nat /\ n % RADIX \in Index
  BY RadixAssumption DEF Index
<1> QED
  BY <1>1 DEF map_index

LEMMA QuotientBelow ==
  ASSUME NEW n \in Nat, NEW b \in Nat, n < RADIX * b
  PROVE  n \div RADIX \in Nat /\ n \div RADIX < b
<1> DEFINE q == n \div RADIX
<1>1. RADIX \in Nat \ {0}
  BY RadixAssumption
<1>2. q \in Nat /\ n >= RADIX * q
  BY <1>1
<1>3. ASSUME q >= b  PROVE FALSE
  <2>1. RADIX * q >= RADIX * b
    BY <1>1, <1>2, <1>3
  <2> QED
    BY <1>1, <1>2, <2>1
<1> QED
  BY <1>2, <1>3

LEMMA QuotientAndRest ==
  ASSUME NEW m \in Nat, NEW n \in Nat, m \div RADIX = n \div RADIX, m % RADIX = n % RADIX
  PROVE  m = n
<1>1. RADIX \in Nat \ {0}
  BY RadixAssumption
<1>2. /\ m = RADIX * (m \div RADIX) + (m % RADIX)
      /\ n = RADIX * (n \div RADIX) + (n % RADIX)
  BY <1>1
<1> QED
  BY <1>2

(* The four indexes tell pages apart. *)
LEMMA IndexesTellPages ==
  ASSUME NEW m \in 0 .. RADIX * RADIX * RADIX * RADIX - 1,
         NEW n \in 0 .. RADIX * RADIX * RADIX * RADIX - 1,
         map_index(m).p_index = map_index(n).p_index,
         map_index(m).pt_index = map_index(n).pt_index,
         map_index(m).pd_index = map_index(n).pd_index,
         map_index(m).pdp_index = map_index(n).pdp_index
  PROVE  m = n
<1> DEFINE Q(k) == k \div RADIX
<1>1. RADIX \in Nat /\ RADIX * RADIX \in Nat /\ RADIX * RADIX * RADIX \in Nat
  BY RadixAssumption
<1>2. ASSUME NEW k \in Nat, k < RADIX * RADIX * RADIX * RADIX
      PROVE  /\ Q(k) \in Nat /\ Q(Q(k)) \in Nat /\ Q(Q(Q(k))) \in Nat
             /\ Q(Q(Q(k))) < RADIX
  <2>1. k < RADIX * (RADIX * RADIX * RADIX)
    BY <1>1, <1>2
  <2>2. Q(k) \in Nat /\ Q(k) < RADIX * RADIX * RADIX
    BY <1>1, <2>1, QuotientBelow
  <2> HIDE DEF Q
  <2>3. Q(k) < RADIX * (RADIX * RADIX)
    BY <1>1, <2>2
  <2>4. Q(Q(k)) \in Nat /\ Q(Q(k)) < RADIX * RADIX
    BY <1>1, <2>2, <2>3, QuotientBelow DEF Q
  <2>5. Q(Q(Q(k))) \in Nat /\ Q(Q(Q(k))) < RADIX
    BY <1>1, <2>4, QuotientBelow DEF Q
  <2> QED
    BY <2>2, <2>4, <2>5
<1>3. m \in Nat /\ n \in Nat /\ m < RADIX * RADIX * RADIX * RADIX
      /\ n < RADIX * RADIX * RADIX * RADIX
  <2>1. RADIX * RADIX * RADIX * RADIX \in Int
    BY <1>1
  <2> QED
    BY <2>1
<1>4. /\ Q(m) \in Nat /\ Q(Q(m)) \in Nat /\ Q(Q(Q(m))) \in Nat /\ Q(Q(Q(m))) < RADIX
      /\ Q(n) \in Nat /\ Q(Q(n)) \in Nat /\ Q(Q(Q(n))) \in Nat /\ Q(Q(Q(n))) < RADIX
  BY <1>2, <1>3
<1>5. /\ m % RADIX = n % RADIX /\ Q(m) % RADIX = Q(n) % RADIX
      /\ Q(Q(m)) % RADIX = Q(Q(n)) % RADIX
      /\ Q(Q(Q(m))) % RADIX = Q(Q(Q(n))) % RADIX
  BY DEF map_index
<1>6. \A k \in Nat : k < RADIX => k % RADIX = k
  BY <1>1
<1> HIDE DEF Q
<1>7. Q(Q(Q(m))) = Q(Q(Q(n)))
  BY <1>4, <1>5, <1>6
<1>8. Q(Q(m)) = Q(Q(n))
  BY <1>4, <1>5, <1>7, QuotientAndRest DEF Q
<1>9. Q(m) = Q(n)
  BY <1>4, <1>5, <1>8, QuotientAndRest DEF Q
<1> QED
  BY <1>3, <1>5, <1>9, QuotientAndRest DEF Q

-----------------------------------------------------------------------------
(* The walk, level by level. *)
Pdp(t, r, page) == Follow(t, r, map_index(page).pdp_index)
Pd(t, r, page)  == Follow(t, Pdp(t, r, page), map_index(page).pd_index)
Pt(t, r, page)  == Follow(t, Pd(t, r, page), map_index(page).pt_index)

LEMMA WalkByLevels ==
  ASSUME NEW t, NEW r, NEW page
  PROVE  Walk(t, r, page) = Follow(t, Pt(t, r, page), map_index(page).p_index)
BY DEF Walk, Path, Pdp, Pd, Pt

LEMMA FollowChild ==
  ASSUME NEW t, NEW S, NEW d \in S \cup {NOT_PRESENT}, NEW i \in Index
  PROVE  Follow(t, d, i) \in Children(t, S) \cup {NOT_PRESENT}
BY ChildOf DEF Follow

LEMMA PathInTree ==
  ASSUME NEW t \in Tables, NEW r \in Frame, NEW page \in Nat
  PROVE  /\ Pdp(t, r, page) \in Pdps(t, r) \cup {NOT_PRESENT}
         /\ Pd(t, r, page) \in Pds(t, r) \cup {NOT_PRESENT}
         /\ Pt(t, r, page) \in Pts(t, r) \cup {NOT_PRESENT}
<1>1. Pdp(t, r, page) \in Pdps(t, r) \cup {NOT_PRESENT}
  <2>1. r \in {r} \cup {NOT_PRESENT}
    OBVIOUS
  <2> QED
    BY <2>1, IndexesTyped, FollowChild DEF Pdp, Pdps
<1>2. Pd(t, r, page) \in Pds(t, r) \cup {NOT_PRESENT}
  BY <1>1, IndexesTyped, FollowChild DEF Pd, Pds
<1>3. Pt(t, r, page) \in Pts(t, r) \cup {NOT_PRESENT}
  BY <1>2, IndexesTyped, FollowChild DEF Pt, Pts
<1> QED
  BY <1>1, <1>2, <1>3

(* A new table changes no translation: where the walk found no entry it    *)
(* now finds a table without entries.                                      *)
LEMMA WalkPastNewTable ==
  ASSUME NEW t \in Tables, NEW r \in Frame, IsTree(t, r),
         NEW table \in Directories(t, r), NEW index \in Index,
         t[table][index] = NOT_PRESENT,
         NEW new \in Frame, new \notin TablesOf(t, r),
         NEW page \in Nat
  PROVE  Walk(WithTable(t, table, index, new), r, page) = Walk(t, r, page)
<1> DEFINE u == WithTable(t, table, index, new)
           i == map_index(page)
<1>1. /\ table \in Frame /\ table # new /\ new # NOT_PRESENT /\ new # r
      /\ new \notin Pdps(t, r) \cup Pds(t, r) \cup Pts(t, r)
      /\ Pdps(t, r) \cup Pds(t, r) \cup Pts(t, r) \in SUBSET Frame
      /\ table \notin Pts(t, r)
  BY TreeParts, LevelsDisjoint, NotPresentIsNoFrame
<1>2. /\ \A k \in Index : u[new][k] = NOT_PRESENT
      /\ u[table][index] = new
      /\ \A d \in Frame, k \in Index :
           d # new /\ ~(d = table /\ k = index) => u[d][k] = t[d][k]
  BY <1>1, WithTableFacts
<1>3. /\ i.p_index \in Index /\ i.pt_index \in Index
      /\ i.pd_index \in Index /\ i.pdp_index \in Index
  BY IndexesTyped
<1> HIDE DEF u, i
<1> DEFINE Same(d, e) == e = d \/ (d = NOT_PRESENT /\ e = new)
<1>4. ASSUME NEW d \in (Frame \ {new}) \cup {NOT_PRESENT}, NEW e, Same(d, e), NEW k \in Index
      PROVE  /\ Same(Follow(t, d, k), Follow(u, e, k))
             /\ d # table => Follow(u, e, k) = Follow(t, d, k)
  <2>1. CASE d = NOT_PRESENT /\ e = new
    BY <1>1, <1>2, <2>1 DEF Follow
  <2>2. CASE d = NOT_PRESENT /\ e = d
    BY <1>1, <2>2 DEF Follow
  <2>3. CASE d # NOT_PRESENT /\ e = d /\ d = table /\ k = index
    BY <1>2, <2>3 DEF Follow
  <2>4. CASE d # NOT_PRESENT /\ e = d /\ ~(d = table /\ k = index)
    <3>1. u[d][k] = t[d][k]
      BY <1>2, <1>4, <2>4
    <3> QED
      BY <2>4, <3>1 DEF Follow
  <2> QED
    BY <1>4, <2>1, <2>2, <2>3, <2>4
<1>5. /\ Pdp(t, r, page) \in (Frame \ {new}) \cup {NOT_PRESENT}
      /\ Pd(t, r, page) \in (Frame \ {new}) \cup {NOT_PRESENT}
      /\ Pt(t, r, page) \in (Frame \ {new}) \cup {NOT_PRESENT}
      /\ Pt(t, r, page) # table
  BY <1>1, PathInTree, NotPresentIsNoFrame
<1>6. Same(r, r) /\ r \in (Frame \ {new}) \cup {NOT_PRESENT}
  BY <1>1
<1> HIDE DEF Same
<1>7. Same(Pdp(t, r, page), Pdp(u, r, page))
  BY <1>3, <1>4, <1>6 DEF Pdp, i
<1>8. Same(Pd(t, r, page), Pd(u, r, page))
  BY <1>3, <1>4, <1>5, <1>7 DEF Pd, i
<1>9. Same(Pt(t, r, page), Pt(u, r, page))
  BY <1>3, <1>4, <1>5, <1>8 DEF Pt, i
<1>10. Follow(u, Pt(u, r, page), i.p_index) = Follow(t, Pt(t, r, page), i.p_index)
  BY <1>3, <1>4, <1>5, <1>9
<1> QED
  BY <1>10, WalkByLevels DEF u, i

-----------------------------------------------------------------------------
(* A translation written into a table of the last level keeps the tree,    *)
(* and changes the translation of the page it is written for only: in a    *)
(* tree, pages that share their last table differ in their last index.     *)
LEMMA LastWriteTree ==
  ASSUME NEW t \in Tables, NEW r \in Frame, IsTree(t, r),
         NEW table \in Pts(t, r), NEW k \in Index, NEW physical \in Frame
  PROVE  LET u == [t EXCEPT ![table][k] = physical]
         IN  /\ u \in Tables /\ IsTree(u, r) /\ TablesOf(u, r) = TablesOf(t, r)
             /\ u[table][k] = physical
             /\ \A d \in Frame, j \in Index : ~(d = table /\ j = k) => u[d][j] = t[d][j]
             /\ Pdps(u, r) = Pdps(t, r) /\ Pds(u, r) = Pds(t, r)
<1> DEFINE row == [t[table] EXCEPT ![k] = physical]
           u == [t EXCEPT ![table][k] = physical]
           D == Directories(t, r)
<1>1. table \in Frame /\ table \notin D /\ D \in SUBSET Frame /\ r \in D
      /\ Pdps(t, r) \subseteq D /\ Pds(t, r) \subseteq D
  BY TreeParts, LevelsDisjoint
<1>2. t[table] \in [Index -> Entry]
  BY <1>1 DEF Tables
<1>3. row \in [Index -> Entry] /\ row[k] = physical
      /\ \A j \in Index : j # k => row[j] = t[table][j]
  BY <1>2 DEF Entry
<1>4. u = [d \in Frame |-> IF d = table THEN row ELSE t[d]]
  BY DEF Tables
<1> HIDE DEF row, u
<1>5. u \in Tables /\ u[table] = row /\ \A d \in Frame : d # table => u[d] = t[d]
  BY <1>1, <1>3, <1>4 DEF Tables
<1>6. u[table][k] = physical
      /\ \A d \in Frame, j \in Index : ~(d = table /\ j = k) => u[d][j] = t[d][j]
  BY <1>3, <1>5
<1> HIDE DEF D
<1>7. \A d \in D : u[d] = t[d]
  BY <1>1, <1>5
<1>8. ASSUME NEW S \in SUBSET D  PROVE Children(u, S) = Children(t, S)
  BY <1>7, <1>8 DEF Children
<1>9. Pdps(u, r) = Pdps(t, r)
  BY <1>1, <1>8 DEF Pdps
<1>10. Pds(u, r) = Pds(t, r)
  BY <1>1, <1>8, <1>9 DEF Pds
<1>11. Directories(u, r) = D
  <2>1. Directories(u, r) = {r} \cup Pdps(u, r) \cup Pds(u, r)
    BY <1>5, TreeParts
  <2>2. Directories(t, r) = {r} \cup Pdps(t, r) \cup Pds(t, r)
    BY TreeParts
  <2> QED
    BY <1>9, <1>10, <2>1, <2>2 DEF D
<1>12. TablesOf(u, r) = TablesOf(t, r)
  BY <1>8, <1>11 DEF TablesOf, D
<1>13. Children(u, D) = Children(t, D)
  BY <1>8
<1>14. IsTree(u, r)
  BY <1>7, <1>11, <1>13 DEF IsTree, D
<1> QED
  BY <1>5, <1>6, <1>9, <1>10, <1>12, <1>14 DEF u

LEMMA LastWriteWalk ==
  ASSUME NEW t \in Tables, NEW r \in Frame, IsTree(t, r), NEW physical \in Frame,
         NEW virtual \in 0 .. RADIX * RADIX * RADIX * RADIX - 1,
         NEW page \in 0 .. RADIX * RADIX * RADIX * RADIX - 1,
         Pt(t, r, virtual) # NOT_PRESENT
  PROVE  Walk([t EXCEPT ![Pt(t, r, virtual)][map_index(virtual).p_index] = physical], r, page)
           = IF page = virtual THEN physical ELSE Walk(t, r, page)
<1> DEFINE table == Pt(t, r, virtual)
           i == map_index(virtual)
           j == map_index(page)
           u == [t EXCEPT ![table][i.p_index] = physical]
           D == Directories(t, r)
<1>0. virtual \in Nat /\ page \in Nat
  <2>1. RADIX * RADIX * RADIX * RADIX \in Int
    BY RadixAssumption
  <2> QED
    BY <2>1
<1>1. /\ i.p_index \in Index /\ i.pt_index \in Index
      /\ i.pd_index \in Index /\ i.pdp_index \in Index
      /\ j.p_index \in Index /\ j.pt_index \in Index
      /\ j.pd_index \in Index /\ j.pdp_index \in Index
  BY <1>0, IndexesTyped
<1>2. /\ table \in Pts(t, r) /\ table \in Frame
  BY <1>0, PathInTree, TreeParts
<1>3. /\ u \in Tables /\ u[table][i.p_index] = physical
      /\ \A d \in Frame, k \in Index :
           ~(d = table /\ k = i.p_index) => u[d][k] = t[d][k]
  BY <1>1, <1>2, LastWriteTree
<1>4. \A d \in D : d \in Frame /\ d # table
  BY <1>2, TreeParts, LevelsDisjoint
<1> HIDE DEF u, i, j, D, table
<1>5. ASSUME NEW d \in D \cup {NOT_PRESENT}, NEW k \in Index
      PROVE  Follow(u, d, k) = Follow(t, d, k)
  BY <1>3, <1>4 DEF Follow
<1>6. /\ r \in D \cup {NOT_PRESENT}
      /\ Pdp(t, r, page) \in D \cup {NOT_PRESENT}
      /\ Pd(t, r, page) \in D \cup {NOT_PRESENT}
  BY <1>0, PathInTree, TreeParts DEF D
<1>7. Pdp(u, r, page) = Pdp(t, r, page)
  BY <1>1, <1>5, <1>6 DEF Pdp, j
<1>8. Pd(u, r, page) = Pd(t, r, page)
  BY <1>1, <1>5, <1>6, <1>7 DEF Pd, j
<1>9. Pt(u, r, page) = Pt(t, r, page)
  BY <1>1, <1>5, <1>6, <1>8 DEF Pt, j
<1>10. CASE page = virtual
  <2>1. Walk(u, r, page) = Follow(u, table, i.p_index)
    BY <1>9, <1>10, WalkByLevels DEF table, i
  <2>2. table # NOT_PRESENT
    BY DEF table
  <2> QED
    BY <1>3, <1>10, <2>1, <2>2 DEF Follow, u, table, i
<1>11. CASE page # virtual /\ Pt(t, r, page) # table
  <2>1. Pt(t, r, page) \in Frame \cup {NOT_PRESENT}
    BY <1>0, PathInTree, TreeParts
  <2>2. Follow(u, Pt(t, r, page), j.p_index) = Follow(t, Pt(t, r, page), j.p_index)
    BY <1>1, <1>3, <1>11, <2>1 DEF Follow
  <2>3. Walk(u, r, page) = Walk(t, r, page)
    BY <1>9, <2>2, WalkByLevels DEF j
  <2> QED
    BY <1>11, <2>3 DEF u, table, i
<1>12. CASE page # virtual /\ Pt(t, r, page) = table
  <2>1. \A d \in D, e \in D, k \in Index, l \in Index :
          (t[d][k] # NOT_PRESENT /\ t[d][k] = t[e][l]) => d = e /\ k = l
    BY DEF IsTree, D
  <2> DEFINE E == D \cup {NOT_PRESENT}
  <2>2. ASSUME NEW d \in E, NEW e \in E,
               NEW k \in Index, NEW l \in Index,
               Follow(t, d, k) # NOT_PRESENT, Follow(t, d, k) = Follow(t, e, l)
        PROVE  d = e /\ k = l /\ d # NOT_PRESENT
    BY <2>1, <2>2 DEF Follow
  <2>3. /\ Pdp(t, r, virtual) \in E /\ Pd(t, r, virtual) \in E
        /\ r \in E /\ Pdp(t, r, page) \in E /\ Pd(t, r, page) \in E
    BY <1>0, <1>6, PathInTree, TreeParts DEF D
  <2> HIDE DEF E
  <2>4. table # NOT_PRESENT
    BY DEF table
  <2>5. /\ Pd(t, r, page) = Pd(t, r, virtual) /\ j.pt_index = i.pt_index
        /\ Pd(t, r, virtual) # NOT_PRESENT
    <3>1. /\ Follow(t, Pd(t, r, page), j.pt_index) = table
          /\ Follow(t, Pd(t, r, virtual), i.pt_index) = table
      BY <1>12 DEF Pt, table, i, j
    <3>2. /\ Follow(t, Pd(t, r, page), j.pt_index) # NOT_PRESENT
          /\ Follow(t, Pd(t, r, page), j.pt_index) = Follow(t, Pd(t, r, virtual), i.pt_index)
      BY <2>4, <3>1
    <3>3. /\ Pd(t, r, page) = Pd(t, r, virtual) /\ j.pt_index = i.pt_index
          /\ Pd(t, r, page) # NOT_PRESENT
      BY <1>1, <2>2, <2>3, <3>2
    <3> QED
      BY <3>3
  <2>6. /\ Pdp(t, r, page) = Pdp(t, r, virtual) /\ j.pd_index = i.pd_index
        /\ Pdp(t, r, virtual) # NOT_PRESENT
    BY <1>1, <2>2, <2>3, <2>5 DEF Pd, i, j
  <2>7. j.pdp_index = i.pdp_index
    <3>1. /\ Follow(t, r, j.pdp_index) = Follow(t, r, i.pdp_index)
          /\ Follow(t, r, j.pdp_index) # NOT_PRESENT
      BY <2>6 DEF Pdp, i, j
    <3> QED
      BY <1>1, <2>2, <2>3, <3>1
  <2>8. j.p_index # i.p_index
    BY <1>12, <2>5, <2>6, <2>7, IndexesTellPages DEF i, j
  <2>9. Follow(u, table, j.p_index) = Follow(t, table, j.p_index)
    BY <1>1, <1>2, <1>3, <2>8 DEF Follow
  <2>10. Walk(u, r, page) = Walk(t, r, page)
    BY <1>9, <1>12, <2>9, WalkByLevels DEF j
  <2> QED
    BY <1>12, <2>10 DEF u, table, i
<1> QED
  BY <1>10, <1>11, <1>12

-----------------------------------------------------------------------------
(* A request that is granted sets one bit, the lowest of those clear.      *)
LEMMA RequestSetsOneBit ==
  ASSUME NEW a \in Allocator, RequestedPage(a) # NULL
  PROVE  LET b == pfallocator_request_page(a)
             page == RequestedPage(a)
         IN  /\ b \in Allocator /\ b.size = a.size
             /\ page \in Nat /\ page < LastBit(a) /\ page \notin a.bits
             /\ \A f \in FreeFrames(a) : page <= f
             /\ b.bits = a.bits \cup {page}
<1> DEFINE b == pfallocator_request_page(a)
           page == RequestedPage(a)
<1>1. FreeFrames(a) # {}
  BY DEF RequestedPage
<1>2. page \in FreeFrames(a) /\ page \in Nat /\ \A f \in FreeFrames(a) : page <= f
  BY <1>1, RequestedPageFacts
<1>3. /\ page \in 0 .. LastBit(a) - 1 /\ LastBit(a) \in Nat
      /\ page \notin a.bits /\ page < LastBit(a) /\ page <= LastBit(a)
  BY <1>2, LastBitType DEF FreeFrames, bitmap_get
<1>4. ClearPages(a, {page}) = {page}
  BY <1>3 DEF ClearPages, bitmap_get
<1>5. b = pfallocator_lock_pages(a, {page})
  BY <1>1 DEF pfallocator_request_page
<1>6. Cardinality({page}) = 1
  BY FS_Singleton
<1> HIDE DEF page, b
<1>7. b = [a EXCEPT !.bits = a.bits \cup {page},
                    !.free_memory = (a.free_memory - 1) % MODULUS,
                    !.used_memory = (a.used_memory + 1) % MODULUS]
  BY <1>4, <1>5, <1>6 DEF pfallocator_lock_pages
<1>8. /\ (a.free_memory - 1) % MODULUS \in Counter
      /\ (a.used_memory + 1) % MODULUS \in Counter
  <2>1. a.free_memory - 1 \in Int /\ a.used_memory + 1 \in Int
    BY FramesAssumption DEF Allocator, Counter
  <2> QED
    BY <2>1, CounterType
<1>9. a.bits \cup {page} \in SUBSET Nat
  BY <1>2 DEF Allocator
<1>10. b \in Allocator /\ b.size = a.size /\ b.bits = a.bits \cup {page}
  BY <1>7, <1>8, <1>9 DEF Allocator
<1> QED
  BY <1>2, <1>3, <1>10 DEF page, b

(* Of the frames free below a bound some were granted, the lowest first;   *)
(* the bitmap has the others clear, as far as its own bound reaches.       *)
Frontier(a, free, bound, granted) ==
  /\ \A f \in Nat :
       f < bound /\ f < LastBit(a) => (f \notin a.bits <=> f \in free \ granted)
  /\ \A g \in granted : g \in Nat /\ (g \in free \/ g >= bound)
  /\ \A f \in free, g \in granted : f <= g => f \in granted

LEMMA FrontierMoves ==
  ASSUME NEW a \in Allocator, RequestedPage(a) # NULL,
         NEW bound \in Nat, NEW free \in SUBSET (0 .. bound - 1), NEW granted,
         Frontier(a, free, bound, granted)
  PROVE  Frontier(pfallocator_request_page(a), free, bound,
                  granted \cup {RequestedPage(a)})
<1> DEFINE b == pfallocator_request_page(a)
           page == RequestedPage(a)
<1>1. /\ b.size = a.size /\ page \in Nat /\ page < LastBit(a) /\ page \notin a.bits
      /\ \A f \in FreeFrames(a) : page <= f
      /\ b.bits = a.bits \cup {page}
  BY RequestSetsOneBit
<1> HIDE DEF b, page
<1>2. LastBit(b) = LastBit(a) /\ LastBit(a) \in Nat
  BY <1>1, LastBitType DEF LastBit
<1>3. \A f \in free : f \in Nat /\ f < bound
  OBVIOUS
<1>4. \A f \in Nat :
        f < bound /\ f < LastBit(b)
          => (f \notin b.bits <=> f \in free \ (granted \cup {page}))
  BY <1>1, <1>2 DEF Frontier
<1>5. page \in free \ granted \/ page >= bound
  BY <1>1 DEF Frontier
<1>6. ASSUME NEW f \in free, f <= page  PROVE f \in granted \cup {page}
  <2> SUFFICES ASSUME f \notin granted  PROVE f = page
    OBVIOUS
  <2>1. f \in 0 .. LastBit(a) - 1 /\ f \notin a.bits
    BY <1>1, <1>2, <1>3, <1>6 DEF Frontier
  <2>2. page <= f
    BY <1>1, <2>1 DEF FreeFrames, bitmap_get
  <2> QED
    BY <1>1, <1>3, <1>6, <2>2
<1>7. \A f \in free, g \in granted : f <= g => f \in granted
  BY DEF Frontier
<1>8. \A g \in granted \cup {page} : g \in Nat /\ (g \in free \/ g >= bound)
  BY <1>1, <1>5 DEF Frontier
<1> QED
  BY <1>4, <1>6, <1>7, <1>8 DEF Frontier, b, page

(* A machine whose page tables form a tree, on frames of their own: the    *)
(* frames taken are those taken at boot and those of the tree.             *)
SoundMachine(m, r, boot) ==
  /\ m = [allocator |-> m.allocator, tables |-> m.tables, lost |-> m.lost,
          usable |-> m.usable]
  /\ m.lost \in BOOLEAN
  /\ m.usable \in SUBSET (Frame \ {NULL})
  /\ m.allocator \in Allocator
  /\ m.tables \in Tables
  /\ IsTree(m.tables, r)
  /\ boot \cap TablesOf(m.tables, r) = {}
  /\ m.allocator.bits = boot \cup TablesOf(m.tables, r)

(* n is m after one level of ptmanager_map_memory: the entry at index of   *)
(* table points to a table, unless the machine is lost; other entries are  *)
(* kept, and so is what every page translates to.                          *)
Ensured(m, n, r, boot, table, index) ==
  /\ SoundMachine(n, r, boot)
  /\ n.usable = m.usable /\ n.allocator.size = m.allocator.size
  /\ Pdps(m.tables, r) \subseteq Pdps(n.tables, r)
  /\ Pds(m.tables, r) \subseteq Pds(n.tables, r)
  /\ TablesOf(n.tables, r) \subseteq TablesOf(m.tables, r) \cup m.usable
  /\ \A d \in Directories(m.tables, r), i \in Index :
       m.tables[d][i] # NOT_PRESENT => n.tables[d][i] = m.tables[d][i]
  /\ \A page \in Nat : Walk(n.tables, r, page) = Walk(m.tables, r, page)
  /\ ~n.lost => n.tables[table][index] # NOT_PRESENT

LEMMA EnsureTableFacts ==
  ASSUME NEW m, NEW r \in Frame, NEW boot, SoundMachine(m, r, boot), ~m.lost,
         NEW table \in Directories(m.tables, r), NEW index \in Index
  PROVE  Ensured(m, EnsureTable(m, table, index), r, boot, table, index)
<1> DEFINE n == EnsureTable(m, table, index)
           page == RequestedPage(m.allocator)
           t == m.tables
<1>1. CASE t[table][index] # NOT_PRESENT
  <2>1. EnsureTable(m, table, index) = m
    BY <1>1 DEF EnsureTable
  <2> HIDE DEF n, t
  <2>2. m.tables[table][index] # NOT_PRESENT
    BY <1>1 DEF t
  <2> QED
    BY <2>1, <2>2 DEF Ensured
<1>2. CASE t[table][index] = NOT_PRESENT /\ page \notin m.usable
  <2>1. n = [m EXCEPT !.lost = TRUE]
    BY <1>2 DEF EnsureTable
  <2>2. /\ n = [allocator |-> n.allocator, tables |-> n.tables, lost |-> n.lost,
                usable |-> n.usable]
        /\ n.lost = TRUE /\ n.tables = m.tables /\ n.allocator = m.allocator
        /\ n.usable = m.usable
    BY <2>1 DEF SoundMachine
  <2> HIDE DEF n
  <2>3. SoundMachine(n, r, boot)
    BY <2>2 DEF SoundMachine
  <2> QED
    BY <2>2, <2>3 DEF n, Ensured
<1>3. CASE t[table][index] = NOT_PRESENT /\ page \in m.usable
  <2> DEFINE u == WithTable(t, table, index, page)
             a == pfallocator_request_page(m.allocator)
  <2>1. n = [m EXCEPT !.allocator = a, !.tables = u]
    BY <1>3 DEF EnsureTable, WithTable
  <2>2. page \in Frame /\ page # NULL /\ page # NOT_PRESENT
    BY <1>3, NotPresentIsNoFrame DEF SoundMachine
  <2>3. /\ t \in Tables /\ IsTree(t, r) /\ m.allocator \in Allocator
        /\ boot \cap TablesOf(t, r) = {}
        /\ m.allocator.bits = boot \cup TablesOf(t, r)
    BY DEF SoundMachine
  <2>4. /\ a \in Allocator /\ a.size = m.allocator.size
        /\ page \notin m.allocator.bits
        /\ a.bits = m.allocator.bits \cup {page}
    BY <2>2, <2>3, RequestSetsOneBit
  <2>5. page \notin TablesOf(t, r) /\ page \notin boot
    BY <2>3, <2>4
  <2>6. /\ n = [allocator |-> a, tables |-> u, lost |-> m.lost, usable |-> m.usable]
        /\ n.allocator = a /\ n.tables = u /\ n.lost = m.lost /\ n.usable = m.usable
    BY <2>1 DEF SoundMachine
  <2>7. /\ table \in Frame /\ page # table
        /\ Directories(t, r) \in SUBSET Frame /\ page \notin Directories(t, r)
    BY <2>3, <2>5, TreeParts
  <2>8. /\ u \in Tables /\ u[table][index] = page
        /\ \A d \in Frame, i \in Index :
             d # page /\ ~(d = table /\ i = index) => u[d][i] = t[d][i]
    BY <2>2, <2>3, <2>7, WithTableFacts
  <2>9. /\ IsTree(u, r) /\ TablesOf(u, r) = TablesOf(t, r) \cup {page}
        /\ Pdps(t, r) \subseteq Pdps(u, r) /\ Pds(t, r) \subseteq Pds(u, r)
    BY <1>3, <2>2, <2>3, <2>5, WithTableTree
  <2>10. \A p \in Nat : Walk(u, r, p) = Walk(t, r, p)
    BY <1>3, <2>2, <2>3, <2>5, WalkPastNewTable
  <2> HIDE DEF n, u, a, page, t
  <2>11. \A d \in Directories(t, r), i \in Index :
           t[d][i] # NOT_PRESENT => u[d][i] = t[d][i]
    BY <1>3, <2>7, <2>8
  <2>12. /\ boot \cap TablesOf(u, r) = {}
         /\ a.bits = boot \cup TablesOf(u, r)
    BY <2>3, <2>4, <2>5, <2>9
  <2>14. TablesOf(u, r) \subseteq TablesOf(t, r) \cup m.usable
    BY <1>3, <2>9
  <2>13. SoundMachine(n, r, boot)
    BY <2>4, <2>6, <2>8, <2>9, <2>12 DEF SoundMachine
  <2> QED
    BY <2>2, <2>4, <2>6, <2>8, <2>9, <2>10, <2>11, <2>13, <2>14 DEF n, t, Ensured
<1> QED
  BY <1>1, <1>2, <1>3

(* The whole call: the tree stays a tree on frames of its own, and one     *)
(* translation changes.                                                    *)
LEMMA MapMemoryFacts ==
  ASSUME NEW m, NEW r \in Frame, NEW boot, SoundMachine(m, r, boot), ~m.lost,
         NEW virtual \in 0 .. RADIX * RADIX * RADIX * RADIX - 1,
         NEW physical \in Frame
  PROVE  LET n == ptmanager_map_memory(m, r, virtual, physical)
         IN  /\ SoundMachine(n, r, boot)
             /\ n.usable = m.usable /\ n.allocator.size = m.allocator.size
             /\ TablesOf(n.tables, r) \subseteq TablesOf(m.tables, r) \cup m.usable
             /\ \A page \in 0 .. RADIX * RADIX * RADIX * RADIX - 1 :
                  Walk(n.tables, r, page)
                    = IF page = virtual /\ ~n.lost THEN physical
                      ELSE Walk(m.tables, r, page)
<1> DEFINE i   == map_index(virtual)
           m1  == EnsureTable(m, r, i.pdp_index)
           pdp == m1.tables[r][i.pdp_index]
           m2  == EnsureTable(m1, pdp, i.pd_index)
           pd  == m2.tables[pdp][i.pd_index]
           m3  == EnsureTable(m2, pd, i.pt_index)
           pt  == m3.tables[pd][i.pt_index]
           n   == IF m3.lost THEN m3
                  ELSE [m3 EXCEPT !.tables[pt][i.p_index] = physical]
           Same(a, b) == /\ SoundMachine(b, r, boot)
                         /\ b.usable = a.usable /\ b.allocator.size = a.allocator.size
                         /\ TablesOf(b.tables, r) \subseteq TablesOf(a.tables, r) \cup a.usable
                         /\ \A page \in Nat : Walk(b.tables, r, page) = Walk(a.tables, r, page)
<1>0. n = ptmanager_map_memory(m, r, virtual, physical)
  BY DEF ptmanager_map_memory
<1>1. /\ i.p_index \in Index /\ i.pt_index \in Index
      /\ i.pd_index \in Index /\ i.pdp_index \in Index
      /\ \A page \in 0 .. RADIX * RADIX * RADIX * RADIX - 1 : page \in Nat
  <2>1. RADIX * RADIX * RADIX * RADIX \in Int
    BY RadixAssumption
  <2> QED
    BY <2>1, IndexesTyped
<1>2. r \in Directories(m.tables, r)
  BY DEF Directories
<1> HIDE DEF i
<1>3. Same(m, m1) /\ (~m1.lost => pdp # NOT_PRESENT)
  <2>1. Ensured(m, m1, r, boot, r, i.pdp_index)
    BY <1>1, <1>2, EnsureTableFacts
  <2> HIDE DEF m1
  <2> QED
    BY <2>1 DEF Ensured
<1>4. CASE m1.lost
  <2> HIDE DEF m1, pdp, pd
  <2>0. m2 = m1
    BY <1>4 DEF EnsureTable
  <2> HIDE DEF m2
  <2>1. m3 = m1
    BY <1>4, <2>0 DEF EnsureTable
  <2> HIDE DEF m3
  <2>2. n = m1
    BY <1>4, <2>1
  <2> HIDE DEF n
  <2> QED
    BY <1>0, <1>3, <1>4, <2>2
<1>5. CASE ~m1.lost
  <2> HIDE DEF m1
  <2>1. m1.tables \in Tables
    BY <1>3 DEF SoundMachine
  <2>2. pdp \in Pdps(m1.tables, r)
    BY <1>1, <1>3, <1>5, ChildOf DEF Pdps
  <2>3. pdp \in Directories(m1.tables, r)
    BY <2>1, <2>2, TreeParts
  <2>4. r \in Directories(m1.tables, r)
    BY DEF Directories
  <2> HIDE DEF pdp
  <2>5. /\ Same(m1, m2) /\ (~m2.lost => pd # NOT_PRESENT)
        /\ m2.tables[r][i.pdp_index] = pdp
        /\ pdp \in Pdps(m2.tables, r)
    <3>1. m1.tables[r][i.pdp_index] = pdp /\ pdp # NOT_PRESENT
      BY <1>3, <1>5 DEF pdp
    <3>0. SoundMachine(m1, r, boot) /\ ~m1.lost /\ i.pd_index \in Index
      BY <1>1, <1>3, <1>5
    <3>2. Ensured(m1, m2, r, boot, pdp, i.pd_index)
      BY <2>3, <3>0, EnsureTableFacts
    <3>3. ~m2.lost => pd # NOT_PRESENT
      BY <3>2 DEF Ensured
    <3> HIDE DEF m2, pd
    <3> QED
      BY <1>1, <2>2, <2>4, <3>1, <3>2, <3>3 DEF Ensured
  <2>6. CASE m2.lost
    <3>1. m3 = m2
      BY <2>6 DEF EnsureTable
    <3> HIDE DEF m2, m3
    <3>2. n = m2
      BY <2>6, <3>1
    <3> HIDE DEF n
    <3> QED
      BY <1>0, <1>3, <2>5, <2>6, <3>2
  <2>7. CASE ~m2.lost
    <3> HIDE DEF m2
    <3>1. m2.tables \in Tables
      BY <2>5 DEF SoundMachine
    <3>2. pd \in Pds(m2.tables, r)
      BY <1>1, <2>5, <2>7, ChildOf DEF Pds
    <3>3. /\ pd \in Directories(m2.tables, r) /\ pdp \in Directories(m2.tables, r)
          /\ r \in Directories(m2.tables, r)
      BY <2>5, <3>1, <3>2, TreeParts
    <3>4. pdp # NOT_PRESENT /\ pd # NOT_PRESENT
      BY <1>3, <1>5, <2>5, <2>7 DEF pdp
    <3>5. m2.tables[r][i.pdp_index] = pdp /\ m2.tables[pdp][i.pd_index] = pd
      BY <2>5
    <3> HIDE DEF pd
    <3>6. /\ Same(m2, m3) /\ (~m3.lost => pt # NOT_PRESENT)
          /\ m3.tables[r][i.pdp_index] = pdp
          /\ m3.tables[pdp][i.pd_index] = pd
          /\ pd \in Pds(m3.tables, r)
      <4>0. SoundMachine(m2, r, boot) /\ ~m2.lost /\ i.pt_index \in Index
        BY <1>1, <2>5, <2>7
      <4>1. Ensured(m2, m3, r, boot, pd, i.pt_index)
        BY <3>3, <4>0, EnsureTableFacts
      <4>2. ~m3.lost => pt # NOT_PRESENT
        BY <4>1 DEF Ensured
      <4> HIDE DEF m3, pt
      <4> QED
        BY <1>1, <3>2, <3>3, <3>4, <3>5, <4>1, <4>2 DEF Ensured
    <3>7. CASE m3.lost
      <4> HIDE DEF m3
      <4>1. n = m3
        BY <3>7
      <4> HIDE DEF n
      <4> QED
        BY <1>0, <1>3, <2>5, <3>6, <3>7, <4>1
    <3>8. CASE ~m3.lost
      <4> HIDE DEF m3
      <4> DEFINE t == m3.tables
      <4>1. r # NOT_PRESENT
        BY NotPresentIsNoFrame
      <4>2. Pt(t, r, virtual) = pt /\ pt # NOT_PRESENT
        BY <3>4, <3>6, <3>8, <4>1 DEF Pt, Pd, Pdp, Follow, i
      <4>3. pt \in Pts(t, r)
        BY <1>1, <3>6, <3>8, ChildOf DEF Pts
      <4>4. t \in Tables /\ IsTree(t, r)
        BY <3>6 DEF SoundMachine
      <4> HIDE DEF pt, t
      <4> DEFINE u == [t EXCEPT ![pt][i.p_index] = physical]
      <4>5. u \in Tables /\ IsTree(u, r) /\ TablesOf(u, r) = TablesOf(t, r)
        BY <1>1, <4>3, <4>4, LastWriteTree
      <4>6. \A page \in 0 .. RADIX * RADIX * RADIX * RADIX - 1 :
              Walk(u, r, page) = IF page = virtual THEN physical ELSE Walk(t, r, page)
        BY <4>2, <4>4, LastWriteWalk DEF i
      <4>7. n = [m3 EXCEPT !.tables = u]
        BY <3>8 DEF t
      <4>8. /\ n = [allocator |-> m3.allocator, tables |-> u, lost |-> m3.lost,
                    usable |-> m3.usable]
            /\ n.allocator = m3.allocator /\ n.tables = u /\ n.lost = m3.lost
            /\ n.usable = m3.usable
        BY <3>6, <4>7 DEF SoundMachine
      <4> HIDE DEF n, u
      <4>9. SoundMachine(n, r, boot)
        BY <3>6, <4>5, <4>8 DEF SoundMachine, t
      <4>10. \A page \in 0 .. RADIX * RADIX * RADIX * RADIX - 1 :
               Walk(t, r, page) = Walk(m.tables, r, page)
        BY <1>1, <1>3, <2>5, <3>6 DEF t
      <4>11. /\ n.usable = m.usable /\ n.allocator.size = m.allocator.size
             /\ TablesOf(t, r) \subseteq TablesOf(m.tables, r) \cup m.usable
        BY <1>3, <2>5, <3>6, <4>8 DEF t
      <4>12. TablesOf(u, r) \subseteq TablesOf(m.tables, r) \cup m.usable
        BY <4>5, <4>11
      <4> DEFINE Space == 0 .. RADIX * RADIX * RADIX * RADIX - 1
      <4>13. \A page \in Space :
               Walk(n.tables, r, page) = IF page = virtual THEN physical
                                         ELSE Walk(m.tables, r, page)
        BY <4>6, <4>8, <4>10
      <4>14. ~n.lost
        BY <3>8, <4>8
      <4>15. TablesOf(n.tables, r) \subseteq TablesOf(m.tables, r) \cup m.usable
        BY <4>8, <4>12
      <4> HIDE DEF Space
      <4> QED
        BY <1>0, <4>9, <4>11, <4>13, <4>14, <4>15 DEF Space
    <3> QED
      BY <3>7, <3>8
  <2> QED
    BY <2>6, <2>7
<1> QED
  BY <1>4, <1>5
-----------------------------------------------------------------------------
(* The root. *)

(* A frame the allocator grants, and the one of a refusal, has a number.   *)
LEMMA RequestedIsFrame ==
  ASSUME NEW map \in MemoryMaps, NEW a, WellFormed(a), a.size = BitmapSize(map)
  PROVE  RequestedPage(a) \in Frame
<1>1. 0 \in Frame
  BY MapsAssumption DEF Frame
<1>2. LastBit(a) \in Frame
  BY MemorySizeType DEF LastBit
<1>3. CASE FreeFrames(a) = {}
  BY <1>1, <1>3 DEF RequestedPage, NULL
<1>4. CASE FreeFrames(a) # {}
  <2>1. RequestedPage(a) \in 0 .. LastBit(a) - 1
    BY <1>4, RequestedPageFacts DEF FreeFrames, WellFormed
  <2> QED
    BY <1>2, <2>1, MapsAssumption DEF Frame
<1> QED
  BY <1>3, <1>4

LEMMA UsableAreFrames ==
  ASSUME NEW map \in MemoryMaps
  PROVE  UsableFrames(map) \in SUBSET (Frame \ {NULL})
BY MapsAssumption DEF UsableFrames, Conventional, FramesOfType, NULL

(* A zeroed root is a tree of one table, and translates nothing. *)
LEMMA ZeroedRoot ==
  ASSUME NEW t \in Tables, NEW r \in Frame, \A i \in Index : t[r][i] = NOT_PRESENT
  PROVE  /\ IsTree(t, r) /\ TablesOf(t, r) = {r}
         /\ \A page \in Nat : Walk(t, r, page) = NOT_PRESENT
<1>1. Pdps(t, r) = {}
  BY DEF Pdps, Children
<1>2. Pds(t, r) = {} /\ Pts(t, r) = {}
  <2>1. Children(t, {}) = {}
    BY DEF Children
  <2> QED
    BY <1>1, <2>1 DEF Pds, Pts
<1>3. /\ Directories(t, r) = {r} /\ Children(t, Directories(t, r)) = {}
      /\ TablesOf(t, r) = {r}
  BY <1>1, <1>2, TreeParts
<1>4. IsTree(t, r)
  BY <1>3 DEF IsTree
<1>5. ASSUME NEW page \in Nat  PROVE Walk(t, r, page) = NOT_PRESENT
  <2>1. Pt(t, r, page) = NOT_PRESENT
    BY <1>2, PathInTree
  <2> QED
    BY <2>1, WalkByLevels DEF Follow
<1> QED
  BY <1>3, <1>4, <1>5

-----------------------------------------------------------------------------
(* Counting tables. *)

(* The pages that have no more than the four indexes. *)
PageNumbers == 0 .. RADIX * RADIX * RADIX * RADIX - 1

(* The last index is a whole prefix, the others are remainders of one. *)
LEMMA Prefixes ==
  ASSUME NEW page \in PageNumbers
  PROVE  LET pt  == page \div RADIX
             pd  == pt \div RADIX
             pdp == pd \div RADIX
             i   == map_index(page)
         IN  /\ page \in Nat /\ pt \in Nat /\ pd \in Nat /\ pdp \in Nat
             /\ i.pdp_index = pdp /\ i.pd_index = pd % RADIX /\ i.pt_index = pt % RADIX
             /\ i.pdp_index \in Index /\ i.pd_index \in Index /\ i.pt_index \in Index
<1> DEFINE Q(k) == k \div RADIX
<1>1. RADIX \in Nat /\ RADIX * RADIX \in Nat /\ RADIX * RADIX * RADIX \in Nat
      /\ RADIX * RADIX * RADIX * RADIX \in Nat
  BY RadixAssumption
<1>2. page \in Nat /\ page < RADIX * RADIX * RADIX * RADIX
  BY <1>1 DEF PageNumbers
<1>3. page < RADIX * (RADIX * RADIX * RADIX)
  BY <1>1, <1>2
<1>4. Q(page) \in Nat /\ Q(page) < RADIX * RADIX * RADIX
  BY <1>1, <1>2, <1>3, QuotientBelow
<1>5. map_index(page) = [p_index  |-> page % RADIX,       pt_index  |-> Q(page) % RADIX,
                         pd_index |-> Q(Q(page)) % RADIX, pdp_index |-> Q(Q(Q(page))) % RADIX]
  BY DEF map_index
<1>6. /\ map_index(page).pdp_index = Q(Q(Q(page))) % RADIX
      /\ map_index(page).pd_index = Q(Q(page)) % RADIX
      /\ map_index(page).pt_index = Q(page) % RADIX
  BY <1>5
<1>7. /\ map_index(page).pdp_index \in Index /\ map_index(page).pd_index \in Index
      /\ map_index(page).pt_index \in Index
  BY <1>2, IndexesTyped
<1> HIDE DEF Q
<1>8. Q(page) < RADIX * (RADIX * RADIX)
  BY <1>1, <1>4
<1>9. Q(Q(page)) \in Nat /\ Q(Q(page)) < RADIX * RADIX
  BY <1>1, <1>4, <1>8, QuotientBelow DEF Q
<1>10. Q(Q(Q(page))) \in Nat /\ Q(Q(Q(page))) < RADIX
  BY <1>1, <1>9, QuotientBelow DEF Q
<1>11. Q(Q(Q(page))) % RADIX = Q(Q(Q(page)))
  BY <1>1, <1>10
<1>12. map_index(page).pdp_index = Q(Q(Q(page)))
  BY <1>6, <1>11
<1> QED
  BY <1>2, <1>4, <1>6, <1>7, <1>9, <1>10, <1>12 DEF Q

(* Two pages share a table exactly if they share the prefix above it. *)
LEMMA TablesShared ==
  ASSUME NEW t \in Tables, NEW r \in Frame, IsTree(t, r),
         NEW p \in PageNumbers, NEW q \in PageNumbers
  PROVE  LET Q(k) == k \div RADIX
         IN  /\ Pdp(t, r, p) # NOT_PRESENT =>
                  (Pdp(t, r, p) = Pdp(t, r, q) <=> Q(Q(Q(p))) = Q(Q(Q(q))))
             /\ Pd(t, r, p) # NOT_PRESENT =>
                  (Pd(t, r, p) = Pd(t, r, q) <=> Q(Q(p)) = Q(Q(q)))
             /\ Pt(t, r, p) # NOT_PRESENT =>
                  (Pt(t, r, p) = Pt(t, r, q) <=> Q(p) = Q(q))
<1> DEFINE Q(k) == k \div RADIX
           i == map_index(p)
           j == map_index(q)
           D == Directories(t, r)
<1>1. /\ Q(p) \in Nat /\ Q(Q(p)) \in Nat /\ Q(Q(Q(p))) \in Nat
      /\ i.pdp_index = Q(Q(Q(p))) /\ i.pd_index = Q(Q(p)) % RADIX
      /\ i.pt_index = Q(p) % RADIX
      /\ i.pdp_index \in Index /\ i.pd_index \in Index /\ i.pt_index \in Index
  BY Prefixes
<1>2. /\ Q(q) \in Nat /\ Q(Q(q)) \in Nat /\ Q(Q(Q(q))) \in Nat
      /\ j.pdp_index = Q(Q(Q(q))) /\ j.pd_index = Q(Q(q)) % RADIX
      /\ j.pt_index = Q(q) % RADIX
      /\ j.pdp_index \in Index /\ j.pd_index \in Index /\ j.pt_index \in Index
  BY Prefixes
<1>3. \A m, n \in Nat : Q(m) = Q(n) /\ m % RADIX = n % RADIX => m = n
  BY QuotientAndRest
<1>4. p \in Nat /\ q \in Nat
  BY Prefixes
<1>5. /\ r \in D /\ Pdp(t, r, p) \in D \cup {NOT_PRESENT} /\ Pdp(t, r, q) \in D \cup {NOT_PRESENT}
      /\ Pd(t, r, p) \in D \cup {NOT_PRESENT} /\ Pd(t, r, q) \in D \cup {NOT_PRESENT}
  BY <1>4, PathInTree, TreeParts
<1>6. \A d, e \in D, k, l \in Index :
        (t[d][k] # NOT_PRESENT /\ t[d][k] = t[e][l]) => d = e /\ k = l
  BY DEF IsTree
<1>7. r # NOT_PRESENT
  BY NotPresentIsNoFrame
<1> HIDE DEF Q, D, i, j
<1>8. ASSUME Pdp(t, r, p) # NOT_PRESENT
      PROVE  Pdp(t, r, p) = Pdp(t, r, q) <=> Q(Q(Q(p))) = Q(Q(Q(q)))
  <2>1. Pdp(t, r, p) = t[r][i.pdp_index] /\ Pdp(t, r, q) = t[r][j.pdp_index]
    BY <1>7 DEF Pdp, Follow, i, j
  <2> QED
    BY <1>1, <1>2, <1>5, <1>6, <1>8, <2>1
<1>9. ASSUME Pd(t, r, p) # NOT_PRESENT
      PROVE  Pd(t, r, p) = Pd(t, r, q) <=> Q(Q(p)) = Q(Q(q))
  <2>1. Pdp(t, r, p) # NOT_PRESENT /\ Pd(t, r, p) = t[Pdp(t, r, p)][i.pd_index]
    BY <1>9 DEF Pd, Follow, i
  <2>2. ASSUME Pd(t, r, p) = Pd(t, r, q)  PROVE Q(Q(p)) = Q(Q(q))
    <3>1. Pdp(t, r, q) # NOT_PRESENT /\ Pd(t, r, q) = t[Pdp(t, r, q)][j.pd_index]
      BY <1>9, <2>2 DEF Pd, Follow, j
    <3>2. /\ Pdp(t, r, p) \in D /\ Pdp(t, r, q) \in D
          /\ i.pd_index \in Index /\ j.pd_index \in Index
      BY <1>1, <1>2, <1>5, <2>1, <3>1
    <3>3. Pdp(t, r, p) = Pdp(t, r, q) /\ i.pd_index = j.pd_index
      <4> DEFINE d == Pdp(t, r, p)
                 e == Pdp(t, r, q)
                 k == i.pd_index
                 l == j.pd_index
      <4>1. d \in D /\ e \in D /\ k \in Index /\ l \in Index
        BY <3>2
      <4>2. t[d][k] # NOT_PRESENT /\ t[d][k] = t[e][l]
        BY <1>9, <2>1, <2>2, <3>1
      <4> HIDE DEF d, e, k, l
      <4>3. d = e /\ k = l
        BY <1>6, <4>1, <4>2
      <4> QED
        BY <4>3 DEF d, e, k, l
    <3> QED
      BY <1>1, <1>2, <1>3, <1>8, <2>1, <3>3
  <2>3. ASSUME Q(Q(p)) = Q(Q(q))  PROVE Pd(t, r, p) = Pd(t, r, q)
    <3>1. Pdp(t, r, p) = Pdp(t, r, q) /\ i.pd_index = j.pd_index
      BY <1>1, <1>2, <1>8, <2>1, <2>3
    <3> QED
      BY <3>1 DEF Pd, i, j
  <2> QED
    BY <2>2, <2>3
<1>10. ASSUME Pt(t, r, p) # NOT_PRESENT
       PROVE  Pt(t, r, p) = Pt(t, r, q) <=> Q(p) = Q(q)
  <2>1. Pd(t, r, p) # NOT_PRESENT /\ Pt(t, r, p) = t[Pd(t, r, p)][i.pt_index]
    BY <1>10 DEF Pt, Follow, i
  <2>2. ASSUME Pt(t, r, p) = Pt(t, r, q)  PROVE Q(p) = Q(q)
    <3>1. Pd(t, r, q) # NOT_PRESENT /\ Pt(t, r, q) = t[Pd(t, r, q)][j.pt_index]
      BY <1>10, <2>2 DEF Pt, Follow, j
    <3>2. /\ Pd(t, r, p) \in D /\ Pd(t, r, q) \in D
          /\ i.pt_index \in Index /\ j.pt_index \in Index
      BY <1>1, <1>2, <1>5, <2>1, <3>1
    <3>3. Pd(t, r, p) = Pd(t, r, q) /\ i.pt_index = j.pt_index
      <4> DEFINE d == Pd(t, r, p)
                 e == Pd(t, r, q)
                 k == i.pt_index
                 l == j.pt_index
      <4>1. d \in D /\ e \in D /\ k \in Index /\ l \in Index
        BY <3>2
      <4>2. t[d][k] # NOT_PRESENT /\ t[d][k] = t[e][l]
        BY <1>10, <2>1, <2>2, <3>1
      <4> HIDE DEF d, e, k, l
      <4>3. d = e /\ k = l
        BY <1>6, <4>1, <4>2
      <4> QED
        BY <4>3 DEF d, e, k, l
    <3> QED
      BY <1>1, <1>2, <1>3, <1>9, <2>1, <3>3
  <2>3. ASSUME Q(p) = Q(q)  PROVE Pt(t, r, p) = Pt(t, r, q)
    <3>1. Pd(t, r, p) = Pd(t, r, q) /\ i.pt_index = j.pt_index
      BY <1>1, <1>2, <1>9, <2>1, <2>3
    <3> QED
      BY <3>1 DEF Pt, i, j
  <2> QED
    BY <2>2, <2>3
<1> QED
  BY <1>8, <1>9, <1>10 DEF Q

(* Two functions that tell the same arguments apart take as many values. *)
LEMMA SameImages ==
  ASSUME NEW P, IsFiniteSet(P), NEW f, NEW g,
         \A p, q \in P : f[p] = f[q] <=> g[p] = g[q],
         NEW S, \A p \in P : f[p] \in S, \A x \in S : \E p \in P : f[p] = x,
         NEW T, \A p \in P : g[p] \in T, \A x \in T : \E p \in P : g[p] = x
  PROVE  /\ IsFiniteSet(S) /\ IsFiniteSet(T)
         /\ Cardinality(S) = Cardinality(T) /\ Cardinality(S) \in Nat
<1> DEFINE F == [p \in P |-> f[p]]
           back == [x \in S |-> CHOOSE p \in P : f[p] = x]
           h == [x \in S |-> g[back[x]]]
<1>1. IsFiniteSet(S)
  <2>1. F \in Surjection(P, S)
    BY DEF Surjection
  <2> QED
    BY <2>1, FS_Surjection
<1>2. \A x \in S : back[x] \in P /\ f[back[x]] = x
  OBVIOUS
<1> HIDE DEF back
<1>3. h \in Bijection(S, T)
  <2>1. h \in [S -> T]
    BY <1>2
  <2>2. \A x, y \in S : h[x] = h[y] => x = y
    <3> SUFFICES ASSUME NEW x \in S, NEW y \in S, h[x] = h[y]  PROVE x = y
      OBVIOUS
    <3>1. g[back[x]] = g[back[y]]
      OBVIOUS
    <3> HIDE DEF h
    <3> QED
      BY <1>2, <3>1
  <2>3. \A z \in T : \E x \in S : h[x] = z
    <3> SUFFICES ASSUME NEW z \in T  PROVE \E x \in S : h[x] = z
      OBVIOUS
    <3>0. PICK p \in P : g[p] = z
      OBVIOUS
    <3>1. f[p] \in S
      OBVIOUS
    <3>2. g[back[f[p]]] = g[p]
      BY <1>2, <3>1
    <3> QED
      BY <3>0, <3>1, <3>2
  <2> HIDE DEF h
  <2> QED
    BY <2>1, <2>2, <2>3 DEF Bijection, Injection, Surjection, IsInjective
<1> HIDE DEF h
<1>4. ExistsBijection(S, T)
  BY <1>3 DEF ExistsBijection
<1> QED
  BY <1>1, <1>4, FS_Bijection, FS_CardinalityType

(* Sets with nothing in common. *)
LEMMA DisjointSum ==
  ASSUME NEW S, NEW T, IsFiniteSet(S), IsFiniteSet(T), S \cap T = {}
  PROVE  /\ IsFiniteSet(S \cup T)
         /\ Cardinality(S \cup T) = Cardinality(S) + Cardinality(T)
<1>1. /\ IsFiniteSet(S \cup T)
      /\ Cardinality(S \cup T) = Cardinality(S) + Cardinality(T) - Cardinality(S \cap T)
  BY FS_Union
<1>2. Cardinality(S \cap T) = 0
  BY FS_EmptySet
<1>3. Cardinality(S) \in Nat /\ Cardinality(T) \in Nat
  BY FS_CardinalityType
<1> QED
  BY <1>1, <1>2, <1>3

(* The pages of a set have tables at one level, node telling which, and    *)
(* the tables of that level are theirs.                                    *)
Covered(level, node, pages) ==
  /\ \A p \in pages : node[p] # NOT_PRESENT
  /\ level = {node[p] : p \in pages}

PdpOf(t, r) == [p \in PageNumbers |-> Pdp(t, r, p)]
PdOf(t, r)  == [p \in PageNumbers |-> Pd(t, r, p)]
PtOf(t, r)  == [p \in PageNumbers |-> Pt(t, r, p)]

(* The tables under r are those that the paths of some pages take, down to *)
(* the first, second and third level.                                      *)
Spans(t, r, pages3, pages2, pages1) ==
  /\ Covered(Pdps(t, r), PdpOf(t, r), pages3)
  /\ Covered(Pds(t, r), PdOf(t, r), pages2)
  /\ Covered(Pts(t, r), PtOf(t, r), pages1)

(* A path stays, as far as it goes, while present entries do. *)
LEMMA PathsStay ==
  ASSUME NEW t \in Tables, NEW u, NEW r \in Frame,
         \A d \in Directories(t, r), i \in Index :
           t[d][i] # NOT_PRESENT => u[d][i] = t[d][i],
         NEW page \in PageNumbers
  PROVE  /\ Pdp(t, r, page) # NOT_PRESENT => Pdp(u, r, page) = Pdp(t, r, page)
         /\ Pd(t, r, page) # NOT_PRESENT => Pd(u, r, page) = Pd(t, r, page)
         /\ Pt(t, r, page) # NOT_PRESENT => Pt(u, r, page) = Pt(t, r, page)
<1> DEFINE i == map_index(page)
           D == Directories(t, r)
<1>1. /\ i.pdp_index \in Index /\ i.pd_index \in Index /\ i.pt_index \in Index
      /\ page \in Nat
  BY Prefixes
<1>2. /\ r \in D /\ Pdp(t, r, page) \in D \cup {NOT_PRESENT}
      /\ Pd(t, r, page) \in D \cup {NOT_PRESENT}
  BY <1>1, PathInTree, TreeParts
<1>3. r # NOT_PRESENT
  BY NotPresentIsNoFrame
<1>4. \A d \in D, k \in Index : t[d][k] # NOT_PRESENT => u[d][k] = t[d][k]
  OBVIOUS
<1> HIDE DEF i, D
<1>5. ASSUME Pdp(t, r, page) # NOT_PRESENT  PROVE Pdp(u, r, page) = Pdp(t, r, page)
  BY <1>1, <1>2, <1>3, <1>4, <1>5 DEF Pdp, Follow, i
<1>6. ASSUME Pd(t, r, page) # NOT_PRESENT  PROVE Pd(u, r, page) = Pd(t, r, page)
  <2> DEFINE d == Pdp(t, r, page)
  <2>1. d # NOT_PRESENT /\ Pd(t, r, page) = t[d][i.pd_index]
    BY <1>6 DEF Pd, Follow, i
  <2>2. Pd(u, r, page) = u[d][i.pd_index]
    BY <1>5, <2>1 DEF Pd, Follow, i
  <2>3. d \in D
    BY <1>2, <2>1
  <2> HIDE DEF d
  <2> QED
    BY <1>1, <1>4, <1>6, <2>1, <2>2, <2>3
<1>7. ASSUME Pt(t, r, page) # NOT_PRESENT  PROVE Pt(u, r, page) = Pt(t, r, page)
  <2> DEFINE d == Pd(t, r, page)
  <2>1. d # NOT_PRESENT /\ Pt(t, r, page) = t[d][i.pt_index]
    BY <1>7 DEF Pt, Follow, i
  <2>2. Pt(u, r, page) = u[d][i.pt_index]
    BY <1>6, <2>1 DEF Pt, Follow, i
  <2>3. d \in D
    BY <1>2, <2>1
  <2> HIDE DEF d
  <2> QED
    BY <1>1, <1>4, <1>7, <2>1, <2>2, <2>3
<1> QED
  BY <1>5, <1>6, <1>7

LEMMA CoveredStays ==
  ASSUME NEW level, NEW node, NEW later, NEW pages \in SUBSET PageNumbers,
         Covered(level, node, pages),
         \A p \in PageNumbers : node[p] # NOT_PRESENT => later[p] = node[p]
  PROVE  /\ Covered(level, later, pages)
         /\ \A v \in PageNumbers :
              later[v] # NOT_PRESENT => Covered(level \cup {later[v]}, later, pages \cup {v})
<1>1. \A p \in pages : later[p] = node[p] /\ later[p] # NOT_PRESENT
  BY DEF Covered
<1>2. level = {later[p] : p \in pages}
  BY <1>1 DEF Covered
<1> QED
  BY <1>1, <1>2 DEF Covered

(* The tables of such a tree, counted. *)
LEMMA TreeSize ==
  ASSUME NEW t \in Tables, NEW r \in Frame, IsTree(t, r),
         NEW P3 \in SUBSET PageNumbers, NEW P2 \in SUBSET PageNumbers,
         NEW P1 \in SUBSET PageNumbers, Spans(t, r, P3, P2, P1),
         IsFiniteSet(P3), IsFiniteSet(P2), IsFiniteSet(P1)
  PROVE  /\ IsFiniteSet(TablesOf(t, r))
         /\ Cardinality(TablesOf(t, r))
              = 1 + Cardinality(Above(Above(Above(P3))))
                  + Cardinality(Above(Above(P2))) + Cardinality(Above(P1))
<1> DEFINE Q(k) == k \div RADIX
           prefix3 == [p \in PageNumbers |-> Q(Q(Q(p)))]
           prefix2 == [p \in PageNumbers |-> Q(Q(p))]
           prefix1 == [p \in PageNumbers |-> Q(p)]
           A == Pdps(t, r)
           B == Pds(t, r)
           C == Pts(t, r)
<1>1. /\ Above(Above(Above(P3))) = {prefix3[p] : p \in P3}
      /\ Above(Above(P2)) = {prefix2[p] : p \in P2}
      /\ Above(P1) = {prefix1[p] : p \in P1}
  <2>1. Above(P1) = {Q(p) : p \in P1} /\ Above(P2) = {Q(p) : p \in P2}
        /\ Above(P3) = {Q(p) : p \in P3}
    BY DEF Above
  <2>2. Above(Above(P2)) = {Q(Q(p)) : p \in P2} /\ Above(Above(P3)) = {Q(Q(p)) : p \in P3}
    BY <2>1 DEF Above
  <2>3. Above(Above(Above(P3))) = {Q(Q(Q(p))) : p \in P3}
    BY <2>2 DEF Above
  <2> HIDE DEF Q
  <2> QED
    BY <2>1, <2>2, <2>3
<1>2. /\ \A p, q \in P3 : PdpOf(t, r)[p] = PdpOf(t, r)[q] <=> prefix3[p] = prefix3[q]
      /\ \A p, q \in P2 : PdOf(t, r)[p] = PdOf(t, r)[q] <=> prefix2[p] = prefix2[q]
      /\ \A p, q \in P1 : PtOf(t, r)[p] = PtOf(t, r)[q] <=> prefix1[p] = prefix1[q]
  <2>1. /\ \A p \in P3 : PdpOf(t, r)[p] # NOT_PRESENT
        /\ \A p \in P2 : PdOf(t, r)[p] # NOT_PRESENT
        /\ \A p \in P1 : PtOf(t, r)[p] # NOT_PRESENT
    BY DEF Spans, Covered
  <2>2. \A p \in PageNumbers : /\ PdpOf(t, r)[p] = Pdp(t, r, p) /\ PdOf(t, r)[p] = Pd(t, r, p)
                               /\ PtOf(t, r)[p] = Pt(t, r, p)
    BY DEF PdpOf, PdOf, PtOf
  <2>3. \A p, q \in PageNumbers :
          /\ Pdp(t, r, p) # NOT_PRESENT =>
               (Pdp(t, r, p) = Pdp(t, r, q) <=> Q(Q(Q(p))) = Q(Q(Q(q))))
          /\ Pd(t, r, p) # NOT_PRESENT =>
               (Pd(t, r, p) = Pd(t, r, q) <=> Q(Q(p)) = Q(Q(q)))
          /\ Pt(t, r, p) # NOT_PRESENT => (Pt(t, r, p) = Pt(t, r, q) <=> Q(p) = Q(q))
    BY TablesShared
  <2> HIDE DEF Q
  <2>4. \A p, q \in P3 : PdpOf(t, r)[p] = PdpOf(t, r)[q] <=> prefix3[p] = prefix3[q]
    BY <2>1, <2>2, <2>3
  <2>5. \A p, q \in P2 : PdOf(t, r)[p] = PdOf(t, r)[q] <=> prefix2[p] = prefix2[q]
    BY <2>1, <2>2, <2>3
  <2>6. \A p, q \in P1 : PtOf(t, r)[p] = PtOf(t, r)[q] <=> prefix1[p] = prefix1[q]
    BY <2>1, <2>2, <2>3
  <2> QED
    BY <2>4, <2>5, <2>6
<1>3. /\ \A p \in P3 : PdpOf(t, r)[p] \in A /\ prefix3[p] \in Above(Above(Above(P3)))
      /\ \A x \in A : \E p \in P3 : PdpOf(t, r)[p] = x
      /\ \A x \in Above(Above(Above(P3))) : \E p \in P3 : prefix3[p] = x
      /\ \A p \in P2 : PdOf(t, r)[p] \in B /\ prefix2[p] \in Above(Above(P2))
      /\ \A x \in B : \E p \in P2 : PdOf(t, r)[p] = x
      /\ \A x \in Above(Above(P2)) : \E p \in P2 : prefix2[p] = x
      /\ \A p \in P1 : PtOf(t, r)[p] \in C /\ prefix1[p] \in Above(P1)
      /\ \A x \in C : \E p \in P1 : PtOf(t, r)[p] = x
      /\ \A x \in Above(P1) : \E p \in P1 : prefix1[p] = x
  <2> HIDE DEF prefix1, prefix2, prefix3
  <2> QED
    BY <1>1 DEF Spans, Covered
<1>4. /\ r \notin A /\ r \notin B /\ r \notin C
      /\ A \cap B = {} /\ A \cap C = {} /\ B \cap C = {}
      /\ TablesOf(t, r) = (({r} \cup A) \cup B) \cup C
  BY LevelsDisjoint, TreeParts
<1> HIDE DEF A, B, C, prefix1, prefix2, prefix3, Q
<1>5. /\ IsFiniteSet(A) /\ Cardinality(A) \in Nat
      /\ Cardinality(A) = Cardinality(Above(Above(Above(P3))))
  <2>1. \A p, q \in P3 : PdpOf(t, r)[p] = PdpOf(t, r)[q] <=> prefix3[p] = prefix3[q]
    BY <1>2
  <2>2. /\ \A p \in P3 : PdpOf(t, r)[p] \in A
        /\ \A x \in A : \E p \in P3 : PdpOf(t, r)[p] = x
    BY <1>3
  <2>3. /\ \A p \in P3 : prefix3[p] \in Above(Above(Above(P3)))
        /\ \A x \in Above(Above(Above(P3))) : \E p \in P3 : prefix3[p] = x
    BY <1>3
  <2> QED
    BY <2>1, <2>2, <2>3, SameImages
<1>6. /\ IsFiniteSet(B) /\ Cardinality(B) \in Nat
      /\ Cardinality(B) = Cardinality(Above(Above(P2)))
  <2>1. \A p, q \in P2 : PdOf(t, r)[p] = PdOf(t, r)[q] <=> prefix2[p] = prefix2[q]
    BY <1>2
  <2>2. /\ \A p \in P2 : PdOf(t, r)[p] \in B
        /\ \A x \in B : \E p \in P2 : PdOf(t, r)[p] = x
    BY <1>3
  <2>3. /\ \A p \in P2 : prefix2[p] \in Above(Above(P2))
        /\ \A x \in Above(Above(P2)) : \E p \in P2 : prefix2[p] = x
    BY <1>3
  <2> QED
    BY <2>1, <2>2, <2>3, SameImages
<1>7. /\ IsFiniteSet(C) /\ Cardinality(C) \in Nat
      /\ Cardinality(C) = Cardinality(Above(P1))
  <2>1. \A p, q \in P1 : PtOf(t, r)[p] = PtOf(t, r)[q] <=> prefix1[p] = prefix1[q]
    BY <1>2
  <2>2. /\ \A p \in P1 : PtOf(t, r)[p] \in C
        /\ \A x \in C : \E p \in P1 : PtOf(t, r)[p] = x
    BY <1>3
  <2>3. /\ \A p \in P1 : prefix1[p] \in Above(P1)
        /\ \A x \in Above(P1) : \E p \in P1 : prefix1[p] = x
    BY <1>3
  <2> QED
    BY <2>1, <2>2, <2>3, SameImages
<1>8. IsFiniteSet({r}) /\ Cardinality({r}) = 1
  BY FS_Singleton
<1>9. /\ IsFiniteSet({r} \cup A)
      /\ Cardinality({r} \cup A) = 1 + Cardinality(A)
  BY <1>4, <1>5, <1>8, DisjointSum
<1>10. /\ IsFiniteSet(({r} \cup A) \cup B)
       /\ Cardinality(({r} \cup A) \cup B) = Cardinality({r} \cup A) + Cardinality(B)
  <2>1. ({r} \cup A) \cap B = {}
    BY <1>4
  <2> QED
    BY <1>6, <1>9, <2>1, DisjointSum
<1>11. /\ IsFiniteSet(TablesOf(t, r))
       /\ Cardinality(TablesOf(t, r)) = Cardinality(({r} \cup A) \cup B) + Cardinality(C)
  <2>1. (({r} \cup A) \cup B) \cap C = {}
    BY <1>4
  <2>2. /\ IsFiniteSet((({r} \cup A) \cup B) \cup C)
        /\ Cardinality((({r} \cup A) \cup B) \cup C)
             = Cardinality(({r} \cup A) \cup B) + Cardinality(C)
    BY <1>7, <1>10, <2>1, DisjointSum
  <2> QED
    BY <1>4, <2>2
<1> QED
  BY <1>5, <1>6, <1>7, <1>9, <1>10, <1>11

(* A machine whose tables are the frames granted, the lowest first, and    *)
(* but for the root all lie below the bitmap's bound.                      *)
InOrder(m, r, free, bound) ==
  /\ Frontier(m.allocator, free, bound, TablesOf(m.tables, r))
  /\ \A f \in TablesOf(m.tables, r) \ {r} : f < LastBit(m.allocator)

(* n is m after one level of ptmanager_map_memory: unless it is lost, the  *)
(* table at the entry is one of its level's, and the only one that may be  *)
(* new; it is lost where the entry is empty and the request is refused or  *)
(* gets a frame that is not usable.                                        *)
Grown(m, n, r, table, index, free, bound) ==
  /\ InOrder(n, r, free, bound)
  /\ ~n.lost =>
       LET new == n.tables[table][index]
       IN  /\ Pdps(n.tables, r) = Pdps(m.tables, r) \cup (IF table = r THEN {new} ELSE {})
           /\ Pds(n.tables, r)
                = Pds(m.tables, r) \cup (IF table \in Pdps(m.tables, r) THEN {new} ELSE {})
           /\ Pts(n.tables, r)
                = Pts(m.tables, r) \cup (IF table \in Pds(m.tables, r) THEN {new} ELSE {})
  /\ n.lost =>
       /\ n.tables = m.tables /\ m.tables[table][index] = NOT_PRESENT
       /\ RequestedPage(n.allocator) \notin m.usable

LEMMA EnsureTableGrows ==
  ASSUME NEW m, NEW r \in Frame, NEW boot, SoundMachine(m, r, boot), ~m.lost,
         NEW table \in Directories(m.tables, r), NEW index \in Index,
         NEW bound \in Nat, NEW free \in SUBSET (0 .. bound - 1),
         InOrder(m, r, free, bound)
  PROVE  Grown(m, EnsureTable(m, table, index), r, table, index, free, bound)
<1> DEFINE n == EnsureTable(m, table, index)
           page == RequestedPage(m.allocator)
           t == m.tables
<1>1. CASE t[table][index] # NOT_PRESENT
  <2>1. n = m
    BY <1>1 DEF EnsureTable
  <2> DEFINE new == t[table][index]
  <2>2. /\ table = r => new \in Pdps(t, r)
        /\ table \in Pdps(t, r) => new \in Pds(t, r)
        /\ table \in Pds(t, r) => new \in Pts(t, r)
    BY <1>1, ChildOf DEF Pdps, Pds, Pts
  <2> HIDE DEF n
  <2>3. n.tables[table][index] = new /\ n.tables = t /\ ~n.lost
    BY <2>1
  <2> HIDE DEF new
  <2>4. /\ Pdps(t, r) = Pdps(t, r) \cup (IF table = r THEN {new} ELSE {})
        /\ Pds(t, r) = Pds(t, r) \cup (IF table \in Pdps(t, r) THEN {new} ELSE {})
        /\ Pts(t, r) = Pts(t, r) \cup (IF table \in Pds(t, r) THEN {new} ELSE {})
    BY <2>2
  <2> QED
    BY <2>1, <2>3, <2>4 DEF Grown, n
<1>2. CASE t[table][index] = NOT_PRESENT /\ page \notin m.usable
  <2>1. n = [m EXCEPT !.lost = TRUE]
    BY <1>2 DEF EnsureTable
  <2>2. n.lost /\ n.tables = m.tables /\ n.allocator = m.allocator
    BY <2>1 DEF SoundMachine
  <2> HIDE DEF n
  <2>3. InOrder(n, r, free, bound)
    BY <2>2 DEF InOrder
  <2> QED
    BY <1>2, <2>2, <2>3 DEF Grown, n
<1>3. CASE t[table][index] = NOT_PRESENT /\ page \in m.usable
  <2> DEFINE u == WithTable(t, table, index, page)
             a == pfallocator_request_page(m.allocator)
  <2>1. n = [m EXCEPT !.allocator = a, !.tables = u]
    BY <1>3 DEF EnsureTable, WithTable
  <2>2. n.allocator = a /\ n.tables = u /\ ~n.lost
    BY <2>1 DEF SoundMachine
  <2>3. page \in Frame /\ page # NULL
    BY <1>3 DEF SoundMachine
  <2>4. /\ t \in Tables /\ IsTree(t, r) /\ m.allocator \in Allocator
        /\ m.allocator.bits = boot \cup TablesOf(t, r)
    BY DEF SoundMachine
  <2>5. /\ a.size = m.allocator.size /\ page \notin m.allocator.bits
        /\ page < LastBit(m.allocator)
    BY <2>3, <2>4, RequestSetsOneBit
  <2>6. page \notin TablesOf(t, r)
    BY <2>4, <2>5
  <2>7. /\ TablesOf(u, r) = TablesOf(t, r) \cup {page}
        /\ Pdps(u, r) = Pdps(t, r) \cup (IF table = r THEN {page} ELSE {})
        /\ Pds(u, r) = Pds(t, r) \cup (IF table \in Pdps(t, r) THEN {page} ELSE {})
        /\ Pts(u, r) = Pts(t, r) \cup (IF table \in Pds(t, r) THEN {page} ELSE {})
    BY <1>3, <2>3, <2>4, <2>6, WithTableTree
  <2>8. u[table][index] = page
    <3>1. table \in Frame /\ page # table
      BY <2>4, <2>6, TreeParts
    <3> QED
      BY <2>3, <2>4, <3>1, WithTableFacts
  <2>9. Frontier(a, free, bound, TablesOf(t, r) \cup {page})
    BY <2>3, <2>4, FrontierMoves DEF InOrder
  <2>10. LastBit(a) = LastBit(m.allocator)
    BY <2>5 DEF LastBit
  <2> HIDE DEF n, u, a, page
  <2>11. InOrder(n, r, free, bound)
    BY <2>2, <2>5, <2>7, <2>9, <2>10 DEF InOrder
  <2> QED
    BY <2>2, <2>7, <2>8, <2>11 DEF Grown, n
<1> QED
  BY <1>1, <1>2, <1>3

(* The sets that count tables grow with the pages. *)
LEMMA AboveGrows ==
  ASSUME NEW S, IsFiniteSet(S), NEW n
  PROVE  /\ IsFiniteSet(Above(S)) /\ IsFiniteSet(S \cup {n})
         /\ Above(S \cup {n}) = Above(S) \cup {n \div RADIX}
         /\ Cardinality(S) \in Nat /\ Cardinality(S \cup {n}) \in Nat
         /\ Cardinality(S) <= Cardinality(S \cup {n})
         /\ n \notin S => Cardinality(S \cup {n}) = Cardinality(S) + 1
<1>1. IsFiniteSet(Above(S))
  <2> DEFINE F == [k \in S |-> k \div RADIX]
  <2>1. F \in Surjection(S, Above(S))
    BY DEF Surjection, Above
  <2> QED
    BY <2>1, FS_Surjection
<1>2. Above(S \cup {n}) = Above(S) \cup {n \div RADIX}
  BY DEF Above
<1>3. /\ IsFiniteSet(S \cup {n})
      /\ n \notin S => Cardinality(S \cup {n}) = Cardinality(S) + 1
      /\ n \in S => S \cup {n} = S
  BY FS_AddElement
<1>4. Cardinality(S) \in Nat /\ Cardinality(S \cup {n}) \in Nat
  BY <1>3, FS_CardinalityType
<1>5. Cardinality(S) <= Cardinality(S \cup {n})
  <2>1. CASE n \in S
    <3>1. Cardinality(S \cup {n}) = Cardinality(S)
      BY <1>3, <2>1, Zenon
    <3> QED
      BY <1>4, <3>1
  <2>2. CASE n \notin S
    BY <1>3, <1>4, <2>2
  <2> QED
    BY <2>1, <2>2
<1> QED
  BY <1>1, <1>2, <1>3, <1>4, <1>5

LEMMA TablesForGrows ==
  ASSUME NEW P, IsFiniteSet(P), NEW v
  PROVE  LET Q(k) == k \div RADIX
             A1 == Above(P)
             A2 == Above(A1)
             A3 == Above(A2)
             B1 == Above(P \cup {v})
             B2 == Above(B1)
             B3 == Above(B2)
         IN  /\ Cardinality(A1) \in Nat /\ Cardinality(A2) \in Nat /\ Cardinality(A3) \in Nat
             /\ Cardinality(B1) \in Nat /\ Cardinality(B2) \in Nat /\ Cardinality(B3) \in Nat
             /\ Cardinality(A1) <= Cardinality(B1) /\ Cardinality(A2) <= Cardinality(B2)
             /\ Cardinality(A3) <= Cardinality(B3)
             /\ Q(v) \notin A1 => Cardinality(B1) = Cardinality(A1) + 1
             /\ Q(Q(v)) \notin A2 => Cardinality(B2) = Cardinality(A2) + 1
             /\ Q(Q(Q(v))) \notin A3 => Cardinality(B3) = Cardinality(A3) + 1
             /\ TablesFor(P \cup {v}) = 1 + Cardinality(B3) + Cardinality(B2) + Cardinality(B1)
<1> DEFINE Q(k) == k \div RADIX
           A1 == Above(P)
           A2 == Above(A1)
           A3 == Above(A2)
           B1 == Above(P \cup {v})
           B2 == Above(B1)
           B3 == Above(B2)
<1>1. TablesFor(P \cup {v}) = 1 + Cardinality(B3) + Cardinality(B2) + Cardinality(B1)
  BY DEF TablesFor
<1> HIDE DEF B3, B2, B1, A3, A2, A1
<1>2. IsFiniteSet(A1) /\ B1 = A1 \cup {Q(v)}
  BY AboveGrows DEF A1, B1
<1>3. IsFiniteSet(A2) /\ B2 = A2 \cup {Q(Q(v))}
  BY <1>2, AboveGrows DEF A2, B2
<1>4. IsFiniteSet(A3) /\ B3 = A3 \cup {Q(Q(Q(v)))}
  BY <1>3, AboveGrows DEF A3, B3
<1> HIDE DEF Q
<1>5. /\ Cardinality(A1) \in Nat /\ Cardinality(B1) \in Nat
      /\ Cardinality(A1) <= Cardinality(B1)
      /\ Q(v) \notin A1 => Cardinality(B1) = Cardinality(A1) + 1
  BY <1>2, AboveGrows
<1>6. /\ Cardinality(A2) \in Nat /\ Cardinality(B2) \in Nat
      /\ Cardinality(A2) <= Cardinality(B2)
      /\ Q(Q(v)) \notin A2 => Cardinality(B2) = Cardinality(A2) + 1
  BY <1>3, AboveGrows
<1>7. /\ Cardinality(A3) \in Nat /\ Cardinality(B3) \in Nat
      /\ Cardinality(A3) <= Cardinality(B3)
      /\ Q(Q(Q(v))) \notin A3 => Cardinality(B3) = Cardinality(A3) + 1
  BY <1>4, AboveGrows
<1> QED
  BY <1>1, <1>5, <1>6, <1>7 DEF A1, A2, A3, B1, B2, B3, Q

(* A page without a table at some level is the first with its prefix.      *)
LEMMA NewPrefix ==
  ASSUME NEW t \in Tables, NEW r \in Frame, IsTree(t, r),
         NEW P3 \in SUBSET PageNumbers, NEW P2 \in SUBSET PageNumbers,
         NEW P1 \in SUBSET PageNumbers, Spans(t, r, P3, P2, P1),
         NEW v \in PageNumbers
  PROVE  LET Q(k) == k \div RADIX
         IN  /\ Pdp(t, r, v) = NOT_PRESENT => Q(Q(Q(v))) \notin Above(Above(Above(P3)))
             /\ Pd(t, r, v) = NOT_PRESENT => Q(Q(v)) \notin Above(Above(P2))
             /\ Pt(t, r, v) = NOT_PRESENT => Q(v) \notin Above(P1)
<1> DEFINE Q(k) == k \div RADIX
<1>1. /\ \A x \in Above(Above(Above(P3))) : \E p \in P3 : x = Q(Q(Q(p)))
      /\ \A x \in Above(Above(P2)) : \E p \in P2 : x = Q(Q(p))
      /\ \A x \in Above(P1) : \E p \in P1 : x = Q(p)
  BY DEF Above
<1>2. /\ \A p \in P3 : Pdp(t, r, p) # NOT_PRESENT
      /\ \A p \in P2 : Pd(t, r, p) # NOT_PRESENT
      /\ \A p \in P1 : Pt(t, r, p) # NOT_PRESENT
  BY DEF Spans, Covered, PdpOf, PdOf, PtOf
<1>3. \A p \in PageNumbers :
        /\ Pdp(t, r, p) # NOT_PRESENT =>
             (Pdp(t, r, p) = Pdp(t, r, v) <=> Q(Q(Q(p))) = Q(Q(Q(v))))
        /\ Pd(t, r, p) # NOT_PRESENT =>
             (Pd(t, r, p) = Pd(t, r, v) <=> Q(Q(p)) = Q(Q(v)))
        /\ Pt(t, r, p) # NOT_PRESENT => (Pt(t, r, p) = Pt(t, r, v) <=> Q(p) = Q(v))
  BY TablesShared
<1> HIDE DEF Q
<1>4. ASSUME Pdp(t, r, v) = NOT_PRESENT  PROVE Q(Q(Q(v))) \notin Above(Above(Above(P3)))
  BY <1>1, <1>2, <1>3, <1>4
<1>5. ASSUME Pd(t, r, v) = NOT_PRESENT  PROVE Q(Q(v)) \notin Above(Above(P2))
  BY <1>1, <1>2, <1>3, <1>5
<1>6. ASSUME Pt(t, r, v) = NOT_PRESENT  PROVE Q(v) \notin Above(P1)
  BY <1>1, <1>2, <1>3, <1>6
<1> QED
  BY <1>4, <1>5, <1>6 DEF Q

(* One level of the call: a page more spans it, unless its table is        *)
(* missing and cannot be made.                                             *)
(* What each block of ptmanager_map_memory leaves: the frames in order and *)
(* a table more for the page v, or nothing new and a frame that is no use. *)
PdpMade(m, n, r, boot, free, bound, v, P3, P2, P1) ==
  /\ SoundMachine(n, r, boot) /\ n.usable = m.usable
  /\ InOrder(n, r, free, bound)
  /\ ~n.lost => /\ Spans(n.tables, r, P3 \cup {v}, P2, P1)
                /\ Pdp(n.tables, r, v) # NOT_PRESENT
  /\ n.lost => /\ n.tables = m.tables /\ Pdp(m.tables, r, v) = NOT_PRESENT
               /\ RequestedPage(n.allocator) \notin m.usable

LEMMA PdpEnsured ==
  ASSUME NEW m, NEW r \in Frame, NEW boot, SoundMachine(m, r, boot), ~m.lost,
         NEW bound \in Nat, NEW free \in SUBSET (0 .. bound - 1),
         InOrder(m, r, free, bound), NEW v \in PageNumbers,
         NEW P3 \in SUBSET PageNumbers, NEW P2 \in SUBSET PageNumbers,
         NEW P1 \in SUBSET PageNumbers, Spans(m.tables, r, P3, P2, P1)
  PROVE  LET n == EnsureTable(m, r, map_index(v).pdp_index)
         IN  PdpMade(m, n, r, boot, free, bound, v, P3, P2, P1)
<1> DEFINE k == map_index(v).pdp_index
           n == EnsureTable(m, r, k)
           t == m.tables
           u == n.tables
<1>1. k \in Index /\ r \in Directories(t, r) /\ r # NOT_PRESENT
  BY Prefixes, NotPresentIsNoFrame DEF Directories
<1>2. t \in Tables /\ IsTree(t, r)
  BY DEF SoundMachine
<1>3. /\ Pdp(t, r, v) = t[r][k] /\ Pdp(u, r, v) = u[r][k]
  BY <1>1 DEF Pdp, Follow
<1>4. Ensured(m, n, r, boot, r, k) /\ Grown(m, n, r, r, k, free, bound)
  BY <1>1, EnsureTableFacts, EnsureTableGrows
<1>5. r \notin Pdps(t, r) /\ r \notin Pds(t, r)
  BY <1>2, LevelsDisjoint
<1> HIDE DEF n, k
<1>6. /\ SoundMachine(n, r, boot) /\ n.usable = m.usable
      /\ \A d \in Directories(t, r), i \in Index :
           t[d][i] # NOT_PRESENT => u[d][i] = t[d][i]
      /\ ~n.lost => u[r][k] # NOT_PRESENT
  BY <1>4 DEF Ensured
<1>7. /\ InOrder(n, r, free, bound)
      /\ ~n.lost => /\ Pdps(u, r) = Pdps(t, r) \cup {u[r][k]}
                    /\ Pds(u, r) = Pds(t, r) /\ Pts(u, r) = Pts(t, r)
      /\ n.lost => /\ u = t /\ t[r][k] = NOT_PRESENT
                   /\ RequestedPage(n.allocator) \notin m.usable
  BY <1>4, <1>5 DEF Grown
<1> HIDE DEF u, t
<1>8. ASSUME ~n.lost  PROVE Spans(u, r, P3 \cup {v}, P2, P1)
  <2>1. /\ \A p \in PageNumbers : PdpOf(t, r)[p] # NOT_PRESENT =>
                                    PdpOf(u, r)[p] = PdpOf(t, r)[p]
        /\ \A p \in PageNumbers : PdOf(t, r)[p] # NOT_PRESENT =>
                                    PdOf(u, r)[p] = PdOf(t, r)[p]
        /\ \A p \in PageNumbers : PtOf(t, r)[p] # NOT_PRESENT =>
                                    PtOf(u, r)[p] = PtOf(t, r)[p]
    BY <1>2, <1>6, PathsStay DEF PdpOf, PdOf, PtOf
  <2>2. PdpOf(u, r)[v] = u[r][k] /\ u[r][k] # NOT_PRESENT
    BY <1>3, <1>6, <1>8 DEF PdpOf
  <2>3. Covered(Pdps(u, r), PdpOf(u, r), P3 \cup {v})
    <3>1. Covered(Pdps(t, r), PdpOf(t, r), P3)
      BY DEF Spans, t
    <3>2. Covered(Pdps(t, r) \cup {PdpOf(u, r)[v]}, PdpOf(u, r), P3 \cup {v})
      BY <2>1, <2>2, <3>1, CoveredStays
    <3> QED
      BY <1>7, <1>8, <2>2, <3>2
  <2>4. Covered(Pds(u, r), PdOf(u, r), P2)
    BY <1>7, <1>8, <2>1, CoveredStays DEF Spans, t
  <2>5. Covered(Pts(u, r), PtOf(u, r), P1)
    BY <1>7, <1>8, <2>1, CoveredStays DEF Spans, t
  <2> QED
    BY <2>3, <2>4, <2>5 DEF Spans
<1> QED
  BY <1>3, <1>6, <1>7, <1>8 DEF n, u, t, k, PdpMade

PdMade(m, n, r, boot, free, bound, v, P3, P2, P1) ==
  /\ SoundMachine(n, r, boot) /\ n.usable = m.usable
  /\ InOrder(n, r, free, bound)
  /\ ~n.lost => /\ Spans(n.tables, r, P3, P2 \cup {v}, P1)
                /\ Pd(n.tables, r, v) # NOT_PRESENT
                /\ Pdp(n.tables, r, v) = Pdp(m.tables, r, v)
  /\ n.lost => /\ n.tables = m.tables /\ Pd(m.tables, r, v) = NOT_PRESENT
               /\ RequestedPage(n.allocator) \notin m.usable

PtMade(m, n, r, boot, free, bound, v, P3, P2, P1) ==
  /\ SoundMachine(n, r, boot) /\ n.usable = m.usable
  /\ InOrder(n, r, free, bound)
  /\ ~n.lost => /\ Spans(n.tables, r, P3, P2, P1 \cup {v})
                /\ Pt(n.tables, r, v) # NOT_PRESENT
                /\ Pd(n.tables, r, v) = Pd(m.tables, r, v)
  /\ n.lost => /\ n.tables = m.tables /\ Pt(m.tables, r, v) = NOT_PRESENT
               /\ RequestedPage(n.allocator) \notin m.usable

LEMMA PdEnsured ==
  ASSUME NEW m, NEW r \in Frame, NEW boot, SoundMachine(m, r, boot), ~m.lost,
         NEW bound \in Nat, NEW free \in SUBSET (0 .. bound - 1),
         InOrder(m, r, free, bound), NEW v \in PageNumbers,
         NEW P3 \in SUBSET PageNumbers, NEW P2 \in SUBSET PageNumbers,
         NEW P1 \in SUBSET PageNumbers, Spans(m.tables, r, P3, P2, P1),
         Pdp(m.tables, r, v) # NOT_PRESENT
  PROVE  LET n == EnsureTable(m, Pdp(m.tables, r, v), map_index(v).pd_index)
         IN  PdMade(m, n, r, boot, free, bound, v, P3, P2, P1)
<1> DEFINE k == map_index(v).pd_index
           t == m.tables
           d == Pdp(t, r, v)
           n == EnsureTable(m, d, k)
           u == n.tables
<1>1. t \in Tables /\ IsTree(t, r) /\ k \in Index /\ v \in Nat
  BY Prefixes DEF SoundMachine
<1>2. d \in Pdps(t, r) /\ d \in Directories(t, r) /\ d # NOT_PRESENT
  BY <1>1, PathInTree, TreeParts
<1>3. d \notin {r} \cup Pds(t, r)
  BY <1>1, <1>2, LevelsDisjoint
<1>4. Ensured(m, n, r, boot, d, k) /\ Grown(m, n, r, d, k, free, bound)
  BY <1>1, <1>2, EnsureTableFacts, EnsureTableGrows
<1> HIDE DEF n, k, d
<1>5. /\ SoundMachine(n, r, boot) /\ n.usable = m.usable
      /\ \A e \in Directories(t, r), i \in Index :
           t[e][i] # NOT_PRESENT => u[e][i] = t[e][i]
      /\ ~n.lost => u[d][k] # NOT_PRESENT
  BY <1>4 DEF Ensured
<1>6. /\ InOrder(n, r, free, bound)
      /\ ~n.lost => /\ Pds(u, r) = Pds(t, r) \cup {u[d][k]}
                    /\ Pdps(u, r) = Pdps(t, r) /\ Pts(u, r) = Pts(t, r)
      /\ n.lost => /\ u = t /\ t[d][k] = NOT_PRESENT
                   /\ RequestedPage(n.allocator) \notin m.usable
  BY <1>2, <1>3, <1>4 DEF Grown
<1> HIDE DEF u, t
<1>7. /\ \A p \in PageNumbers :
           /\ Pdp(t, r, p) # NOT_PRESENT => Pdp(u, r, p) = Pdp(t, r, p)
           /\ Pd(t, r, p) # NOT_PRESENT => Pd(u, r, p) = Pd(t, r, p)
           /\ Pt(t, r, p) # NOT_PRESENT => Pt(u, r, p) = Pt(t, r, p)
  BY <1>1, <1>5, PathsStay
<1>8. Pd(t, r, v) = t[d][k] /\ Pd(u, r, v) = u[d][k]
  <2>1. Pdp(u, r, v) = d
    BY <1>2, <1>7 DEF d
  <2> QED
    BY <1>2, <2>1 DEF Pd, Follow, d, k
<1>9. ASSUME ~n.lost  PROVE Spans(u, r, P3, P2 \cup {v}, P1)
  <2>1. /\ \A p \in PageNumbers : PdpOf(t, r)[p] # NOT_PRESENT =>
                                    PdpOf(u, r)[p] = PdpOf(t, r)[p]
        /\ \A p \in PageNumbers : PdOf(t, r)[p] # NOT_PRESENT =>
                                    PdOf(u, r)[p] = PdOf(t, r)[p]
        /\ \A p \in PageNumbers : PtOf(t, r)[p] # NOT_PRESENT =>
                                    PtOf(u, r)[p] = PtOf(t, r)[p]
    BY <1>7 DEF PdpOf, PdOf, PtOf
  <2>2. /\ Covered(Pdps(t, r), PdpOf(t, r), P3) /\ Covered(Pds(t, r), PdOf(t, r), P2)
        /\ Covered(Pts(t, r), PtOf(t, r), P1)
    BY DEF Spans, t
  <2>3. PdOf(u, r)[v] = u[d][k] /\ u[d][k] # NOT_PRESENT
    BY <1>5, <1>8, <1>9 DEF PdOf
  <2>4. Covered(Pds(u, r), PdOf(u, r), P2 \cup {v})
    <3>1. Covered(Pds(t, r) \cup {PdOf(u, r)[v]}, PdOf(u, r), P2 \cup {v})
      BY <2>1, <2>2, <2>3, CoveredStays
    <3> QED
      BY <1>6, <1>9, <2>3, <3>1
  <2>5. Covered(Pdps(u, r), PdpOf(u, r), P3)
    BY <1>6, <1>9, <2>1, <2>2, CoveredStays
  <2>6. Covered(Pts(u, r), PtOf(u, r), P1)
    BY <1>6, <1>9, <2>1, <2>2, CoveredStays
  <2> QED
    BY <2>4, <2>5, <2>6 DEF Spans
<1> QED
  BY <1>2, <1>5, <1>6, <1>7, <1>8, <1>9 DEF n, u, t, d, k, PdMade

LEMMA PtEnsured ==
  ASSUME NEW m, NEW r \in Frame, NEW boot, SoundMachine(m, r, boot), ~m.lost,
         NEW bound \in Nat, NEW free \in SUBSET (0 .. bound - 1),
         InOrder(m, r, free, bound), NEW v \in PageNumbers,
         NEW P3 \in SUBSET PageNumbers, NEW P2 \in SUBSET PageNumbers,
         NEW P1 \in SUBSET PageNumbers, Spans(m.tables, r, P3, P2, P1),
         Pd(m.tables, r, v) # NOT_PRESENT
  PROVE  LET n == EnsureTable(m, Pd(m.tables, r, v), map_index(v).pt_index)
         IN  PtMade(m, n, r, boot, free, bound, v, P3, P2, P1)
<1> DEFINE k == map_index(v).pt_index
           t == m.tables
           d == Pd(t, r, v)
           n == EnsureTable(m, d, k)
           u == n.tables
<1>1. t \in Tables /\ IsTree(t, r) /\ k \in Index /\ v \in Nat
  BY Prefixes DEF SoundMachine
<1>2. d \in Pds(t, r) /\ d \in Directories(t, r) /\ d # NOT_PRESENT
  BY <1>1, PathInTree, TreeParts
<1>3. d \notin {r} \cup Pdps(t, r)
  BY <1>1, <1>2, LevelsDisjoint
<1>4. Ensured(m, n, r, boot, d, k) /\ Grown(m, n, r, d, k, free, bound)
  BY <1>1, <1>2, EnsureTableFacts, EnsureTableGrows
<1> HIDE DEF n, k, d
<1>5. /\ SoundMachine(n, r, boot) /\ n.usable = m.usable
      /\ \A e \in Directories(t, r), i \in Index :
           t[e][i] # NOT_PRESENT => u[e][i] = t[e][i]
      /\ ~n.lost => u[d][k] # NOT_PRESENT
  BY <1>4 DEF Ensured
<1>6. /\ InOrder(n, r, free, bound)
      /\ ~n.lost => /\ Pts(u, r) = Pts(t, r) \cup {u[d][k]}
                    /\ Pdps(u, r) = Pdps(t, r) /\ Pds(u, r) = Pds(t, r)
      /\ n.lost => /\ u = t /\ t[d][k] = NOT_PRESENT
                   /\ RequestedPage(n.allocator) \notin m.usable
  BY <1>2, <1>3, <1>4 DEF Grown
<1> HIDE DEF u, t
<1>7. /\ \A p \in PageNumbers :
           /\ Pdp(t, r, p) # NOT_PRESENT => Pdp(u, r, p) = Pdp(t, r, p)
           /\ Pd(t, r, p) # NOT_PRESENT => Pd(u, r, p) = Pd(t, r, p)
           /\ Pt(t, r, p) # NOT_PRESENT => Pt(u, r, p) = Pt(t, r, p)
  BY <1>1, <1>5, PathsStay
<1>8. Pt(t, r, v) = t[d][k] /\ Pt(u, r, v) = u[d][k]
  <2>1. Pd(u, r, v) = d
    BY <1>2, <1>7 DEF d
  <2> QED
    BY <1>2, <2>1 DEF Pt, Follow, d, k
<1>9. ASSUME ~n.lost  PROVE Spans(u, r, P3, P2, P1 \cup {v})
  <2>1. /\ \A p \in PageNumbers : PdpOf(t, r)[p] # NOT_PRESENT =>
                                    PdpOf(u, r)[p] = PdpOf(t, r)[p]
        /\ \A p \in PageNumbers : PdOf(t, r)[p] # NOT_PRESENT =>
                                    PdOf(u, r)[p] = PdOf(t, r)[p]
        /\ \A p \in PageNumbers : PtOf(t, r)[p] # NOT_PRESENT =>
                                    PtOf(u, r)[p] = PtOf(t, r)[p]
    BY <1>7 DEF PdpOf, PdOf, PtOf
  <2>2. /\ Covered(Pdps(t, r), PdpOf(t, r), P3) /\ Covered(Pds(t, r), PdOf(t, r), P2)
        /\ Covered(Pts(t, r), PtOf(t, r), P1)
    BY DEF Spans, t
  <2>3. PtOf(u, r)[v] = u[d][k] /\ u[d][k] # NOT_PRESENT
    BY <1>5, <1>8, <1>9 DEF PtOf
  <2>4. Covered(Pts(u, r), PtOf(u, r), P1 \cup {v})
    <3>1. Covered(Pts(t, r) \cup {PtOf(u, r)[v]}, PtOf(u, r), P1 \cup {v})
      BY <2>1, <2>2, <2>3, CoveredStays
    <3> QED
      BY <1>6, <1>9, <2>3, <3>1
  <2>5. Covered(Pdps(u, r), PdpOf(u, r), P3)
    BY <1>6, <1>9, <2>1, <2>2, CoveredStays
  <2>6. Covered(Pds(u, r), PdOf(u, r), P2)
    BY <1>6, <1>9, <2>1, <2>2, CoveredStays
  <2> QED
    BY <2>4, <2>5, <2>6 DEF Spans
<1> QED
  BY <1>2, <1>5, <1>6, <1>7, <1>8, <1>9 DEF n, u, t, d, k, PtMade

(* The write of the last entry moves no table. *)
LEMMA LastWriteSpans ==
  ASSUME NEW t \in Tables, NEW r \in Frame, IsTree(t, r),
         NEW table \in Pts(t, r), NEW k \in Index, NEW physical \in Frame,
         NEW P3 \in SUBSET PageNumbers, NEW P2 \in SUBSET PageNumbers,
         NEW P1 \in SUBSET PageNumbers, Spans(t, r, P3, P2, P1)
  PROVE  LET u == [t EXCEPT ![table][k] = physical]
         IN  TablesOf(u, r) = TablesOf(t, r) /\ Spans(u, r, P3, P2, P1)
<1> DEFINE u == [t EXCEPT ![table][k] = physical]
<1>1. /\ TablesOf(u, r) = TablesOf(t, r)
      /\ \A d \in Frame, j \in Index : ~(d = table /\ j = k) => u[d][j] = t[d][j]
      /\ Pdps(u, r) = Pdps(t, r) /\ Pds(u, r) = Pds(t, r)
  BY LastWriteTree
<1> HIDE DEF u
<1>2. /\ table \notin Directories(t, r) /\ Directories(t, r) \in SUBSET Frame
      /\ Pds(t, r) \subseteq Directories(t, r)
  BY LevelsDisjoint, TreeParts
<1>3. \A d \in Directories(t, r), j \in Index : u[d][j] = t[d][j]
  BY <1>1, <1>2
<1>4. Pts(u, r) = Pts(t, r)
  BY <1>1, <1>2, <1>3 DEF Pts, Children
<1>5. \A p \in PageNumbers :
        /\ Pdp(t, r, p) # NOT_PRESENT => Pdp(u, r, p) = Pdp(t, r, p)
        /\ Pd(t, r, p) # NOT_PRESENT => Pd(u, r, p) = Pd(t, r, p)
        /\ Pt(t, r, p) # NOT_PRESENT => Pt(u, r, p) = Pt(t, r, p)
  BY <1>3, PathsStay
<1>6. /\ \A p \in PageNumbers : PdpOf(t, r)[p] # NOT_PRESENT =>
                                  PdpOf(u, r)[p] = PdpOf(t, r)[p]
      /\ \A p \in PageNumbers : PdOf(t, r)[p] # NOT_PRESENT =>
                                  PdOf(u, r)[p] = PdOf(t, r)[p]
      /\ \A p \in PageNumbers : PtOf(t, r)[p] # NOT_PRESENT =>
                                  PtOf(u, r)[p] = PtOf(t, r)[p]
  BY <1>5 DEF PdpOf, PdOf, PtOf
<1>7. /\ Covered(Pdps(t, r), PdpOf(t, r), P3) /\ Covered(Pds(t, r), PdOf(t, r), P2)
      /\ Covered(Pts(t, r), PtOf(t, r), P1)
  BY DEF Spans
<1>8. Covered(Pdps(u, r), PdpOf(u, r), P3)
  BY <1>1, <1>6, <1>7, CoveredStays
<1>9. Covered(Pds(u, r), PdOf(u, r), P2)
  BY <1>1, <1>6, <1>7, CoveredStays
<1>10. Covered(Pts(u, r), PtOf(u, r), P1)
  BY <1>4, <1>6, <1>7, CoveredStays
<1> QED
  BY <1>1, <1>8, <1>9, <1>10 DEF Spans, u

(* What a call that is lost leaves: the tables made so far are fewer than  *)
(* the pages, the one asked for included, need.                            *)
Stuck(n, r, usable, pages, v) ==
  /\ RequestedPage(n.allocator) \notin usable
  /\ IsFiniteSet(TablesOf(n.tables, r))
  /\ Cardinality(TablesOf(n.tables, r)) < TablesFor(pages \cup {v})

LEMMA LostWhereNew ==
  ASSUME NEW t \in Tables, NEW r \in Frame, IsTree(t, r),
         NEW P \in SUBSET PageNumbers, IsFiniteSet(P), NEW v \in PageNumbers
  PROVE  /\ Spans(t, r, P, P, P) /\ Pdp(t, r, v) = NOT_PRESENT =>
              Cardinality(TablesOf(t, r)) < TablesFor(P \cup {v})
         /\ Spans(t, r, P \cup {v}, P, P) /\ Pd(t, r, v) = NOT_PRESENT =>
              Cardinality(TablesOf(t, r)) < TablesFor(P \cup {v})
         /\ Spans(t, r, P \cup {v}, P \cup {v}, P) /\ Pt(t, r, v) = NOT_PRESENT =>
              Cardinality(TablesOf(t, r)) < TablesFor(P \cup {v})
         /\ \A P3, P2, P1 \in {P, P \cup {v}} :
              Spans(t, r, P3, P2, P1) => IsFiniteSet(TablesOf(t, r))
<1> DEFINE Q(k) == k \div RADIX
           R == P \cup {v}
           n == Cardinality(TablesOf(t, r))
           A1 == Cardinality(Above(P))
           A2 == Cardinality(Above(Above(P)))
           A3 == Cardinality(Above(Above(Above(P))))
           B1 == Cardinality(Above(R))
           B2 == Cardinality(Above(Above(R)))
           B3 == Cardinality(Above(Above(Above(R))))
           new1 == Q(v) \notin Above(P)
           new2 == Q(Q(v)) \notin Above(Above(P))
           new3 == Q(Q(Q(v))) \notin Above(Above(Above(P)))
<1>1. R \in SUBSET PageNumbers /\ IsFiniteSet(R)
  BY AboveGrows
<1>2. /\ A1 \in Nat /\ A2 \in Nat /\ A3 \in Nat /\ B1 \in Nat /\ B2 \in Nat /\ B3 \in Nat
      /\ A1 <= B1 /\ A2 <= B2 /\ A3 <= B3
      /\ new1 => B1 = A1 + 1
      /\ new2 => B2 = A2 + 1
      /\ new3 => B3 = A3 + 1
      /\ TablesFor(R) = 1 + B3 + B2 + B1
  BY TablesForGrows
<1>3. /\ Spans(t, r, P, P, P) => n = 1 + A3 + A2 + A1
      /\ Spans(t, r, R, P, P) => n = 1 + B3 + A2 + A1
      /\ Spans(t, r, R, R, P) => n = 1 + B3 + B2 + A1
      /\ \A P3, P2, P1 \in {P, R} : Spans(t, r, P3, P2, P1) => IsFiniteSet(TablesOf(t, r))
  BY <1>1, TreeSize
<1>4. /\ Spans(t, r, P, P, P) /\ Pdp(t, r, v) = NOT_PRESENT => new3
      /\ Spans(t, r, R, P, P) /\ Pd(t, r, v) = NOT_PRESENT => new2
      /\ Spans(t, r, R, R, P) /\ Pt(t, r, v) = NOT_PRESENT => new1
  BY <1>1, NewPrefix
<1>5. TablesFor(R) = TablesFor(P \cup {v})
  OBVIOUS
<1> HIDE DEF n, A1, A2, A3, B1, B2, B3, new1, new2, new3, R
<1>6. ASSUME Spans(t, r, P, P, P), Pdp(t, r, v) = NOT_PRESENT  PROVE n < TablesFor(R)
  <2>1. n = 1 + A3 + A2 + A1 /\ B3 = A3 + 1
    BY <1>2, <1>3, <1>4, <1>6
  <2> QED
    BY <1>2, <2>1
<1>7. ASSUME Spans(t, r, R, P, P), Pd(t, r, v) = NOT_PRESENT  PROVE n < TablesFor(R)
  <2>1. n = 1 + B3 + A2 + A1 /\ B2 = A2 + 1
    BY <1>2, <1>3, <1>4, <1>7
  <2> QED
    BY <1>2, <2>1
<1>8. ASSUME Spans(t, r, R, R, P), Pt(t, r, v) = NOT_PRESENT  PROVE n < TablesFor(R)
  <2>1. n = 1 + B3 + B2 + A1 /\ B1 = A1 + 1
    BY <1>2, <1>3, <1>4, <1>8
  <2> QED
    BY <1>2, <2>1
<1> QED
  BY <1>3, <1>5, <1>6, <1>7, <1>8 DEF n, R

(* The whole call, as far as it takes frames. *)
LEMMA MapMemoryCounts ==
  ASSUME NEW m, NEW r \in Frame, NEW boot, SoundMachine(m, r, boot), ~m.lost,
         NEW bound \in Nat, NEW free \in SUBSET (0 .. bound - 1),
         InOrder(m, r, free, bound), NEW v \in PageNumbers, NEW physical \in Frame,
         NEW P \in SUBSET PageNumbers, IsFiniteSet(P), Spans(m.tables, r, P, P, P)
  PROVE  LET n == ptmanager_map_memory(m, r, v, physical)
         IN  /\ InOrder(n, r, free, bound)
             /\ ~n.lost => Spans(n.tables, r, P \cup {v}, P \cup {v}, P \cup {v})
             /\ n.lost => Stuck(n, r, m.usable, P, v)
<1> DEFINE i   == map_index(v)
           m1  == EnsureTable(m, r, i.pdp_index)
           pdp == m1.tables[r][i.pdp_index]
           m2  == EnsureTable(m1, pdp, i.pd_index)
           pd  == m2.tables[pdp][i.pd_index]
           m3  == EnsureTable(m2, pd, i.pt_index)
           pt  == m3.tables[pd][i.pt_index]
           n   == IF m3.lost THEN m3
                  ELSE [m3 EXCEPT !.tables[pt][i.p_index] = physical]
           R   == P \cup {v}
<1>0. n = ptmanager_map_memory(m, r, v, physical)
  BY DEF ptmanager_map_memory
<1>1. i.p_index \in Index /\ i.pt_index \in Index /\ r # NOT_PRESENT /\ v \in Nat
  BY Prefixes, IndexesTyped, NotPresentIsNoFrame
<1>2. R \in SUBSET PageNumbers /\ P \in {P, R} /\ R \in {P, R}
  OBVIOUS
<1>3. /\ SoundMachine(m1, r, boot) /\ m1.usable = m.usable /\ InOrder(m1, r, free, bound)
      /\ ~m1.lost => Spans(m1.tables, r, R, P, P) /\ Pdp(m1.tables, r, v) # NOT_PRESENT
      /\ m1.lost => /\ m1.tables = m.tables /\ Pdp(m.tables, r, v) = NOT_PRESENT
                    /\ RequestedPage(m1.allocator) \notin m.usable
  <2>1. m1 = EnsureTable(m, r, map_index(v).pdp_index)
    OBVIOUS
  <2> HIDE DEF m1
  <2>2. PdpMade(m, m1, r, boot, free, bound, v, P, P, P)
    BY <2>1, PdpEnsured
  <2> QED
    BY <2>2 DEF PdpMade
<1>4. pdp = Pdp(m1.tables, r, v)
  BY <1>1 DEF Pdp, Follow
<1> HIDE DEF i, R, m1, pdp
<1>5. CASE m1.lost
  <2>1. m2 = m1
    BY <1>5 DEF EnsureTable
  <2> HIDE DEF m2, pd
  <2>2. m3 = m1
    BY <1>5, <2>1 DEF EnsureTable
  <2> HIDE DEF m3, pt
  <2>3. n = m1
    BY <1>5, <2>2
  <2> HIDE DEF n
  <2>4. m.tables \in Tables /\ IsTree(m.tables, r)
    BY DEF SoundMachine
  <2>5. Stuck(n, r, m.usable, P, v)
    BY <1>2, <1>3, <1>5, <2>3, <2>4, LostWhereNew DEF Stuck, R
  <2> QED
    BY <1>0, <1>3, <1>5, <2>3, <2>5
<1>6. CASE ~m1.lost
  <2>1. /\ SoundMachine(m2, r, boot) /\ m2.usable = m1.usable /\ InOrder(m2, r, free, bound)
        /\ ~m2.lost => /\ Spans(m2.tables, r, R, R, P) /\ Pd(m2.tables, r, v) # NOT_PRESENT
                       /\ Pdp(m2.tables, r, v) = pdp
        /\ m2.lost => /\ m2.tables = m1.tables /\ Pd(m1.tables, r, v) = NOT_PRESENT
                      /\ RequestedPage(m2.allocator) \notin m1.usable
    <3>1. P \cup {v} = R
      BY DEF R
    <3>2. /\ SoundMachine(m1, r, boot) /\ ~m1.lost /\ InOrder(m1, r, free, bound)
          /\ Spans(m1.tables, r, R, P, P) /\ Pdp(m1.tables, r, v) # NOT_PRESENT
      BY <1>3, <1>6
    <3>3. m2 = EnsureTable(m1, Pdp(m1.tables, r, v), map_index(v).pd_index)
      BY <1>4 DEF i
    <3> HIDE DEF m2
    <3>4. R \in SUBSET PageNumbers
      BY <1>2
    <3>5. PdMade(m1, m2, r, boot, free, bound, v, R, P, P)
      BY <3>2, <3>3, <3>4, PdEnsured
    <3> QED
      BY <1>4, <3>1, <3>5 DEF PdMade
  <2> HIDE DEF m2
  <2>2. CASE m2.lost
    <3>1. m3 = m2
      BY <2>2 DEF EnsureTable
    <3> HIDE DEF m3, pt, pd
    <3>2. n = m2
      BY <2>2, <3>1
    <3> HIDE DEF n
    <3>3. m1.tables \in Tables /\ IsTree(m1.tables, r)
      BY <1>3 DEF SoundMachine
    <3>4. Stuck(n, r, m.usable, P, v)
      BY <1>2, <1>3, <1>6, <2>1, <2>2, <3>2, <3>3, LostWhereNew DEF Stuck, R
    <3> QED
      BY <1>0, <2>1, <2>2, <3>2, <3>4
  <2>3. CASE ~m2.lost
    <3>1. pd = Pd(m2.tables, r, v)
      BY <1>3, <1>4, <1>6, <2>1, <2>3 DEF Pd, Follow, i
    <3> HIDE DEF pd
    <3>2. /\ SoundMachine(m3, r, boot) /\ m3.usable = m2.usable
          /\ InOrder(m3, r, free, bound)
          /\ ~m3.lost => /\ Spans(m3.tables, r, R, R, R)
                         /\ Pt(m3.tables, r, v) # NOT_PRESENT
                         /\ Pd(m3.tables, r, v) = pd
          /\ m3.lost => /\ m3.tables = m2.tables /\ Pt(m2.tables, r, v) = NOT_PRESENT
                        /\ RequestedPage(m3.allocator) \notin m2.usable
      <4>1. P \cup {v} = R
        BY DEF R
      <4>2. /\ SoundMachine(m2, r, boot) /\ ~m2.lost /\ InOrder(m2, r, free, bound)
            /\ Spans(m2.tables, r, R, R, P) /\ Pd(m2.tables, r, v) # NOT_PRESENT
        BY <2>1, <2>3
      <4>3. m3 = EnsureTable(m2, Pd(m2.tables, r, v), map_index(v).pt_index)
        BY <3>1 DEF i
      <4> HIDE DEF m3
      <4>4. R \in SUBSET PageNumbers
        BY <1>2
      <4>5. PtMade(m2, m3, r, boot, free, bound, v, R, R, P)
        BY <4>2, <4>3, <4>4, PtEnsured
      <4> QED
        BY <3>1, <4>1, <4>5 DEF PtMade
    <3> HIDE DEF m3
    <3>3. CASE m3.lost
      <4>1. n = m3
        BY <3>3
      <4> HIDE DEF n
      <4>2. m2.tables \in Tables /\ IsTree(m2.tables, r)
        BY <2>1 DEF SoundMachine
      <4>3. Stuck(n, r, m.usable, P, v)
        BY <1>2, <1>3, <2>1, <2>3, <3>2, <3>3, <4>1, <4>2, LostWhereNew DEF Stuck, R
      <4> QED
        BY <1>0, <3>2, <3>3, <4>1, <4>3
    <3>4. CASE ~m3.lost
      <4> DEFINE t == m3.tables
                 u == [t EXCEPT ![pt][i.p_index] = physical]
      <4>1. pt = Pt(t, r, v) /\ pt # NOT_PRESENT
        BY <2>1, <2>3, <3>1, <3>2, <3>4 DEF Pt, Follow, i
      <4>2. t \in Tables /\ IsTree(t, r)
        BY <3>2 DEF SoundMachine
      <4>3. pt \in Pts(t, r)
        BY <1>1, <4>1, <4>2, PathInTree
      <4>4. n = [m3 EXCEPT !.tables = u]
        BY <3>4
      <4>5. n.allocator = m3.allocator /\ n.tables = u /\ ~n.lost
        BY <3>2, <3>4, <4>4 DEF SoundMachine
      <4> HIDE DEF n, pt
      <4>6. Spans(t, r, R, R, R)
        BY <3>2, <3>4
      <4> HIDE DEF t
      <4>7. TablesOf(u, r) = TablesOf(t, r) /\ Spans(u, r, R, R, R)
        BY <1>1, <1>2, <4>2, <4>3, <4>6, LastWriteSpans
      <4> HIDE DEF u
      <4>8. InOrder(n, r, free, bound)
        BY <3>2, <4>5, <4>7 DEF InOrder, t
      <4> QED
        BY <1>0, <4>5, <4>7, <4>8 DEF R
    <3> QED
      BY <3>3, <3>4
  <2> QED
    BY <2>2, <2>3
<1> QED
  BY <1>5, <1>6
=============================================================================
