------------------------------ MODULE BitmapProofs ------------------------------
(***************************************************************************)
(* The bytes and masks of a bitmap implement a set, for bytes of any       *)
(* length, buffers of any size and any indexes.                            *)
(***************************************************************************)
EXTENDS Bitmap, TLAPS

LEMMA SizesTyped == BITS \in Nat \ {0} /\ SIZE \in Nat \ {0} /\ INDEXES \in Nat
BY BitmapAssumption

LEMMA Parted ==
  ASSUME NEW i \in Nat
  PROVE  /\ byte_index(i) \in Nat /\ i % BITS \in Bit
         /\ i = BITS * byte_index(i) + (i % BITS)
BY SizesTyped DEF byte_index, Bit

(* The mask of an index has one bit, and no bit is shifted out.            *)
LEMMA MaskIsOneBit ==
  ASSUME NEW i \in Nat
  PROVE  bit_mask(i) = {i % BITS} /\ bit_mask(i) \subseteq Bit
<1>1. i % BITS \in Bit /\ 0 + (i % BITS) = i % BITS
  BY Parted, SizesTyped DEF Bit
<1> QED
  BY <1>1 DEF bit_mask, shifted

(* No two indexes share a bit of the memory.                               *)
LEMMA IndexesApart ==
  ASSUME NEW i \in Nat, NEW j \in Nat,
         byte_index(i) = byte_index(j), bit_mask(i) = bit_mask(j)
  PROVE  i = j
<1>1. i % BITS = j % BITS
  BY MaskIsOneBit
<1> QED
  BY <1>1, Parted

(* The bound keeps an index within the buffer, or at the first bit of the  *)
(* byte behind it.                                                         *)
LEMMA WithinBound ==
  ASSUME NEW i \in Nat, InBounds(i)
  PROVE  byte_index(i) \in 0 .. SIZE /\ (byte_index(i) = SIZE <=> i = SIZE * BITS)
<1> DEFINE b == byte_index(i)
           r == i % BITS
<1>1. b \in Nat /\ r \in 0 .. BITS - 1 /\ i = BITS * b + r
  BY Parted DEF Bit
<1>2. i <= BITS * SIZE /\ BITS * SIZE \in Nat /\ SIZE * BITS = BITS * SIZE
  BY SizesTyped DEF InBounds
<1> HIDE DEF b, r
<1>3. ~ b > SIZE
  <2> SUFFICES ASSUME b > SIZE  PROVE FALSE
    OBVIOUS
  <2>1. b - SIZE - 1 \in Nat /\ b = SIZE + 1 + (b - SIZE - 1)
    BY <1>1, SizesTyped
  <2>2. BITS * (b - SIZE - 1) \in Nat
    BY <2>1, SizesTyped
  <2>3. BITS * b = BITS * SIZE + BITS + BITS * (b - SIZE - 1)
    BY <2>1, SizesTyped
  <2> QED
    BY <1>1, <1>2, <2>2, <2>3, SizesTyped
<1>4. b = SIZE => i = BITS * SIZE
  BY <1>1, <1>2, SizesTyped
<1>5. i = BITS * SIZE => b = SIZE
  <2> SUFFICES ASSUME i = BITS * SIZE, b < SIZE  PROVE FALSE
    BY <1>1, <1>3, SizesTyped
  <2>1. SIZE - b - 1 \in Nat /\ SIZE = b + 1 + (SIZE - b - 1)
    BY <1>1, SizesTyped
  <2>2. BITS * (SIZE - b - 1) \in Nat
    BY <2>1, SizesTyped
  <2>3. BITS * SIZE = BITS * b + BITS + BITS * (SIZE - b - 1)
    BY <2>1, <1>1, SizesTyped
  <2> QED
    BY <1>1, <2>2, <2>3, SizesTyped
<1> QED
  BY <1>1, <1>2, <1>3, <1>4, <1>5, SizesTyped DEF b

(* The last index is the first bit of the byte behind the buffer.          *)
LEMMA LastIndex ==
  SIZE * BITS \in Nat /\ byte_index(SIZE * BITS) = SIZE /\ bit_mask(SIZE * BITS) = {0}
<1>1. SIZE * BITS \in Nat /\ InBounds(SIZE * BITS)
  BY SizesTyped DEF InBounds
<1>2. byte_index(SIZE * BITS) = SIZE
  BY <1>1, WithinBound
<1>3. SIZE * BITS = BITS * SIZE + ((SIZE * BITS) % BITS) /\ (SIZE * BITS) % BITS \in Bit
  BY <1>1, <1>2, Parted
<1>4. (SIZE * BITS) % BITS = 0
  BY <1>1, <1>3, SizesTyped DEF Bit
<1> QED
  BY <1>1, <1>2, <1>4, MaskIsOneBit

-----------------------------------------------------------------------------
(* What one write does to each bit.                                        *)
LEMMA SetTyped ==
  ASSUME TypeOK, NEW i \in Nat, NEW value \in BOOLEAN, bitmap_set(i, value)
  PROVE  TypeOK'
<1>1. \A byte \in Byte : WithBit(byte, bit_mask(i), value) \in Byte
  BY MaskIsOneBit DEF WithBit, Byte
<1> QED
  BY <1>1 DEF TypeOK, bitmap_set, InBounds

LEMMA TypeStep == TypeOK /\ [Next]_vars => TypeOK'
<1> SUFFICES ASSUME TypeOK, [Next]_vars  PROVE TypeOK'
  OBVIOUS
<1>1. CASE initialize_bitmap
  BY <1>1 DEF initialize_bitmap, TypeOK, Byte
<1>2. ASSUME NEW i \in 0 .. INDEXES - 1, bitmap_get(i)
      PROVE  TypeOK'
  BY <1>2 DEF bitmap_get, TypeOK
<1>3. ASSUME NEW i \in 0 .. INDEXES - 1, NEW value \in BOOLEAN, bitmap_set(i, value)
      PROVE  TypeOK'
  BY <1>3, SetTyped
<1>4. CASE UNCHANGED vars
  BY <1>4 DEF vars, TypeOK
<1> QED
  BY <1>1, <1>2, <1>3, <1>4 DEF Next

(* Each byte of the buffer, and the one behind it, stays a byte.           *)
THEOREM BitmapTypeCorrect == Spec => []TypeOK
<1>1. Init => TypeOK
  BY DEF Init, TypeOK
<1> QED
  BY <1>1, TypeStep, PTL DEF Spec

(* The byte after the buffer loses or gains its first bit at most: the     *)
(* bound lets one index through that is not the buffer's, and no more.     *)
THEOREM OverrunBounded == Spec => OverrunIsOneBit
<1>1. ASSUME TypeOK, [Next]_vars
      PROVE  buffer'[SIZE] \ {0} = buffer[SIZE] \ {0}
  <2>1. SIZE \in 0 .. SIZE /\ ~ SIZE < SIZE
    BY SizesTyped
  <2>2. CASE initialize_bitmap
    BY <1>1, <2>1, <2>2 DEF initialize_bitmap, TypeOK
  <2>3. CASE \E i \in 0 .. INDEXES - 1 : bitmap_get(i)
    BY <2>3 DEF bitmap_get
  <2>4. ASSUME NEW i \in 0 .. INDEXES - 1, NEW value \in BOOLEAN, bitmap_set(i, value)
        PROVE  buffer'[SIZE] \ {0} = buffer[SIZE] \ {0}
    <3>1. CASE InBounds(i) /\ byte_index(i) = SIZE
      <4>1. bit_mask(i) = {0}
        BY <3>1, WithinBound, LastIndex
      <4>2. buffer' = [buffer EXCEPT ![SIZE] = WithBit(@, {0}, value)]
        BY <2>4, <3>1, <4>1 DEF bitmap_set
      <4>3. buffer'[SIZE] = WithBit(buffer[SIZE], {0}, value)
        BY <1>1, <2>1, <4>2 DEF TypeOK
      <4> QED
        BY <4>3 DEF WithBit
    <3>2. CASE ~ (InBounds(i) /\ byte_index(i) = SIZE)
      BY <1>1, <2>1, <2>4, <3>2 DEF bitmap_set, TypeOK
    <3> QED
      BY <3>1, <3>2
  <2>5. CASE UNCHANGED vars
    BY <2>5 DEF vars
  <2> QED
    BY <1>1, <2>2, <2>3, <2>4, <2>5 DEF Next
<1> QED
  BY <1>1, BitmapTypeCorrect, PTL DEF Spec, OverrunIsOneBit

-----------------------------------------------------------------------------
(* The members of the set that bytes and masks implement.                  *)
Members == {i \in 0 .. SIZE * BITS : HasBit(buffer[byte_index(i)], bit_mask(i))}

LEMMA ReadsMember ==
  ASSUME NEW i \in Nat
  PROVE  InBounds(i) /\ HasBit(buffer[byte_index(i)], bit_mask(i))
           <=> i <= SIZE * BITS /\ i \in Members
BY LastIndex DEF Members, InBounds

LEMMA ClearEmpties ==
  ASSUME TypeOK, initialize_bitmap
  PROVE  Members' = Members \cap {SIZE * BITS}
<1> SUFFICES ASSUME NEW i \in 0 .. SIZE * BITS
             PROVE  i \in Members' <=> i \in Members /\ i = SIZE * BITS
  BY LastIndex DEF Members
<1>1. byte_index(i) \in 0 .. SIZE /\ (byte_index(i) = SIZE <=> i = SIZE * BITS)
  BY WithinBound DEF InBounds
<1>2. buffer'[byte_index(i)] = IF byte_index(i) < SIZE THEN {} ELSE buffer[byte_index(i)]
  BY <1>1 DEF initialize_bitmap, TypeOK
<1>3. byte_index(i) < SIZE <=> i # SIZE * BITS
  BY <1>1, SizesTyped
<1> QED
  BY <1>2, <1>3 DEF Members, HasBit

LEMMA WriteChangesOne ==
  ASSUME TypeOK, NEW i \in Nat, NEW value \in BOOLEAN, bitmap_set(i, value)
  PROVE  Members' = IF i > SIZE * BITS THEN Members
                    ELSE IF value THEN Members \cup {i} ELSE Members \ {i}
<1>1. CASE i > SIZE * BITS
  BY <1>1, LastIndex DEF bitmap_set, InBounds, Members
<1>2. CASE ~ i > SIZE * BITS
  <2>1. InBounds(i) /\ i \in 0 .. SIZE * BITS
    BY <1>2, LastIndex DEF InBounds
  <2> DEFINE byte(b) == IF b = byte_index(i) THEN WithBit(buffer[b], bit_mask(i), value)
                        ELSE buffer[b]
  <2>2. \A b \in 0 .. SIZE : buffer'[b] = byte(b)
    BY <2>1 DEF bitmap_set, TypeOK
  <2>3. ASSUME NEW j \in 0 .. SIZE * BITS
        PROVE  j \in Members' <=> IF j = i THEN value ELSE j \in Members
    <3>1. j \in Nat /\ byte_index(j) \in 0 .. SIZE
      BY LastIndex, WithinBound DEF InBounds
    <3>2. j \in Members' <=> HasBit(byte(byte_index(j)), bit_mask(j))
      BY <2>2, <3>1 DEF Members
    <3>3. CASE j = i
      BY <3>2, <3>3, MaskIsOneBit DEF HasBit, WithBit
    <3>4. CASE j # i /\ byte_index(j) = byte_index(i)
      <4>1. bit_mask(i) \cap bit_mask(j) = {}
        <5>1. bit_mask(i) # bit_mask(j)
          BY <3>1, <3>4, IndexesApart
        <5>2. bit_mask(i) = {i % BITS} /\ bit_mask(j) = {j % BITS}
          BY <3>1, MaskIsOneBit
        <5> QED
          BY <5>1, <5>2
      <4> QED
        BY <3>2, <3>4, <4>1 DEF Members, HasBit, WithBit
    <3>5. CASE byte_index(j) # byte_index(i)
      BY <3>2, <3>5 DEF Members
    <3> QED
      BY <3>3, <3>4, <3>5
  <2> QED
    BY <1>2, <2>1, <2>3 DEF Members
<1> QED
  BY <1>1, <1>2

(* A step of the bytes is a step of the set.                               *)
LEMMA BitSetStep == TypeOK /\ [Next]_vars => [Bits!Next]_(Bits!vars)
<1> SUFFICES ASSUME TypeOK, [Next]_vars  PROVE [Bits!Next]_(Bits!vars)
  OBVIOUS
<1>1. CASE initialize_bitmap
  <2>1. Bits!Clear
    BY <1>1, ClearEmpties DEF Bits!Clear, Members, initialize_bitmap
  <2> QED
    BY <2>1 DEF Bits!Next
<1>2. ASSUME NEW i \in 0 .. INDEXES - 1, bitmap_get(i)
      PROVE  Bits!Next
  <2>1. Members' = Members
    BY <1>2 DEF bitmap_get, Members
  <2>2. result' = (i <= SIZE * BITS /\ i \in Members)
    BY <1>2, ReadsMember DEF bitmap_get
  <2>3. Bits!Get(i)
    BY <2>1, <2>2 DEF Bits!Get, Members
  <2> QED
    BY <2>3 DEF Bits!Next
<1>3. ASSUME NEW i \in 0 .. INDEXES - 1, NEW value \in BOOLEAN, bitmap_set(i, value)
      PROVE  Bits!Next
  <2>1. result' = (i <= SIZE * BITS)
    BY <1>3 DEF bitmap_set, InBounds
  <2>2. Bits!Put(i, value)
    BY <1>3, <2>1, WriteChangesOne DEF Bits!Put, Members
  <2> QED
    BY <2>2 DEF Bits!Next
<1>4. CASE UNCHANGED vars
  BY <1>4 DEF vars, Bits!vars
<1> QED
  BY <1>1, <1>2, <1>3, <1>4 DEF Next

(* Bytes and masks are a set of indexes: distinct indexes never share a    *)
(* bit, a call changes one index only, a read gives what was last written  *)
(* there, and clearing the buffer clears all but the index that is beyond  *)
(* it.                                                                     *)
THEOREM BytesAreBitSet == Spec => IsBitSet
<1>1. Init => Bits!Init
  BY DEF Init, Bits!Init
<1>2. Spec => Bits!Init /\ [][Bits!Next]_(Bits!vars)
  BY <1>1, BitSetStep, BitmapTypeCorrect, PTL DEF Spec
<1> QED
  BY <1>2 DEF IsBitSet, Bits!Spec
=============================================================================
