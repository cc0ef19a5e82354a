--------------------------------- MODULE Bitmap ---------------------------------
(***************************************************************************)
(* memory/bitmap.c: the buffer of bytes, the masks and the bound, and the  *)
(* clearing of the buffer by __pfallocator_initialize_bitmap.  The state   *)
(* has the buffer's SIZE bytes and the byte that follows them in memory,   *)
(* which belongs to somebody else.                                         *)
(*                                                                         *)
(* A byte is the set of its bits that are 1, named by how far they are to  *)
(* the right of the first: & is \cap, | is \cup, & ~ is \, and >> n moves  *)
(* each bit n places, out of the byte where the byte ends.                 *)
(***************************************************************************)
EXTENDS Integers

CONSTANTS
  BITS,    \* bits of a byte (8 in the code)
  SIZE,    \* bytes of the buffer, bitmap->size
  INDEXES  \* bound: callers pass indexes below this one

ASSUME BitmapAssumption == BITS \in Nat \ {0} /\ SIZE \in Nat \ {0} /\ INDEXES \in Nat

VARIABLES
  buffer,  \* the bytes 0 .. SIZE - 1 of the buffer, and byte SIZE after it
  result   \* what the last call returned

vars == <<buffer, result>>

Bit  == 0 .. BITS - 1
Byte == SUBSET Bit

shifted(byte, n) == {b + n : b \in byte} \cap Bit

(* index > bitmap->size * 8: one index too many gets through. *)
InBounds(index) == index <= SIZE * BITS

byte_index(index) == index \div BITS

(* Mutant: the first bit is not shifted. *)
FirstBit(index) == shifted({0}, 0)

(* Mutant: the shift is by the whole index, in a wider type. *)
WideMask(index) == {index}

(* 0b10000000 >> bit_index *)
bit_mask(index) == shifted({0}, index % BITS)

(* byte & mask > 0 *)
HasBit(byte, mask) == byte \cap mask # {}

(* byte & ~mask, then | mask if value *)
WithBit(byte, mask, value) == (byte \ mask) \cup (IF value THEN mask ELSE {})

bitmap_get(index) ==
  /\ result' = (InBounds(index) /\ HasBit(buffer[byte_index(index)], bit_mask(index)))
  /\ UNCHANGED buffer

bitmap_set(index, value) ==
  /\ result' = InBounds(index)
  /\ IF InBounds(index)
       THEN buffer' = [buffer EXCEPT ![byte_index(index)] =
                         WithBit(@, bit_mask(index), value)]
       ELSE UNCHANGED buffer

(* Mutant: one byte more is cleared. *)
ClearOneMore ==
  /\ buffer' = [b \in DOMAIN buffer |-> {}]
  /\ UNCHANGED result

(* memset(buffer, 0, size) *)
initialize_bitmap ==
  /\ buffer' = [b \in DOMAIN buffer |-> IF b < SIZE THEN {} ELSE buffer[b]]
  /\ UNCHANGED result

Init ==
  /\ buffer \in [0 .. SIZE -> Byte]
  /\ result = FALSE

Next ==
  \/ initialize_bitmap
  \/ \E index \in 0 .. INDEXES - 1 :
       bitmap_get(index) \/ (\E value \in BOOLEAN : bitmap_set(index, value))

Spec == Init /\ [][Next]_vars

-----------------------------------------------------------------------------
TypeOK == buffer \in [0 .. SIZE -> Byte] /\ result \in BOOLEAN

(* Behind the bytes and masks is the set of the indexes whose bit is 1:    *)
(* distinct indexes never share a bit, a call changes one index only, and  *)
(* reading gives back what was last written there.                         *)
Bits == INSTANCE BitSet WITH
          Indexes <- 0 .. INDEXES - 1,
          LAST    <- SIZE * BITS,
          members <- {i \in 0 .. SIZE * BITS :
                        HasBit(buffer[byte_index(i)], bit_mask(i))},
          answer  <- result

IsBitSet == Bits!Spec

(* The bound lets one index too many through, and never does more harm     *)
(* than the topmost bit of the byte after the buffer.                      *)
OverrunIsOneBit ==
  [][buffer'[SIZE] \ {0} = buffer[SIZE] \ {0}]_vars
=============================================================================
