-------------------------------- MODULE Strings --------------------------------
(***************************************************************************)
(* misc/string/string.c.  A text is the sequence of its characters, up to  *)
(* the NUL that ends it.  A char* is a text of the kernel image, or a      *)
(* place in the static buffer in which itoa leaves its digits, and which   *)
(* the next call of itoa writes again: what such a pointer points to       *)
(* depends on when it is read.                                             *)
(***************************************************************************)
EXTENDS Integers, Sequences, FiniteSets

CONSTANTS
  Char,         \* characters other than NUL
  ITOA_CELLS    \* itoa's buf[64]

NUL    == ""
Digits == <<"0", "1", "2", "3", "4", "5", "6", "7", "8", "9",
            "a", "b", "c", "d", "e", "f">>

ASSUME StringsAssumption ==
  /\ {Digits[k] : k \in 1 .. 16} \subseteq Char /\ NUL \notin Char
  /\ ITOA_CELLS \in Nat /\ ITOA_CELLS >= 3

Cell   == Char \cup {NUL}
Texts  == Seq(Char)
Buffer == [0 .. ITOA_CELLS - 1 -> Cell]

LAST_CELL == ITOA_CELLS - 2   \* i = 62, where the last digit goes

(* at is a cell of the buffer, or 0 when text says it all: no digit ever   *)
(* goes to cell 0.                                                         *)
Pointer       == [text : Texts, at : 0 .. LAST_CELL]
Literal(text) == [text |-> text, at |-> 0]

(* The characters of a string, as every function here reads them: cells    *)
(* from the first digit on hold digits, up to the buffer's last cell,      *)
(* which is never written.                                                 *)
TextOf(string, buf) ==
  IF string.at = 0 THEN string.text
  ELSE [k \in 1 .. ITOA_CELLS - 1 - string.at |-> buf[string.at + k - 1]]

strcat(dest, src, buf) == dest \o TextOf(src, buf)

strchrcat(dest, src) == IF src = NUL THEN dest ELSE Append(dest, src)

-----------------------------------------------------------------------------
(* A call of itoa: what is left of the value, the base, the cell to write. *)
Conversion == [val : Nat, base : {10, 16}, i : 0 .. ITOA_CELLS - 1]

(* Mutant: the first digit goes over the buffer's terminator. *)
BeginAtTerminator(val, base) ==
  [val |-> val, base |-> IF base > 16 THEN 16 ELSE base, i |-> LAST_CELL + 1]

ItoaBegin(val, base) ==
  [val |-> val, base |-> IF base > 16 THEN 16 ELSE base, i |-> LAST_CELL]

ItoaDone(c) == c.val = 0 \/ c.i = 0

(* Mutant: the value is divided before its digit is taken. *)
DigitAfterDivision(c, buf) ==
  [buf EXCEPT ![c.i] = Digits[((c.val \div c.base) % c.base) + 1]]

(* One iteration of itoa: on the buffer; and on the call. *)
ItoaDigit(c, buf) == [buf EXCEPT ![c.i] = Digits[(c.val % c.base) + 1]]

ItoaNext(c) == [c EXCEPT !.val = @ \div c.base, !.i = @ - 1]

(* Nothing was written when the value was 0. *)
ItoaString(c) ==
  IF c.i = LAST_CELL THEN Literal(<<"0">>) ELSE [text |-> <<>>, at |-> c.i + 1]
=============================================================================
