-------------------------------- MODULE Console --------------------------------
(***************************************************************************)
(* The basic output console, and the drawing of its text.  A console is    *)
(* the text in output_buffer and the lowest byte of the framebuffer        *)
(* pointer, which lies right behind the buffer.                            *)
(*                                                                         *)
(* A glyph is one character on the screen, at the pixel of its upper left  *)
(* corner: screen[x][y].  The font's magic number was checked when the     *)
(* boot loader read the font.                                              *)
(***************************************************************************)
EXTENDS Strings

CONSTANTS
  OUTBUFFER_SIZE,           \* BOUTCON_OUTBUFFER_SIZE, 4096
  WIDTH, HEIGHT,            \* of the framebuffer, in pixels
  FONT_WIDTH, FONT_HEIGHT,  \* of a glyph, in pixels
  FramebufferBytes          \* lowest bytes the pointer may have

NEWLINE == "\n"
BLANK   == " "

ASSUME ConsoleAssumption ==
  /\ OUTBUFFER_SIZE \in Nat \ {0}
  /\ FONT_WIDTH \in Nat \ {0} /\ FONT_HEIGHT \in Nat \ {0}
  /\ WIDTH \in Nat /\ HEIGHT \in Nat
  /\ WIDTH >= FONT_WIDTH /\ HEIGHT >= FONT_HEIGHT
  /\ FramebufferBytes \subseteq 0 .. 255
  /\ {NEWLINE, BLANK} \subseteq Char

(* Where a glyph lies within the framebuffer. *)
Column == 0 .. WIDTH - FONT_WIDTH
Line   == 0 .. HEIGHT - FONT_HEIGHT
Screen == [Column -> [Line -> Char]]

BasicOutputConsole == [text : Texts, framebuffer : 0 .. 255]

-----------------------------------------------------------------------------
fb_clear == [x \in Column |-> [y \in Line |-> BLANK]]

boutcon_init(framebuffer) == [text |-> <<>>, framebuffer |-> framebuffer]

(* Mutant: one character too many is let in. *)
WriteOneMore(console, message) ==
  IF OUTBUFFER_SIZE - Len(console.text) + 1 < Len(message) THEN console
  ELSE LET text == strcat(console.text, Literal(message), <<>>)
       IN  [text |-> text,
            framebuffer |-> IF Len(text) >= OUTBUFFER_SIZE THEN 0 ELSE console.framebuffer]

(* The NUL behind a text that fills the buffer falls on the pointer. *)
boutcon_write_no_display(console, message) ==
  IF OUTBUFFER_SIZE - Len(console.text) < Len(message) THEN console
  ELSE LET text == strcat(console.text, Literal(message), <<>>)
       IN  [text |-> text,
            framebuffer |-> IF Len(text) = OUTBUFFER_SIZE THEN 0 ELSE console.framebuffer]

(* Mutant: the last place of a row is never used. *)
PlacedInShortRow(cursor, character) ==
  IF character = NEWLINE \/ cursor.x >= WIDTH - FONT_WIDTH
  THEN [x |-> 0, y |-> cursor.y + FONT_HEIGHT] ELSE cursor

(* Where fb_psf_draw_string puts a character when the cursor is there; for *)
(* a new line, where it goes on.                                           *)
Placed(cursor, character) ==
  IF character = NEWLINE \/ cursor.x > WIDTH - FONT_WIDTH
  THEN [x |-> 0, y |-> cursor.y + FONT_HEIGHT] ELSE cursor

(* Behind the last row fb_draw_pixel writes behind the framebuffer. *)
OnScreen(at) == at.x \in Column /\ at.y \in Line

fb_psf_draw_character(screen, character, at) == [screen EXCEPT ![at.x][at.y] = character]
=============================================================================
