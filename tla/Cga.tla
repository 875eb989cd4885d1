--------------------------------- MODULE Cga ---------------------------------
(***************************************************************************)
(* The text display of kern/console.c: cga_putc(), and the cons_putc() that *)
(* calls it and that it calls back for a tab.                               *)
(*                                                                          *)
(* A display d is a record                                                  *)
(*   d.buf   crt_buf, the characters of the screen (no colour attributes)   *)
(*   d.pos   crt_pos, the cursor                                            *)
(* and a call is an operator from displays to displays; Terminal.tla and    *)
(* Readline.tla put characters with it.  What lpt_putc() sends to the       *)
(* parallel port leaves no state behind and is not modelled.                *)
(***************************************************************************)
EXTENDS Integers

CONSTANTS
    CRT_ROWS, CRT_COLS,
    Glyphs       \* the characters that are printed as they are

ASSUME CrtAssumption ==
    /\ CRT_ROWS \in Nat \ {0, 1}
    /\ CRT_COLS \in Nat \ {0}

CRT_SIZE == CRT_ROWS * CRT_COLS
Cells == 0 .. CRT_SIZE - 1

\* ' ', '\b', '\n', '\r' and '\t'
Blank == " "
BS == "BS"
NL == "NL"
CR == "CR"
TAB == "TAB"
Controls == {BS, NL, CR, TAB}
ASSUME GlyphsAssumption == Glyphs \cap Controls = {}

Shown == Glyphs \cup {Blank}
Displays == [buf : [Cells -> Shown], pos : Cells]

-----------------------------------------------------------------------------
\* Faulty variant: no test for the top left corner.
BackSpace_Unguarded(d) ==
    [buf |-> [d.buf EXCEPT ![d.pos - 1] = Blank], pos |-> d.pos - 1]

BackSpace(d) ==
    IF d.pos > 0
    THEN [buf |-> [d.buf EXCEPT ![d.pos - 1] = Blank], pos |-> d.pos - 1]
    ELSE d

CarriageReturn(d) == [d EXCEPT !.pos = @ - (@ % CRT_COLS)]

LineFeed(d) == CarriageReturn([d EXCEPT !.pos = @ + CRT_COLS])

Glyph(d, c) == [buf |-> [d.buf EXCEPT ![d.pos] = c], pos |-> d.pos + 1]

\* Faulty variant: the copy starts one cell early.
Scroll_OffByOne(d) ==
    IF d.pos >= CRT_SIZE
    THEN [buf |-> [i \in Cells |->
                      IF i < CRT_SIZE - CRT_COLS
                      THEN d.buf[i + CRT_COLS - 1] ELSE Blank],
          pos |-> d.pos - CRT_COLS]
    ELSE d

\* One row up when the cursor has left the screen: the memcpy, the blank last
\* row, and the cursor.
Scroll(d) ==
    IF d.pos >= CRT_SIZE
    THEN [buf |-> [i \in Cells |->
                      IF i < CRT_SIZE - CRT_COLS
                      THEN d.buf[i + CRT_COLS] ELSE Blank],
          pos |-> d.pos - CRT_COLS]
    ELSE d

\* cons_putc(' '), five times for a tab; each scrolls for itself.
PutBlank(d) == Scroll(Glyph(d, Blank))
Tab(d) == PutBlank(PutBlank(PutBlank(PutBlank(PutBlank(d)))))

cga_putc(d, c) ==
    Scroll(CASE c = BS  -> BackSpace(d)
             [] c = NL  -> LineFeed(d)
             [] c = CR  -> CarriageReturn(d)
             [] c = TAB -> Tab(d)
             [] OTHER   -> Glyph(d, c))

=============================================================================
