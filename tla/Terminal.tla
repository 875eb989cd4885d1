------------------------------ MODULE Terminal -------------------------------
(***************************************************************************)
(* The display under any sequence of characters, next to the sheet of paper *)
(* it stands for.  sheet is a history variable: the paper that the screen   *)
(* is a window of (text), and how many rows have left the screen at its top *)
(* (top).                                                                   *)
(***************************************************************************)
EXTENDS Cga

CONSTANTS MaxTop   \* bound: nothing more scrolls once so many rows are out
ASSUME MaxTopAssumption == MaxTop \in Nat

VARIABLES screen, sheet
terminalVars == <<screen, sheet>>

-----------------------------------------------------------------------------
\* The same characters on paper, where nothing ever moves.  d is the display
\* before the character.

Paper == 0 .. (CRT_ROWS + MaxTop + 5) * CRT_COLS - 1
Sheets == [text : [Paper -> Shown], top : 0 .. MaxTop + 5]
Place(s, d) == s.top * CRT_COLS + d.pos

Write(s, d, c) ==
    [text |-> [s.text EXCEPT ![Place(s, d)] = c],
     top |-> IF d.pos = CRT_SIZE - 1 THEN s.top + 1 ELSE s.top]

Erase(s, d) ==
    IF d.pos = 0 THEN s ELSE [s EXCEPT !.text[Place(s, d) - 1] = Blank]

Advance(s, d) ==
    IF d.pos >= CRT_SIZE - CRT_COLS THEN [s EXCEPT !.top = @ + 1] ELSE s

WriteTab(s, d) ==
    LET d1 == PutBlank(d)
        d2 == PutBlank(d1)
        d3 == PutBlank(d2)
        d4 == PutBlank(d3)
    IN  Write(Write(Write(Write(Write(s, d, Blank),
            d1, Blank), d2, Blank), d3, Blank), d4, Blank)

-----------------------------------------------------------------------------
\* cga_init: the cursor is where the BIOS left it, the text stays.
TerminalInit ==
    /\ screen \in Displays
    /\ sheet = [text |-> [i \in Paper |->
                             IF i \in Cells THEN screen.buf[i] ELSE Blank],
                top |-> 0]

Room == sheet.top < MaxTop

PutGlyph(c) ==
    /\ Room
    /\ screen' = cga_putc(screen, c)
    /\ sheet' = Write(sheet, screen, c)

PutTab ==
    /\ Room
    /\ screen' = cga_putc(screen, TAB)
    /\ sheet' = WriteTab(sheet, screen)

PutNewLine ==
    /\ Room
    /\ screen' = cga_putc(screen, NL)
    /\ sheet' = Advance(sheet, screen)

PutReturn ==
    /\ screen' = cga_putc(screen, CR)
    /\ UNCHANGED sheet

PutBackSpace ==
    /\ screen' = cga_putc(screen, BS)
    /\ sheet' = Erase(sheet, screen)

TerminalNext ==
    \/ \E c \in Shown : PutGlyph(c)
    \/ PutTab
    \/ PutNewLine
    \/ PutReturn
    \/ PutBackSpace

TerminalSpec == TerminalInit /\ [][TerminalNext]_terminalVars

-----------------------------------------------------------------------------
\* crt_pos is a cell of the screen after every character: crt_buf is never
\* written outside the screen, and one row of scrolling is always enough.
TerminalTypeOK ==
    /\ screen \in Displays
    /\ sheet \in Sheets

\* Every cell of the screen shows what was written at its place on the paper:
\* scrolling moves whole rows and nothing else, the row it opens is blank, and
\* a backspace erases the one character before the cursor, across row ends.
ScreenIsWindow ==
    \A i \in Cells : screen.buf[i] = sheet.text[sheet.top * CRT_COLS + i]

=============================================================================
