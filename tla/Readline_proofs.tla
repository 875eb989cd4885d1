--------------------------- MODULE Readline_proofs ---------------------------
(***************************************************************************)
(* For every size of the line buffer and of the screen, and however the     *)
(* console delivers what is typed, the echo agrees with the line.           *)
(*                                                                          *)
(* EchoAgrees is not inductive: it says nothing of the state in which       *)
(* readline has returned, from which the next prompt starts.  Inv adds that *)
(* the cursor is on the screen and the index in the buffer at all times.    *)
(* What the characters are is never needed: each branch of readline() tests *)
(* the one it got.  The scroll is the hard case: a whole row goes, and the  *)
(* prompt stays because the line buffer is shorter than the rows that are   *)
(* left, which is what ReadlineAssumption says of the real sizes.           *)
(***************************************************************************)
EXTENDS Readline, TLAPS

\* The cursor of d stands behind the prompt and the first n characters of l.
Echoed(d, l, n) ==
    /\ d.pos > n
    /\ d.buf[d.pos - n - 1] = Prompt
    /\ \A k \in 0 .. n - 1 : d.buf[d.pos - n + k] = l[k]

Inv ==
    /\ screen \in Displays
    /\ line \in [0 .. BUFLEN - 1 -> Shown \cup {NUL}]
    /\ i \in 0 .. BUFLEN - 1
    /\ reading => Echoed(screen, line, i)

\* The sizes of the screen and of the line buffer, from the assumptions.
LEMMA Sizes ==
    /\ CRT_SIZE \in Nat /\ CRT_COLS \in Nat \ {0}
    /\ CRT_SIZE >= 2 * CRT_COLS
    /\ Cells = 0 .. CRT_SIZE - 1
    /\ BUFLEN \in Nat \ {0} /\ BUFLEN <= CRT_SIZE - CRT_COLS
<1>1. CRT_ROWS \in Nat /\ CRT_ROWS >= 2 /\ CRT_COLS \in Nat \ {0}
  BY CrtAssumption
<1>2. CRT_ROWS * CRT_COLS \in Nat /\ CRT_ROWS * CRT_COLS >= 2 * CRT_COLS
  BY <1>1
<1>3. CRT_SIZE \in Nat /\ CRT_SIZE >= 2 * CRT_COLS
  BY <1>2 DEF CRT_SIZE
<1>4. BUFLEN \in 1 .. CRT_SIZE - CRT_COLS
  BY ReadlineAssumption
<1> QED BY <1>1, <1>3, <1>4 DEF Cells

\* A character that is shown is none of those that only move the cursor.
LEMMA ShownIsPlain ==
    ASSUME NEW ch \in Shown
    PROVE  ch # BS /\ ch # NL /\ ch # CR /\ ch # TAB
BY GlyphsAssumption DEF Shown, Controls, Blank, BS, NL, CR, TAB

\* A display, by its two fields.
LEMMA DisplayOf ==
    ASSUME NEW d \in Displays
    PROVE  /\ d.pos \in Int /\ 0 <= d.pos /\ d.pos < CRT_SIZE
           /\ d.buf \in [Cells -> Shown] /\ d.pos \in Cells
BY Sizes DEF Displays

\* A display is a buffer and a position.
LEMMA IsDisplay ==
    ASSUME NEW b \in [Cells -> Shown], NEW p \in Cells
    PROVE  [buf |-> b, pos |-> p] \in Displays
BY DEF Displays

\* With the cursor on the screen nothing scrolls.
LEMMA NoScroll ==
    ASSUME NEW d \in Displays
    PROVE  Scroll(d) = d
<1>1. ~(d.pos >= CRT_SIZE)
  BY Sizes, DisplayOf
<1> QED BY <1>1 DEF Scroll

\* e is d with ch put at its cursor and off cells scrolled out at the top.
PutAt(d, ch, e, off) ==
    /\ e.pos = d.pos + 1 - off
    /\ \A j \in 0 .. e.pos - 1 :
        e.buf[j] = IF j + off = d.pos THEN ch ELSE d.buf[j + off]

\* A character that is printed: it stands before the cursor afterwards, and
\* what stood before it is still there, one row up if the screen scrolled.
LEMMA PutShown ==
    ASSUME NEW d \in Displays, NEW ch \in Shown, NEW e, e = cga_putc(d, ch)
    PROVE  /\ e \in Displays
           /\ \/ PutAt(d, ch, e, 0)
              \/ d.pos = CRT_SIZE - 1 /\ PutAt(d, ch, e, CRT_COLS)
<1> DEFINE b == [d.buf EXCEPT ![d.pos] = ch]
           p == d.pos + 1
<1>1. e = Scroll([buf |-> b, pos |-> p])
  BY ShownIsPlain DEF cga_putc, Glyph
<1>2. b \in [Cells -> Shown] /\ d.pos \in Cells /\ d.buf \in [Cells -> Shown]
  BY DisplayOf
<1>3. \A j \in Cells : b[j] = IF j = d.pos THEN ch ELSE d.buf[j]
  BY <1>2
<1> HIDE DEF b
<1>4. d.pos \in Int /\ 0 <= d.pos /\ d.pos < CRT_SIZE /\ p = d.pos + 1
  BY DisplayOf
<1>5. CASE d.pos # CRT_SIZE - 1
  <2>1. p \in Cells
    BY <1>4, <1>5, Sizes
  <2>2. e = [buf |-> b, pos |-> p] /\ e \in Displays
    BY <1>1, <1>2, <2>1, IsDisplay, NoScroll
  <2>3. \A j \in 0 .. p - 1 : j \in Cells /\ j + 0 = j
    BY <2>1, Sizes
  <2>4. e.buf = b /\ e.pos = p
    BY <2>2
  <2>5. p = d.pos + 1 - 0
    BY <1>4
  <2> QED BY <1>3, <2>2, <2>3, <2>4, <2>5 DEF PutAt
<1>6. CASE d.pos = CRT_SIZE - 1
  <2> DEFINE g == [j \in Cells |-> IF j < CRT_SIZE - CRT_COLS
                                   THEN b[j + CRT_COLS] ELSE Blank]
             o == p - CRT_COLS
  <2>1. e = [buf |-> g, pos |-> o]
    <3>1. p >= CRT_SIZE
      BY <1>4, <1>6, Sizes
    <3> HIDE DEF p
    <3> QED BY <1>1, <3>1 DEF Scroll
  <2>2. o \in Cells /\ o = CRT_SIZE - CRT_COLS /\ o = d.pos + 1 - CRT_COLS
    BY <1>4, <1>6, Sizes
  <2>3. \A j \in Cells : j < CRT_SIZE - CRT_COLS => j + CRT_COLS \in Cells
    BY Sizes
  <2>4. g \in [Cells -> Shown]
    BY <1>2, <2>3 DEF Shown
  <2>5. \A j \in 0 .. o - 1 : j \in Cells /\ j < CRT_SIZE - CRT_COLS
    BY <2>2, Sizes
  <2>6. \A j \in 0 .. o - 1 :
            g[j] = IF j + CRT_COLS = d.pos THEN ch ELSE d.buf[j + CRT_COLS]
    BY <1>3, <2>3, <2>5
  <2> HIDE DEF g, o
  <2>7. e.buf = g /\ e.pos = o /\ e \in Displays
    BY <2>1, <2>2, <2>4, IsDisplay
  <2> QED BY <1>6, <2>2, <2>6, <2>7 DEF PutAt
<1> QED BY <1>5, <1>6

\* The prompt, wherever the cursor was.
LEMMA PutPrompt ==
    ASSUME NEW d \in Displays, NEW l
    PROVE  /\ cga_putc(d, Prompt) \in Displays
           /\ Echoed(cga_putc(d, Prompt), l, 0)
<1> DEFINE e == cga_putc(d, Prompt)
<1>0. Prompt \in Shown
  BY ReadlineAssumption DEF Shown
<1>1. /\ e \in Displays
      /\ \/ PutAt(d, Prompt, e, 0)
         \/ d.pos = CRT_SIZE - 1 /\ PutAt(d, Prompt, e, CRT_COLS)
  BY <1>0, PutShown
<1> HIDE DEF e
<1>2. d.pos \in Int /\ 0 <= d.pos /\ d.pos < CRT_SIZE /\ e.pos \in Int
  BY <1>1, DisplayOf
<1>3. CASE PutAt(d, Prompt, e, 0)
  <2>1. e.pos = d.pos + 1
    BY <1>2, <1>3 DEF PutAt
  <2>2. e.pos > 0 /\ d.pos \in 0 .. e.pos - 1 /\ d.pos + 0 = d.pos /\ e.pos - 0 - 1 = d.pos
    BY <1>2, <2>1
  <2>3. e.buf[d.pos] = Prompt
    BY <1>3, <2>2 DEF PutAt
  <2>4. \A k \in 0 .. 0 - 1 : FALSE
    OBVIOUS
  <2> QED BY <2>2, <2>3, <2>4, <1>1 DEF Echoed, e
<1>4. CASE d.pos = CRT_SIZE - 1 /\ PutAt(d, Prompt, e, CRT_COLS)
  <2> DEFINE j == d.pos - CRT_COLS
  <2>1. e.pos = d.pos + 1 - CRT_COLS
    BY <1>4 DEF PutAt
  <2>2. e.pos > 0 /\ j \in 0 .. e.pos - 1 /\ j + CRT_COLS = d.pos /\ e.pos - 0 - 1 = j
    BY <1>2, <1>4, <2>1, Sizes
  <2> HIDE DEF j
  <2>3. e.buf[j] = Prompt
    BY <1>4, <2>2 DEF PutAt
  <2>4. \A k \in 0 .. 0 - 1 : FALSE
    OBVIOUS
  <2> QED BY <2>2, <2>3, <2>4, <1>1 DEF Echoed, e
<1> QED BY <1>1, <1>3, <1>4

\* One more character of the line.
LEMMA PutNext ==
    ASSUME NEW d \in Displays, NEW n \in Nat, n + 1 < BUFLEN, NEW ch \in Shown,
           NEW l \in [0 .. BUFLEN - 1 -> Shown \cup {NUL}], Echoed(d, l, n),
           NEW l2, l2 = [l EXCEPT ![n] = ch]
    PROVE  /\ cga_putc(d, ch) \in Displays
           /\ Echoed(cga_putc(d, ch), l2, n + 1)
<1> DEFINE e == cga_putc(d, ch)
<1>1. /\ e \in Displays
      /\ \/ PutAt(d, ch, e, 0)
         \/ d.pos = CRT_SIZE - 1 /\ PutAt(d, ch, e, CRT_COLS)
  BY PutShown
<1> HIDE DEF e
<1>2. /\ d.pos \in Int /\ 0 <= d.pos /\ d.pos < CRT_SIZE /\ e.pos \in Int
      /\ n \in Int /\ 0 <= n /\ n + 1 < BUFLEN /\ n \in 0 .. BUFLEN - 1
      /\ d.pos > n
  BY <1>1, DisplayOf, Sizes DEF Echoed
<1>3. l2[n] = ch /\ \A k \in 0 .. n - 1 : l2[k] = l[k]
  BY <1>2, Sizes
<1>4. \E off \in Int : PutAt(d, ch, e, off) /\ d.pos + 1 - off > n + 1
  <2>1. CASE PutAt(d, ch, e, 0)
    <3>1. d.pos + 1 - 0 > n + 1
      BY <1>2
    <3> QED BY <2>1, <3>1
  <2>2. CASE d.pos = CRT_SIZE - 1 /\ PutAt(d, ch, e, CRT_COLS)
    <3>1. d.pos + 1 - CRT_COLS > n + 1 /\ CRT_COLS \in Int
      BY <1>2, <2>2, Sizes
    <3> QED BY <2>2, <3>1
  <2> QED BY <1>1, <2>1, <2>2
<1>5. PICK off \in Int : PutAt(d, ch, e, off) /\ d.pos + 1 - off > n + 1
  BY <1>4
<1>6. PICK dp \in Int, ep \in Int : dp = d.pos /\ ep = e.pos
  BY <1>2
<1>7. ep = dp + 1 - off /\ ep > n + 1 /\ e.pos > n + 1
  BY <1>5, <1>6 DEF PutAt
<1>8. e.buf[e.pos - (n + 1) - 1] = Prompt
  <2> DEFINE j == e.pos - (n + 1) - 1
  <2>1. j \in 0 .. e.pos - 1 /\ j + off = d.pos - n - 1 /\ j + off # d.pos
    <3>1. n \in Int /\ 0 <= n
      BY <1>2
    <3>2. /\ ep - (n + 1) - 1 \in 0 .. ep - 1
          /\ (ep - (n + 1) - 1) + off = dp - n - 1
          /\ (ep - (n + 1) - 1) + off # dp
      BY <1>7, <3>1
    <3> QED BY <1>6, <3>2
  <2> HIDE DEF j
  <2>2. e.buf[j] = d.buf[d.pos - n - 1]
    BY <1>5, <2>1 DEF PutAt
  <2> QED BY <2>2 DEF j, Echoed
<1>9. ASSUME NEW k \in 0 .. (n + 1) - 1
      PROVE  e.buf[e.pos - (n + 1) + k] = l2[k]
  <2> DEFINE j == e.pos - (n + 1) + k
  <2>1. j \in 0 .. e.pos - 1 /\ j + off = d.pos - n + k /\ k \in Int
    <3>1. n \in Int /\ 0 <= n /\ k \in 0 .. n
      BY <1>2
    <3>2. /\ ep - (n + 1) + k \in 0 .. ep - 1
          /\ (ep - (n + 1) + k) + off = dp - n + k
      BY <1>7, <3>1
    <3> QED BY <1>6, <3>1, <3>2
  <2> HIDE DEF j
  <2>2. CASE k = n
    <3>1. j + off = d.pos
      BY <1>2, <2>1, <2>2
    <3>2. e.buf[j] = ch
      BY <1>5, <2>1, <3>1 DEF PutAt
    <3> QED BY <1>3, <2>2, <3>2 DEF j
  <2>3. CASE k # n
    <3>1. j + off # d.pos /\ k \in 0 .. n - 1
      BY <1>2, <2>1, <2>3
    <3>2. e.buf[j] = d.buf[d.pos - n + k]
      BY <1>5, <2>1, <3>1 DEF PutAt
    <3>3. d.buf[d.pos - n + k] = l[k]
      BY <3>1 DEF Echoed
    <3> QED BY <1>3, <3>1, <3>2, <3>3 DEF j
  <2> QED BY <2>2, <2>3
<1> QED BY <1>1, <1>7, <1>8, <1>9 DEF Echoed, e

\* A backspace takes the last character of the line off the screen.
LEMMA PutBackSpace ==
    ASSUME NEW d \in Displays, NEW n \in 1 .. BUFLEN - 1, NEW l, Echoed(d, l, n)
    PROVE  /\ cga_putc(d, BS) \in Displays
           /\ Echoed(cga_putc(d, BS), l, n - 1)
<1> DEFINE b == [d.buf EXCEPT ![d.pos - 1] = Blank]
           p == d.pos - 1
           e == [buf |-> b, pos |-> p]
<1>1. /\ d.pos \in Int /\ 0 <= d.pos /\ d.pos < CRT_SIZE /\ d.pos > n
      /\ d.buf \in [Cells -> Shown]
      /\ n \in Int /\ 1 <= n /\ n < BUFLEN
  BY DisplayOf, Sizes DEF Echoed
<1>2. p \in Cells /\ b \in [Cells -> Shown]
  BY <1>1, Sizes DEF Shown
<1>3. cga_putc(d, BS) = Scroll(e)
  <2>1. BS # NL /\ BS # CR /\ BS # TAB /\ d.pos > 0
    BY <1>1 DEF BS, NL, CR, TAB
  <2> QED BY <2>1 DEF cga_putc, BackSpace
<1>4. \A j \in Cells : j # p => b[j] = d.buf[j]
  BY <1>1
<1>p. p = d.pos - 1
  OBVIOUS
<1> HIDE DEF b, p
<1>5. e \in Displays /\ e.buf = b /\ e.pos = p
  BY <1>2, IsDisplay
<1>6. cga_putc(d, BS) = e
  BY <1>3, <1>5, NoScroll
<1> HIDE DEF e
<1>7. e.pos > n - 1
  BY <1>1, <1>5, <1>p
<1>8. e.buf[e.pos - (n - 1) - 1] = Prompt
  <2>1. p - (n - 1) - 1 = d.pos - n - 1 /\ d.pos - n - 1 \in Cells /\ d.pos - n - 1 # p
    BY <1>1, <1>p, Sizes
  <2>2. d.buf[d.pos - n - 1] = Prompt
    BY DEF Echoed
  <2> QED BY <1>4, <1>5, <2>1, <2>2
<1>9. ASSUME NEW k \in 0 .. (n - 1) - 1
      PROVE  e.buf[e.pos - (n - 1) + k] = l[k]
  <2>1. /\ p - (n - 1) + k = d.pos - n + k /\ d.pos - n + k \in Cells
        /\ d.pos - n + k # p /\ k \in 0 .. n - 1
    BY <1>1, <1>p, Sizes
  <2>2. d.buf[d.pos - n + k] = l[k]
    BY <2>1 DEF Echoed
  <2> QED BY <1>4, <1>5, <2>1, <2>2
<1> QED BY <1>5, <1>6, <1>7, <1>8, <1>9 DEF Echoed

\* The end of a line leaves the cursor on the screen.
LEMMA ScrollStays ==
    ASSUME NEW b \in [Cells -> Shown], NEW p \in Nat, p < CRT_SIZE + CRT_COLS
    PROVE  Scroll([buf |-> b, pos |-> p]) \in Displays
<1>1. CASE p >= CRT_SIZE
  <2> DEFINE g == [j \in Cells |-> IF j < CRT_SIZE - CRT_COLS
                                   THEN b[j + CRT_COLS] ELSE Blank]
             o == p - CRT_COLS
  <2>1. Scroll([buf |-> b, pos |-> p]) = [buf |-> g, pos |-> o]
    BY <1>1 DEF Scroll
  <2>2. o \in Cells
    BY <1>1, Sizes
  <2>3. \A j \in Cells : j < CRT_SIZE - CRT_COLS => j + CRT_COLS \in Cells
    BY Sizes
  <2>4. g \in [Cells -> Shown]
    BY <2>3 DEF Shown
  <2> HIDE DEF g, o
  <2> QED BY <2>1, <2>2, <2>4, IsDisplay
<1>2. CASE ~(p >= CRT_SIZE)
  <2>1. p \in Cells
    BY <1>2, Sizes
  <2> QED BY <2>1, IsDisplay, NoScroll
<1> QED BY <1>1, <1>2

\* The start of the row of p is not behind p.
LEMMA RowStart ==
    ASSUME NEW p \in Nat
    PROVE  p - (p % CRT_COLS) \in Nat /\ p - (p % CRT_COLS) <= p
<1>1. CRT_COLS \in Nat \ {0}
  BY Sizes
<1> DEFINE q == p \div CRT_COLS
<1>2. q \in Nat /\ p = q * CRT_COLS + (p % CRT_COLS) /\ p % CRT_COLS \in Nat
  BY <1>1
<1>3. q * CRT_COLS \in Nat
  BY <1>1, <1>2
<1> QED BY <1>2, <1>3

\* Line feed and carriage return leave the cursor on the screen.
LEMMA PutLineEnd ==
    ASSUME NEW d \in Displays, NEW ch \in {NL, CR}
    PROVE  cga_putc(d, ch) \in Displays
<1>1. /\ d.pos \in Nat /\ d.pos < CRT_SIZE /\ d.buf \in [Cells -> Shown]
      /\ CRT_COLS \in Nat /\ CRT_SIZE \in Nat
      /\ d = [buf |-> d.buf, pos |-> d.pos]
  BY DisplayOf, Sizes DEF Displays
<1>2. PICK b \in [Cells -> Shown], p \in Nat :
            p < CRT_SIZE /\ d = [buf |-> b, pos |-> p]
  BY <1>1
<1>3. \A x : CarriageReturn([buf |-> b, pos |-> x])
                = [buf |-> b, pos |-> x - (x % CRT_COLS)]
  BY DEF CarriageReturn
<1>4. CASE ch = NL
  <2>1. cga_putc(d, ch) = Scroll(LineFeed(d))
    BY <1>4 DEF cga_putc, NL, BS, CR, TAB
  <2>2. [d EXCEPT !.pos = @ + CRT_COLS] = [buf |-> b, pos |-> p + CRT_COLS]
    BY <1>2
  <2> DEFINE x == p + CRT_COLS
             o == x - (x % CRT_COLS)
  <2>3. x \in Nat /\ x < CRT_SIZE + CRT_COLS
    BY <1>1, <1>2
  <2>4. LineFeed(d) = [buf |-> b, pos |-> o]
    BY <1>3, <2>2 DEF LineFeed
  <2> HIDE DEF x
  <2>5. o \in Nat /\ o <= x
    BY <2>3, RowStart
  <2> HIDE DEF o
  <2>6. o < CRT_SIZE + CRT_COLS
    BY <1>1, <2>3, <2>5
  <2> QED BY <2>1, <2>4, <2>5, <2>6, ScrollStays
<1>5. CASE ch = CR
  <2> DEFINE o == p - (p % CRT_COLS)
  <2>1. cga_putc(d, ch) = Scroll(CarriageReturn(d))
    BY <1>5 DEF cga_putc, NL, BS, CR, TAB
  <2>2. CarriageReturn(d) = [buf |-> b, pos |-> o]
    BY <1>2, <1>3
  <2>3. o \in Nat /\ o <= p
    BY <1>2, RowStart
  <2> HIDE DEF o
  <2>4. o < CRT_SIZE + CRT_COLS
    BY <1>1, <1>2, <2>3
  <2> QED BY <2>1, <2>2, <2>3, <2>4, ScrollStays
<1> QED BY <1>4, <1>5

-----------------------------------------------------------------------------
\* Inv holds after the prompt has been printed.
LEMMA InitGood == Init => Inv
<1> SUFFICES ASSUME Init PROVE Inv
  OBVIOUS
<1>1. PICK p \in Cells :
        screen = cga_putc([buf |-> [x \in Cells |-> Blank], pos |-> p], Prompt)
  BY DEF Init
<1>2. [x \in Cells |-> Blank] \in [Cells -> Shown]
  BY DEF Shown
<1>3. screen \in Displays /\ Echoed(screen, line, 0)
  BY <1>1, <1>2, IsDisplay, PutPrompt
<1>4. line = [k \in 0 .. BUFLEN - 1 |-> NUL] /\ i = 0
  BY DEF Init
<1>5. i \in 0 .. BUFLEN - 1
  BY <1>4, Sizes
<1> QED BY <1>3, <1>4, <1>5 DEF Inv

\* Every character that readline handles keeps Inv.
LEMMA NextGood == Inv /\ [Next]_vars => Inv'
<1> SUFFICES ASSUME Inv, [Next]_vars PROVE Inv'
  OBVIOUS
<1> USE DEF Inv
<1>0. ASSUME UNCHANGED readline PROVE Inv'
  BY <1>0 DEF readline
<1>1. CASE Type
  BY <1>0, <1>1 DEF Type
<1>2. CASE Getchar
  BY <1>0, <1>2 DEF Getchar
<1>3. CASE InsertChar
  <2>1. /\ reading /\ reading' = reading /\ ret \in Shown /\ i < BUFLEN - 1
        /\ screen' = cga_putc(screen, ret)
        /\ line' = [line EXCEPT ![i] = ret] /\ i' = i + 1
    BY <1>3 DEF InsertChar, Got, Echo
  <2>2. i \in Nat /\ i + 1 < BUFLEN /\ i' \in 0 .. BUFLEN - 1
    BY <2>1, Sizes
  <2>3. screen' \in Displays /\ Echoed(screen', line', i')
    BY <2>1, <2>2, PutNext
  <2>4. line' \in [0 .. BUFLEN - 1 -> Shown \cup {NUL}]
    BY <2>1
  <2> QED BY <2>2, <2>3, <2>4
<1>4. CASE DeleteChar
  <2>1. /\ reading /\ reading' = reading /\ ret = BS /\ i > 0
        /\ screen' = cga_putc(screen, ret)
        /\ line' = line /\ i' = i - 1
    BY <1>4 DEF DeleteChar, Got, Echo
  <2>2. i \in 1 .. BUFLEN - 1 /\ i' \in 0 .. BUFLEN - 1
    BY <2>1, Sizes
  <2>3. screen' \in Displays /\ Echoed(screen', line', i')
    BY <2>1, <2>2, PutBackSpace
  <2> QED BY <2>1, <2>2, <2>3
<1>5. CASE Enter
  <2>1. /\ reading' = FALSE /\ ret \in {NL, CR}
        /\ screen' = cga_putc(screen, ret)
        /\ line' = [line EXCEPT ![i] = NUL] /\ i' = i
    BY <1>5 DEF Enter, Got, Echo
  <2>2. screen' \in Displays
    BY <2>1, PutLineEnd
  <2>3. line' \in [0 .. BUFLEN - 1 -> Shown \cup {NUL}]
    BY <2>1
  <2> QED BY <2>1, <2>2, <2>3
<1>6. CASE Ignore
  BY <1>0, <1>6 DEF Ignore
<1>7. CASE NextPrompt
  <2>1. /\ screen' = cga_putc(screen, Prompt) /\ line' = line /\ i' = 0
    BY <1>7 DEF NextPrompt
  <2>2. screen' \in Displays /\ Echoed(screen', line', i')
    BY <2>1, PutPrompt
  <2>3. i' \in 0 .. BUFLEN - 1
    BY <2>1, Sizes
  <2> QED BY <2>1, <2>2, <2>3
<1>8. CASE UNCHANGED vars
  BY <1>0, <1>8 DEF vars
<1> QED BY <1>1, <1>2, <1>3, <1>4, <1>5, <1>6, <1>7, <1>8 DEF Next, Kernel

\* The index of readline() stays in the buffer and crt_pos on the screen,
\* whether readline is reading a line or has returned one.
THEOREM Invariance == Spec => []Inv
<1> QED BY InitGood, NextGood, PTL DEF Spec

\* While readline() reads, the cursor stands behind the prompt and exactly the
\* characters it has stored, whatever is typed, wraps, scrolls or is erased.
THEOREM EchoAgreesAlways == Spec => []EchoAgrees
<1>1. Inv => EchoAgrees
  BY DEF Inv, Echoed, EchoAgrees
<1> QED BY <1>1, Invariance, PTL

=============================================================================
