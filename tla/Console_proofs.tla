--------------------------- MODULE Console_proofs ----------------------------
(***************************************************************************)
(* The two halves of kern/console.c, for all their sizes.                   *)
(*                                                                          *)
(* Input, for every CONSBUFSIZE and every interleaving of the devices with  *)
(* the CPU: until CONSBUFSIZE characters wait at the same time, the         *)
(* circular buffer is the queue it is meant to be, and cons_getc returns    *)
(* its head.  BufferHoldsWaiting is not inductive: it also has to be known  *)
(* that fewer than CONSBUFSIZE characters wait, so that a store does not    *)
(* hit the oldest one and rpos = wpos means empty.  InputInv adds that, and *)
(* speaks of buffer positions without the remainder.                        *)
(*                                                                          *)
(* Output, for every screen size: the cursor stays on the screen and the    *)
(* screen is a window of the paper.  ScreenIsWindow is not inductive: the   *)
(* row that a scroll opens is blank on the screen, so the paper below the   *)
(* window must still be blank.  Faithful adds that.                         *)
(***************************************************************************)
EXTENDS ConsoleInput, Terminal, SequenceTheorems, TLAPS

-----------------------------------------------------------------------------
\* Input.

N == CONSBUFSIZE

\* The position k places after r, for k up to N.
Slot(r, k) == IF r + k >= N THEN r + k - N ELSE r + k

Queue ==
    /\ Len(waiting) < N
    /\ wpos = Slot(rpos, Len(waiting))
    /\ \A k \in 1 .. Len(waiting) : buf[Slot(rpos, k - 1)] = waiting[k]

InputInv == TypeOK /\ (~overrun => Queue)

\* N is a positive number, and the positions are those below it.
LEMMA InputSizes == N \in Nat /\ N > 0 /\ Positions = 0 .. N - 1
BY ConsoleAssumption DEF N, Positions

\* Slot is the remainder that BufferHoldsWaiting speaks of.
LEMMA SlotIsRemainder ==
    ASSUME NEW r \in Positions, NEW k \in Nat, k < N
    PROVE  (r + k) % CONSBUFSIZE = Slot(r, k)
<1> DEFINE x == r + k
           q == x \div N
           m == x % N
<1>1. N \in Nat /\ N > 0 /\ x \in Nat /\ x < 2 * N
  BY InputSizes
<1>2. q \in Nat /\ m \in Nat /\ m < N /\ x = q * N + m
  BY <1>1
<1>3. x = r + k
  OBVIOUS
<1> HIDE DEF x, q, m
<1>4. CASE q = 0
  <2>1. x = m
    BY <1>1, <1>2, <1>4
  <2> QED BY <2>1, <1>1, <1>2, <1>3 DEF Slot, N, x, m
<1>5. CASE q = 1
  <2>1. x = N + m
    BY <1>1, <1>2, <1>5
  <2>2. x >= N /\ m = x - N
    BY <2>1, <1>1, <1>2
  <2>3. Slot(r, k) = x - N
    BY <2>2, <1>1, <1>3, InputSizes DEF Slot
  <2>4. (r + k) % CONSBUFSIZE = m
    BY DEF m, x, N
  <2> QED BY <2>2, <2>3, <2>4
<1>6. CASE q >= 2
  <2>1. q * N >= 2 * N
    BY <1>1, <1>2, <1>6
  <2>2. q * N \in Nat
    BY <1>1, <1>2
  <2> QED BY <2>1, <2>2, <1>1, <1>2
<1> QED BY <1>2, <1>4, <1>5, <1>6

\* The positions of fewer than N characters are all different.
LEMMA SlotFacts ==
    ASSUME NEW r \in Positions
    PROVE  /\ \A k \in 0 .. N : Slot(r, k) \in Positions
           /\ \A j, k \in 0 .. N - 1 : Slot(r, j) = Slot(r, k) => j = k
           /\ \A k \in 0 .. N - 1 : Wrap(Slot(r, k) + 1) = Slot(r, k + 1)
           /\ \A k \in 0 .. N - 1 : Slot(Wrap(r + 1), k) = Slot(r, k + 1)
           /\ Slot(r, 0) = r
           /\ Wrap(r + 1) \in Positions
BY InputSizes DEF Slot, Wrap, N

\* One turn of the loop of cons_intr with a character.
LEMMA StoreGood ==
    ASSUME InputInv, NEW c \in Chars \cup {NUL}, Store(c), rpos' = rpos
    PROVE  /\ buf' \in [Positions -> Chars \cup {NUL}] /\ wpos' \in Positions
           /\ waiting' \in Seq(Chars) /\ overrun' \in BOOLEAN
           /\ ~overrun' => Queue'
<1>1. CASE c = NUL
  BY <1>1 DEF Store, InputInv, TypeOK, Queue, Slot
<1>2. CASE c # NUL
  <2>1. /\ buf \in [Positions -> Chars \cup {NUL}] /\ wpos \in Positions
        /\ rpos \in Positions /\ waiting \in Seq(Chars) /\ c \in Chars
        /\ overrun \in BOOLEAN
    BY <1>2 DEF InputInv, TypeOK
  <2>2. /\ buf' = [buf EXCEPT ![wpos] = c]
        /\ wpos' = Wrap(wpos + 1)
        /\ waiting' = Append(waiting, c)
        /\ overrun' = (overrun \/ Len(waiting') >= CONSBUFSIZE)
    BY <1>2 DEF Store
  <2>3. /\ waiting' \in Seq(Chars) /\ Len(waiting') = Len(waiting) + 1
        /\ \A k \in 1 .. Len(waiting) : waiting'[k] = waiting[k]
        /\ waiting'[Len(waiting) + 1] = c
        /\ Len(waiting) \in Nat
    BY <2>1, <2>2
  <2>4. wpos' \in Positions
    BY <2>1, <2>2, SlotFacts
  <2>5. ASSUME ~overrun'
        PROVE  Queue'
    <3>1. ~overrun /\ Len(waiting) + 1 < N /\ Queue
      <4>1. ~overrun /\ ~(Len(waiting') >= CONSBUFSIZE)
        BY <2>2, <2>5, Zenon
      <4>2. Len(waiting) + 1 < N
        BY <4>1, <2>3, InputSizes DEF N
      <4> QED BY <4>1, <4>2 DEF InputInv
    <3>2. wpos = Slot(rpos, Len(waiting)) /\ Len(waiting) \in 0 .. N - 1
      BY <3>1, <2>3, InputSizes DEF Queue
    <3>3. wpos' = Slot(rpos, Len(waiting) + 1)
      BY <3>2, <2>1, <2>2, SlotFacts
    <3>4. ASSUME NEW k \in 1 .. Len(waiting) + 1
          PROVE  buf'[Slot(rpos, k - 1)] = waiting'[k]
      <4>1. CASE k = Len(waiting) + 1
        <5>1. k - 1 = Len(waiting)
          BY <4>1, <2>3
        <5>2. Slot(rpos, k - 1) = wpos
          BY <5>1, <3>2
        <5> QED BY <5>2, <4>1, <2>1, <2>2, <2>3
      <4>2. CASE k \in 1 .. Len(waiting)
        <5>1. k - 1 \in 0 .. N - 1 /\ k - 1 # Len(waiting) /\ k - 1 \in 0 .. N
          BY <4>2, <3>2, InputSizes
        <5>2. Slot(rpos, k - 1) # wpos /\ Slot(rpos, k - 1) \in Positions
          BY <5>1, <3>2, <2>1, SlotFacts
        <5>3. buf[Slot(rpos, k - 1)] = waiting[k]
          BY <4>2, <3>1 DEF Queue
        <5> QED BY <5>2, <5>3, <4>2, <2>1, <2>2, <2>3
      <4> QED BY <4>1, <4>2, <2>3
    <3> QED BY <3>1, <3>3, <3>4, <2>3 DEF Queue, Slot, N
  <2>6. /\ buf' \in [Positions -> Chars \cup {NUL}]
        /\ overrun' \in BOOLEAN
    BY <2>1, <2>2
  <2> QED BY <2>3, <2>4, <2>5, <2>6
<1> QED BY <1>1, <1>2

\* What a call of cons_getc takes from the buffer is the oldest character
\* that waits, and nothing if none does.
LEMMA GrabReturnsNext ==
    ASSUME InputInv, Grab, ~overrun
    PROVE  ret' = IF waiting = <<>> THEN NUL ELSE Head(waiting)
<1>1. rpos \in Positions /\ waiting \in Seq(Chars) /\ Queue
  BY DEF InputInv, TypeOK
<1>2. Len(waiting) \in 0 .. N - 1 /\ wpos = Slot(rpos, Len(waiting))
  BY <1>1, InputSizes DEF Queue
<1>3. CASE waiting = <<>>
  <2>1. Len(waiting) = 0
    BY <1>3
  <2>2. wpos = rpos
    BY <2>1, <1>1, <1>2, SlotFacts
  <2> QED BY <2>2, <1>3 DEF Grab
<1>4. CASE waiting # <<>>
  <2>1. Len(waiting) # 0 /\ 0 \in 0 .. N - 1 /\ 1 \in 1 .. Len(waiting)
    BY <1>1, <1>2, <1>4, InputSizes
  <2>2. wpos # rpos
    <3>1. wpos # Slot(rpos, 0)
      BY <2>1, <1>1, <1>2, SlotFacts
    <3> QED BY <3>1, <1>1, SlotFacts
  <2>3. buf[Slot(rpos, 1 - 1)] = waiting[1]
    BY <2>1, <1>1 DEF Queue
  <2>4. Slot(rpos, 1 - 1) = rpos
    <3>1. 1 - 1 = 0
      OBVIOUS
    <3> QED BY <3>1, <1>1, SlotFacts
  <2>5. Head(waiting) = waiting[1]
    BY <1>1, <1>4
  <2> QED BY <2>2, <2>3, <2>4, <2>5, <1>4 DEF Grab
<1> QED BY <1>3, <1>4

\* Taking a character keeps the queue.
LEMMA GrabGood ==
    ASSUME InputInv, Grab
    PROVE  InputInv'
<1>1. TypeOK /\ rpos \in Positions /\ waiting \in Seq(Chars)
  BY DEF InputInv, TypeOK
<1>2. /\ UNCHANGED <<serial_exists, serial, kbd, buf, wpos, overrun>>
      /\ pc' = "done"
  BY DEF Grab, devices
<1>3. CASE rpos = wpos
  BY <1>1, <1>2, <1>3 DEF Grab, InputInv, TypeOK, Queue, Slot
<1>4. CASE rpos # wpos
  <2>1. /\ ret' = buf[rpos] /\ rpos' = Wrap(rpos + 1)
        /\ waiting' = IF waiting = <<>> THEN <<>> ELSE Tail(waiting)
    BY <1>4 DEF Grab
  <2>2. rpos' \in Positions
    BY <2>1, <1>1, SlotFacts
  <2>3. waiting' \in Seq(Chars)
    BY <2>1, <1>1
  <2>4. TypeOK'
    BY <1>1, <1>2, <2>1, <2>2, <2>3 DEF TypeOK
  <2>5. ASSUME ~overrun'
        PROVE  Queue'
    <3>1. ~overrun /\ Queue
      BY <1>2, <2>5 DEF InputInv
    <3>2. Len(waiting) \in 0 .. N - 1 /\ wpos = Slot(rpos, Len(waiting))
      BY <3>1, <1>1, InputSizes DEF Queue
    <3>3. waiting # <<>>
      <4>1. waiting = <<>> => Len(waiting) = 0
        OBVIOUS
      <4> QED BY <4>1, <3>2, <1>1, <1>4, SlotFacts
    <3>4. /\ waiting' = Tail(waiting) /\ Len(waiting') = Len(waiting) - 1
          /\ \A k \in 1 .. Len(waiting') : waiting'[k] = waiting[k + 1]
          /\ Len(waiting) - 1 \in 0 .. N - 1
      BY <2>1, <3>2, <3>3, <1>1, InputSizes
    <3>5. wpos' = Slot(rpos', Len(waiting'))
      <4>1. Slot(rpos', Len(waiting) - 1) = Slot(rpos, Len(waiting) - 1 + 1)
        BY <2>1, <3>4, <1>1, SlotFacts
      <4>2. Len(waiting) - 1 + 1 = Len(waiting)
        BY <3>2, InputSizes
      <4> QED BY <4>1, <4>2, <3>2, <3>4, <1>2
    <3>6. ASSUME NEW k \in 1 .. Len(waiting')
          PROVE  buf'[Slot(rpos', k - 1)] = waiting'[k]
      <4>1. /\ k - 1 \in 0 .. N - 1 /\ k - 1 + 1 = k
            /\ k + 1 \in 1 .. Len(waiting) /\ k + 1 - 1 = k
        BY <3>2, <3>4, InputSizes
      <4>2. Slot(rpos', k - 1) = Slot(rpos, k)
        BY <4>1, <2>1, <1>1, SlotFacts
      <4>3. buf[Slot(rpos, k + 1 - 1)] = waiting[k + 1]
        BY <4>1, <3>1 DEF Queue
      <4> QED BY <4>1, <4>2, <4>3, <3>4, <1>2
    <3>7. Len(waiting') < N
      BY <3>2, <3>4, InputSizes
    <3> QED BY <3>5, <3>6, <3>7 DEF Queue, Slot, N
  <2> QED BY <2>4, <2>5 DEF InputInv
<1> QED BY <1>3, <1>4

\* Every step of the devices and of the CPU keeps the invariant.
LEMMA InputNextGood ==
    ASSUME InputInv, [Next]_vars
    PROVE  InputInv'
<1>1. TypeOK
  BY DEF InputInv
<1>2. ASSUME NEW c \in Chars \cup {NUL}, SerialReceives(c)
      PROVE  InputInv'
  BY <1>1, <1>2 DEF SerialReceives, InputInv, TypeOK, Queue, Slot, cons
<1>3. ASSUME NEW c \in Chars \cup {NUL}, KeyboardReceives(c)
      PROVE  InputInv'
  BY <1>1, <1>3 DEF KeyboardReceives, InputInv, TypeOK, Queue, Slot, cons
<1>4. ASSUME SerialIntr
      PROVE  InputInv'
  <2>1. /\ Head(serial) \in Chars \cup {NUL}
        /\ Tail(serial) \in Seq(Chars \cup {NUL})
    BY <1>1, <1>4 DEF TypeOK, SerialIntr
  <2>2. /\ Store(Head(serial)) /\ serial' = Tail(serial)
        /\ UNCHANGED <<serial_exists, kbd, rpos, pc, ret>>
    BY <1>4 DEF SerialIntr
  <2> QED BY <1>1, <2>1, <2>2, StoreGood DEF InputInv, TypeOK
<1>5. ASSUME KbdIntr
      PROVE  InputInv'
  <2>1. /\ Head(kbd) \in Chars \cup {NUL}
        /\ Tail(kbd) \in Seq(Chars \cup {NUL})
    BY <1>1, <1>5 DEF TypeOK, KbdIntr
  <2>2. /\ Store(Head(kbd)) /\ kbd' = Tail(kbd)
        /\ UNCHANGED <<serial_exists, serial, rpos, pc, ret>>
    BY <1>5 DEF KbdIntr
  <2> QED BY <1>1, <2>1, <2>2, StoreGood DEF InputInv, TypeOK
<1>6. ASSUME SerialDone \/ KbdDone \/ Call
      PROVE  InputInv'
  BY <1>1, <1>6
  DEF SerialDone, KbdDone, Call, InputInv, TypeOK, Queue, Slot, cons, devices
<1>7. ASSUME UNCHANGED vars
      PROVE  InputInv'
  BY <1>1, <1>7 DEF vars, InputInv, TypeOK, Queue, Slot, cons, devices
<1> QED BY <1>2, <1>3, <1>4, <1>5, <1>6, <1>7, GrabGood
        DEF Next, Receive, cons_getc

\* Until an overrun the buffer is the queue; rpos and wpos are always valid.
THEOREM InputInvariance == Spec => []InputInv
<1>1. Init => InputInv
  <2> SUFFICES ASSUME Init PROVE InputInv
    OBVIOUS
  <2>1. TypeOK
    BY InputSizes DEF Init, TypeOK
  <2>2. Len(waiting) = 0 /\ wpos = rpos /\ rpos \in Positions
    BY InputSizes DEF Init
  <2>3. Queue
    BY <2>2, InputSizes, SlotFacts DEF Queue
  <2> QED BY <2>1, <2>3 DEF InputInv
<1> QED BY <1>1, InputNextGood, PTL DEF Spec

\* The variables keep their types: no index of cons.buf is out of range,
\* overrun or not.
THEOREM TypeCorrect == Spec => []TypeOK
BY InputInvariance, PTL DEF InputInv

\* For every buffer size, the buffer holds what waits.
THEOREM BufferIsQueue == Spec => []BufferHoldsWaiting
<1>1. InputInv => BufferHoldsWaiting
  <2> SUFFICES ASSUME InputInv, ~overrun
               PROVE  /\ wpos = (rpos + Len(waiting)) % CONSBUFSIZE
                      /\ \A k \in 1 .. Len(waiting) :
                          buf[(rpos + k - 1) % CONSBUFSIZE] = waiting[k]
    BY DEF BufferHoldsWaiting
  <2>1. rpos \in Positions /\ waiting \in Seq(Chars) /\ Queue
    BY DEF InputInv, TypeOK
  <2>2. Len(waiting) \in Nat /\ Len(waiting) < N
    BY <2>1 DEF Queue
  <2>3. wpos = (rpos + Len(waiting)) % CONSBUFSIZE
    BY <2>1, <2>2, SlotIsRemainder DEF Queue
  <2>4. ASSUME NEW k \in 1 .. Len(waiting)
        PROVE  buf[(rpos + k - 1) % CONSBUFSIZE] = waiting[k]
    <3>1. k - 1 \in Nat /\ k - 1 < N /\ rpos + k - 1 = rpos + (k - 1)
      BY <2>1, <2>2, InputSizes
    <3>2. (rpos + (k - 1)) % CONSBUFSIZE = Slot(rpos, k - 1)
      BY <3>1, <2>1, SlotIsRemainder
    <3> QED BY <3>1, <3>2, <2>1 DEF Queue
  <2> QED BY <2>3, <2>4
<1> QED BY <1>1, InputInvariance, PTL

\* Until an overrun every call of cons_getc returns the next character.
THEOREM CharactersInOrder == Spec => ReturnsNext
<1>1. ASSUME InputInv, [Next]_vars
      PROVE  [pc = "grab" /\ pc' = "done" /\ ~overrun =>
                ret' = IF waiting = <<>> THEN NUL ELSE Head(waiting)]_vars
  <2> SUFFICES ASSUME Next, pc = "grab", pc' = "done", ~overrun
               PROVE  ret' = IF waiting = <<>> THEN NUL ELSE Head(waiting)
    BY <1>1
  <2>1. Grab
    BY DEF Next, Receive, cons_getc, SerialReceives, KeyboardReceives,
           SerialIntr, SerialDone, KbdIntr, KbdDone, Call
  <2> QED BY <1>1, <2>1, GrabReturnsNext
<1> QED BY <1>1, InputInvariance, PTL DEF Spec, ReturnsNext

-----------------------------------------------------------------------------
\* Output.

\* d is the window of s at row s.top, and s is blank below it.
Faithful(d, s) ==
    \A i \in Paper :
        /\ i >= s.top * CRT_COLS /\ i < s.top * CRT_COLS + CRT_SIZE
            => s.text[i] = d.buf[i - s.top * CRT_COLS]
        /\ i >= s.top * CRT_COLS + CRT_SIZE => s.text[i] = Blank

\* What holds between two characters, with k rows more than MaxTop at most
\* out: the blanks of one tab may scroll several rows.
GoodScreen(d, s, k) ==
    /\ d \in Displays
    /\ s \in [text : [Paper -> Shown], top : 0 .. MaxTop + k]
    /\ Faithful(d, s)

ScreenInv == GoodScreen(screen, sheet, 5)

\* The screen has at least two rows, all of the same length.
LEMMA ScreenSizes ==
    /\ CRT_SIZE \in Nat /\ CRT_COLS \in Nat \ {0}
    /\ CRT_SIZE >= 2 * CRT_COLS
    /\ Cells = 0 .. CRT_SIZE - 1
<1>1. CRT_ROWS \in Nat /\ CRT_ROWS >= 2 /\ CRT_COLS \in Nat \ {0}
  BY CrtAssumption, MaxTopAssumption
<1>2. CRT_ROWS * CRT_COLS \in Nat /\ CRT_ROWS * CRT_COLS >= 2 * CRT_COLS
  BY <1>1
<1> QED BY <1>1, <1>2 DEF CRT_SIZE, Cells

\* A row further down is CRT_COLS cells further on, and the window at any row
\* up to MaxTop + 5 is on the paper.
LEMMA Rows ==
    ASSUME NEW t \in 0 .. MaxTop + 5
    PROVE  /\ t * CRT_COLS \in Nat
           /\ (t + 1) * CRT_COLS = t * CRT_COLS + CRT_COLS
           /\ \A i \in Cells : t * CRT_COLS + i \in Paper
<1>1. CRT_ROWS \in Nat /\ CRT_COLS \in Nat \ {0} /\ MaxTop \in Nat
  BY CrtAssumption, MaxTopAssumption
<1>2. t * CRT_COLS \in Nat /\ (t + 1) * CRT_COLS = t * CRT_COLS + CRT_COLS
  BY <1>1
<1>3. t * CRT_COLS <= (MaxTop + 5) * CRT_COLS
  BY <1>1
<1>4. (CRT_ROWS + MaxTop + 5) * CRT_COLS
        = CRT_ROWS * CRT_COLS + (MaxTop + 5) * CRT_COLS
  BY <1>1
<1>5. CRT_ROWS * CRT_COLS \in Nat /\ (MaxTop + 5) * CRT_COLS \in Nat
  BY <1>1
<1>6. \A i \in Cells : t * CRT_COLS + i \in Paper
  BY <1>2, <1>3, <1>4, <1>5 DEF Cells, CRT_SIZE, Paper
<1> QED BY <1>2, <1>6

\* Printing one character, scroll included.
LEMMA GlyphGood ==
    ASSUME NEW k \in 0 .. 4, NEW d, NEW s, NEW c \in Shown, GoodScreen(d, s, k)
    PROVE  GoodScreen(Scroll(Glyph(d, c)), Write(s, d, c), k + 1)
<1> DEFINE g == Glyph(d, c)  w == Write(s, d, c)
<1> DEFINE base == s.top * CRT_COLS
<1>1. /\ d \in Displays /\ d.pos \in Cells /\ d.buf \in [Cells -> Shown]
      /\ s.text \in [Paper -> Shown] /\ s.top \in 0 .. MaxTop + k
      /\ Faithful(d, s) /\ MaxTop \in Nat
  BY CrtAssumption, MaxTopAssumption DEF GoodScreen, Displays
<1>2. s.top \in 0 .. MaxTop + 5
  BY <1>1
<1>3. /\ base \in Nat /\ base + d.pos \in Paper /\ Paper \subseteq Int
      /\ d.pos \in Int /\ 0 <= d.pos /\ d.pos < CRT_SIZE
  <2>1. base \in Nat /\ base + d.pos \in Paper
    BY <1>1, <1>2, Rows
  <2>2. Paper \subseteq Int
    BY DEF Paper
  <2>3. d.pos \in Int /\ 0 <= d.pos /\ d.pos < CRT_SIZE
    BY <1>1, ScreenSizes
  <2> QED BY <2>1, <2>2, <2>3
<1>4. /\ g.buf = [d.buf EXCEPT ![d.pos] = c] /\ g.pos = d.pos + 1
      /\ w.text = [s.text EXCEPT ![base + d.pos] = c]
      /\ w.top = IF d.pos = CRT_SIZE - 1 THEN s.top + 1 ELSE s.top
      /\ g = [buf |-> g.buf, pos |-> g.pos]
      /\ w = [text |-> w.text, top |-> w.top]
  BY DEF Glyph, Write, Place
<1> HIDE DEF g, w
<1>5. g.buf \in [Cells -> Shown] /\ w.text \in [Paper -> Shown]
  BY <1>1, <1>3, <1>4
<1>b. s.top * CRT_COLS = base
  OBVIOUS
<1> HIDE DEF base
<1>6. CASE d.pos # CRT_SIZE - 1
  <2>a. g.pos \in Cells /\ ~(g.pos >= CRT_SIZE)
    BY <1>3, <1>4, <1>6, ScreenSizes
  <2>1. Scroll(g) = g /\ g \in Displays
    BY <2>a, <1>4, <1>5 DEF Scroll, Displays
  <2>2. w.top = s.top
    BY <1>4, <1>6
  <2>3. Faithful(g, w)
    <3> SUFFICES ASSUME NEW i \in Paper
                 PROVE  /\ i >= base /\ i < base + CRT_SIZE
                            => w.text[i] = g.buf[i - base]
                        /\ i >= base + CRT_SIZE => w.text[i] = Blank
      BY <2>2, <1>b DEF Faithful
    <3>1. CASE i = base + d.pos
      <4>1. i - base = d.pos /\ i < base + CRT_SIZE
        BY <3>1, <1>3, ScreenSizes
      <4>2. w.text[i] = c /\ g.buf[d.pos] = c
        BY <3>1, <1>1, <1>3, <1>4
      <4> QED BY <4>1, <4>2, <1>3, ScreenSizes
    <3>2. CASE i # base + d.pos
      <4>1. w.text[i] = s.text[i]
        BY <3>2, <1>1, <1>4
      <4>2. i >= base /\ i < base + CRT_SIZE
              => g.buf[i - base] = d.buf[i - base]
        <5> SUFFICES ASSUME i >= base, i < base + CRT_SIZE
                     PROVE  g.buf[i - base] = d.buf[i - base]
          OBVIOUS
        <5>1. i - base \in Cells /\ i - base # d.pos
          BY <3>2, <1>3, ScreenSizes
        <5> QED BY <5>1, <1>1, <1>4
      <4> QED BY <4>1, <4>2, <1>1, <1>b DEF Faithful
    <3> QED BY <3>1, <3>2
  <2> QED BY <2>1, <2>2, <2>3, <1>1, <1>4, <1>5 DEF GoodScreen, g, w
<1>7. CASE d.pos = CRT_SIZE - 1
  <2> DEFINE r == Scroll(g)
  <2>1. /\ r.pos = CRT_SIZE - CRT_COLS
        /\ r.buf = [i \in Cells |-> IF i < CRT_SIZE - CRT_COLS
                                    THEN g.buf[i + CRT_COLS] ELSE Blank]
        /\ r = [buf |-> r.buf, pos |-> r.pos]
    <3>1. g.pos >= CRT_SIZE /\ g.pos - CRT_COLS = CRT_SIZE - CRT_COLS
      BY <1>3, <1>4, <1>7, ScreenSizes
    <3> QED BY <3>1 DEF Scroll
  <2>2. r.buf \in [Cells -> Shown] /\ r.pos \in Cells
    BY <2>1, <1>5, ScreenSizes DEF Shown
  <2>3. w.top = s.top + 1 /\ w.top * CRT_COLS = base + CRT_COLS
    BY <1>4, <1>7, <1>2, <1>b, Rows
  <2>4. Faithful(r, w)
    <3> SUFFICES ASSUME NEW i \in Paper
                 PROVE  /\ i >= base + CRT_COLS /\ i < base + CRT_COLS + CRT_SIZE
                            => w.text[i] = r.buf[i - (base + CRT_COLS)]
                        /\ i >= base + CRT_COLS + CRT_SIZE => w.text[i] = Blank
      BY <2>3 DEF Faithful
    <3>1. CASE i = base + d.pos
      <4>1. /\ i - (base + CRT_COLS) \in Cells
            /\ i - (base + CRT_COLS) < CRT_SIZE - CRT_COLS
            /\ i - (base + CRT_COLS) + CRT_COLS = d.pos
            /\ ~(i >= base + CRT_COLS + CRT_SIZE)
        BY <3>1, <1>3, <1>7, ScreenSizes
      <4>2. w.text[i] = c /\ g.buf[d.pos] = c
        BY <3>1, <1>1, <1>3, <1>4
      <4> QED BY <4>1, <4>2, <2>1
    <3>2. CASE i # base + d.pos
      <4>1. w.text[i] = s.text[i]
        BY <3>2, <1>1, <1>4
      <4>2. CASE i >= base + CRT_COLS /\ i < base + CRT_SIZE
        <5>1. i - base \in Cells /\ i - (base + CRT_COLS) \in Cells
          BY <4>2, <1>3, ScreenSizes
        <5>2. r.buf[i - (base + CRT_COLS)] = g.buf[i - base]
          BY <5>1, <2>1, <4>2, <1>3, ScreenSizes
        <5>3. g.buf[i - base] = d.buf[i - base]
          <6>1. i - base # d.pos
            BY <3>2, <1>3
          <6> QED BY <6>1, <5>1, <1>1, <1>4
        <5>4. s.text[i] = d.buf[i - base]
          <6>1. i >= base /\ i < base + CRT_SIZE
            BY <4>2, <1>3, ScreenSizes
          <6> QED BY <6>1, <1>1, <1>b DEF Faithful
        <5> QED BY <4>1, <4>2, <5>2, <5>3, <5>4, <1>3, ScreenSizes
      <4>3. CASE i >= base + CRT_SIZE
        <5>1. w.text[i] = Blank
          BY <4>1, <4>3, <1>1, <1>b DEF Faithful
        <5>2. i < base + CRT_COLS + CRT_SIZE
                => r.buf[i - (base + CRT_COLS)] = Blank
          BY <2>1, <4>3, <1>3, ScreenSizes
        <5> QED BY <5>1, <5>2
      <4>4. CASE i < base + CRT_COLS
        BY <4>4, <1>3, ScreenSizes
      <4> QED BY <4>2, <4>3, <4>4, <1>3, ScreenSizes
    <3> QED BY <3>1, <3>2
  <2>5. w \in [text : [Paper -> Shown], top : 0 .. MaxTop + (k + 1)]
    BY <1>1, <1>4, <1>5, <2>3
  <2> QED BY <2>1, <2>2, <2>4, <2>5 DEF GoodScreen, Displays, g, w
<1> QED BY <1>6, <1>7

\* Rounding a position down to the start of its row keeps it in its row, and
\* the screen ends where a row ends.
LEMMA RowStart ==
    ASSUME NEW p \in Nat
    PROVE  /\ p % CRT_COLS \in Nat /\ p % CRT_COLS <= p
           /\ p % CRT_COLS < CRT_COLS
           /\ p >= CRT_SIZE => p - (p % CRT_COLS) >= CRT_SIZE
<1>1. CRT_ROWS \in Nat /\ CRT_COLS \in Nat \ {0}
  BY CrtAssumption, MaxTopAssumption
<1> DEFINE q == p \div CRT_COLS
<1>2. q \in Nat /\ p = q * CRT_COLS + (p % CRT_COLS)
  BY <1>1
<1>3. p % CRT_COLS \in Nat /\ p % CRT_COLS < CRT_COLS
  BY <1>1
<1>4. q * CRT_COLS \in Nat
  BY <1>1, <1>2
<1>5. p % CRT_COLS <= p
  BY <1>2, <1>3, <1>4
<1>6. ASSUME p >= CRT_SIZE
      PROVE  p - (p % CRT_COLS) >= CRT_SIZE
  <2>1. CASE q >= CRT_ROWS
    <3>1. q * CRT_COLS >= CRT_ROWS * CRT_COLS
      BY <2>1, <1>1, <1>2
    <3> QED BY <3>1, <1>1, <1>2, <1>3, <1>4 DEF CRT_SIZE
  <2>2. CASE q + 1 <= CRT_ROWS
    <3>1. (q + 1) * CRT_COLS <= CRT_ROWS * CRT_COLS
      BY <2>2, <1>1, <1>2
    <3>2. (q + 1) * CRT_COLS = q * CRT_COLS + CRT_COLS
      BY <1>1, <1>2
    <3>3. CRT_ROWS * CRT_COLS \in Nat
      BY <1>1
    <3> QED BY <3>1, <3>2, <3>3, <1>1, <1>2, <1>3, <1>4, <1>6 DEF CRT_SIZE
  <2> QED BY <2>1, <2>2, <1>1, <1>2
<1> QED BY <1>3, <1>5, <1>6

\* Scrolling by itself: what the display shows moves up by one row, on paper
\* only the top changes.
LEMMA ScrollGood ==
    ASSUME NEW cells \in [Cells -> Shown], NEW p \in Nat, NEW s,
           p >= CRT_SIZE, p < CRT_SIZE + CRT_COLS,
           s \in [text : [Paper -> Shown], top : 0 .. MaxTop + 4],
           Faithful([buf |-> cells, pos |-> p], s)
    PROVE  GoodScreen(Scroll([buf |-> cells, pos |-> p]),
                [s EXCEPT !.top = @ + 1], 5)
<1> DEFINE base == s.top * CRT_COLS
           r == Scroll([buf |-> cells, pos |-> p])
           w == [s EXCEPT !.top = @ + 1]
<1>1. MaxTop \in Nat /\ s.top \in 0 .. MaxTop + 5 /\ s.text \in [Paper -> Shown]
  BY CrtAssumption, MaxTopAssumption
<1>2. /\ w.text = s.text /\ w.top = s.top + 1
      /\ w \in [text : [Paper -> Shown], top : 0 .. MaxTop + 5]
  BY CrtAssumption, MaxTopAssumption
<1>3. base \in Nat /\ w.top * CRT_COLS = base + CRT_COLS
  BY <1>1, <1>2, Rows
<1>4. Paper \subseteq Int
  BY DEF Paper
<1>5. /\ r.buf = [i \in Cells |-> IF i < CRT_SIZE - CRT_COLS
                                  THEN cells[i + CRT_COLS] ELSE Blank]
      /\ r.pos = p - CRT_COLS
      /\ r = [buf |-> r.buf, pos |-> r.pos]
  BY DEF Scroll
<1>b. s.top * CRT_COLS = base
  OBVIOUS
<1> HIDE DEF base, r, w
<1>6. r.buf \in [Cells -> Shown] /\ r.pos \in Cells
  <2>1. r.pos \in Cells
    BY <1>5, ScreenSizes
  <2>2. \A i \in Cells : i < CRT_SIZE - CRT_COLS => i + CRT_COLS \in Cells
    BY ScreenSizes
  <2> QED BY <2>1, <2>2, <1>5 DEF Shown
<1>7. Faithful(r, w)
  <2> SUFFICES ASSUME NEW i \in Paper
               PROVE  /\ i >= base + CRT_COLS /\ i < base + CRT_COLS + CRT_SIZE
                          => s.text[i] = r.buf[i - (base + CRT_COLS)]
                      /\ i >= base + CRT_COLS + CRT_SIZE => s.text[i] = Blank
    BY <1>2, <1>3 DEF Faithful
  <2>1. CASE i >= base + CRT_COLS /\ i < base + CRT_SIZE
    <3>1. /\ i - (base + CRT_COLS) \in Cells
          /\ i - (base + CRT_COLS) < CRT_SIZE - CRT_COLS
          /\ i - (base + CRT_COLS) + CRT_COLS = i - base
          /\ i >= base /\ ~(i >= base + CRT_COLS + CRT_SIZE)
      BY <2>1, <1>3, <1>4, ScreenSizes
    <3>2. s.text[i] = cells[i - base]
      BY <3>1, <2>1, <1>b DEF Faithful
    <3> QED BY <3>1, <3>2, <1>5
  <2>2. CASE i >= base + CRT_SIZE
    <3>1. s.text[i] = Blank
      BY <2>2, <1>b DEF Faithful
    <3>2. i < base + CRT_COLS + CRT_SIZE
            => r.buf[i - (base + CRT_COLS)] = Blank
      BY <1>5, <2>2, <1>3, <1>4, ScreenSizes
    <3> QED BY <3>1, <3>2
  <2>3. CASE i < base + CRT_COLS
    BY <2>3, <1>3, <1>4, ScreenSizes
  <2> QED BY <2>1, <2>2, <2>3, <1>3, <1>4, ScreenSizes
<1> QED BY <1>2, <1>5, <1>6, <1>7 DEF GoodScreen, Displays, r, w

\* A display whose cursor is on the screen does not scroll.
LEMMA NoScroll ==
    ASSUME NEW d \in Displays
    PROVE  Scroll(d) = d
<1>1. ~(d.pos >= CRT_SIZE)
  BY ScreenSizes DEF Displays
<1> QED BY <1>1 DEF Scroll

\* '\n': one row down, and a scroll exactly in the last row.
LEMMA LineFeedGood ==
    ASSUME NEW d, NEW s, GoodScreen(d, s, 4)
    PROVE  GoodScreen(Scroll(LineFeed(d)), Advance(s, d), 5)
<1> DEFINE p == d.pos + CRT_COLS
           n == p - (p % CRT_COLS)
<1>1. /\ d.pos \in Nat /\ d.pos < CRT_SIZE /\ d.buf \in [Cells -> Shown]
      /\ s \in [text : [Paper -> Shown], top : 0 .. MaxTop + 4]
      /\ Faithful(d, s) /\ MaxTop \in Nat
  BY ScreenSizes, CrtAssumption, MaxTopAssumption DEF GoodScreen, Displays
<1>2. LineFeed(d) = [buf |-> d.buf, pos |-> n]
  <2>1. [d EXCEPT !.pos = @ + CRT_COLS] = [buf |-> d.buf, pos |-> p]
    BY DEF GoodScreen, Displays
  <2> HIDE DEF p
  <2>2. LineFeed(d) = CarriageReturn([buf |-> d.buf, pos |-> p])
    BY <2>1 DEF LineFeed
  <2> QED BY <2>2 DEF CarriageReturn
<1>3. p \in Nat
  BY <1>1, ScreenSizes
<1>4. /\ p % CRT_COLS \in Nat /\ p % CRT_COLS <= p /\ p % CRT_COLS < CRT_COLS
      /\ p >= CRT_SIZE => n >= CRT_SIZE
  BY <1>3, RowStart
<1>5. n \in Nat /\ n < CRT_SIZE + CRT_COLS
  <2> HIDE DEF p
  <2>1. p < CRT_SIZE + CRT_COLS
    BY <1>1, ScreenSizes DEF p
  <2> QED BY <2>1, <1>3, <1>4, ScreenSizes
<1>6. CASE d.pos >= CRT_SIZE - CRT_COLS
  <2>1. n >= CRT_SIZE
    BY <1>1, <1>4, <1>6, ScreenSizes
  <2>2. Faithful([buf |-> d.buf, pos |-> n], s)
    BY <1>1 DEF Faithful
  <2>3. Advance(s, d) = [s EXCEPT !.top = @ + 1]
    BY <1>6 DEF Advance
  <2> HIDE DEF n
  <2> QED BY <1>1, <1>2, <1>5, <2>1, <2>2, <2>3, ScrollGood
<1>7. CASE ~(d.pos >= CRT_SIZE - CRT_COLS)
  <2>1. n \in Cells
    <3>1. p < CRT_SIZE
      BY <1>1, <1>7, ScreenSizes
    <3> HIDE DEF p
    <3> QED BY <3>1, <1>3, <1>4, <1>5, ScreenSizes
  <2> HIDE DEF n
  <2>2. LineFeed(d) \in Displays /\ Faithful(LineFeed(d), s)
    BY <1>1, <1>2, <2>1 DEF Displays, Faithful
  <2>3. Advance(s, d) = s
    BY <1>7 DEF Advance
  <2> QED BY <2>2, <2>3, <1>1, NoScroll DEF GoodScreen
<1> QED BY <1>6, <1>7

\* '\r': the start of the row.
LEMMA ReturnGood ==
    ASSUME NEW d, NEW s, GoodScreen(d, s, 5)
    PROVE  GoodScreen(Scroll(CarriageReturn(d)), s, 5)
<1> DEFINE n == d.pos - (d.pos % CRT_COLS)
<1>1. /\ d.pos \in Nat /\ d.pos < CRT_SIZE /\ d.buf \in [Cells -> Shown]
      /\ Faithful(d, s)
  BY ScreenSizes DEF GoodScreen, Displays
<1>2. CarriageReturn(d) = [buf |-> d.buf, pos |-> n]
  BY <1>1 DEF GoodScreen, Displays, CarriageReturn
<1>3. n \in Cells
  <2>1. d.pos % CRT_COLS \in Nat /\ d.pos % CRT_COLS <= d.pos
    BY <1>1, RowStart
  <2> QED BY <2>1, <1>1, ScreenSizes
<1> HIDE DEF n
<1>4. CarriageReturn(d) \in Displays /\ Faithful(CarriageReturn(d), s)
  BY <1>1, <1>2, <1>3 DEF Displays, Faithful
<1> QED BY <1>4, NoScroll DEF GoodScreen

\* '\b': the cell before the cursor, if there is one.
LEMMA BackSpaceGood ==
    ASSUME NEW d, NEW s, GoodScreen(d, s, 5)
    PROVE  GoodScreen(Scroll(BackSpace(d)), Erase(s, d), 5)
<1> DEFINE base == s.top * CRT_COLS
           b == BackSpace(d)
           e == Erase(s, d)
<1>1. /\ d \in Displays /\ d.pos \in Nat /\ d.pos < CRT_SIZE
      /\ d.buf \in [Cells -> Shown]
      /\ s \in [text : [Paper -> Shown], top : 0 .. MaxTop + 5]
      /\ s.text \in [Paper -> Shown] /\ s.top \in 0 .. MaxTop + 5
      /\ Faithful(d, s)
  BY ScreenSizes DEF GoodScreen, Displays
<1>2. CASE d.pos = 0
  BY <1>1, <1>2, NoScroll DEF BackSpace, Erase, GoodScreen
<1>3. CASE d.pos # 0
  <2> DEFINE q == d.pos - 1
  <2>1. q \in Cells /\ q \in Nat
    BY <1>1, <1>3, ScreenSizes
  <2>2. base \in Nat /\ base + q \in Paper /\ Paper \subseteq Int
    <3>1. base \in Nat /\ base + q \in Paper
      BY <1>1, <2>1, Rows
    <3> QED BY <3>1 DEF Paper
  <2>3. /\ b = [buf |-> b.buf, pos |-> q]
        /\ b.buf = [d.buf EXCEPT ![q] = Blank]
        /\ b.pos = q
    BY <1>1, <1>3 DEF BackSpace
  <2>4. /\ e.text = [s.text EXCEPT ![base + q] = Blank] /\ e.top = s.top
        /\ e \in [text : [Paper -> Shown], top : 0 .. MaxTop + 5]
    <3>0. Place(s, d) = base + d.pos
      BY DEF Place
    <3> HIDE DEF base
    <3>1. Place(s, d) - 1 = base + q
      BY <3>0, <1>1, <2>2
    <3> HIDE DEF q
    <3>2. e = [s EXCEPT !.text[base + q] = Blank]
      BY <1>3, <3>1 DEF Erase
    <3>3. Blank \in Shown
      BY DEF Shown
    <3> QED BY <1>1, <2>2, <3>2, <3>3
  <2>5. s.top * CRT_COLS = base
    OBVIOUS
  <2>6. d.pos = q + 1
    BY <1>1
  <2> HIDE DEF b, e, base, q
  <2>7. b \in Displays
    BY <1>1, <2>1, <2>3 DEF Displays, Shown
  <2>8. Faithful(b, e)
    <3> SUFFICES ASSUME NEW i \in Paper
                 PROVE  /\ i >= base /\ i < base + CRT_SIZE
                            => e.text[i] = b.buf[i - base]
                        /\ i >= base + CRT_SIZE => e.text[i] = Blank
      BY <2>4, <2>5 DEF Faithful
    <3>1. CASE i = base + q
      <4>1. i - base = q
        BY <3>1, <2>1, <2>2
      <4>2. e.text[i] = Blank /\ b.buf[q] = Blank
        BY <3>1, <1>1, <2>1, <2>2, <2>3, <2>4
      <4> QED BY <4>1, <4>2
    <3>2. CASE i # base + q
      <4>1. e.text[i] = s.text[i]
        BY <3>2, <1>1, <2>4
      <4>2. ASSUME i >= base, i < base + CRT_SIZE
            PROVE  b.buf[i - base] = d.buf[i - base]
        <5>1. i - base \in Cells /\ i - base # q
          BY <3>2, <4>2, <2>1, <2>2, ScreenSizes
        <5> QED BY <5>1, <1>1, <2>3
      <4> QED BY <4>1, <4>2, <1>1, <2>5 DEF Faithful
    <3> QED BY <3>1, <3>2
  <2> QED BY <2>4, <2>7, <2>8, NoScroll DEF GoodScreen, b, e
<1> QED BY <1>2, <1>3

\* '\t': five blanks, and no further scroll after them.
LEMMA TabGood ==
    ASSUME NEW d, NEW s, GoodScreen(d, s, 0)
    PROVE  GoodScreen(Scroll(Tab(d)), WriteTab(s, d), 5)
<1> DEFINE d1 == PutBlank(d)
           d2 == PutBlank(d1)
           d3 == PutBlank(d2)
           d4 == PutBlank(d3)
           d5 == PutBlank(d4)
           s1 == Write(s, d, Blank)
           s2 == Write(s1, d1, Blank)
           s3 == Write(s2, d2, Blank)
           s4 == Write(s3, d3, Blank)
           s5 == Write(s4, d4, Blank)
<1>0. Blank \in Shown
  BY DEF Shown
<1>a. Tab(d) = d5 /\ WriteTab(s, d) = s5
  BY DEF Tab, WriteTab
<1>s. ASSUME NEW k \in 0 .. 4, NEW x, NEW y, GoodScreen(x, y, k)
      PROVE  GoodScreen(PutBlank(x), Write(y, x, Blank), k + 1)
  BY <1>0, <1>s, GlyphGood DEF PutBlank
<1>1. GoodScreen(d1, s1, 1)
  <2>1. GoodScreen(d1, s1, 0 + 1)
    BY <1>s
  <2> QED BY <2>1
<1> HIDE DEF d1, s1
<1>2. GoodScreen(d2, s2, 2)
  <2>1. GoodScreen(d2, s2, 1 + 1)
    BY <1>s, <1>1
  <2> QED BY <2>1
<1> HIDE DEF d2, s2
<1>3. GoodScreen(d3, s3, 3)
  <2>1. GoodScreen(d3, s3, 2 + 1)
    BY <1>s, <1>2
  <2> QED BY <2>1
<1> HIDE DEF d3, s3
<1>4. GoodScreen(d4, s4, 4)
  <2>1. GoodScreen(d4, s4, 3 + 1)
    BY <1>s, <1>3
  <2> QED BY <2>1
<1> HIDE DEF d4, s4
<1>5. GoodScreen(d5, s5, 5)
  <2>1. GoodScreen(d5, s5, 4 + 1)
    BY <1>s, <1>4
  <2> QED BY <2>1
<1> HIDE DEF d5, s5
<1>6. d5 \in Displays
  BY <1>5 DEF GoodScreen
<1> QED BY <1>5, <1>6, <1>a, NoScroll

\* The switch of cga_putc takes the case it should.
LEMMA CharacterCases ==
    ASSUME NEW d
    PROVE  /\ cga_putc(d, BS) = Scroll(BackSpace(d))
           /\ cga_putc(d, NL) = Scroll(LineFeed(d))
           /\ cga_putc(d, CR) = Scroll(CarriageReturn(d))
           /\ cga_putc(d, TAB) = Scroll(Tab(d))
           /\ \A c \in Shown : cga_putc(d, c) = Scroll(Glyph(d, c))
<1>1. /\ BS # NL /\ BS # CR /\ BS # TAB /\ NL # CR /\ NL # TAB /\ CR # TAB
  BY DEF BS, NL, CR, TAB
<1>2. \A c \in Shown : c # BS /\ c # NL /\ c # CR /\ c # TAB
  <2>1. Blank # BS /\ Blank # NL /\ Blank # CR /\ Blank # TAB
    BY DEF Blank, BS, NL, CR, TAB
  <2> QED BY <2>1, GlyphsAssumption DEF Shown, Controls
<1> QED BY <1>1, <1>2 DEF cga_putc

\* The bound of GoodScreen grows with the rows that are out.
LEMMA WeakenScreen ==
    ASSUME NEW d, NEW s, NEW k \in 0 .. 5, GoodScreen(d, s, 5), s.top < MaxTop
    PROVE  GoodScreen(d, s, k)
BY CrtAssumption, MaxTopAssumption DEF GoodScreen

\* Every character keeps the invariant.
LEMMA TerminalNextGood ==
    ASSUME ScreenInv, [TerminalNext]_terminalVars
    PROVE  ScreenInv'
<1>1. ASSUME NEW c \in Shown, PutGlyph(c)
      PROVE  ScreenInv'
  <2>1. GoodScreen(screen, sheet, 4)
    BY <1>1, WeakenScreen DEF ScreenInv, PutGlyph, Room
  <2>2. GoodScreen(Scroll(Glyph(screen, c)), Write(sheet, screen, c), 4 + 1)
    BY <2>1, GlyphGood
  <2> QED BY <1>1, <2>2, CharacterCases DEF PutGlyph, ScreenInv
<1>2. ASSUME PutTab
      PROVE  ScreenInv'
  <2>1. GoodScreen(screen, sheet, 0)
    BY <1>2, WeakenScreen DEF ScreenInv, PutTab, Room
  <2> QED BY <1>2, <2>1, TabGood, CharacterCases DEF PutTab, ScreenInv
<1>3. ASSUME PutNewLine
      PROVE  ScreenInv'
  <2>1. GoodScreen(screen, sheet, 4)
    BY <1>3, WeakenScreen DEF ScreenInv, PutNewLine, Room
  <2> QED BY <1>3, <2>1, LineFeedGood, CharacterCases DEF PutNewLine, ScreenInv
<1>4. ASSUME PutReturn
      PROVE  ScreenInv'
  BY <1>4, ReturnGood, CharacterCases DEF PutReturn, ScreenInv
<1>5. ASSUME PutBackSpace
      PROVE  ScreenInv'
  BY <1>5, BackSpaceGood, CharacterCases DEF PutBackSpace, ScreenInv
<1>6. ASSUME UNCHANGED terminalVars
      PROVE  ScreenInv'
  BY <1>6 DEF terminalVars, ScreenInv
<1> QED BY <1>1, <1>2, <1>3, <1>4, <1>5, <1>6 DEF TerminalNext

\* The state cga_init finds satisfies the invariant.
LEMMA TerminalInitGood ==
    ASSUME TerminalInit
    PROVE  ScreenInv
<1>1. MaxTop \in Nat /\ CRT_COLS \in Nat
  BY CrtAssumption, MaxTopAssumption
<1>2. 0 * CRT_COLS = 0
  BY <1>1
<1>3. screen \in Displays /\ screen.buf \in [Cells -> Shown] /\ Blank \in Shown
  BY DEF TerminalInit, Displays, Shown
<1>4. sheet.top = 0 /\ sheet.text = [i \in Paper |->
            IF i \in Cells THEN screen.buf[i] ELSE Blank]
  BY DEF TerminalInit
<1>5. sheet \in [text : [Paper -> Shown], top : 0 .. MaxTop + 5]
  BY <1>1, <1>3 DEF TerminalInit
<1>6. Faithful(screen, sheet)
  <2> SUFFICES ASSUME NEW i \in Paper
               PROVE  /\ i >= 0 /\ i < 0 + CRT_SIZE
                          => sheet.text[i] = screen.buf[i - 0]
                      /\ i >= 0 + CRT_SIZE => sheet.text[i] = Blank
    BY <1>2, <1>4 DEF Faithful
  <2>1. i \in Int
    BY DEF Paper
  <2> QED BY <2>1, <1>4, ScreenSizes
<1> QED BY <1>3, <1>5, <1>6 DEF ScreenInv, GoodScreen

\* After every sequence of characters the invariant holds.
THEOREM TerminalInvariance == TerminalSpec => []ScreenInv
BY TerminalInitGood, TerminalNextGood, PTL DEF TerminalSpec

\* For every screen size, the cursor of cga_putc never leaves the screen.
THEOREM CursorOnScreen == TerminalSpec => []TerminalTypeOK
<1>1. ScreenInv => TerminalTypeOK
  BY DEF ScreenInv, GoodScreen, TerminalTypeOK, Sheets
<1> QED BY <1>1, TerminalInvariance, PTL

\* For every screen size and every text, the screen is a window of the paper.
THEOREM WindowOfPaper == TerminalSpec => []ScreenIsWindow
<1>1. ScreenInv => ScreenIsWindow
  <2> SUFFICES ASSUME ScreenInv, NEW i \in Cells
               PROVE  screen.buf[i] = sheet.text[sheet.top * CRT_COLS + i]
    BY DEF ScreenIsWindow
  <2> DEFINE base == sheet.top * CRT_COLS
  <2>1. sheet.top \in 0 .. MaxTop + 5 /\ Faithful(screen, sheet)
    BY DEF ScreenInv, GoodScreen
  <2>2. base \in Nat /\ base + i \in Paper
    BY <2>1, Rows
  <2>3. /\ base + i >= base /\ base + i < base + CRT_SIZE
        /\ base + i - base = i
    <3> HIDE DEF base
    <3> QED BY <2>2, ScreenSizes
  <2>4. sheet.top * CRT_COLS = base
    OBVIOUS
  <2> HIDE DEF base
  <2>5. \A j \in Paper : j >= base /\ j < base + CRT_SIZE
              => sheet.text[j] = screen.buf[j - base]
    BY <2>1, <2>4 DEF Faithful
  <2>6. PICK j \in Paper : j = base + i
    BY <2>2
  <2>7. j >= base /\ j < base + CRT_SIZE /\ j - base = i
    BY <2>2, <2>3, <2>6, ScreenSizes
  <2>8. sheet.text[j] = screen.buf[i]
    BY <2>5, <2>7
  <2> QED BY <2>4, <2>6, <2>8
<1> QED BY <1>1, TerminalInvariance, PTL

=============================================================================
