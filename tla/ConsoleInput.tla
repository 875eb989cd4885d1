---------------------------- MODULE ConsoleInput -----------------------------
(***************************************************************************)
(* Console input of kern/console.c: the circular buffer cons, the loop of   *)
(* cons_intr() that fills it from a device, and cons_getc(), which polls    *)
(* the serial port, then the keyboard, and then takes one character.        *)
(*                                                                          *)
(* The devices go on receiving while the CPU polls, so one call of          *)
(* cons_getc() is a sequence of steps: pc says which of its three parts is  *)
(* running.  serial and kbd hold what serial_proc_data() and                *)
(* kbd_proc_data() will return, NUL where a scan code or a byte completes   *)
(* no character; a device that is full drops what arrives.                  *)
(*                                                                          *)
(* waiting and overrun are history variables: the characters cons_intr()    *)
(* has accepted and cons_getc() has not returned, and whether there have    *)
(* ever been CONSBUFSIZE of them.  The code tests neither.                  *)
(***************************************************************************)
EXTENDS Integers, Sequences

CONSTANTS
    CONSBUFSIZE,
    Chars,        \* the characters devices deliver
    NUL,          \* 0: no character
    DeviceSize,   \* bytes a device holds for the CPU
    MaxWaiting    \* bound: no more input once so many characters wait

ASSUME ConsoleAssumption ==
    /\ CONSBUFSIZE \in Nat \ {0}
    /\ NUL \notin Chars
    /\ DeviceSize \in Nat
    /\ MaxWaiting \in Nat

VARIABLES
    serial_exists, serial, kbd,    \* the devices
    buf, rpos, wpos,               \* cons
    pc, ret,                       \* cons_getc: where it is, what it returned
    waiting, overrun

devices == <<serial_exists, serial, kbd>>
cons == <<buf, rpos, wpos>>
vars == <<devices, cons, pc, ret, waiting, overrun>>

Positions == 0 .. CONSBUFSIZE - 1

Init ==
    /\ serial_exists \in BOOLEAN
    /\ serial = <<>> /\ kbd = <<>>
    /\ buf = [p \in Positions |-> NUL] /\ rpos = 0 /\ wpos = 0
    /\ pc = "serial"
    /\ ret = NUL
    /\ waiting = <<>> /\ overrun = FALSE

-----------------------------------------------------------------------------
\* The devices.

RoomFor(q) == Len(q) < DeviceSize /\ Len(waiting) + Len(q) < MaxWaiting

SerialReceives(c) ==
    /\ serial_exists /\ RoomFor(serial)
    /\ serial' = Append(serial, c)
    /\ UNCHANGED <<serial_exists, kbd, cons, pc, ret, waiting, overrun>>

KeyboardReceives(c) ==
    /\ RoomFor(kbd)
    /\ kbd' = Append(kbd, c)
    /\ UNCHANGED <<serial_exists, serial, cons, pc, ret, waiting, overrun>>

-----------------------------------------------------------------------------
\* The CPU.

\* Faulty variant: the wrap comes one position late.
Wrap_Late(p) == IF p > CONSBUFSIZE THEN 0 ELSE p

\* if (pos == CONSBUFSIZE) pos = 0, after pos++
Wrap(p) == IF p = CONSBUFSIZE THEN 0 ELSE p

\* Faulty variant: 0 is stored like any other value.
Store_Nul(c) ==
    /\ buf' = [buf EXCEPT ![wpos] = c]
    /\ wpos' = Wrap(wpos + 1)
    /\ waiting' = IF c = NUL THEN waiting ELSE Append(waiting, c)
    /\ overrun' = (overrun \/ Len(waiting') >= CONSBUFSIZE)

\* The body of the loop of cons_intr: 0 is skipped, anything else is stored,
\* full or not.
Store(c) ==
    IF c = NUL
    THEN UNCHANGED <<buf, wpos, waiting, overrun>>
    ELSE /\ buf' = [buf EXCEPT ![wpos] = c]
         /\ wpos' = Wrap(wpos + 1)
         /\ waiting' = Append(waiting, c)
         /\ overrun' = (overrun \/ Len(waiting') >= CONSBUFSIZE)

\* cons_intr(serial_proc_data), once around its loop.
SerialIntr ==
    /\ pc = "serial"
    /\ serial_exists /\ serial # <<>>
    /\ Store(Head(serial))
    /\ serial' = Tail(serial)
    /\ UNCHANGED <<serial_exists, kbd, rpos, pc, ret>>

SerialDone ==
    /\ pc = "serial"
    /\ ~serial_exists \/ serial = <<>>
    /\ pc' = "kbd"
    /\ UNCHANGED <<devices, cons, ret, waiting, overrun>>

\* cons_intr(kbd_proc_data), once around its loop.
KbdIntr ==
    /\ pc = "kbd"
    /\ kbd # <<>>
    /\ Store(Head(kbd))
    /\ kbd' = Tail(kbd)
    /\ UNCHANGED <<serial_exists, serial, rpos, pc, ret>>

KbdDone ==
    /\ pc = "kbd"
    /\ kbd = <<>>
    /\ pc' = "grab"
    /\ UNCHANGED <<devices, cons, ret, waiting, overrun>>

\* "grab the next character from the input buffer"
Grab ==
    /\ pc = "grab"
    /\ IF rpos # wpos
       THEN /\ ret' = buf[rpos]
            /\ rpos' = Wrap(rpos + 1)
            /\ waiting' = IF waiting = <<>> THEN <<>> ELSE Tail(waiting)
       ELSE /\ ret' = NUL
            /\ UNCHANGED <<rpos, waiting>>
    /\ pc' = "done"
    /\ UNCHANGED <<devices, buf, wpos, overrun>>

\* cons_getc() is called again.
Call ==
    /\ pc = "done"
    /\ pc' = "serial"
    /\ UNCHANGED <<devices, cons, ret, waiting, overrun>>

Receive ==
    \/ \E c \in Chars \cup {NUL} : SerialReceives(c)
    \/ \E c \in Chars \cup {NUL} : KeyboardReceives(c)

cons_getc == SerialIntr \/ SerialDone \/ KbdIntr \/ KbdDone \/ Grab

Next == Receive \/ cons_getc \/ Call

Spec == Init /\ [][Next]_vars

-----------------------------------------------------------------------------
TypeOK ==
    /\ serial_exists \in BOOLEAN
    /\ serial \in Seq(Chars \cup {NUL})
    /\ kbd \in Seq(Chars \cup {NUL})
    /\ buf \in [Positions -> Chars \cup {NUL}]
    /\ rpos \in Positions /\ wpos \in Positions
    /\ pc \in {"serial", "kbd", "grab", "done"}
    /\ ret \in Chars \cup {NUL}
    /\ waiting \in Seq(Chars)
    /\ overrun \in BOOLEAN

\* As long as fewer than CONSBUFSIZE characters have waited at any one time,
\* the buffer from rpos to wpos is exactly the characters that wait, in the
\* order they were accepted, across any number of wraps.
BufferHoldsWaiting ==
    ~overrun =>
        /\ wpos = (rpos + Len(waiting)) % CONSBUFSIZE
        /\ \A k \in 1 .. Len(waiting) :
            buf[(rpos + k - 1) % CONSBUFSIZE] = waiting[k]

\* Until then cons_getc returns "the next input character from the console,
\* or 0 if none waiting".
ReturnsNext ==
    [][pc = "grab" /\ pc' = "done" /\ ~overrun =>
        ret' = IF waiting = <<>> THEN NUL ELSE Head(waiting)]_vars

-----------------------------------------------------------------------------
\* The same without the condition, which is what the comment above cons_getc
\* says.  After CONSBUFSIZE characters rpos = wpos again, and the full buffer
\* looks empty.
ReturnsNextAlways ==
    [][pc = "grab" /\ pc' = "done" =>
        ret' = IF waiting = <<>> THEN NUL ELSE Head(waiting)]_vars

=============================================================================
