------------------------------ MODULE Keyboard -------------------------------
(***************************************************************************)
(* kbd_proc_data() of kern/console.c: the decoder that turns the scan codes *)
(* of the keyboard into characters, one byte a call.  Its whole memory is   *)
(* the static word shift: the modifiers held, the locks, and whether the    *)
(* last byte was the 0xE0 escape.                                           *)
(*                                                                          *)
(* The keyboard is external: a key sends its make code when it goes down    *)
(* and again while it is held, and the make code with 0x80 in its last byte *)
(* when it comes up.  down is the set of keys held; sent is the bytes on    *)
(* their way, each with the key and the event it belongs to, which the      *)
(* decoder does not see.  Bytes arrive in order and none is lost.           *)
(*                                                                          *)
(* Of the tables normalmap, shiftmap and ctlmap the model keeps one key of  *)
(* each kind: a letter, a digit, Enter, the keypad point, and Del, which    *)
(* differs from the point by the escape only.                               *)
(***************************************************************************)
EXTENDS Integers, Sequences, FiniteSets

CONSTANTS
    KeyNames,    \* the keys of the keyboard
    MaxDown,     \* bound: keys held together
    MaxSent      \* bound: bytes on their way

E0 == 224        \* 0xE0
Top == 128       \* 0x80

\* What a key sends when it goes down.
Make ==
    [LShift |-> <<42>>, RShift |-> <<54>>, LCtl |-> <<29>>,
     RCtl |-> <<E0, 29>>, LAlt |-> <<56>>, RAlt |-> <<E0, 56>>,
     Caps |-> <<58>>, A |-> <<30>>, One |-> <<2>>, Enter |-> <<28>>,
     Point |-> <<83>>, Del |-> <<E0, 83>>]

ASSUME KeyboardAssumption == KeyNames \subseteq DOMAIN Make

Break(k) == [Make[k] EXCEPT ![Len(Make[k])] = @ + Top]

\* The bits of shift; the locks that no character depends on are left out.
Modifiers == {"SHIFT", "CTL", "ALT"}
KeysOf == [SHIFT |-> {"LShift", "RShift"}, CTL |-> {"LCtl", "RCtl"},
           ALT |-> {"LAlt", "RAlt"}]

VARIABLES
    shift,       \* the static word of kbd_proc_data
    c,           \* what it returned: a character, or "0"
    reboot,      \* it has asked the machine to reboot
    down, sent,  \* the keyboard
    seen,        \* history: the keys held, by the bytes decoded so far
    crossed,     \* history: modifiers whose two keys have been held together
                 \* since they were both up
    locked,      \* history: Caps has been pressed an odd number of times
    last         \* history: the byte decoded last

history == <<seen, crossed, locked, last>>
vars == <<shift, c, reboot, down, sent, history>>

-----------------------------------------------------------------------------
\* The tables, by scan code.

shiftcode(data) ==
    CASE data \in {29, 157} -> {"CTL"}
      [] data \in {42, 54}  -> {"SHIFT"}
      [] data \in {56, 184} -> {"ALT"}
      [] OTHER -> {}

togglecode(data) == IF data = 58 THEN {"CAPSLOCK"} ELSE {}

normalmap(data) ==
    CASE data = 30 -> "a" [] data = 2 -> "1" [] data = 28 -> "\n"
      [] data = 83 -> "." [] data = 211 -> "KEY_DEL" [] OTHER -> "0"

shiftmap(data) ==
    CASE data = 30 -> "A" [] data = 2 -> "!" [] data = 28 -> "\n"
      [] data = 83 -> "." [] data = 211 -> "KEY_DEL" [] OTHER -> "0"

ctlmap(data) ==
    CASE data = 30 -> "C(A)" [] data = 28 -> "\r"
      [] data = 211 -> "KEY_DEL" [] OTHER -> "0"

\* charcode[shift & (CTL | SHIFT)][data]
charcode(s, data) ==
    IF "CTL" \in s THEN ctlmap(data)
    ELSE IF "SHIFT" \in s THEN shiftmap(data)
    ELSE normalmap(data)

SwapCase(ch) == CASE ch = "a" -> "A" [] ch = "A" -> "a" [] OTHER -> ch

SymDiff(s, t) == (s \ t) \cup (t \ s)

-----------------------------------------------------------------------------
\* Faulty variant: one of the two modifiers is enough.
Pressed_AnyModifier(s, data) ==
    LET s2 == SymDiff(s \cup shiftcode(data), togglecode(data))
        ch == charcode(s2, data)
    IN  [shift |-> s2,
         c |-> IF "CAPSLOCK" \in s2 THEN SwapCase(ch) ELSE ch,
         reboot |-> {"CTL", "ALT"} \cap s2 # {} /\ ch = "KEY_DEL"]

\* A key goes down: the modifiers, the locks, and the character.
Pressed(s, data) ==
    LET s2 == SymDiff(s \cup shiftcode(data), togglecode(data))
        ch == charcode(s2, data)
    IN  [shift |-> s2,
         c |-> IF "CAPSLOCK" \in s2 THEN SwapCase(ch) ELSE ch,
         reboot |-> {"CTL", "ALT"} \subseteq s2 /\ ch = "KEY_DEL"]

\* Faulty variant: the 0x80 of a break code is never taken off.
Released_KeepsTop(s, data) ==
    [shift |-> s \ (shiftcode(data) \cup {"E0ESC"}),
     c |-> "0", reboot |-> FALSE]

\* Faulty variant: the escape survives the key it belongs to.
Released_KeepsEscape(s, data) ==
    LET d == IF "E0ESC" \in s THEN data ELSE data - Top
    IN  [shift |-> s \ shiftcode(d), c |-> "0", reboot |-> FALSE]

\* A key comes up; an escaped code keeps its 0x80.
Released(s, data) ==
    LET d == IF "E0ESC" \in s THEN data ELSE data - Top
    IN  [shift |-> s \ (shiftcode(d) \cup {"E0ESC"}),
         c |-> "0", reboot |-> FALSE]

\* Faulty variant: the escape is dropped without the 0x80.
kbd_proc_data_IgnoresEscape(s, data) ==
    CASE data = E0 ->
            [shift |-> s \cup {"E0ESC"}, c |-> "0", reboot |-> FALSE]
      [] data # E0 /\ data >= Top -> Released(s, data)
      [] data < Top -> Pressed(s \ {"E0ESC"}, data)

kbd_proc_data(s, data) ==
    CASE data = E0 ->
            [shift |-> s \cup {"E0ESC"}, c |-> "0", reboot |-> FALSE]
      [] data # E0 /\ data >= Top -> Released(s, data)
      [] data < Top /\ "E0ESC" \in s -> Pressed(s \ {"E0ESC"}, data + Top)
      [] data < Top /\ "E0ESC" \notin s -> Pressed(s, data)

-----------------------------------------------------------------------------
Init ==
    /\ shift = {} /\ c = "0" /\ reboot = FALSE
    /\ down = {} /\ sent = <<>>
    /\ seen = {} /\ crossed = {} /\ locked = FALSE /\ last = 0

Send(k, code, up) ==
    /\ ~reboot /\ Len(sent) + Len(code) <= MaxSent
    /\ sent' = sent \o [n \in DOMAIN code |->
            [byte |-> code[n], key |-> k, up |-> up, final |-> n = Len(code)]]
    /\ UNCHANGED <<shift, c, reboot, history>>

\* A key goes down, or is held and repeats.
KeyDown(k) ==
    /\ k \in down \/ Cardinality(down) < MaxDown
    /\ down' = down \cup {k}
    /\ Send(k, Make[k], FALSE)

KeyUp(k) ==
    /\ k \in down
    /\ down' = down \ {k}
    /\ Send(k, Break(k), TRUE)

\* One call of kbd_proc_data with a byte to read.
Decode ==
    LET b == Head(sent)
        r == kbd_proc_data(shift, b.byte)
    IN  /\ ~reboot /\ sent # <<>>
        /\ sent' = Tail(sent)
        /\ shift' = r.shift /\ c' = r.c /\ reboot' = r.reboot
        /\ last' = b.byte
        /\ seen' = IF ~b.final THEN seen
                   ELSE IF b.up THEN seen \ {b.key} ELSE seen \cup {b.key}
        /\ crossed' = {m \in Modifiers :
                \/ KeysOf[m] \subseteq seen'
                \/ m \in crossed /\ KeysOf[m] \cap seen' # {}}
        /\ locked' = (locked # (b.key = "Caps" /\ ~b.up))
        /\ UNCHANGED down

Next ==
    \/ \E k \in KeyNames : KeyDown(k)
    \/ \E k \in KeyNames : KeyUp(k)
    \/ Decode

Spec == Init /\ [][Next]_vars

-----------------------------------------------------------------------------
Holds(m) == KeysOf[m] \cap seen # {}

TypeOK ==
    /\ shift \subseteq Modifiers \cup {"CAPSLOCK", "E0ESC"}
    /\ c \in {"0", "a", "A", "C(A)", "1", "!", ".", "\n", "\r", "KEY_DEL"}
    /\ reboot \in BOOLEAN
    /\ down \subseteq KeyNames /\ seen \subseteq KeyNames
    /\ Len(sent) <= MaxSent
    /\ crossed \subseteq Modifiers
    /\ locked \in BOOLEAN

\* No modifier is stuck: its bit is set only while one of its keys is held, in
\* whatever order keys go down, repeat and come up; and as long as the two
\* keys of a modifier are not held together, the bit is exact.
ModifiersFollowKeys ==
    \A m \in Modifiers :
        /\ m \in shift => Holds(m)
        /\ m \notin crossed => (m \in shift <=> Holds(m))

\* The escape is remembered for exactly one more byte.
EscapeIsTransient == "E0ESC" \in shift <=> last = E0

\* What the key k is expected to give.
Expected(k, ctl, shf, caps) ==
    CASE k = "A" -> IF ctl THEN "C(A)" ELSE IF shf # caps THEN "A" ELSE "a"
      [] k = "One" -> IF ctl THEN "0" ELSE IF shf THEN "!" ELSE "1"
      [] k = "Enter" -> IF ctl THEN "\r" ELSE "\n"
      [] k = "Point" -> IF ctl THEN "0" ELSE "."
      [] k = "Del" -> "KEY_DEL"
      [] OTHER -> "0"

CharacterGood ==
    Len(sent') < Len(sent) =>
        LET b == Head(sent)
        IN  b.final /\ ~b.up /\ crossed = {} =>
              c' = Expected(b.key, Holds("CTL"), Holds("SHIFT"), locked)

\* Each key gives its own character, by the modifiers held and the lock, once
\* its make code is complete; an escaped key is never taken for the plain key
\* with the same code, nor the other way round.
CharacterOfKey == [][CharacterGood]_vars

\* The machine reboots only for Ctrl-Alt-Del.
RebootOnlyByCtrlAltDel ==
    reboot => Holds("CTL") /\ Holds("ALT") /\ "Del" \in seen

=============================================================================
