--------------------------- MODULE Keyboard_proofs ---------------------------
(*******************************************************************************)
(* kbd_proc_data for any keyboard, any number of keys held and any number      *)
(* of bytes on their way.                                                      *)
(*                                                                             *)
(* The properties relate the word shift to the keys whose codes have been      *)
(* decoded, and say nothing of the codes still on their way.  Inv adds         *)
(*   Stream  those codes are whole: an 0xE0 is followed by the byte it belongs *)
(*           to, and E0ESC is set exactly when that byte comes next.  A code   *)
(*           is therefore never decoded with the wrong table;                  *)
(*   Paired  a key comes up only after it went down, in the order of the       *)
(*           bytes.  A break code thus concerns a key that is held, and the    *)
(*           bit it clears is that key's bit;                                  *)
(*   Bit     a modifier's bit is exact until both of its keys were held at     *)
(*           once (crossed), and never set without one of them held.           *)
(* A make or break code has one or two bytes.  The lemmas on Sending and       *)
(* Follows append them to the stream, those on Decoded take one off; the       *)
(* tables of console.c enter through MakeCodes, Codes and Tables only.         *)
(*******************************************************************************)
EXTENDS Keyboard, SequenceTheorems, TLAPS

\* The codes of the keys: those sent after an escape, the last byte of the
\* make code, and what the tables are indexed with.
Extended == {"RCtl", "RAlt", "Del"}

Low(k) ==
    CASE k = "LShift" -> 42 [] k = "RShift" -> 54 [] k \in {"LCtl", "RCtl"} -> 29
      [] k \in {"LAlt", "RAlt"} -> 56 [] k = "Caps" -> 58 [] k = "A" -> 30
      [] k = "One" -> 2 [] k = "Enter" -> 28 [] k \in {"Point", "Del"} -> 83

Code(k) == IF k \in Extended THEN Low(k) + Top ELSE Low(k)

AllKeys == {"LShift", "RShift", "LCtl", "RCtl", "LAlt", "RAlt", "Caps", "A",
            "One", "Enter", "Point", "Del"}

Mods(k) ==
    CASE k \in {"LShift", "RShift"} -> {"SHIFT"}
      [] k \in {"LCtl", "RCtl"} -> {"CTL"}
      [] k \in {"LAlt", "RAlt"} -> {"ALT"}
      [] OTHER -> {}

Locks(k) == IF k = "Caps" THEN {"CAPSLOCK"} ELSE {}

\* Every key of the model has a make code.
LEMMA KeyDomain == KeyNames \subseteq AllKeys
<1>1. DOMAIN Make = AllKeys
  BY DEF Make, AllKeys
<1> QED BY <1>1, KeyboardAssumption

\* A make code is one byte, or the escape and one byte.
LEMMA MakeCodes ==
    ASSUME NEW k \in AllKeys
    PROVE  /\ Make[k] = IF k \in Extended THEN <<E0, Low(k)>> ELSE <<Low(k)>>
           /\ Low(k) \in 1 .. 83
BY DEF Make, AllKeys, Extended, Low, E0

\* What the tables of console.c are indexed with for each key.
LEMMA Codes ==
    ASSUME NEW k \in AllKeys
    PROVE  /\ k = "LShift" => Code(k) = 42
           /\ k = "RShift" => Code(k) = 54
           /\ k = "LCtl" => Code(k) = 29
           /\ k = "RCtl" => Code(k) = 157
           /\ k = "LAlt" => Code(k) = 56
           /\ k = "RAlt" => Code(k) = 184
           /\ k = "Caps" => Code(k) = 58
           /\ k = "A" => Code(k) = 30
           /\ k = "One" => Code(k) = 2
           /\ k = "Enter" => Code(k) = 28
           /\ k = "Point" => Code(k) = 83
           /\ k = "Del" => Code(k) = 211
BY DEF AllKeys, Code, Extended, Low, Top

\* What those tables hold there: modifiers, locks, and who is KEY_DEL.
LEMMA Tables ==
    ASSUME NEW k \in AllKeys
    PROVE  /\ shiftcode(Code(k)) = Mods(k)
           /\ togglecode(Code(k)) = Locks(k)
           /\ normalmap(Code(k)) = "KEY_DEL" => k = "Del"
           /\ shiftmap(Code(k)) = "KEY_DEL" => k = "Del"
           /\ ctlmap(Code(k)) = "KEY_DEL" => k = "Del"
<1>1. shiftcode(Code(k)) = Mods(k)
  BY Codes DEF AllKeys, shiftcode, Mods
<1>2. togglecode(Code(k)) = Locks(k)
  BY Codes DEF AllKeys, togglecode, Locks
<1>3. normalmap(Code(k)) = "KEY_DEL" => k = "Del"
  BY Codes DEF AllKeys, normalmap
<1>4. shiftmap(Code(k)) = "KEY_DEL" => k = "Del"
  BY Codes DEF AllKeys, shiftmap
<1>5. ctlmap(Code(k)) = "KEY_DEL" => k = "Del"
  BY Codes DEF AllKeys, ctlmap
<1> QED BY <1>1, <1>2, <1>3, <1>4, <1>5

\* The modifiers of a key, and the keys of a modifier.
LEMMA ModKeys ==
    ASSUME NEW k \in AllKeys, NEW m \in Modifiers
    PROVE  m \in Mods(k) <=> k \in KeysOf[m]
BY DEF AllKeys, Modifiers, Mods, KeysOf

-----------------------------------------------------------------------------
\* A byte on its way: the escape of an extended key, or the last byte of a
\* make or break code.
Byte(b) ==
    /\ b.key \in AllKeys /\ b.up \in BOOLEAN /\ b.final \in BOOLEAN
    /\ b.byte = IF b.final THEN IF b.up THEN Low(b.key) + Top ELSE Low(b.key)
                ELSE E0
    /\ ~b.final => b.key \in Extended

\* The byte that the decoder has to see with E0ESC set, and no other.
Second(b) == b.final /\ b.key \in Extended

\* kbd_proc_data on an 0xE0 byte.
LEMMA DecodeEscape ==
    ASSUME NEW s, NEW b, Byte(b), ~b.final,
           NEW r, r = kbd_proc_data(s, b.byte)
    PROVE  r.shift = s \cup {"E0ESC"} /\ r.c = "0" /\ r.reboot = FALSE /\ b.byte = E0
<1>1. b.byte = E0
  BY DEF Byte
<1>2. r = [shift |-> s \cup {"E0ESC"}, c |-> "0", reboot |-> FALSE]
  BY <1>1 DEF kbd_proc_data, E0, Top
<1> QED BY <1>1, <1>2

LetGo(r, s, k) ==
    /\ r.shift = s \ (Mods(k) \cup {"E0ESC"})
    /\ r.c = "0" /\ r.reboot = FALSE

\* kbd_proc_data on the last byte of a break code.
LEMMA DecodeUp ==
    ASSUME NEW s, NEW b, Byte(b), b.final, b.up,
           "E0ESC" \in s <=> b.key \in Extended,
           NEW r, r = kbd_proc_data(s, b.byte)
    PROVE  LetGo(r, s, b.key) /\ b.byte # E0
<1>0. b.key \in AllKeys
  BY DEF Byte
<1>1. b.byte = Low(b.key) + Top /\ Low(b.key) \in 1 .. 83
  BY <1>0, MakeCodes DEF Byte
<1>2. b.byte # E0 /\ b.byte >= Top /\ ~(b.byte < Top) /\ b.byte - Top = Low(b.key)
  BY <1>1 DEF E0, Top
<1>3. r = Released(s, b.byte)
  BY <1>2 DEF kbd_proc_data
<1>4. (IF "E0ESC" \in s THEN b.byte ELSE b.byte - Top) = Code(b.key)
  BY <1>1, <1>2 DEF Code
<1>5. r = [shift |-> s \ (shiftcode(Code(b.key)) \cup {"E0ESC"}),
           c |-> "0", reboot |-> FALSE]
  BY <1>3, <1>4 DEF Released
<1>6. shiftcode(Code(b.key)) = Mods(b.key)
  BY <1>0, Tables
<1> QED BY <1>2, <1>5, <1>6 DEF LetGo

\* kbd_proc_data on the last byte of a make code.
LEMMA DecodeDown ==
    ASSUME NEW s, NEW b, Byte(b), b.final, ~b.up,
           "E0ESC" \in s <=> b.key \in Extended,
           NEW r, r = kbd_proc_data(s, b.byte)
    PROVE  r = Pressed(s \ {"E0ESC"}, Code(b.key)) /\ b.byte # E0
<1>0. b.key \in AllKeys
  BY DEF Byte
<1>1. b.byte = Low(b.key) /\ Low(b.key) \in 1 .. 83
  BY <1>0, MakeCodes DEF Byte
<1>2. b.byte # E0 /\ ~(b.byte >= Top) /\ b.byte < Top
  BY <1>1 DEF E0, Top
<1>3. CASE "E0ESC" \in s
  <2>1. r = Pressed(s \ {"E0ESC"}, b.byte + Top)
    BY <1>2, <1>3 DEF kbd_proc_data
  <2>2. b.byte + Top = Code(b.key)
    BY <1>1, <1>3 DEF Code
  <2> QED BY <1>2, <2>1, <2>2
<1>4. CASE "E0ESC" \notin s
  <2>1. r = Pressed(s, b.byte)
    BY <1>2, <1>4 DEF kbd_proc_data
  <2>2. b.byte = Code(b.key) /\ s \ {"E0ESC"} = s
    BY <1>1, <1>4 DEF Code
  <2> QED BY <1>2, <2>1, <2>2
<1> QED BY <1>3, <1>4

\* The bits after a make code, and the reboot.
LEMMA PressedBits ==
    ASSUME NEW s, NEW k \in AllKeys, "E0ESC" \notin s,
           NEW r, r = Pressed(s, Code(k))
    PROVE  /\ \A m \in Modifiers : m \in r.shift <=> m \in s \/ m \in Mods(k)
           /\ "E0ESC" \notin r.shift
           /\ "CAPSLOCK" \in r.shift <=> ("CAPSLOCK" \in s) # (k = "Caps")
           /\ r.reboot \in BOOLEAN
           /\ r.reboot => k = "Del" /\ "CTL" \in r.shift /\ "ALT" \in r.shift
<1> DEFINE t == SymDiff(s \cup Mods(k), Locks(k))
<1>1. t = SymDiff(s \cup shiftcode(Code(k)), togglecode(Code(k)))
  BY Tables
<1> HIDE DEF t
<1>2. /\ r.shift = t
      /\ r.reboot = ({"CTL", "ALT"} \subseteq t /\ charcode(t, Code(k)) = "KEY_DEL")
  BY <1>1 DEF Pressed
<1>3. \A m \in Modifiers : m \in t <=> m \in s \/ m \in Mods(k)
  BY DEF t, SymDiff, Locks, Modifiers, Mods, AllKeys
<1>4. "E0ESC" \notin t
  BY DEF t, SymDiff, Locks, Mods, AllKeys
<1>5. "CAPSLOCK" \in t <=> ("CAPSLOCK" \in s) # (k = "Caps")
  <2>1. "CAPSLOCK" \notin Mods(k)
    BY DEF Mods, AllKeys
  <2> QED BY <2>1 DEF t, SymDiff, Locks
<1>6. charcode(t, Code(k)) = "KEY_DEL" => k = "Del"
  BY Tables DEF charcode
<1> QED BY <1>2, <1>3, <1>4, <1>5, <1>6

\* The character of a make code.
LEMMA PressedChar ==
    ASSUME NEW s, NEW k \in AllKeys, "E0ESC" \notin s,
           NEW r, r = Pressed(s, Code(k))
    PROVE  r.c = Expected(k, "CTL" \in s, "SHIFT" \in s, "CAPSLOCK" \in s)
<1> DEFINE t == SymDiff(s \cup Mods(k), Locks(k))
           ch == charcode(t, Code(k))
<1>1. t = SymDiff(s \cup shiftcode(Code(k)), togglecode(Code(k)))
  BY Tables
<1>2. r.c = IF "CAPSLOCK" \in t THEN SwapCase(ch) ELSE ch
  <2> HIDE DEF t
  <2> QED BY <1>1 DEF Pressed
<1>3. CASE k \in {"A", "One", "Enter", "Point", "Del"}
  <2>1. t = s
    BY <1>3 DEF SymDiff, Mods, Locks
  <2> HIDE DEF t
  <2>2. CASE k = "A"
    BY <1>2, <2>1, <2>2, Codes DEF Expected, charcode, SwapCase, normalmap, shiftmap, ctlmap
  <2>3. CASE k = "One"
    BY <1>2, <2>1, <2>3, Codes DEF Expected, charcode, SwapCase, normalmap, shiftmap, ctlmap
  <2>4. CASE k = "Enter"
    BY <1>2, <2>1, <2>4, Codes DEF Expected, charcode, SwapCase, normalmap, shiftmap, ctlmap
  <2>5. CASE k = "Point"
    BY <1>2, <2>1, <2>5, Codes DEF Expected, charcode, SwapCase, normalmap, shiftmap, ctlmap
  <2>6. CASE k = "Del"
    BY <1>2, <2>1, <2>6, Codes DEF Expected, charcode, SwapCase, normalmap, shiftmap, ctlmap
  <2> QED BY <1>3, <2>2, <2>3, <2>4, <2>5, <2>6
<1>4. CASE k \notin {"A", "One", "Enter", "Point", "Del"}
  <2> HIDE DEF t
  <2>1. Code(k) \in {42, 54, 29, 157, 56, 184, 58}
    BY <1>4, Codes DEF AllKeys
  <2>2. ch = "0"
    BY <2>1 DEF charcode, normalmap, shiftmap, ctlmap
  <2>3. r.c = "0"
    BY <1>2, <2>2 DEF SwapCase
  <2>4. Expected(k, "CTL" \in s, "SHIFT" \in s, "CAPSLOCK" \in s) = "0"
    BY <1>4 DEF Expected
  <2> QED BY <2>3, <2>4
<1> QED BY <1>3, <1>4

-----------------------------------------------------------------------------
\* The inductive invariant.

Bytes == [byte : Nat, key : AllKeys, up : BOOLEAN, final : BOOLEAN]

\* The codes on their way are whole, but for the first one when its escape
\* has been decoded already.
Stream(q, s) ==
    /\ q \in Seq(Bytes)
    /\ \A i \in DOMAIN q : Byte(q[i])
    /\ \A i \in DOMAIN q : i # 1 => (Second(q[i]) <=> ~q[i - 1].final)
    /\ q # <<>> => q[Len(q)].final /\ (Second(q[1]) <=> "E0ESC" \in s)
    /\ q = <<>> => "E0ESC" \notin s

\* Key x is held once the first i bytes have been decoded.
Presses(b, x) == b.final /\ ~b.up /\ b.key = x
Releases(b, x) == b.final /\ b.up /\ b.key = x

HeldAfter(q, sn, x, i) ==
    \/ /\ x \in sn
       /\ \A l \in 1 .. i : ~Releases(q[l], x)
    \/ \E j \in 1 .. i : /\ Presses(q[j], x)
                         /\ \A l \in j + 1 .. i : ~Releases(q[l], x)

\* A key comes up only after it went down.
Paired(q, sn, dn) ==
    /\ \A i \in DOMAIN q : \A x \in AllKeys :
        Releases(q[i], x) => HeldAfter(q, sn, x, i - 1)
    /\ dn \subseteq AllKeys
    /\ \A x \in dn : HeldAfter(q, sn, x, Len(q))

\* The bit of a modifier, its keys and the history of its crossing.
Bit(m, sh, sn, cr) ==
    /\ m \in sh => KeysOf[m] \cap sn # {}
    /\ m \notin cr => (m \in sh <=> KeysOf[m] \cap sn # {})
    /\ KeysOf[m] \subseteq sn => m \in cr

Inv ==
    /\ Stream(sent, shift)
    /\ Paired(sent, seen, down)
    /\ \A m \in Modifiers : Bit(m, shift, seen, crossed)
    /\ locked \in BOOLEAN
    /\ "CAPSLOCK" \in shift <=> locked
    /\ EscapeIsTransient
    /\ RebootOnlyByCtrlAltDel

-----------------------------------------------------------------------------
\* The bytes that one event of key x sends.
SentFor(b, x, up) == b \in Bytes /\ Byte(b) /\ b.key = x /\ b.up = up

Whole(cs, x, up) ==
    /\ cs \in Seq(Bytes) /\ Len(cs) = IF x \in Extended THEN 2 ELSE 1
    /\ \A i \in 1 .. Len(cs) : SentFor(cs[i], x, up)
    /\ cs[Len(cs)].final
    /\ Len(cs) = 2 => ~cs[1].final

SentByte(code, x, up, n) ==
    [byte |-> code[n], key |-> x, up |-> up, final |-> n = Len(code)]

Sending(code, x, up) == [n \in DOMAIN code |-> SentByte(code, x, up, n)]

\* The fields of a byte's record.
LEMMA Fields ==
    ASSUME NEW v, NEW x, NEW up, NEW f, NEW b,
           b = [byte |-> v, key |-> x, up |-> up, final |-> f]
    PROVE  b.byte = v /\ b.key = x /\ b.up = up /\ b.final = f
OBVIOUS

\* Zenon is named where the fields up and final are looked into.
LEMMA LastByte ==
    ASSUME NEW x \in AllKeys, NEW up \in BOOLEAN, NEW code, NEW n, n = Len(code),
           code[n] \in Nat, code[n] = IF up THEN Low(x) + Top ELSE Low(x),
           NEW b, b = SentByte(code, x, up, n)
    PROVE  SentFor(b, x, up) /\ b.final
<1>0. (n = Len(code)) = TRUE
  OBVIOUS
<1>1. b = [byte |-> code[n], key |-> x, up |-> up, final |-> TRUE]
  BY <1>0, Zenon DEF SentByte
<1>2. b.byte = code[n] /\ b.key = x /\ b.up = up /\ b.final = TRUE
  BY <1>1, Fields
<1>3. b \in Bytes
  BY <1>1 DEF Bytes
<1>4. Byte(b)
  BY <1>2, Zenon DEF Byte
<1> QED BY <1>2, <1>3, <1>4, Zenon DEF SentFor

\* The first byte sent for an extended key is the escape.
LEMMA EscapeByte ==
    ASSUME NEW x \in AllKeys, x \in Extended, NEW up \in BOOLEAN, NEW code, NEW n,
           n # Len(code), code[n] \in Nat, code[n] = E0,
           NEW b, b = SentByte(code, x, up, n)
    PROVE  SentFor(b, x, up) /\ ~b.final
<1>0. (n = Len(code)) = FALSE
  OBVIOUS
<1>1. b = [byte |-> code[n], key |-> x, up |-> up, final |-> FALSE]
  BY <1>0, Zenon DEF SentByte
<1>2. b.byte = code[n] /\ b.key = x /\ b.up = up /\ b.final = FALSE
  BY <1>1, Fields
<1>3. b \in Bytes
  BY <1>1 DEF Bytes
<1>4. Byte(b)
  BY <1>2, Zenon DEF Byte
<1> QED BY <1>2, <1>3, <1>4, Zenon DEF SentFor

\* A function on 1 .. n is a sequence of length n.
LEMMA SeqOf ==
    ASSUME NEW n \in Nat, NEW S, NEW f \in [1 .. n -> S]
    PROVE  f \in Seq(S) /\ Len(f) = n
OBVIOUS

\* What is sent for a key going down or up is one whole code.
LEMMA SendingWhole ==
    ASSUME NEW x \in AllKeys, NEW up \in BOOLEAN,
           NEW z, z = IF up THEN Low(x) + Top ELSE Low(x),
           NEW code, code = IF x \in Extended THEN <<E0, z>> ELSE <<z>>
    PROVE  Whole(Sending(code, x, up), x, up)
<1> DEFINE cs == Sending(code, x, up)
<1>0. Low(x) \in 1 .. 83
  BY MakeCodes
<1>1. z \in Nat /\ E0 \in Nat
  BY <1>0 DEF Top, E0
<1>2. CASE x \in Extended
  <2>1. /\ code = <<E0, z>> /\ Len(code) = 2 /\ DOMAIN code = 1 .. 2
        /\ code[1] = E0 /\ code[2] = z
    BY <1>2
  <2> DEFINE b1 == SentByte(code, x, up, 1)
             b2 == SentByte(code, x, up, 2)
  <2>3. SentFor(b1, x, up) /\ ~b1.final
    <3>1. 1 # Len(code)
      BY <2>1
    <3> QED BY <1>1, <1>2, <2>1, <3>1, EscapeByte
  <2>4. SentFor(b2, x, up) /\ b2.final
    <3>1. 2 = Len(code)
      BY <2>1
    <3> QED BY <1>1, <2>1, <3>1, LastByte
  <2>5. cs = [n \in 1 .. 2 |-> SentByte(code, x, up, n)]
    BY <2>1 DEF Sending
  <2> HIDE DEF b1, b2
  <2>6. cs \in [1 .. 2 -> Bytes] /\ cs[1] = b1 /\ cs[2] = b2
    <3>1. \A n \in 1 .. 2 : n = 1 \/ n = 2
      OBVIOUS
    <3>2. \A n \in 1 .. 2 : SentByte(code, x, up, n) \in Bytes
      BY <2>3, <2>4, <3>1 DEF b1, b2, SentFor
    <3>3. cs[1] = b1 /\ cs[2] = b2
      BY <2>5 DEF b1, b2
    <3> QED BY <2>5, <3>2, <3>3
  <2> HIDE DEF cs
  <2>7. cs \in Seq(Bytes) /\ Len(cs) = 2
    BY <2>6, SeqOf
  <2>8. \A i \in 1 .. 2 : i = 1 \/ i = 2
    OBVIOUS
  <2>9. Whole(cs, x, up)
    BY <1>2, <2>3, <2>4, <2>6, <2>7, <2>8 DEF Whole
  <2> QED BY <2>9 DEF cs
<1>3. CASE x \notin Extended
  <2>1. code = <<z>> /\ Len(code) = 1 /\ DOMAIN code = 1 .. 1 /\ code[1] = z
    BY <1>3
  <2> DEFINE b1 == SentByte(code, x, up, 1)
  <2>4. SentFor(b1, x, up) /\ b1.final
    <3>1. 1 = Len(code)
      BY <2>1
    <3> QED BY <1>1, <2>1, <3>1, LastByte
  <2>5. cs = [n \in 1 .. 1 |-> SentByte(code, x, up, n)]
    BY <2>1 DEF Sending
  <2> HIDE DEF b1
  <2>6. cs \in [1 .. 1 -> Bytes] /\ cs[1] = b1
    <3>1. \A n \in 1 .. 1 : n = 1
      OBVIOUS
    <3>2. \A n \in 1 .. 1 : SentByte(code, x, up, n) \in Bytes
      BY <2>4, <3>1 DEF b1, SentFor
    <3>3. cs[1] = b1
      BY <2>5 DEF b1
    <3> QED BY <2>5, <3>2, <3>3
  <2> HIDE DEF cs
  <2>7. cs \in Seq(Bytes) /\ Len(cs) = 1
    BY <2>6, SeqOf
  <2>8. \A i \in 1 .. 1 : i = 1
    OBVIOUS
  <2>9. Whole(cs, x, up)
    BY <1>3, <2>4, <2>6, <2>7, <2>8 DEF Whole
  <2> QED BY <2>9 DEF cs
<1> QED BY <1>2, <1>3

\* A break code is the make code with the high bit set.
LEMMA BreakCodes ==
    ASSUME NEW x \in AllKeys
    PROVE  Break(x) = IF x \in Extended THEN <<E0, Low(x) + Top>> ELSE <<Low(x) + Top>>
<1>1. CASE x \in Extended
  <2>1. Make[x] = <<E0, Low(x)>>
    BY <1>1, MakeCodes
  <2> QED BY <1>1, <2>1 DEF Break
<1>2. CASE x \notin Extended
  <2>1. Make[x] = <<Low(x)>>
    BY <1>2, MakeCodes
  <2> QED BY <1>2, <2>1 DEF Break
<1> QED BY <1>1, <1>2

\* t continues q.
Extends(t, q, n) ==
    /\ Len(t) = Len(q) + n
    /\ \A i \in 1 .. Len(q) : t[i] = q[i]

Follows(t, q, cs) ==
    /\ t \in Seq(Bytes)
    /\ Extends(t, q, Len(cs))
    /\ \A i \in 1 .. Len(cs) : t[Len(q) + i] = cs[i]

\* The elements of a queue with a code appended.
LEMMA Appended ==
    ASSUME NEW q \in Seq(Bytes), NEW cs \in Seq(Bytes)
    PROVE  Follows(q \o cs, q, cs)
<1>1. /\ Len(q) \in Nat /\ Len(cs) \in Nat
      /\ q \o cs \in Seq(Bytes) /\ Len(q \o cs) = Len(q) + Len(cs)
      /\ \A i \in 1 .. Len(q) + Len(cs) :
            (q \o cs)[i] = IF i <= Len(q) THEN q[i] ELSE cs[i - Len(q)]
  BY ConcatProperties
<1>2. ASSUME NEW i \in 1 .. Len(q) PROVE (q \o cs)[i] = q[i]
  <2>1. i \in 1 .. Len(q) + Len(cs) /\ i <= Len(q)
    BY <1>1
  <2> QED BY <1>1, <2>1
<1>3. ASSUME NEW i \in 1 .. Len(cs) PROVE (q \o cs)[Len(q) + i] = cs[i]
  <2>1. /\ Len(q) + i \in 1 .. Len(q) + Len(cs) /\ ~(Len(q) + i <= Len(q))
        /\ (Len(q) + i) - Len(q) = i
    BY <1>1
  <2> QED BY <1>1, <2>1
<1> QED BY <1>1, <1>2, <1>3 DEF Follows, Extends

\* Appending a whole code keeps the queue a stream of whole codes.
LEMMA SentStream ==
    ASSUME NEW q, NEW s, Stream(q, s), NEW cs, NEW x \in AllKeys, NEW up \in BOOLEAN,
           Whole(cs, x, up), NEW t, Follows(t, q, cs)
    PROVE  Stream(t, s)
<1>1. /\ q \in Seq(Bytes) /\ Len(q) \in Nat /\ DOMAIN q = 1 .. Len(q)
      /\ t \in Seq(Bytes) /\ DOMAIN t = 1 .. Len(q) + Len(cs)
      /\ Len(t) = Len(q) + Len(cs) /\ Len(cs) \in {1, 2}
      /\ \A i \in 1 .. Len(q) : t[i] = q[i]
      /\ \A i \in 1 .. Len(cs) : t[Len(q) + i] = cs[i]
  BY DEF Stream, Follows, Extends, Whole
<1>2. ~Second(cs[1]) /\ Byte(cs[1])
  <2>1. SentFor(cs[1], x, up)
    BY <1>1 DEF Whole
  <2>2. Len(cs) = 1 => x \notin Extended
    BY DEF Whole
  <2>3. Len(cs) = 2 => ~cs[1].final
    BY DEF Whole
  <2> QED BY <1>1, <2>1, <2>2, <2>3 DEF SentFor, Second
<1>3. Len(cs) = 2 => ~cs[1].final /\ Second(cs[2]) /\ Byte(cs[2])
  <2> SUFFICES ASSUME Len(cs) = 2 PROVE ~cs[1].final /\ Second(cs[2]) /\ Byte(cs[2])
    OBVIOUS
  <2>1. SentFor(cs[2], x, up) /\ x \in Extended /\ ~cs[1].final /\ cs[2].final
    BY DEF Whole
  <2> QED BY <2>1 DEF SentFor, Second
<1>4. cs[Len(cs)].final
  BY <1>1 DEF Whole
<1>5. \A i \in DOMAIN t : \/ i \in DOMAIN q /\ t[i] = q[i]
                          \/ i = Len(q) + 1 /\ t[i] = cs[1]
                          \/ i = Len(q) + 2 /\ Len(cs) = 2 /\ t[i] = cs[2]
  <2> SUFFICES ASSUME NEW i \in DOMAIN t
               PROVE  \/ i \in DOMAIN q /\ t[i] = q[i]
                      \/ i = Len(q) + 1 /\ t[i] = cs[1]
                      \/ i = Len(q) + 2 /\ Len(cs) = 2 /\ t[i] = cs[2]
    OBVIOUS
  <2>1. i \in 1 .. Len(q) \/ i = Len(q) + 1 \/ (i = Len(q) + 2 /\ Len(cs) = 2)
    <3>1. CASE Len(cs) = 1
      BY <1>1, <3>1
    <3>2. CASE Len(cs) = 2
      BY <1>1, <3>2
    <3> QED BY <1>1, <3>1, <3>2
  <2>2. CASE Len(cs) = 1
    BY <1>1, <2>1, <2>2
  <2>3. CASE Len(cs) = 2
    <3>1. 1 \in 1 .. Len(cs) /\ 2 \in 1 .. Len(cs)
      BY <2>3
    <3> QED BY <1>1, <2>1, <2>3, <3>1
  <2> QED BY <1>1, <2>2, <2>3
<1>6. \A i \in DOMAIN t : Byte(t[i])
  BY <1>2, <1>3, <1>5 DEF Stream
<1>7. ASSUME NEW i \in DOMAIN t, i # 1
      PROVE  Second(t[i]) <=> ~t[i - 1].final
  <2>1. CASE i \in DOMAIN q /\ t[i] = q[i]
    <3>1. i - 1 \in 1 .. Len(q)
      BY <1>1, <1>7, <2>1
    <3> QED BY <1>1, <1>7, <2>1, <3>1 DEF Stream
  <2>2. CASE i = Len(q) + 1 /\ t[i] = cs[1]
    <3>1. q # <<>> /\ i - 1 = Len(q) /\ Len(q) \in 1 .. Len(q)
      BY <1>1, <1>7, <2>2
    <3>2. t[i - 1].final
      BY <1>1, <3>1 DEF Stream
    <3> QED BY <1>2, <2>2, <3>2
  <2>3. CASE i = Len(q) + 2 /\ Len(cs) = 2 /\ t[i] = cs[2]
    <3>1. i - 1 = Len(q) + 1 /\ 1 \in 1 .. Len(cs)
      BY <1>1, <2>3
    <3>2. t[i - 1] = cs[1]
      BY <1>1, <3>1
    <3> QED BY <1>3, <2>3, <3>2
  <2> QED BY <1>5, <2>1, <2>2, <2>3
<1>8. t[Len(t)].final
  <2>1. Len(cs) \in 1 .. Len(cs)
    BY <1>1
  <2> QED BY <1>1, <1>4, <2>1
<1>9. Second(t[1]) <=> "E0ESC" \in s
  <2>1. CASE q = <<>>
    <3>1. t[1] = cs[1]
      <4>1. Len(q) + 1 = 1 /\ 1 \in 1 .. Len(cs)
        BY <1>1, <2>1
      <4> QED BY <1>1, <4>1
    <3> QED BY <1>2, <2>1, <3>1 DEF Stream
  <2>2. CASE q # <<>>
    <3>1. 1 \in 1 .. Len(q)
      BY <1>1, <2>2
    <3> QED BY <1>1, <2>2, <3>1 DEF Stream
  <2> QED BY <2>1, <2>2
<1>10. t # <<>>
  <2>1. Len(t) # 0
    BY <1>1
  <2> QED BY <2>1
<1> QED BY <1>1, <1>6, <1>7, <1>8, <1>9, <1>10 DEF Stream

-----------------------------------------------------------------------------
\* How long a key stays held.

\* Whether a key is held depends on the bytes up to there only.
LEMMA HeldSame ==
    ASSUME NEW q, NEW t, NEW sn, NEW x, NEW i \in Int,
           \A l \in 1 .. i : t[l] = q[l],
           HeldAfter(q, sn, x, i)
    PROVE  HeldAfter(t, sn, x, i)
<1>1. CASE x \in sn /\ \A l \in 1 .. i : ~Releases(q[l], x)
  BY <1>1 DEF HeldAfter
<1>2. CASE \E j \in 1 .. i : /\ Presses(q[j], x)
                             /\ \A l \in j + 1 .. i : ~Releases(q[l], x)
  <2>1. PICK j \in 1 .. i : /\ Presses(q[j], x)
                            /\ \A l \in j + 1 .. i : ~Releases(q[l], x)
    BY <1>2
  <2>2. \A l \in j + 1 .. i : l \in 1 .. i
    OBVIOUS
  <2> QED BY <2>1, <2>2 DEF HeldAfter
<1> QED BY <1>1, <1>2 DEF HeldAfter

\* A key stays held until a byte releases it.
LEMMA HeldOn ==
    ASSUME NEW q, NEW sn, NEW x, NEW i \in Int, NEW j \in Int, i <= j,
           \A l \in i + 1 .. j : ~Releases(q[l], x),
           HeldAfter(q, sn, x, i)
    PROVE  HeldAfter(q, sn, x, j)
<1>1. CASE x \in sn /\ \A l \in 1 .. i : ~Releases(q[l], x)
  <2>1. \A l \in 1 .. j : l \in 1 .. i \/ l \in i + 1 .. j
    OBVIOUS
  <2> QED BY <1>1, <2>1 DEF HeldAfter
<1>2. CASE \E p \in 1 .. i : /\ Presses(q[p], x)
                             /\ \A l \in p + 1 .. i : ~Releases(q[l], x)
  <2>1. PICK p \in 1 .. i : /\ Presses(q[p], x)
                            /\ \A l \in p + 1 .. i : ~Releases(q[l], x)
    BY <1>2
  <2>2. p \in 1 .. j /\ \A l \in p + 1 .. j : l \in p + 1 .. i \/ l \in i + 1 .. j
    OBVIOUS
  <2> QED BY <2>1, <2>2 DEF HeldAfter
<1> QED BY <1>1, <1>2 DEF HeldAfter

\* A key is held after the byte that presses it.
LEMMA HeldPressed ==
    ASSUME NEW q, NEW sn, NEW x, NEW i \in Nat, i # 0, Presses(q[i], x)
    PROVE  HeldAfter(q, sn, x, i)
<1>1. i \in 1 .. i /\ \A l \in i + 1 .. i : FALSE
  OBVIOUS
<1> QED BY <1>1 DEF HeldAfter

\* The first byte is decoded: what it did to key x moves into the set.
LEMMA HeldShift ==
    ASSUME NEW q, NEW t, NEW sn, NEW sn2, NEW x, NEW i \in Nat,
           \A l \in 1 .. i : t[l] = q[l + 1],
           x \in sn /\ ~Releases(q[1], x) => x \in sn2,
           Presses(q[1], x) => x \in sn2,
           HeldAfter(q, sn, x, i + 1)
    PROVE  HeldAfter(t, sn2, x, i)
<1>0. 1 \in 1 .. i + 1 /\ \A l \in 1 .. i : l + 1 \in 2 .. i + 1 /\ l + 1 \in 1 .. i + 1
  OBVIOUS
<1>1. CASE x \in sn /\ \A l \in 1 .. i + 1 : ~Releases(q[l], x)
  BY <1>0, <1>1 DEF HeldAfter
<1>2. CASE \E p \in 1 .. i + 1 : /\ Presses(q[p], x)
                                 /\ \A l \in p + 1 .. i + 1 : ~Releases(q[l], x)
  <2>1. PICK p \in 1 .. i + 1 : /\ Presses(q[p], x)
                                /\ \A l \in p + 1 .. i + 1 : ~Releases(q[l], x)
    BY <1>2
  <2>2. CASE p = 1
    <3>1. \A l \in 1 .. i : ~Releases(t[l], x)
      BY <1>0, <2>1, <2>2
    <3> QED BY <2>1, <2>2, <3>1 DEF HeldAfter
  <2>3. CASE p # 1
    <3> DEFINE o == p - 1
    <3>1. o \in 1 .. i /\ o + 1 = p
      BY <2>3
    <3>2. \A l \in o + 1 .. i : l \in 1 .. i /\ l + 1 \in p + 1 .. i + 1
      BY <3>1
    <3> HIDE DEF o
    <3>3. Presses(t[o], x) /\ \A l \in o + 1 .. i : ~Releases(t[l], x)
      BY <2>1, <3>1, <3>2
    <3> QED BY <3>1, <3>3 DEF HeldAfter
  <2> QED BY <2>2, <2>3
<1> QED BY <1>1, <1>2 DEF HeldAfter

\* Appending a code does not change which keys are held before it.
LEMMA SentHeld ==
    ASSUME NEW q \in Seq(Bytes), NEW sn, NEW dn, Paired(q, sn, dn),
           NEW cs, NEW t, Follows(t, q, cs), Len(cs) \in Nat,
           NEW x \in AllKeys
    PROVE  /\ \A i \in 1 .. Len(q) : Releases(t[i], x) => HeldAfter(t, sn, x, i - 1)
           /\ x \in dn => HeldAfter(t, sn, x, Len(q))
<1>1. Len(q) \in Nat /\ DOMAIN q = 1 .. Len(q) /\ \A i \in 1 .. Len(q) : t[i] = q[i]
  BY DEF Follows, Extends
<1>2. ASSUME NEW i \in 1 .. Len(q), Releases(t[i], x)
      PROVE  HeldAfter(t, sn, x, i - 1)
  <2>1. HeldAfter(q, sn, x, i - 1)
    BY <1>1, <1>2 DEF Paired
  <2>2. i - 1 \in Int /\ \A l \in 1 .. i - 1 : t[l] = q[l]
    BY <1>1
  <2> QED BY <2>1, <2>2, HeldSame
<1>3. ASSUME x \in dn PROVE HeldAfter(t, sn, x, Len(q))
  <2>1. HeldAfter(q, sn, x, Len(q))
    BY <1>3 DEF Paired
  <2> QED BY <1>1, <2>1, HeldSame
<1> QED BY <1>2, <1>3

\* A key going down keeps releases paired with presses.
LEMMA DownPaired ==
    ASSUME NEW q \in Seq(Bytes), NEW sn, NEW dn, Paired(q, sn, dn),
           NEW cs, NEW k \in AllKeys, Whole(cs, k, FALSE),
           NEW t, Follows(t, q, cs)
    PROVE  Paired(t, sn, dn \cup {k})
<1>1. /\ Len(q) \in Nat /\ Len(cs) \in Nat /\ Len(cs) # 0
      /\ Len(t) = Len(q) + Len(cs) /\ DOMAIN t = 1 .. Len(q) + Len(cs)
      /\ dn \subseteq AllKeys
  BY DEF Follows, Extends, Whole, Paired
<1>2. \A i \in Len(q) + 1 .. Len(q) + Len(cs) : ~t[i].up /\ t[i].key = k
  <2> SUFFICES ASSUME NEW i \in Len(q) + 1 .. Len(q) + Len(cs)
               PROVE  ~t[i].up /\ t[i].key = k
    OBVIOUS
  <2> DEFINE n == i - Len(q)
  <2>1. n \in 1 .. Len(cs) /\ i = Len(q) + n
    BY <1>1
  <2> HIDE DEF n
  <2>2. SentFor(cs[n], k, FALSE) /\ t[i] = cs[n]
    BY <2>1 DEF Whole, Follows
  <2> QED BY <2>2 DEF SentFor
<1>3. Presses(t[Len(t)], k)
  <2>1. Len(t) \in Len(q) + 1 .. Len(q) + Len(cs) /\ Len(cs) \in 1 .. Len(cs)
    BY <1>1
  <2>2. t[Len(t)].final
    BY <1>1, <2>1 DEF Whole, Follows
  <2> QED BY <1>2, <2>1, <2>2 DEF Presses
<1>4. ASSUME NEW i \in DOMAIN t, NEW x \in AllKeys, Releases(t[i], x)
      PROVE  HeldAfter(t, sn, x, i - 1)
  <2>1. i \in 1 .. Len(q)
    <3>1. i \notin Len(q) + 1 .. Len(q) + Len(cs)
      BY <1>2, <1>4 DEF Releases
    <3> QED BY <1>1, <3>1
  <2> QED BY <1>1, <1>4, <2>1, SentHeld
<1>5. ASSUME NEW x \in dn \cup {k}
      PROVE  HeldAfter(t, sn, x, Len(t))
  <2>1. CASE x = k
    <3>1. Len(t) \in Nat /\ Len(t) # 0
      BY <1>1
    <3> QED BY <1>3, <2>1, <3>1, HeldPressed
  <2>2. CASE x \in dn
    <3>1. HeldAfter(t, sn, x, Len(q))
      BY <1>1, <2>2, SentHeld
    <3>2. /\ Len(q) \in Int /\ Len(t) \in Int /\ Len(q) <= Len(t)
          /\ \A l \in Len(q) + 1 .. Len(t) : ~Releases(t[l], x)
      BY <1>1, <1>2 DEF Releases
    <3> QED BY <3>1, <3>2, HeldOn
  <2> QED BY <2>1, <2>2
<1> QED BY <1>1, <1>4, <1>5 DEF Paired

\* So does a key coming up that was down.
LEMMA UpPaired ==
    ASSUME NEW q \in Seq(Bytes), NEW sn, NEW dn, Paired(q, sn, dn),
           NEW cs, NEW k \in dn, Whole(cs, k, TRUE),
           NEW t, Follows(t, q, cs)
    PROVE  Paired(t, sn, dn \ {k})
<1>1. /\ Len(q) \in Nat /\ Len(cs) \in Nat /\ Len(cs) # 0
      /\ Len(t) = Len(q) + Len(cs) /\ DOMAIN t = 1 .. Len(q) + Len(cs)
      /\ dn \subseteq AllKeys /\ Len(cs) \in {1, 2}
  BY DEF Follows, Extends, Whole, Paired
<1>2. \A i \in Len(q) + 1 .. Len(t) : t[i].key = k /\ (i # Len(t) => ~t[i].final)
  <2> SUFFICES ASSUME NEW i \in Len(q) + 1 .. Len(t)
               PROVE  t[i].key = k /\ (i # Len(t) => ~t[i].final)
    OBVIOUS
  <2> DEFINE n == i - Len(q)
  <2>1. n \in 1 .. Len(cs) /\ i = Len(q) + n
    BY <1>1
  <2> HIDE DEF n
  <2>2. SentFor(cs[n], k, TRUE) /\ t[i] = cs[n]
    BY <2>1 DEF Whole, Follows
  <2>3. i # Len(t) => Len(cs) = 2 /\ n = 1
    <3>1. CASE Len(cs) = 1
      BY <1>1, <2>1, <3>1
    <3>2. CASE Len(cs) = 2
      BY <1>1, <2>1, <3>2
    <3> QED BY <1>1, <3>1, <3>2
  <2>4. i # Len(t) => ~t[i].final
    BY <2>2, <2>3 DEF Whole
  <2> QED BY <2>2, <2>4 DEF SentFor
<1>3. ASSUME NEW i \in DOMAIN t, NEW x \in AllKeys, Releases(t[i], x)
      PROVE  HeldAfter(t, sn, x, i - 1)
  <2>1. CASE i \in 1 .. Len(q)
    BY <1>1, <1>3, <2>1, SentHeld
  <2>2. CASE i \in Len(q) + 1 .. Len(t)
    <3>1. i = Len(t) /\ x = k
      BY <1>2, <1>3, <2>2 DEF Releases
    <3>2. HeldAfter(t, sn, k, Len(q))
      BY <1>1, SentHeld
    <3>3. \A l \in Len(q) + 1 .. Len(t) - 1 : l \in Len(q) + 1 .. Len(t) /\ l # Len(t)
      BY <1>1
    <3>4. \A l \in Len(q) + 1 .. Len(t) - 1 : ~Releases(t[l], k)
      BY <1>2, <3>3 DEF Releases
    <3>5. Len(q) \in Int /\ Len(t) - 1 \in Int /\ Len(q) <= Len(t) - 1
      BY <1>1
    <3>6. HeldAfter(t, sn, k, Len(t) - 1)
      BY <3>2, <3>4, <3>5, HeldOn
    <3> QED BY <3>1, <3>6
  <2>3. i \in 1 .. Len(q) \/ i \in Len(q) + 1 .. Len(t)
    BY <1>1
  <2> QED BY <2>1, <2>2, <2>3
<1>4. ASSUME NEW x \in dn \ {k}
      PROVE  HeldAfter(t, sn, x, Len(t))
  <2>1. HeldAfter(t, sn, x, Len(q))
    BY <1>1, SentHeld
  <2>2. /\ Len(q) \in Int /\ Len(t) \in Int /\ Len(q) <= Len(t)
        /\ \A l \in Len(q) + 1 .. Len(t) : ~Releases(t[l], x)
    BY <1>1, <1>2 DEF Releases
  <2> QED BY <2>1, <2>2, HeldOn
<1> QED BY <1>1, <1>3, <1>4 DEF Paired

-----------------------------------------------------------------------------
\* One byte is decoded.

Decoded(t, q) ==
    /\ t \in Seq(Bytes) /\ Len(t) \in Nat /\ Len(q) = Len(t) + 1
    /\ \A i \in 1 .. Len(t) : t[i] = q[i + 1]

\* Taking the first byte off the queue.
LEMMA TailDecoded ==
    ASSUME NEW q \in Seq(Bytes), q # <<>>
    PROVE  Decoded(Tail(q), q) /\ Head(q) = q[1]
<1>1. /\ Tail(q) \in Seq(Bytes) /\ Len(Tail(q)) = Len(q) - 1 /\ Len(q) \in Nat
      /\ Len(q) # 0
      /\ \A i \in 1 .. Len(Tail(q)) : Tail(q)[i] = q[i + 1]
  BY HeadTailProperties
<1> QED BY <1>1 DEF Decoded

\* What is left is a stream, with E0ESC set iff the byte taken was an escape.
LEMMA DecodedStream ==
    ASSUME NEW q, NEW s, Stream(q, s), q # <<>>, NEW t, Decoded(t, q),
           NEW s2, "E0ESC" \in s2 <=> ~q[1].final
    PROVE  Stream(t, s2)
<1>1. /\ q \in Seq(Bytes) /\ DOMAIN q = 1 .. Len(t) + 1 /\ DOMAIN t = 1 .. Len(t)
      /\ Len(t) \in Nat /\ Len(q) = Len(t) + 1 /\ t \in Seq(Bytes)
      /\ \A i \in 1 .. Len(t) : t[i] = q[i + 1]
  BY DEF Decoded, Stream
<1>2. \A i \in DOMAIN t : i + 1 \in DOMAIN q /\ i + 1 # 1 /\ (i + 1) - 1 = i
  BY <1>1
<1>3. \A i \in DOMAIN t : Byte(t[i])
  BY <1>1, <1>2 DEF Stream
<1>4. \A i \in DOMAIN t : Second(t[i]) <=> ~q[i].final
  BY <1>1, <1>2 DEF Stream
<1>5. ASSUME NEW i \in DOMAIN t, i # 1
      PROVE  Second(t[i]) <=> ~t[i - 1].final
  <2>1. i - 1 \in 1 .. Len(t) /\ (i - 1) + 1 = i
    BY <1>1, <1>5
  <2> QED BY <1>1, <1>4, <2>1
<1>6. q[Len(q)].final
  BY DEF Stream
<1>7. ASSUME t # <<>> PROVE t[Len(t)].final /\ (Second(t[1]) <=> "E0ESC" \in s2)
  <2>1. Len(t) \in 1 .. Len(t) /\ 1 \in 1 .. Len(t)
    BY <1>1, <1>7
  <2> QED BY <1>1, <1>4, <1>6, <2>1
<1>8. ASSUME t = <<>> PROVE "E0ESC" \notin s2
  <2>1. Len(q) = 1
    BY <1>1, <1>8
  <2> QED BY <1>6, <2>1
<1> QED BY <1>1, <1>3, <1>5, <1>7, <1>8 DEF Stream

\* The first byte never releases a key that is not held.
LEMMA ReleasedIsHeld ==
    ASSUME NEW q \in Seq(Bytes), q # <<>>, NEW sn, NEW dn, Paired(q, sn, dn),
           NEW x \in AllKeys, Releases(q[1], x)
    PROVE  x \in sn
<1>1. 1 \in DOMAIN q /\ 1 - 1 = 0 /\ \A j \in 1 .. 0 : FALSE
  OBVIOUS
<1>2. HeldAfter(q, sn, x, 0)
  BY <1>1 DEF Paired
<1> QED BY <1>1, <1>2 DEF HeldAfter

\* What is left is paired, with the keys seen held after the byte taken.
LEMMA DecodedPaired ==
    ASSUME NEW q \in Seq(Bytes), NEW sn, NEW dn, Paired(q, sn, dn),
           NEW t, Decoded(t, q), NEW sn2,
           \A x \in AllKeys : /\ x \in sn /\ ~Releases(q[1], x) => x \in sn2
                              /\ Presses(q[1], x) => x \in sn2
    PROVE  Paired(t, sn2, dn)
<1>1. /\ DOMAIN q = 1 .. Len(t) + 1 /\ DOMAIN t = 1 .. Len(t)
      /\ Len(t) \in Nat /\ Len(q) = Len(t) + 1
      /\ \A i \in 1 .. Len(t) : t[i] = q[i + 1]
      /\ dn \subseteq AllKeys
  BY DEF Decoded, Paired
<1>2. ASSUME NEW i \in DOMAIN t, NEW x \in AllKeys, Releases(t[i], x)
      PROVE  HeldAfter(t, sn2, x, i - 1)
  <2>1. i + 1 \in DOMAIN q /\ (i + 1) - 1 = (i - 1) + 1 /\ i - 1 \in Nat
    BY <1>1
  <2>2. HeldAfter(q, sn, x, (i - 1) + 1)
    BY <1>1, <1>2, <2>1 DEF Paired
  <2>3. \A l \in 1 .. i - 1 : t[l] = q[l + 1]
    BY <1>1
  <2> QED BY <2>1, <2>2, <2>3, HeldShift
<1>3. ASSUME NEW x \in dn PROVE HeldAfter(t, sn2, x, Len(t))
  <2>1. HeldAfter(q, sn, x, Len(t) + 1) /\ x \in AllKeys
    BY <1>1 DEF Paired
  <2> QED BY <1>1, <2>1, HeldShift
<1> QED BY <1>1, <1>2, <1>3 DEF Paired

\* The three things a byte can do to a modifier: nothing, let one of its keys
\* go, press one of its keys.
CrossedAfter(cr, sn) ==
    {m \in Modifiers : \/ KeysOf[m] \subseteq sn
                       \/ m \in cr /\ KeysOf[m] \cap sn # {}}

\* A modifier's bit stays right when none of its keys moves,
LEMMA BitSame ==
    ASSUME NEW m \in Modifiers, NEW sh, NEW sn, NEW cr, Bit(m, sh, sn, cr),
           NEW sh2, NEW sn2, m \in sh2 <=> m \in sh,
           KeysOf[m] \cap sn2 = KeysOf[m] \cap sn
    PROVE  Bit(m, sh2, sn2, CrossedAfter(cr, sn2))
BY DEF Bit, CrossedAfter

\* when one of its keys comes up and the bit is cleared,
LEMMA BitUp ==
    ASSUME NEW m \in Modifiers, NEW sh, NEW sn, NEW cr, Bit(m, sh, sn, cr),
           NEW sh2, NEW k \in KeysOf[m], k \in sn, m \notin sh2
    PROVE  Bit(m, sh2, sn \ {k}, CrossedAfter(cr, sn \ {k}))
<1>1. PICK a, b : KeysOf[m] = {a, b}
  <2>1. /\ KeysOf["SHIFT"] = {"LShift", "RShift"} /\ KeysOf["CTL"] = {"LCtl", "RCtl"}
        /\ KeysOf["ALT"] = {"LAlt", "RAlt"} /\ m \in {"SHIFT", "CTL", "ALT"}
    BY DEF Modifiers, KeysOf
  <2> QED BY <2>1
<1>2. KeysOf[m] \cap (sn \ {k}) # {} => KeysOf[m] \subseteq sn
  BY <1>1
<1> QED BY <1>2 DEF Bit, CrossedAfter

\* and when one goes down and the bit is set.
LEMMA BitDown ==
    ASSUME NEW m \in Modifiers, NEW sh, NEW sn, NEW cr, Bit(m, sh, sn, cr),
           NEW sh2, NEW k \in KeysOf[m], m \in sh2
    PROVE  Bit(m, sh2, sn \cup {k}, CrossedAfter(cr, sn \cup {k}))
BY DEF Bit, CrossedAfter

-----------------------------------------------------------------------------
\* The steps.

\* What the next byte is, before it is decoded.
LEMMA NextByte ==
    ASSUME Inv, sent # <<>>, NEW b, b = Head(sent)
    PROVE  /\ Byte(b) /\ b.key \in AllKeys /\ b = sent[1] /\ sent \in Seq(Bytes)
           /\ b.up \in BOOLEAN /\ b.final \in BOOLEAN
           /\ Second(b) <=> "E0ESC" \in shift
           /\ Decoded(Tail(sent), sent)
<1>1. sent \in Seq(Bytes) /\ Stream(sent, shift)
  BY DEF Inv, Stream
<1>2. Decoded(Tail(sent), sent) /\ b = sent[1]
  BY <1>1, TailDecoded
<1>3. 1 \in DOMAIN sent
  BY <1>1
<1>4. Byte(b) /\ (Second(b) <=> "E0ESC" \in shift)
  BY <1>1, <1>2, <1>3 DEF Stream
<1> QED BY <1>1, <1>2, <1>4, Zenon DEF Byte

\* The parts that every decoded byte leaves in order.
LEMMA DecodeRest ==
    ASSUME Inv, Decode, NEW b, b = Head(sent),
           "E0ESC" \in shift' <=> ~b.final,
           b.byte = E0 <=> ~b.final
    PROVE  /\ Stream(sent, shift)' /\ Paired(sent, seen, down)'
           /\ EscapeIsTransient'
<1>0. sent # <<>> /\ sent' = Tail(sent) /\ down' = down /\ last' = b.byte
  BY DEF Decode
<1>1. /\ Byte(b) /\ b.key \in AllKeys /\ b = sent[1] /\ sent \in Seq(Bytes)
      /\ b.up \in BOOLEAN /\ b.final \in BOOLEAN
      /\ Decoded(sent', sent)
  BY <1>0, NextByte
<1>2. Stream(sent', shift')
  <2>1. Stream(sent, shift) /\ ("E0ESC" \in shift' <=> ~sent[1].final)
    BY <1>1 DEF Inv
  <2> QED BY <1>0, <1>1, <2>1, DecodedStream
<1>3. seen' = IF ~b.final THEN seen
              ELSE IF b.up THEN seen \ {b.key} ELSE seen \cup {b.key}
  BY DEF Decode
<1>4. \A x \in AllKeys : /\ x \in seen /\ ~Releases(sent[1], x) => x \in seen'
                         /\ Presses(sent[1], x) => x \in seen'
  BY <1>1, <1>3 DEF Releases, Presses
<1>5. Paired(sent', seen', down')
  <2>1. Paired(sent, seen, down)
    BY DEF Inv
  <2> QED BY <1>0, <1>1, <1>4, <2>1, DecodedPaired
<1>6. EscapeIsTransient'
  BY <1>0 DEF EscapeIsTransient
<1> QED BY <1>2, <1>5, <1>6

\* crossed, after decoding a byte.
LEMMA DecodeCrossed ==
    ASSUME Decode
    PROVE  crossed' = CrossedAfter(crossed, seen')
BY DEF Decode, CrossedAfter

\* Decoding an escape byte keeps Inv.
LEMMA EscapeStep ==
    ASSUME Inv, Decode, ~Head(sent).final
    PROVE  Inv'
<1> DEFINE b == Head(sent)
<1>0. sent # <<>>
  BY DEF Decode
<1>1. Byte(b) /\ b.key \in AllKeys /\ b.key \in Extended
  BY <1>0, NextByte DEF Byte
<1>2. /\ shift' = shift \cup {"E0ESC"} /\ reboot' = FALSE /\ b.byte = E0
  BY <1>1, DecodeEscape DEF Decode
<1>3. seen' = seen /\ locked' = (locked # (b.key = "Caps" /\ ~b.up))
  BY DEF Decode
<1>4. /\ Stream(sent, shift)' /\ Paired(sent, seen, down)' /\ EscapeIsTransient'
  BY <1>2, DecodeRest
<1>5. locked' = locked /\ locked \in BOOLEAN
  BY <1>1, <1>3 DEF Extended, Inv
<1>6. ASSUME NEW m \in Modifiers PROVE Bit(m, shift', seen', crossed')
  <2>1. m \in shift' <=> m \in shift
    BY <1>2 DEF Modifiers
  <2>2. Bit(m, shift, seen, crossed)
    BY DEF Inv
  <2> QED BY <1>3, <2>1, <2>2, BitSame, DecodeCrossed
<1>7. "CAPSLOCK" \in shift' <=> locked'
  BY <1>2, <1>5 DEF Inv
<1>8. RebootOnlyByCtrlAltDel'
  BY <1>2 DEF RebootOnlyByCtrlAltDel
<1> QED BY <1>4, <1>5, <1>6, <1>7, <1>8 DEF Inv

\* Decoding the last byte of a break code keeps Inv.
LEMMA UpStep ==
    ASSUME Inv, Decode, Head(sent).final, Head(sent).up
    PROVE  Inv'
<1> DEFINE b == Head(sent)
           k == b.key
<1>0. sent # <<>>
  BY DEF Decode
<1>1. /\ Byte(b) /\ k \in AllKeys /\ b = sent[1] /\ sent \in Seq(Bytes)
      /\ "E0ESC" \in shift <=> k \in Extended
  BY <1>0, NextByte DEF Second
<1>2. /\ shift' = shift \ (Mods(k) \cup {"E0ESC"}) /\ reboot' = FALSE /\ b.byte # E0
  <2>1. PICK r : /\ r = kbd_proc_data(shift, b.byte)
                 /\ shift' = r.shift /\ reboot' = r.reboot
    BY DEF Decode
  <2>2. b.final /\ b.up
    OBVIOUS
  <2> HIDE DEF b
  <2>3. LetGo(r, shift, b.key) /\ b.byte # E0
    BY <1>1, <2>1, <2>2, DecodeUp
  <2> QED BY <2>1, <2>3 DEF LetGo
<1>3. seen' = seen \ {k} /\ locked' = (locked # (k = "Caps" /\ ~b.up))
  BY DEF Decode
<1>4. /\ Stream(sent, shift)' /\ Paired(sent, seen, down)' /\ EscapeIsTransient'
  BY <1>2, DecodeRest
<1>5. locked' = locked /\ locked \in BOOLEAN
  BY <1>3 DEF Inv
<1>6. k \in seen
  <2>1. Releases(sent[1], k)
    BY <1>1 DEF Releases
  <2>2. Paired(sent, seen, down)
    BY DEF Inv
  <2> QED BY <1>0, <1>1, <2>1, <2>2, ReleasedIsHeld
<1>7. ASSUME NEW m \in Modifiers PROVE Bit(m, shift', seen', crossed')
  <2>1. Bit(m, shift, seen, crossed)
    BY DEF Inv
  <2>2. CASE k \in KeysOf[m]
    <3>1. m \notin shift'
      BY <1>1, <1>2, <2>2, ModKeys
    <3> QED BY <1>3, <1>6, <2>1, <2>2, <3>1, BitUp, DecodeCrossed
  <2>3. CASE k \notin KeysOf[m]
    <3>1. m # "E0ESC"
      BY DEF Modifiers
    <3>2. m \in shift' <=> m \in shift
      BY <1>1, <1>2, <2>3, <3>1, ModKeys
    <3>3. KeysOf[m] \cap seen' = KeysOf[m] \cap seen
      BY <1>3, <2>3
    <3> QED BY <2>1, <3>2, <3>3, BitSame, DecodeCrossed
  <2> QED BY <2>2, <2>3
<1>8. "CAPSLOCK" \in shift' <=> locked'
  <2>1. "CAPSLOCK" \notin Mods(k)
    BY <1>1 DEF Mods, AllKeys
  <2> QED BY <1>2, <1>5, <2>1 DEF Inv
<1>9. RebootOnlyByCtrlAltDel'
  BY <1>2 DEF RebootOnlyByCtrlAltDel
<1> QED BY <1>4, <1>5, <1>7, <1>8, <1>9 DEF Inv

\* Decoding the last byte of a make code keeps Inv, and gives the expected
\* character.
LEMMA DownStep ==
    ASSUME Inv, Decode, Head(sent).final, ~Head(sent).up
    PROVE  /\ Inv'
           /\ c' = Expected(Head(sent).key, "CTL" \in shift, "SHIFT" \in shift,
                            "CAPSLOCK" \in shift)
<1> DEFINE b == Head(sent)
           k == b.key
           s == shift \ {"E0ESC"}
<1>0. sent # <<>>
  BY DEF Decode
<1>1. /\ Byte(b) /\ k \in AllKeys
      /\ "E0ESC" \in shift <=> k \in Extended
  BY <1>0, NextByte DEF Second
<1>2. PICK r : /\ r = Pressed(s, Code(k)) /\ b.byte # E0
               /\ shift' = r.shift /\ c' = r.c /\ reboot' = r.reboot
  <2>1. PICK r : /\ r = kbd_proc_data(shift, b.byte)
                 /\ shift' = r.shift /\ c' = r.c /\ reboot' = r.reboot
    BY DEF Decode
  <2>2. r = Pressed(s, Code(k)) /\ b.byte # E0
    BY <1>1, <2>1, DecodeDown
  <2> QED BY <2>1, <2>2
<1>3. seen' = seen \cup {k} /\ locked' = (locked # (k = "Caps" /\ ~b.up))
  BY DEF Decode
<1>4. /\ "E0ESC" \notin s /\ ("CAPSLOCK" \in s <=> "CAPSLOCK" \in shift)
      /\ ("CTL" \in s <=> "CTL" \in shift) /\ ("SHIFT" \in s <=> "SHIFT" \in shift)
      /\ \A m \in Modifiers : m \in s <=> m \in shift
  BY DEF Modifiers
<1> HIDE DEF s
<1>5. /\ \A m \in Modifiers : m \in shift' <=> m \in shift \/ m \in Mods(k)
      /\ "E0ESC" \notin shift'
      /\ "CAPSLOCK" \in shift' <=> ("CAPSLOCK" \in shift) # (k = "Caps")
      /\ reboot' => k = "Del" /\ "CTL" \in shift' /\ "ALT" \in shift'
  BY <1>1, <1>2, <1>4, PressedBits
<1>6. c' = Expected(k, "CTL" \in shift, "SHIFT" \in shift, "CAPSLOCK" \in shift)
  <2>1. c' = Expected(k, "CTL" \in s, "SHIFT" \in s, "CAPSLOCK" \in s)
    BY <1>1, <1>2, <1>4, PressedChar
  <2> QED BY <1>4, <2>1
<1>7. /\ Stream(sent, shift)' /\ Paired(sent, seen, down)' /\ EscapeIsTransient'
  BY <1>2, <1>5, DecodeRest
<1>8. locked' \in BOOLEAN /\ ("CAPSLOCK" \in shift' <=> locked')
  <2>1. locked \in BOOLEAN /\ ("CAPSLOCK" \in shift <=> locked)
    BY DEF Inv
  <2>2. locked' = (locked # (k = "Caps"))
    BY <1>3
  <2>3. locked' \in BOOLEAN
    BY <2>2
  <2>4. CASE k = "Caps"
    BY <1>5, <2>1, <2>2, <2>4
  <2>5. CASE k # "Caps"
    BY <1>5, <2>1, <2>2, <2>5
  <2> QED BY <2>3, <2>4, <2>5
<1>9. ASSUME NEW m \in Modifiers PROVE Bit(m, shift', seen', crossed')
  <2>1. Bit(m, shift, seen, crossed)
    BY DEF Inv
  <2>2. CASE k \in KeysOf[m]
    <3>1. m \in shift'
      BY <1>1, <1>5, <2>2, ModKeys
    <3> QED BY <1>3, <2>1, <2>2, <3>1, BitDown, DecodeCrossed
  <2>3. CASE k \notin KeysOf[m]
    <3>2. m \in shift' <=> m \in shift
      BY <1>1, <1>5, <2>3, ModKeys
    <3>3. KeysOf[m] \cap seen' = KeysOf[m] \cap seen
      BY <1>3, <2>3
    <3> QED BY <2>1, <3>2, <3>3, BitSame, DecodeCrossed
  <2> QED BY <2>2, <2>3
<1>10. RebootOnlyByCtrlAltDel'
  <2>1. reboot' => "Del" \in seen' /\ "CTL" \in shift' /\ "ALT" \in shift'
    BY <1>3, <1>5
  <2>2. "CTL" \in Modifiers /\ "ALT" \in Modifiers
    BY DEF Modifiers
  <2> QED BY <1>9, <2>1, <2>2 DEF RebootOnlyByCtrlAltDel, Holds, Bit
<1> QED BY <1>6, <1>7, <1>8, <1>9, <1>10 DEF Inv

\* An event of key k appends its whole code and leaves the decoder alone.
LEMMA SendStep ==
    ASSUME Inv, NEW k \in AllKeys, NEW up \in BOOLEAN,
           NEW code, code = IF up THEN Break(k) ELSE Make[k],
           Send(k, code, up)
    PROVE  /\ \E cs : Whole(cs, k, up) /\ Follows(sent', sent, cs)
           /\ Stream(sent', shift')
<1> DEFINE z == IF up THEN Low(k) + Top ELSE Low(k)
           cs == Sending(code, k, up)
<1>1. code = IF k \in Extended THEN <<E0, z>> ELSE <<z>>
  BY MakeCodes, BreakCodes
<1> HIDE DEF z
<1>2. Whole(cs, k, up)
  BY <1>1, SendingWhole DEF z
<1>3. sent' = sent \o cs /\ shift' = shift
  BY DEF Send, Sending, SentByte
<1> HIDE DEF cs
<1>4. cs \in Seq(Bytes) /\ sent \in Seq(Bytes) /\ Stream(sent, shift)
  BY <1>2 DEF Whole, Inv, Stream
<1>5. Follows(sent', sent, cs)
  BY <1>3, <1>4, Appended
<1>6. Stream(sent', shift')
  BY <1>2, <1>3, <1>4, <1>5, SentStream
<1> QED BY <1>2, <1>5, <1>6

\* A key that moves sends bytes; what has been decoded stays.
LEMMA SendRest ==
    ASSUME Inv, NEW k, NEW code, NEW up, Send(k, code, up)
    PROVE  /\ \A m \in Modifiers : Bit(m, shift', seen', crossed')
           /\ locked' \in BOOLEAN /\ ("CAPSLOCK" \in shift' <=> locked')
           /\ EscapeIsTransient' /\ RebootOnlyByCtrlAltDel'
           /\ seen' = seen
<1>1. shift' = shift /\ reboot' = reboot /\ seen' = seen /\ crossed' = crossed
      /\ locked' = locked /\ last' = last
  BY DEF Send, history
<1>2. EscapeIsTransient' /\ RebootOnlyByCtrlAltDel'
  BY <1>1 DEF Inv, EscapeIsTransient, RebootOnlyByCtrlAltDel, Holds
<1> QED BY <1>1, <1>2 DEF Inv

\* A key going down keeps Inv, and decodes nothing.
LEMMA KeyDownStep ==
    ASSUME Inv, NEW k \in KeyNames, KeyDown(k)
    PROVE  Inv' /\ Len(sent') >= Len(sent)
<1>0. k \in AllKeys
  BY KeyDomain
<1>1. Send(k, Make[k], FALSE) /\ down' = down \cup {k}
  BY DEF KeyDown
<1>2. /\ \E cs : Whole(cs, k, FALSE) /\ Follows(sent', sent, cs)
      /\ Stream(sent', shift')
  BY <1>0, <1>1, SendStep
<1>3. PICK cs : Whole(cs, k, FALSE) /\ Follows(sent', sent, cs)
  BY <1>2
<1>4. sent \in Seq(Bytes) /\ Paired(sent, seen, down)
  BY DEF Inv, Stream
<1>5. Paired(sent', seen, down \cup {k})
  BY <1>0, <1>3, <1>4, DownPaired
<1>6. Len(sent') >= Len(sent)
  <2>1. Len(sent') = Len(sent) + Len(cs) /\ Len(cs) \in Nat /\ Len(sent) \in Nat
    BY <1>3, <1>4 DEF Follows, Extends, Whole
  <2> QED BY <2>1
<1> QED BY <1>1, <1>2, <1>5, <1>6, SendRest DEF Inv

\* A key coming up keeps Inv, and decodes nothing.
LEMMA KeyUpStep ==
    ASSUME Inv, NEW k \in KeyNames, KeyUp(k)
    PROVE  Inv' /\ Len(sent') >= Len(sent)
<1>0. k \in AllKeys
  BY KeyDomain
<1>1. Send(k, Break(k), TRUE) /\ down' = down \ {k} /\ k \in down
  BY DEF KeyUp
<1>2. /\ \E cs : Whole(cs, k, TRUE) /\ Follows(sent', sent, cs)
      /\ Stream(sent', shift')
  BY <1>0, <1>1, SendStep
<1>3. PICK cs : Whole(cs, k, TRUE) /\ Follows(sent', sent, cs)
  BY <1>2
<1>4. sent \in Seq(Bytes) /\ Paired(sent, seen, down)
  BY DEF Inv, Stream
<1>5. Paired(sent', seen, down \ {k})
  BY <1>1, <1>3, <1>4, UpPaired
<1>6. Len(sent') >= Len(sent)
  <2>1. Len(sent') = Len(sent) + Len(cs) /\ Len(cs) \in Nat /\ Len(sent) \in Nat
    BY <1>3, <1>4 DEF Follows, Extends, Whole
  <2> QED BY <2>1
<1> QED BY <1>1, <1>2, <1>5, <1>6, SendRest DEF Inv

\* Decoding a byte keeps Inv.
LEMMA DecodeStep ==
    ASSUME Inv, Decode
    PROVE  Inv'
<1>1. CASE ~Head(sent).final
  BY <1>1, EscapeStep
<1>2. CASE Head(sent).final /\ Head(sent).up
  BY <1>2, UpStep
<1>3. CASE Head(sent).final /\ ~Head(sent).up
  BY <1>3, DownStep
<1> QED BY <1>1, <1>2, <1>3

\* Inv holds with no key held and nothing sent.
LEMMA InitGood == Init => Inv
<1> SUFFICES ASSUME Init PROVE Inv
  OBVIOUS
<1>1. sent = <<>> /\ shift = {} /\ seen = {} /\ down = {} /\ crossed = {}
      /\ locked = FALSE /\ last = 0 /\ reboot = FALSE
  BY DEF Init
<1>2. Stream(sent, shift)
  BY <1>1 DEF Stream
<1>3. Paired(sent, seen, down)
  BY <1>1 DEF Paired
<1>4. ASSUME NEW m \in Modifiers PROVE Bit(m, shift, seen, crossed)
  <2>1. KeysOf[m] # {}
    BY DEF Modifiers, KeysOf
  <2> QED BY <1>1, <2>1 DEF Bit
<1>5. EscapeIsTransient /\ RebootOnlyByCtrlAltDel
  BY <1>1 DEF EscapeIsTransient, RebootOnlyByCtrlAltDel, E0
<1> QED BY <1>1, <1>2, <1>3, <1>4, <1>5 DEF Inv

\* Every key and every byte decoded keeps Inv.
LEMMA NextGood == Inv /\ [Next]_vars => Inv'
<1> SUFFICES ASSUME Inv, [Next]_vars PROVE Inv'
  OBVIOUS
<1>1. ASSUME NEW k \in KeyNames, KeyDown(k) PROVE Inv'
  BY <1>1, KeyDownStep
<1>2. ASSUME NEW k \in KeyNames, KeyUp(k) PROVE Inv'
  BY <1>2, KeyUpStep
<1>3. CASE Decode
  BY <1>3, DecodeStep
<1>4. CASE UNCHANGED vars
  <2>1. /\ shift' = shift /\ reboot' = reboot /\ down' = down /\ sent' = sent
        /\ seen' = seen /\ crossed' = crossed /\ locked' = locked /\ last' = last
    BY <1>4 DEF vars, history
  <2>2. EscapeIsTransient' /\ RebootOnlyByCtrlAltDel'
    BY <2>1 DEF Inv, EscapeIsTransient, RebootOnlyByCtrlAltDel, Holds
  <2> QED BY <2>1, <2>2 DEF Inv
<1> QED BY <1>1, <1>2, <1>3, <1>4 DEF Next

-----------------------------------------------------------------------------
\* However keys go down, repeat and come up, and however far kbd_proc_data is
\* behind, the codes on their way are whole, a key comes up only after it went
\* down, and the bits of shift agree with the keys the decoded bytes hold.
THEOREM Invariance == Spec => []Inv
<1> QED BY InitGood, NextGood, PTL DEF Spec

\* No modifier bit of shift is ever stuck, and each is exact while the two keys
\* of its modifier have not been held together: for any keyboard, any number of
\* keys held and any number of bytes kbd_proc_data has yet to read.
THEOREM ModifiersFollowKeysAlways == Spec => []ModifiersFollowKeys
<1>1. Inv => ModifiersFollowKeys
  BY DEF Inv, Bit, ModifiersFollowKeys, Holds
<1> QED BY <1>1, Invariance, PTL

\* kbd_proc_data carries E0ESC from the 0xE0 byte to the byte after it and no
\* further.
THEOREM EscapeIsTransientAlways == Spec => []EscapeIsTransient
<1>1. Inv => EscapeIsTransient
  BY DEF Inv
<1> QED BY <1>1, Invariance, PTL

\* kbd_proc_data writes the reset port only while Ctrl, Alt and Del are held.
THEOREM RebootOnlyByCtrlAltDelAlways == Spec => []RebootOnlyByCtrlAltDel
<1>1. Inv => RebootOnlyByCtrlAltDel
  BY DEF Inv
<1> QED BY <1>1, Invariance, PTL

\* The character kbd_proc_data returns for a complete make code is the one of
\* the key that was pressed, under the modifiers held and the Caps lock.
THEOREM CharacterOfKeyAlways == Spec => CharacterOfKey
<1>1. Inv /\ [Next]_vars => [CharacterGood]_vars
  <2> SUFFICES ASSUME Inv, [Next]_vars PROVE CharacterGood \/ UNCHANGED vars
    OBVIOUS
  <2>0. Len(sent) \in Nat
    BY DEF Inv, Stream
  <2>1. ASSUME NEW k \in KeyNames, KeyDown(k) PROVE CharacterGood
    <3>1. Len(sent') >= Len(sent) /\ Inv'
      BY <2>1, KeyDownStep
    <3>2. Len(sent') \in Nat
      BY <3>1 DEF Inv, Stream
    <3> QED BY <2>0, <3>1, <3>2 DEF CharacterGood
  <2>2. ASSUME NEW k \in KeyNames, KeyUp(k) PROVE CharacterGood
    <3>1. Len(sent') >= Len(sent) /\ Inv'
      BY <2>2, KeyUpStep
    <3>2. Len(sent') \in Nat
      BY <3>1 DEF Inv, Stream
    <3> QED BY <2>0, <3>1, <3>2 DEF CharacterGood
  <2>3. ASSUME Decode PROVE CharacterGood
    <3> SUFFICES ASSUME Head(sent).final, ~Head(sent).up, crossed = {}
                 PROVE  c' = Expected(Head(sent).key, Holds("CTL"), Holds("SHIFT"), locked)
      BY DEF CharacterGood
    <3>1. c' = Expected(Head(sent).key, "CTL" \in shift, "SHIFT" \in shift,
                        "CAPSLOCK" \in shift)
      BY <2>3, DownStep
    <3>2. "CTL" \in Modifiers /\ "SHIFT" \in Modifiers
      BY DEF Modifiers
    <3>3. /\ ("CTL" \in shift) = Holds("CTL") /\ ("SHIFT" \in shift) = Holds("SHIFT")
      BY <3>2 DEF Inv, Bit, Holds
    <3>4. ("CAPSLOCK" \in shift) = locked
      BY DEF Inv
    <3> QED BY <3>1, <3>3, <3>4
  <2> QED BY <2>1, <2>2, <2>3 DEF Next
<1> QED BY <1>1, Invariance, PTL DEF Spec, CharacterOfKey

=============================================================================
