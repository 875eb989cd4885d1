------------------------------ MODULE Printfmt ------------------------------
(***************************************************************************)
(* The formatted output of lib/printfmt.c, and its three users: vsnprintf,  *)
(* the kernel's cprintf (kern/printf.c) and the cprintf of user programs    *)
(* (lib/printf.c), which goes through the system call sys_cputs.            *)
(*                                                                          *)
(* A format f is a memory whose bytes end with NUL.  vprintfmt hands every  *)
(* character to a function putch that gives nothing back, so it is modelled *)
(* by the sequence of characters it hands over, and a putch function by     *)
(* what it makes of that sequence.  All arguments of one kind are equal:    *)
(* arg.int, arg.str (a sequence of characters without NUL, or null) and     *)
(* arg.chr.  An error message is one character of the model.                *)
(***************************************************************************)
EXTENDS Strings, SequencesExt

CONSTANTS
    IntModulus,       \* 2^32: the values of an int; a long has as many
    LongLongModulus,  \* 2^64
    PRINTBUF          \* 256: the buffer of the user programs' cprintf

ASSUME PrintfmtAssumption ==
    /\ IntModulus \in Nat /\ LongLongModulus \in Nat
    /\ PRINTBUF \in Nat \ {0, 1}

E_INVAL == -3
MAXERROR == 6
Unlimited == -1
NullString == <<"null">>

\* The characters of the models outside ' ' to '~'.
Unprintable == {"e9", "\t"}

DigitChars == Decimals \o <<"a", "b", "c", "d", "e", "f">>

Repeat(c, n) == [i \in 1 .. (IF n > 0 THEN n ELSE 0) |-> c]

-----------------------------------------------------------------------------
\* The digits before the last one, or the padding, then the last digit.
RECURSIVE printnum(_, _, _, _)
printnum(num, base, width, padc) ==
    (IF num >= base
     THEN printnum(num \div base, base, width - 1, padc)
     ELSE Repeat(padc, width - 1))
    \o <<DigitChars[(num % base) + 1]>>

Bits(lflag) == IF lflag >= 2 THEN LongLongModulus ELSE IntModulus

getuint(v, lflag) == v % Bits(lflag)

getint(v, lflag) ==
    LET half == Bits(lflag) \div 2 IN ((v + half) % Bits(lflag)) - half

\* %d: the sign first, then the padding.
Signed(num, width, padc) ==
    IF num < 0
    THEN <<"-">> \o printnum(-num, 10, width, padc)
    ELSE printnum(num, 10, width, padc)

\* %s: at most precision characters, padded in front, or behind after "-".
StringField(str, e) ==
    LET p == IF str = NullString THEN <<"(", "n", "u", "l", "l", ")">> ELSE str
        n == IF e.precision < 0 THEN Len(p) ELSE Min({Len(p), e.precision})
        pad == e.width - n
        Shown(c) == IF e.altflag /\ c \in Unprintable THEN "?" ELSE c
    IN  Repeat(e.padc, IF e.padc = "-" THEN 0 ELSE pad)
        \o [i \in 1 .. n |-> Shown(p[i])]
        \o Repeat(" ", IF e.padc = "-" THEN pad ELSE 0)

\* %e: the messages of the errors 1 to MAXERROR are characters of the model.
ErrorField(v) ==
    LET err == IF v < 0 THEN -v ELSE v
    IN  IF err \in 1 .. MAXERROR
        THEN <<"message">>
        ELSE <<"error ">> \o printnum(err, 10, Unlimited, " ")

\* What a %-escape has collected so far.
NoFlags ==
    [padc |-> " ", width |-> -1, precision |-> -1, lflag |-> 0,
     altflag |-> FALSE]

\* A number is the width if there is none yet, and the precision otherwise.
process_precision(e, p) ==
    IF e.width < 0
    THEN [e EXCEPT !.width = p, !.precision = -1]
    ELSE [e EXCEPT !.precision = p]

\* The number written in f from i on, which a digit starts, and its end.
RECURSIVE Number(_, _, _)
Number(f, i, n) ==
    IF IsDigit(f[i], 10)
    THEN Number(f, i + 1, 10 * n + Digit[f[i]])
    ELSE [value |-> n, end |-> i]

\* The fields that the conversion character c prints, given the flags e.
Conversion(c, e, arg) ==
    CASE c = "c" -> <<arg.chr>>
      [] c = "e" -> ErrorField(arg.int)
      [] c = "s" -> StringField(arg.str, e)
      [] c = "d" -> Signed(getint(arg.int, e.lflag), e.width, e.padc)
      [] c = "u" -> printnum(getuint(arg.int, e.lflag), 10, e.width, e.padc)
      [] c = "o" -> <<"X", "X", "X">>
      [] c = "p" -> <<"0", "x">>
                    \o printnum(getuint(arg.int, 0), 16, e.width, e.padc)
      [] c = "x" -> printnum(getuint(arg.int, e.lflag), 16, e.width, e.padc)
      [] c = "%" -> <<"%">>

Conversions == {"c", "e", "s", "d", "u", "o", "p", "x", "%"}

\* Where the scan goes on after an escape that stops at i and is not one:
\* right behind the last "%", so that the rest is printed as it stands.
BackUp(f, i) == Max({k \in DOMAIN f : k < i /\ f[k] = "%"}) + 1

RECURSIVE Scan(_, _, _), Escape(_, _, _, _)

\* The characters printed for the format from i on.
Scan(f, i, arg) ==
    CASE f[i] = NUL -> <<>>
      [] f[i] = "%" -> Escape(f, i + 1, arg, NoFlags)
      [] OTHER -> <<f[i]>> \o Scan(f, i + 1, arg)

\* The same inside a %-escape; e is what it said so far.
Escape(f, i, arg, e) ==
    LET c == f[i]
        number == Number(f, i, 0)
    IN  CASE c \in {"-", "0"} -> Escape(f, i + 1, arg, [e EXCEPT !.padc = c])
          [] IsDigit(c, 10) /\ c # "0" ->
                Escape(f, number.end, arg, process_precision(e, number.value))
          [] c = "*" ->
                Escape(f, i + 1, arg, process_precision(e, getint(arg.int, 0)))
          [] c = "." ->
                Escape(f, i + 1, arg,
                       [e EXCEPT !.width = IF @ < 0 THEN 0 ELSE @])
          [] c = "#" -> Escape(f, i + 1, arg, [e EXCEPT !.altflag = TRUE])
          [] c = "l" -> Escape(f, i + 1, arg, [e EXCEPT !.lflag = @ + 1])
          [] c \in Conversions ->
                Conversion(c, e, arg) \o Scan(f, i + 1, arg)
          [] OTHER -> <<"%">> \o Scan(f, BackUp(f, i), arg)

vprintfmt(f, arg) == Scan(f, 0, arg)

-----------------------------------------------------------------------------
\* vsnprintf into a buffer of at least n bytes.

\* Faulty variant: the last byte is not kept for the NUL.
sprintputch_NoRoom(b, ch) ==
    [mem |-> IF b.at <= b.end THEN [b.mem EXCEPT ![b.at] = ch] ELSE b.mem,
     at |-> IF b.at <= b.end THEN b.at + 1 ELSE b.at,
     end |-> b.end, cnt |-> b.cnt + 1]

sprintputch(b, ch) ==
    [mem |-> IF b.at < b.end THEN [b.mem EXCEPT ![b.at] = ch] ELSE b.mem,
     at |-> IF b.at < b.end THEN b.at + 1 ELSE b.at,
     end |-> b.end, cnt |-> b.cnt + 1]

\* The codes of error.h are negative, so -E_INVAL is 3.
vsnprintf(buf, n, f, arg) ==
    LET b == FoldLeft(sprintputch,
                      [mem |-> buf, at |-> 0, end |-> n - 1, cnt |-> 0],
                      vprintfmt(f, arg))
    IN  IF n < 1
        THEN [ret |-> -E_INVAL, mem |-> buf]
        ELSE [ret |-> b.cnt, mem |-> [b.mem EXCEPT ![b.at] = NUL]]

-----------------------------------------------------------------------------
\* The kernel's cprintf: every character goes to the console.  putch counts
\* with *cnt++, which moves the pointer, so the result is always 0.
kernel_vcprintf(f, arg) == [ret |-> 0, console |-> vprintfmt(f, arg)]

\* The format of sys_cputs, "%.*s".
CputsFormat ==
    (0 :> "%") @@ (1 :> ".") @@ (2 :> "*") @@ (3 :> "s") @@ (4 :> NUL)

\* The bytes of a buffer are read as a string: a NUL among them ends it.
UpToNul(s) ==
    SubSeq(s, 1, Min({Len(s)} \cup {i - 1 : i \in {i \in DOMAIN s : s[i] = NUL}}))

\* sys_cputs(s, len), from the user's stub to the kernel's cprintf.
sys_cputs(s, len) ==
    kernel_vcprintf(CputsFormat,
                    [int |-> len, str |-> UpToNul(s), chr |-> NUL]).console

\* putch of the user programs: the buffer is flushed when all but its last
\* byte are used.
user_putch(b, ch) ==
    LET buf == Append(b.buf, ch)
    IN  IF Len(buf) = PRINTBUF - 1
        THEN [buf |-> <<>>, console |-> b.console \o sys_cputs(buf, Len(buf)),
              cnt |-> b.cnt + 1]
        ELSE [buf |-> buf, console |-> b.console, cnt |-> b.cnt + 1]

user_vcprintf(f, arg) ==
    LET b == FoldLeft(user_putch, [buf |-> <<>>, console |-> <<>>, cnt |-> 0],
                      vprintfmt(f, arg))
    IN  [ret |-> b.cnt, console |-> b.console \o sys_cputs(b.buf, Len(b.buf))]

=============================================================================
