------------------------------- MODULE Strings -------------------------------
(***************************************************************************)
(* The string and memory functions of lib/string.c, and execute_command of  *)
(* kern/command_prompt.c, which is built on them.                           *)
(*                                                                          *)
(* A memory m is a function from addresses to bytes.  A byte is written as  *)
(* the character it holds; Code gives its value where the order of bytes    *)
(* matters.  A function that writes returns the memory it leaves, and one   *)
(* that also returns a value returns a record with a field mem.  Addresses  *)
(* are not negative, so the null pointer is NullPtr.                        *)
(***************************************************************************)
EXTENDS Integers, Sequences, FiniteSetsExt, TLC

CONSTANTS
    LongModulus,     \* 2^32: the number of values of a long
    MAX_ARGUMENTS    \* the size of execute_command's array of arguments

ASSUME StringsAssumption ==
    /\ LongModulus \in Nat \ {0} /\ LongModulus % 2 = 0
    /\ MAX_ARGUMENTS \in Nat \ {0}

NUL == "NUL"
NullPtr == -1

\* The value of a byte as an unsigned char; "e9" is a byte above 127.
Code == (NUL :> 0) @@ ("a" :> 97) @@ ("b" :> 98) @@ ("e9" :> 233)

\* The first address from s on whose byte is in S.
First(m, s, S) == Min({a \in DOMAIN m : a >= s /\ m[a] \in S})

\* The first address from s on whose byte is not in S.
FirstNot(m, s, S) == Min({a \in DOMAIN m : a >= s /\ m[a] \notin S})

-----------------------------------------------------------------------------
\* Lengths and searches.

strlen(m, s) == First(m, s, {NUL}) - s

\* No byte is read once size is used up.
RECURSIVE strnlen(_, _, _)
strnlen(m, s, size) ==
    IF size > 0 /\ m[s] # NUL THEN 1 + strnlen(m, s + 1, size - 1) ELSE 0

strfind(m, s, c) == First(m, s, {c, NUL})

\* The terminating NUL is not part of the search: strchr(s, 0) is null.
strchr(m, s, c) ==
    LET p == strfind(m, s, c)
    IN  IF m[p] = NUL THEN NullPtr ELSE p

\* s + n if the byte is not there.
RECURSIVE memfind(_, _, _, _)
memfind(m, s, c, n) ==
    IF n > 0 /\ m[s] # c THEN memfind(m, s + 1, c, n - 1) ELSE s

-----------------------------------------------------------------------------
\* Comparisons: the difference of the first two bytes that differ.

Difference(c, d) == Code[c] - Code[d]

RECURSIVE strcmp(_, _, _)
strcmp(m, p, q) ==
    IF m[p] # NUL /\ m[p] = m[q]
    THEN strcmp(m, p + 1, q + 1)
    ELSE Difference(m[p], m[q])

RECURSIVE strncmp(_, _, _, _)
strncmp(m, p, q, n) ==
    CASE n = 0 -> 0
      [] n > 0 /\ m[p] # NUL /\ m[p] = m[q] -> strncmp(m, p + 1, q + 1, n - 1)
      [] OTHER -> Difference(m[p], m[q])

RECURSIVE memcmp(_, _, _, _)
memcmp(m, p, q, n) ==
    CASE n = 0 -> 0
      [] n > 0 /\ m[p] = m[q] -> memcmp(m, p + 1, q + 1, n - 1)
      [] OTHER -> Difference(m[p], m[q])

-----------------------------------------------------------------------------
\* Copies, byte by byte in the order of the code: source and destination may
\* overlap, and then a byte that was already written is read again.

RECURSIVE CopyUp(_, _, _, _)
CopyUp(m, dst, src, n) ==
    IF n = 0
    THEN m
    ELSE CopyUp([m EXCEPT ![dst] = m[src]], dst + 1, src + 1, n - 1)

RECURSIVE CopyDown(_, _, _, _)
CopyDown(m, dst, src, n) ==
    IF n = 0
    THEN m
    ELSE CopyDown([m EXCEPT ![dst + n - 1] = m[src + n - 1]], dst, src, n - 1)

memset(m, v, c, n) ==
    [a \in DOMAIN m |-> IF a \in v .. v + n - 1 THEN c ELSE m[a]]

memcpy(m, dst, src, n) == CopyUp(m, dst, src, n)

\* Faulty variant: the overlap is looked for on the wrong side.
memmove_WrongSide(m, dst, src, n) ==
    IF dst < src /\ dst + n > src
    THEN CopyDown(m, dst, src, n)
    ELSE CopyUp(m, dst, src, n)

memmove(m, dst, src, n) ==
    IF src < dst /\ src + n > dst
    THEN CopyDown(m, dst, src, n)
    ELSE CopyUp(m, dst, src, n)

\* strcpy and strlcpy are for strings that do not overlap: the length of the
\* source is that at the call.
strcpy(m, dst, src) == CopyUp(m, dst, src, strlen(m, src) + 1)

\* The source pointer stays on the NUL once it is there.
RECURSIVE strncpy(_, _, _, _)
strncpy(m, dst, src, size) ==
    IF size = 0
    THEN m
    ELSE strncpy([m EXCEPT ![dst] = m[src]], dst + 1,
                 IF m[src] = NUL THEN src ELSE src + 1, size - 1)

\* At most size - 1 characters and a NUL; nothing at all if size is 0.
strlcpy(m, dst, src, size) ==
    LET n == IF size = 0 THEN 0 ELSE strnlen(m, src, size - 1)
        copied == CopyUp(m, dst, src, n)
    IN  [ret |-> n,
         mem |-> IF size = 0 THEN m ELSE [copied EXCEPT ![dst + n] = NUL]]

-----------------------------------------------------------------------------
\* strtol.

Decimals == <<"0", "1", "2", "3", "4", "5", "6", "7", "8", "9">>
Lower == <<"a", "b", "c", "d", "e", "f", "x", "z">>
Upper == <<"A", "F", "Z">>
LowerValue == <<10, 11, 12, 13, 14, 15, 33, 35>>
UpperValue == <<10, 15, 35>>

\* The value of a character as a digit (the letters that the models use).
Digit ==
    [c \in {Decimals[i] : i \in 1 .. 10} |->
        (CHOOSE i \in 1 .. 10 : Decimals[i] = c) - 1]
    @@ [c \in {Lower[i] : i \in DOMAIN Lower} |->
        LowerValue[CHOOSE i \in DOMAIN Lower : Lower[i] = c]]
    @@ [c \in {Upper[i] : i \in DOMAIN Upper} |->
        UpperValue[CHOOSE i \in DOMAIN Upper : Upper[i] = c]]

IsDigit(c, base) == c \in DOMAIN Digit /\ Digit[c] < base

\* The value of a long that holds x: the arithmetic wraps.
Long(x) == ((x + LongModulus \div 2) % LongModulus) - LongModulus \div 2

RECURSIVE Accumulate(_, _, _, _)
Accumulate(m, s, base, val) ==
    IF IsDigit(m[s], base)
    THEN Accumulate(m, s + 1, base, Long(val * base + Digit[m[s]]))
    ELSE [val |-> val, end |-> s]

\* Where the digits start and in which base they are read.
\*
\* Faulty variant: a leading 0 makes the number octal whatever the base.
Prefix_OctalAlways(m, s, base) ==
    CASE base \in {0, 16} /\ m[s] = "0" /\ m[s + 1] = "x" ->
            [at |-> s + 2, base |-> 16]
      [] m[s] = "0" -> [at |-> s + 1, base |-> 8]
      [] OTHER -> [at |-> s, base |-> IF base = 0 THEN 10 ELSE base]

Prefix(m, s, base) ==
    CASE base \in {0, 16} /\ m[s] = "0" /\ m[s + 1] = "x" ->
            [at |-> s + 2, base |-> 16]
      [] base = 0 /\ m[s] = "0" /\ m[s + 1] # "x" -> [at |-> s + 1, base |-> 8]
      [] OTHER -> [at |-> s, base |-> IF base = 0 THEN 10 ELSE base]

strtol(m, s, base) ==
    LET sign == FirstNot(m, s, {" ", "\t"})
        start == IF m[sign] \in {"+", "-"} THEN sign + 1 ELSE sign
        prefix == Prefix(m, start, base)
        r == Accumulate(m, prefix.at, prefix.base, 0)
    IN  [val |-> IF m[sign] = "-" THEN Long(-r.val) ELSE r.val, end |-> r.end]

-----------------------------------------------------------------------------
\* strsplit: argv has MAX_ARGUMENTS elements.  The split characters are read
\* only through strchr, so they are a set.

\* Faulty variant: one argument more than there is room for a null after.
Full_OffByOne(argc) == argc = MAX_ARGUMENTS

Full(argc) == argc = MAX_ARGUMENTS - 1

RECURSIVE SplitFrom(_, _, _, _, _)
SplitFrom(m, s, split, argv, argc) ==
    LET p == FirstNot(m, s, split)
        trimmed == memset(m, s, NUL, p - s)
    IN  CASE m[p] = NUL ->
                [ret |-> 1, mem |-> trimmed, argc |-> argc,
                 argv |-> [argv EXCEPT ![argc] = NullPtr]]
          [] m[p] # NUL /\ Full(argc) ->
                [ret |-> 0, mem |-> trimmed, argc |-> argc, argv |-> argv]
          [] OTHER ->
                SplitFrom(trimmed, First(trimmed, p, split \cup {NUL}), split,
                          [argv EXCEPT ![argc] = p], argc + 1)

strsplit(m, s, split, argv) ==
    SplitFrom(m, s, split, [argv EXCEPT ![0] = NullPtr], 0)

\* execute_command: the result of strsplit is not looked at.  names is the
\* table of commands, numbered from 1: the addresses of their names.  A blank
\* line and an unknown command call nothing.
NoCommand == 0

execute_command(m, s, split, argv, names) ==
    LET r == strsplit(m, s, split, argv)
        named == {i \in DOMAIN names : strcmp(r.mem, r.argv[0], names[i]) = 0}
    IN  [split |-> r,
         command |-> IF r.argc = 0 \/ named = {} THEN NoCommand ELSE Min(named)]

=============================================================================
