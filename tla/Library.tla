------------------------------- MODULE Library -------------------------------
(***************************************************************************)
(* The pure functions of the kernel and of the user library, called on      *)
(* every input of a bounded set and compared with reference definitions:    *)
(* string.c (Strings), printfmt.c (Printfmt), kdebug.c (Stabs), boot/main.c *)
(* and the segment loop of env_create (Loader).                             *)
(*                                                                          *)
(* call is the last call: the function, its arguments and its result.       *)
(***************************************************************************)
EXTENDS Printfmt, Stabs, Loader, FiniteSets

CONSTANTS
    MaxMemory,        \* bytes of memory for the copies
    LineChars, MaxLine,      \* command lines
    NumberChars, MaxNumber,  \* strings given to strtol
    FormatChars, MaxFormat,  \* formats
    FormatValues,     \* their integer arguments
    MaxBuffer,        \* the sizes of a vsnprintf buffer
    MaxStabs, MaxAddr,       \* symbol tables
    MaxVa             \* the addresses and sizes of segments

ASSUME LibraryAssumption ==
    /\ MaxMemory \in Nat /\ MaxLine \in Nat /\ MaxNumber \in Nat
    /\ MaxFormat \in Nat /\ MaxBuffer \in Nat /\ MaxStabs \in Nat
    /\ MaxAddr \in Nat /\ MaxVa \in Nat
    /\ IntModulus = LongModulus

VARIABLE call

Idle == [fn |-> "none"]

Init == call = Idle

\* A call with its arguments and its result.
Call(fn, in, out) == call' = [fn |-> fn, in |-> in, out |-> out]

Return == call # Idle /\ call' = Idle

\* A sequence of bytes as a memory that starts at 0, and as a string.
Bytes(s) == [a \in 0 .. Len(s) - 1 |-> s[a + 1]]
CString(s) == Bytes(Append(s, NUL))

Garbage == -2

-----------------------------------------------------------------------------
\* Every byte of a memory of distinct bytes is a number of its own.
Ramp == [a \in 0 .. MaxMemory - 1 |-> a]

Move ==
    /\ call = Idle
    /\ \E dst, src \in DOMAIN Ramp, n \in 0 .. MaxMemory :
           /\ dst + n <= MaxMemory /\ src + n <= MaxMemory
           /\ \/ Call("memmove", [dst |-> dst, src |-> src, n |-> n],
                      memmove(Ramp, dst, src, n))
              \/ Call("memcpy", [dst |-> dst, src |-> src, n |-> n],
                      memcpy(Ramp, dst, src, n))

\* Two strings of up to two characters, at 0 and at 3, and six bytes for a
\* copy, at 6.
Pairs ==
    {Bytes(s \o <<NUL>> \o t \o <<NUL>> \o [i \in 1 .. 6 |-> "z"]) :
        s, t \in [1 .. 2 -> {NUL, "a", "b", "e9"}]}

StringCopy ==
    /\ call = Idle
    /\ \E m \in Pairs, n \in 0 .. 4 :
           \/ n = 0 /\ Call("strcpy", [mem |-> m, n |-> n], strcpy(m, 6, 0))
           \/ Call("strncpy", [mem |-> m, n |-> n], strncpy(m, 6, 0, n))
           \/ Call("strlcpy", [mem |-> m, n |-> n], strlcpy(m, 6, 0, n))
           \/ Call("memset", [mem |-> m, n |-> n], memset(m, 6, "a", n))

Compare ==
    /\ call = Idle
    /\ \E m \in Pairs, n \in 0 .. 3 :
           \/ n = 0 /\ Call("strcmp", [mem |-> m, n |-> n], strcmp(m, 0, 3))
           \/ Call("strncmp", [mem |-> m, n |-> n], strncmp(m, 0, 3, n))
           \/ Call("memcmp", [mem |-> m, n |-> n], memcmp(m, 0, 3, n))

Find ==
    /\ call = Idle
    /\ \E m \in Pairs, c \in {"a", "b", NUL} :
           Call("find", [mem |-> m, c |-> c],
                [strchr |-> strchr(m, 0, c), strfind |-> strfind(m, 0, c),
                 memfind |-> memfind(m, 0, c, 3), strlen |-> strlen(m, 0),
                 strnlen |-> strnlen(m, 0, 1)])

\* A line, followed by the names of two commands, "a" and "ba".
ExecuteCommand ==
    /\ call = Idle
    /\ \E line \in SeqOf(LineChars, MaxLine) :
           Call("execute_command", line,
                execute_command(
                   Bytes(line \o <<NUL, "a", NUL, "b", "a", NUL>>), 0, {" ", "\t"},
                   [i \in 0 .. MAX_ARGUMENTS - 1 |-> Garbage],
                   <<Len(line) + 1, Len(line) + 3>>))

Strtol ==
    /\ call = Idle
    /\ \E s \in SeqOf(NumberChars, MaxNumber), base \in {0, 8, 10, 16} :
           Call("strtol", [str |-> s, base |-> base], strtol(CString(s), 0, base))

\* A number is printed into a large buffer and parsed again.
PrintNumber ==
    /\ call = Idle
    /\ \E v \in 0 .. LongModulus - 1, c \in {"d", "u", "x", "p"},
          flag \in {<<>>, <<"5">>, <<"0", "5">>} :
           LET f == CString(<<"%">> \o flag \o <<c>>)
               arg == [int |-> v, str |-> <<>>, chr |-> NUL]
               text == vsnprintf([a \in 0 .. 9 |-> NUL], 10, f, arg)
           IN  Call("number", [v |-> v, c |-> c, flag |-> flag],
                    [len |-> text.ret,
                     parsed |-> strtol(text.mem, 0,
                                       CASE c \in {"d", "u"} -> 10
                                         [] c = "x" -> 16
                                         [] c = "p" -> 0)])

PrintFormat ==
    /\ call = Idle
    /\ \E s \in SeqOf(FormatChars, MaxFormat), v \in FormatValues,
          n \in 0 .. MaxBuffer :
           LET arg == [int |-> v, str |-> IF v = 0 THEN NullString ELSE <<"a", "e9">>,
                       chr |-> IF v = 0 THEN NUL ELSE "b"]
               f == CString(s)
           IN  Call("print", [fmt |-> s, n |-> n],
                    [full |-> vprintfmt(f, arg),
                     buffer |-> vsnprintf([a \in 0 .. MaxBuffer |-> "z"], n, f, arg),
                     user |-> user_vcprintf(f, arg),
                     kernel |-> kernel_vcprintf(f, arg)])

-----------------------------------------------------------------------------
\* Tables whose addresses increase; index 0 is the header that the linker
\* puts in front, of a type of its own.
Tables(n) ==
    {t \in [0 .. n - 1 ->
            [n_type : {"SO", "FUN", "SOL"}, n_value : 0 .. MaxAddr, named : {TRUE}]] :
        \A i, j \in 1 .. n - 1 : i < j => t[i].n_value <= t[j].n_value}

WithHeader(t) ==
    [t EXCEPT ![0] = [n_type |-> "UNDF", n_value |-> 0, named |-> FALSE]]

StabSearch ==
    /\ call = Idle
    /\ \E n \in 2 .. MaxStabs : \E t \in {WithHeader(u) : u \in Tables(n)} :
           \E addr \in 0 .. MaxAddr + 1 :
               \/ \E left \in 0 .. 1 :
                   Call("stab_binsearch",
                        [stabs |-> t, n |-> n, left |-> left, addr |-> addr],
                        stab_binsearch(t, left, n - 1, "FUN", addr))
               \/ \E strings \in BOOLEAN :
                   Call("debuginfo_eip",
                        [stabs |-> t, n |-> n, strings |-> strings, addr |-> addr],
                        debuginfo_eip(t, n, strings, addr))

-----------------------------------------------------------------------------
Segments ==
    {ph \in [p_va : 0 .. MaxVa, p_offset : 1 .. MaxVa, p_filesz : 0 .. 3,
             p_memsz : 0 .. 4] :
        /\ ph.p_filesz <= ph.p_memsz
        /\ ph.p_va % SECTSIZE = ph.p_offset % SECTSIZE}

OldMemory == [a \in 0 .. ELFHDR + HeaderSectors * SECTSIZE |-> Garbage]

\* The kernel is linked high: the loader keeps the low bits of its addresses.
Boot ==
    /\ call = Idle
    /\ \E s, t \in Segments, magic \in BOOLEAN :
           LET phs == <<[s EXCEPT !.p_va = @ + LoadModulus], t>>
           IN  Call("cmain", <<s, t>>,
                    cmain(OldMemory,
                          [magic |-> magic, phs |-> phs, e_entry |-> LoadModulus + 1]))

\* Three program headers, and what lies behind them.
LoadUserProgram ==
    /\ call = Idle
    /\ \E s, t \in Segments, load \in [0 .. 3 -> BOOLEAN] :
           /\ s.p_va + s.p_memsz <= t.p_va
           /\ LET phs == <<s, [t EXCEPT !.p_va = @ + MaxVa + 5], t>>
              IN  Call("load", [phs |-> phs, load |-> load],
                       LoadProgram([a \in 0 .. 3 * MaxVa + 9 |-> Garbage], phs, load))

Next ==
    \/ Move \/ StringCopy \/ Compare \/ Find
    \/ ExecuteCommand \/ Strtol
    \/ PrintNumber \/ PrintFormat
    \/ StabSearch
    \/ Boot \/ LoadUserProgram
    \/ Return

Spec == Init /\ [][Next]_call

-----------------------------------------------------------------------------
\* Where the bytes of a copy come from, and the strings of two memories.
Moved(a, in) ==
    IF a \in in.dst .. in.dst + in.n - 1 THEN in.src + (a - in.dst) ELSE a

Ordered(r, u, v) ==
    LET Less(x, y) ==
            \E k \in 1 .. Min({Len(x), Len(y)}) :
                /\ \A i \in 1 .. k - 1 : x[i] = y[i]
                /\ Code[x[k]] < Code[y[k]]
    IN  (r < 0 <=> Less(u, v)) /\ (r > 0 <=> Less(v, u))

\* The n bytes at s; the string at s with its NUL, but at most n bytes of it.
At(m, s, n) == [i \in 1 .. n |-> m[s + i - 1]]
StringAt(m, s, n) == At(m, s, Min({n, strlen(m, s) + 1}))

\* m with the sequence t stored at 6.
Stored(m, t) ==
    [a \in DOMAIN m |-> IF a \in 6 .. 5 + Len(t) THEN t[a - 5] ELSE m[a]]

\* memmove copies whatever the overlap, and memcpy as long as the destination
\* does not lie inside the source (cga_putc scrolls the screen with it); the
\* string copies write the string, its padding or its terminator, and not one
\* byte more; the comparisons order strings by their unsigned bytes; the
\* searches stop at the first byte and never behind the NUL or the count.
BytesExact ==
    LET in == call.in
        m == call.in.mem
        len == strlen(m, 0)
    IN  /\ \/ call.fn = "memmove"
           \/ call.fn = "memcpy" /\ (in.dst <= in.src \/ in.src + in.n <= in.dst)
           => call.out = [a \in DOMAIN Ramp |-> Moved(a, in)]
        /\ call.fn = "memset" =>
            call.out = Stored(m, [i \in 1 .. in.n |-> "a"])
        /\ call.fn = "strcpy" => call.out = Stored(m, At(m, 0, len + 1))
        /\ call.fn = "strncpy" =>
            call.out = Stored(m, [i \in 1 .. in.n |-> IF i <= len THEN m[i - 1] ELSE NUL])
        /\ call.fn = "strlcpy" =>
            LET k == Min({len, in.n - 1})
            IN  call.out = IF in.n = 0
                           THEN [ret |-> 0, mem |-> m]
                           ELSE [ret |-> k, mem |-> Stored(m, Append(At(m, 0, k), NUL))]
        /\ call.fn = "strcmp" => Ordered(call.out, StringAt(m, 0, 3), StringAt(m, 3, 3))
        /\ call.fn = "strncmp" =>
            Ordered(call.out, StringAt(m, 0, in.n), StringAt(m, 3, in.n))
        /\ call.fn = "memcmp" => Ordered(call.out, At(m, 0, in.n), At(m, 3, in.n))
        /\ call.fn = "find" =>
            LET hits == {a \in 0 .. 2 : m[a] = in.c}
                early == {a \in hits : a < len}
            IN  /\ call.out.memfind = Min(hits \cup {3})
                /\ call.out.strfind = Min(early \cup {len})
                /\ call.out.strchr = IF early = {} THEN NullPtr ELSE Min(early)
                /\ call.out.strnlen = Min({1, len})

\* The arguments of a command line are its words, in order and each with its
\* own terminator, at most MAX_ARGUMENTS - 1 of them; argv is never written
\* behind its end and ends with a null pointer unless there were too many;
\* the command called is the one that the first word names.
SplitIsSplit ==
    call.fn = "execute_command" =>
        LET line == call.in
            blank == {" ", "\t"}
            starts == {a \in 0 .. Len(line) - 1 :
                        line[a + 1] \notin blank /\ (a = 0 \/ line[a] \in blank)}
            words == SetToSortSeq(starts, <)
            End(a) == Min({Len(line)} \cup {b \in a .. Len(line) - 1 : line[b + 1] \in blank})
            Word(i) == SubSeq(line, words[i] + 1, End(words[i]))
            r == call.out.split
            n == Min({Len(words), MAX_ARGUMENTS - 1})
        IN  /\ r.argc = n
            /\ r.ret = IF Len(words) = n THEN 1 ELSE 0
            /\ DOMAIN r.argv = 0 .. MAX_ARGUMENTS - 1
            /\ \A i \in 1 .. n :
                /\ r.argv[i - 1] = words[i]
                /\ StringAt(r.mem, words[i], MaxLine + 1) = Append(Word(i), NUL)
            /\ Len(words) = n => r.argv[n] = NullPtr
            /\ call.out.command =
                CASE words # <<>> /\ Word(1) = <<"a">> -> 1
                  [] words # <<>> /\ Word(1) = <<"b", "a">> -> 2
                  [] OTHER -> NoCommand

\* The digits of a string read from position p in a base: how many and their
\* value, however large.
DigitRun(s, p, base) ==
    LET end == Min({Len(s) + 1} \cup {i \in p .. Len(s) : ~IsDigit(s[i], base)})
    IN  [end |-> end - 1,
         value |-> MapThenSumSet(LAMBDA i : Digit[s[i]] * base ^ (end - 1 - i),
                                 p .. end - 1)]

\* strtol returns the number written in the string, modulo 2^32 (it has no
\* overflow check), and where it ends; what printnum prints, strtol reads
\* back, for every value, conversion and padding but one: blanks are printed
\* behind a sign or a "0x", and there strtol stops.
NumbersExact ==
    /\ call.fn = "strtol" =>
        LET s == call.in.str
            base == call.in.base
            w == Min({Len(s) + 1} \cup {i \in DOMAIN s : s[i] \notin {" ", "\t"}})
            signed == w <= Len(s) /\ s[w] \in {"+", "-"}
            p == IF signed THEN w + 1 ELSE w
            hex == /\ base \in {0, 16}
                   /\ p < Len(s) /\ s[p] = "0" /\ s[p + 1] = "x"
            octal == base = 0 /\ ~hex /\ p <= Len(s) /\ s[p] = "0"
            run == CASE hex -> DigitRun(s, p + 2, 16)
                     [] octal -> DigitRun(s, p, 8)
                     [] OTHER -> DigitRun(s, p, IF base = 0 THEN 10 ELSE base)
            negative == signed /\ s[w] = "-"
        IN  /\ call.out.end = run.end
            /\ call.out.val = Long(IF negative THEN -run.value ELSE run.value)
    /\ call.fn = "number" =>
        LET negative == call.in.c = "d" /\ call.in.v >= LongModulus \div 2
            prefixed == call.in.c = "p" \/ negative
        IN  \/ call.in.flag = <<"5">> /\ prefixed
            \/ /\ call.out.parsed.val = Long(call.in.v)
               /\ call.out.parsed.end = call.out.len

\* vsnprintf writes the first n - 1 characters of the text and a NUL, nothing
\* behind byte n, and returns the length of the whole text; a user program's
\* cprintf shows the whole text on the console, in as many system calls as
\* its buffer needs, unless the text contains a NUL; an escape that is not one
\* is printed as it is written.
TextDelivered ==
    call.fn = "print" =>
        LET full == call.out.full
            fmt == call.in.fmt
            n == call.in.n
            k == Min({Len(full), n - 1})
            percents == {i \in DOMAIN fmt : fmt[i] = "%"}
        IN  /\ call.out.buffer =
                IF n < 1
                THEN [ret |-> 3, mem |-> [a \in 0 .. MaxBuffer |-> "z"]]
                ELSE [ret |-> Len(full),
                      mem |-> [a \in 0 .. MaxBuffer |->
                                CASE a < k -> full[a + 1]
                                  [] a = k -> NUL
                                  [] OTHER -> "z"]]
            /\ NUL \notin Range(full) => call.out.user = [ret |-> Len(full), console |-> full]
            /\ call.out.kernel.console = full
            /\ /\ Cardinality(percents) <= 1
               /\ Range(fmt) \cap Conversions \subseteq {"%"}
               => full = fmt

\* The stabs of a type in l .. r, and those that start at or before addr.
StabsOf(t, l, r, type) == {k \in l .. r : t[k].n_type = type}
UpTo(t, S, addr) == {k \in S : t[k].n_value <= addr}

\* How far an exact match may carry the address: a step behind the last of the
\* stabs that start at addr, a step behind it, and so on; addr without one.
Reached(t, S, addr) ==
    LET Hit(j) == \E k \in S : t[k].n_value = addr + j * POINTER_STEP
    IN  addr + POINTER_STEP *
            Max({0} \cup {j \in 1 .. Cardinality(S) : \A i \in 0 .. j - 1 : Hit(i)})

\* The regions that stab_binsearch may answer for addr in l .. r.
Regions(t, l, r, type, addr) ==
    LET S == StabsOf(t, l, r, type)
        before == UpTo(t, S, addr)
        End(k) == Min({r} \cup {j - 1 : j \in {j \in S : j > k}})
    IN  CASE S = {} -> {[left |-> l, right |-> l - 1]}
          [] S # {} /\ before = {} ->
                {[left |-> Min({l, Min(S) - 1}), right |-> Min(S) - 1]}
          [] OTHER ->
                {[left |-> k, right |-> End(k)] :
                    k \in {Max(before)} \cup
                          {k \in S : t[k].n_value \in addr + 1 .. Reached(t, S, addr)}}

\* stab_binsearch finds the last stab of its type that starts at or before the
\* address, and the end of its region is in front of the next one of the type.
\* It may land on a later stab only after an exact match, and only on one that
\* starts within the four bytes that the match adds to the address (or within
\* four more, if that address is matched again); where every stab of the type
\* lies behind the address it returns the entries in front of the first.
\* debuginfo_eip fails exactly where no file starts at or before the address;
\* otherwise it names the function in the region of the file, and as the file
\* the last entry between the two that names one.
StabFound ==
    LET t == call.in.stabs
        last == call.in.n - 1
        addr == call.in.addr
        out == call.out
        Names(k) ==
            \/ t[k].n_type = "SOL"
            \/ t[k].n_type = "SO" /\ t[k].n_value # 0
    IN  /\ call.fn = "stab_binsearch" =>
            out \in Regions(t, call.in.left, last, "FUN", addr)
        /\ call.fn = "debuginfo_eip" =>
            /\ out.ret = -1 <=>
                ~call.in.strings \/ UpTo(t, StabsOf(t, 0, last, "SO"), addr) = {}
            /\ out.ret = 0 =>
                \E file \in Regions(t, 0, last, "SO", addr) :
                \E fun \in Regions(t, file.left, file.right, "FUN", addr) :
                    LET found == fun.left <= fun.right
                        line == IF found THEN fun.left ELSE file.left
                        sources == {k \in file.left .. line : Names(k)}
                    IN  /\ out.eip_fn_name = IF found THEN line ELSE Unknown
                        /\ out.eip_fn_addr = IF found THEN t[line].n_value ELSE addr
                        /\ out.eip_file =
                            IF sources = {} THEN Unknown ELSE Max(sources)

\* The file bytes of a boot segment are where they belong.
InPlace(mem, ph) ==
    \A i \in 0 .. ph.p_filesz - 1 : mem[ph.p_va + i] = SECTSIZE + ph.p_offset + i

\* The sectors that reading a segment writes meet the headers.
OverHeaders(ph) ==
    \E a \in ELFHDR .. ELFHDR + HeaderSectors * SECTSIZE - 1 :
    \E v \in ph.p_va - (ph.p_va % SECTSIZE) .. ph.p_va + ph.p_memsz - 1 :
        v \div SECTSIZE = a \div SECTSIZE

\* Booting reaches the entry point exactly if no segment is read over the
\* headers, to the last byte of its last sector, and then the file bytes of
\* every segment are in place, if the segments come in increasing order
\* and two that share a sector are as far apart in memory as in the file
\* (reading whole sectors overwrites what is in front of a segment).  A user
\* program gets the bytes and the zeros of exactly the segments to be loaded.
SegmentsLoaded ==
    /\ call.fn = "cmain" /\ call.out.jump # Halt =>
        LET s == call.in[1]
            t == call.in[2]
            mem == call.out.mem
            end == s.p_va + s.p_filesz
        IN  /\ IF OverHeaders(s) \/ OverHeaders(t)
               THEN call.out.jump = Astray
               ELSE call.out.jump = 1 /\ InPlace(mem, t)
            /\ /\ call.out.jump = 1
               /\ end <= t.p_va
               /\ \/ end <= t.p_va - (t.p_va % SECTSIZE)
                  \/ t.p_va - s.p_va = t.p_offset - s.p_offset
               => InPlace(mem, s)
    /\ call.fn = "load" =>
        \A a \in DOMAIN call.out :
            LET owners == {k \in 0 .. 2 :
                            /\ call.in.load[k]
                            /\ a - call.in.phs[k + 1].p_va
                                \in 0 .. call.in.phs[k + 1].p_memsz - 1}
                ph == call.in.phs[Min(owners) + 1]
            IN  call.out[a] =
                    CASE owners = {} -> Garbage
                      [] owners # {} /\ a - ph.p_va < ph.p_filesz ->
                            ph.p_offset + (a - ph.p_va)
                      [] OTHER -> 0

=============================================================================
