------------------------------ MODULE Readline -------------------------------
(***************************************************************************)
(* readline() of lib/readline.c in the kernel: getchar() spins on           *)
(* cons_getc() (ConsoleInput.tla) and each character is echoed with         *)
(* cputchar() (Cga.tla), while the user goes on typing.  run_command_prompt *)
(* calls readline() again and again; what the command does is left out.     *)
(*                                                                          *)
(* The branch for a negative character cannot be taken: getchar() returns a *)
(* byte of the console buffer.                                              *)
(***************************************************************************)
EXTENDS Cga, Sequences, Functions

CONSTANTS
    Keys,           \* the characters that can be typed
    BUFLEN,         \* the size of the line buffer
    Prompt,         \* the last character of the prompt
    MaxTyped,       \* bound: characters typed altogether
    CONSBUFSIZE, NUL, DeviceSize, MaxWaiting

\* The real sizes are 1024, 25 rows and 80 columns.
ASSUME ReadlineAssumption ==
    /\ Keys \subseteq Shown \cup Controls
    /\ Prompt \in Glyphs
    /\ BUFLEN \in 1 .. CRT_SIZE - CRT_COLS
    /\ MaxTyped \in Nat

VARIABLES
    serial_exists, serial, kbd, buf, rpos, wpos, pc, ret, waiting, overrun,
    reading,        \* readline() has not returned
    line, i,        \* its buf and i
    screen,
    typed           \* how many characters have been typed

Console == INSTANCE ConsoleInput WITH Chars <- Keys

console == <<serial_exists, serial, kbd, buf, rpos, wpos, pc, ret, waiting,
             overrun>>
readline == <<reading, line, i, screen>>
vars == <<console, readline, typed>>

\* Just called; the prompt is on the screen.
Init ==
    /\ Console!Init
    /\ reading = TRUE
    /\ line = [k \in 0 .. BUFLEN - 1 |-> NUL] /\ i = 0
    /\ \E p \in Cells : screen = cga_putc(
            [buf |-> [c \in Cells |-> Blank], pos |-> p], Prompt)
    /\ typed = 0

Type ==
    /\ typed < MaxTyped
    /\ Console!Receive
    /\ typed' = typed + 1
    /\ UNCHANGED readline

-----------------------------------------------------------------------------
\* getchar(): cons_getc() until it returns something.
Getchar ==
    /\ \/ Console!cons_getc
       \/ reading /\ ret = NUL /\ Console!Call
    /\ UNCHANGED <<readline, typed>>

\* getchar() has returned ret.
Got(cs) == reading /\ pc = "done" /\ ret \in cs

Echo == screen' = cga_putc(screen, ret)

InsertChar ==
    /\ Got(Shown) /\ i < BUFLEN - 1
    /\ Echo
    /\ line' = [line EXCEPT ![i] = ret]
    /\ i' = i + 1
    /\ Console!Call
    /\ UNCHANGED <<reading, typed>>

\* Faulty variant: a backspace at the start of the line is echoed too.
DeleteChar_EchoesAlways ==
    /\ Got({BS})
    /\ Echo
    /\ i' = IF i > 0 THEN i - 1 ELSE i
    /\ Console!Call
    /\ UNCHANGED <<reading, line, typed>>

DeleteChar ==
    /\ Got({BS}) /\ i > 0
    /\ Echo
    /\ i' = i - 1
    /\ Console!Call
    /\ UNCHANGED <<reading, line, typed>>

\* Faulty variant: the terminating zero is only written when the line is not
\* full, and readline goes on.
Enter_NotWhenFull ==
    /\ Got({NL, CR}) /\ i < BUFLEN - 1
    /\ Echo
    /\ line' = [line EXCEPT ![i] = NUL]
    /\ reading' = FALSE
    /\ UNCHANGED <<console, i, typed>>

Enter ==
    /\ Got({NL, CR})
    /\ Echo
    /\ line' = [line EXCEPT ![i] = NUL]
    /\ reading' = FALSE
    /\ UNCHANGED <<console, i, typed>>

\* Any other character, a printable one at the end of the buffer, and a
\* backspace at the start of the line: neither stored nor echoed.
Ignore ==
    /\ \/ Got(Shown) /\ i >= BUFLEN - 1
       \/ Got({BS}) /\ i = 0
       \/ Got({TAB})
    /\ Console!Call
    /\ UNCHANGED <<readline, typed>>

\* The next round of run_command_prompt: the prompt, and readline again.
NextPrompt ==
    /\ ~reading /\ pc = "done"
    /\ screen' = cga_putc(screen, Prompt)
    /\ reading' = TRUE
    /\ i' = 0
    /\ Console!Call
    /\ UNCHANGED <<line, typed>>

Kernel ==
    Getchar \/ InsertChar \/ DeleteChar \/ Enter \/ Ignore \/ NextPrompt

Next == Type \/ Kernel

\* The CPU never stops polling; nobody has to type.
Spec == Init /\ [][Next]_vars /\ WF_vars(Kernel)

-----------------------------------------------------------------------------
\* While a line is typed, the cursor stands behind the prompt and exactly the
\* characters that readline will return, however the line wraps, scrolls and
\* is corrected; the prompt cannot be erased, and the index stays in the
\* buffer with room for the terminating 0.
EchoAgrees ==
    reading =>
        /\ i \in 0 .. BUFLEN - 1
        /\ screen.pos > i
        /\ screen.buf[screen.pos - i - 1] = Prompt
        /\ \A k \in 0 .. i - 1 : screen.buf[screen.pos - i + k] = line[k]

\* A line that has been ended is returned, unless so much was typed ahead that
\* the console buffer was overrun.
LineReturned ==
    (reading /\ NL \in Range(waiting) /\ ~overrun) ~> (~reading \/ overrun)

=============================================================================
