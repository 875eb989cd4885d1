---------------------------- MODULE CommandPrompt ----------------------------
(***************************************************************************)
(* The kernel command prompt (kern/command_prompt.c) working on the memory  *)
(* manager: the commands that change memory or can stop the kernel, as an   *)
(* operator may type them, in any order, on user addresses.                 *)
(*                                                                          *)
(* Unlike the callers of MemoryManager.tla, command_ap looks at the result  *)
(* of neither allocate_frame nor map_frame.  When memory runs out it hands  *)
(* map_frame the null pointer; the model follows what then happens to the   *)
(* entry, to the frames and to the machine:                                 *)
(*                                                                          *)
(*   - panic() does not stop the kernel: it enters another command prompt   *)
(*     on top of the stack, for ever.  depth counts these prompts.          *)
(*   - A page fault in the kernel ends in page_fault_handler, which reads   *)
(*     curenv, a null pointer at the prompt.  With nothing mapped at page 0 *)
(*     that read faults again, until the stack is gone: the machine is      *)
(*     dead.  With a page mapped there, the handler gets as far as          *)
(*     env_destroy, whose env_free panics.                                  *)
(*   - to_physical_address(NULL) is an address beyond the end of memory     *)
(*     (frame number NULL), which to_frame_info refuses with a panic.       *)
(***************************************************************************)
EXTENDS Paging

CONSTANTS
    Reserved,    \* frames that initialize_paging marks as in use
    Junk,        \* what an uninitialised frame holds, read as a page table
    Page0,       \* the page of address 0
    MaxDepth     \* nested prompts that fit on the kernel stack

ASSUME PromptAssumption ==
    /\ Reserved \subseteq Frames
    /\ Junk \in [Slots -> Entries]
    /\ Page0 \in Pages
    /\ MaxDepth \in Nat

VARIABLES
    m,           \* the memory state
    machine,     \* "running" or "dead"
    depth,       \* command prompts entered by panic()
    cmd          \* the last command: its name and its page

vars == <<m, machine, depth, cmd>>

Usable == Frames \ Reserved
NoPage == <<>>

\* After initialize_paging and page_check: everything usable is listed.
Init ==
    /\ \E s \in [1 .. Cardinality(Usable) -> Usable] :
        /\ \A i, j \in DOMAIN s : i < j => s[i] > s[j]
        /\ m = [free |-> s,
                references |-> [f \in Frames |-> IF f \in Reserved THEN 1 ELSE 0],
                directory |-> [d \in Dirs |-> ZeroEntry],
                table |-> [f \in Frames |-> Junk],
                tlb |-> [va \in Pages |-> ZeroEntry]]
    /\ machine = "running"
    /\ depth = 0
    /\ cmd = [name |-> "none", va |-> NoPage]

-----------------------------------------------------------------------------
\* The command returns to the prompt it was typed at.
Return == UNCHANGED <<machine, depth>>

Die == machine' = "dead" /\ UNCHANGED depth

\* _panic(): one more prompt on the stack, while it lasts.
Panic ==
    IF depth < MaxDepth
    THEN depth' = depth + 1 /\ UNCHANGED machine
    ELSE Die

\* A kernel page fault in memory state k.
Fault(k) == IF Translates(k, Page0) THEN Panic ELSE Die

Typed(name, va) == cmd' = [name |-> name, va |-> va]

\* The entry of va holds the address that map_frame computes from NULL.
Bogus(k, va) == Walk(k, va) # ZeroEntry /\ Walk(k, va).frame = NULL

UW == {PERM_USER, PERM_WRITEABLE}

\* map_frame(ptr_page_directory, NULL, va, perm), past get_page_table: what
\* was mapped is unmapped, NULL->references++ stores to page 0, and the entry
\* is written if that store did not fault.
MapNull(va) ==
    LET u == unmap_frame(m, va)
        t == m.directory[PDX(va)].frame
    IN  IF Translates(u, Page0)
        THEN /\ m' = [u EXCEPT !.table[t][PTX(va)] =
                        CONSTRUCT_ENTRY(NULL, UW \cup {PERM_PRESENT})]
             /\ Return
        ELSE m' = u /\ Fault(u)

\* ap when a frame is left: the result of map_frame is ignored.  An entry
\* with a bogus frame panics on the way, after the allocation.
ApAllocated(va) ==
    LET a == allocate_frame(m)
    IN  /\ m.free # <<>>
        /\ IF Bogus(m, va)
           THEN m' = a.mem /\ Panic
           ELSE m' = map_frame(a.mem, a.frame, va, UW).mem /\ Return

\* ap when no frame is left.
ApExhausted(va) ==
    /\ m.free = <<>>
    /\ IF m.directory[PDX(va)] = ZeroEntry \/ Bogus(m, va)
       THEN m' = m /\ Return
       ELSE MapNull(va)

\* Faulty variant: the caller frees the frame that could not be mapped, but
\* also the one that could.
command_ap_DoubleUse(va) ==
    /\ Typed("ap", va)
    /\ LET a == allocate_frame(m)
       IN  /\ m.free # <<>> /\ ~Bogus(m, va)
           /\ m' = free_frame(map_frame(a.mem, a.frame, va, UW).mem, a.frame)
           /\ Return

command_ap(va) ==
    /\ Typed("ap", va)
    /\ ApAllocated(va) \/ ApExhausted(va)

command_fp(va) ==
    /\ Typed("fp", va)
    /\ IF Bogus(m, va)
       THEN m' = m /\ Panic
       ELSE m' = unmap_frame(m, va) /\ Return

\* Faulty variant: any unmapped address stops the machine.
AccessMemory_Fatal(va) ==
    /\ Typed("rum", va)
    /\ UNCHANGED m
    /\ IF Translates(m, va) THEN Return ELSE Die

\* rum and wum: one byte read or written through the mapping of va.
AccessMemory(va) ==
    /\ Typed("rum", va)
    /\ UNCHANGED m
    /\ IF Translates(m, va) THEN Return ELSE Fault(m)

\* A command that needs an argument and got none reads address 0: strtol or
\* strcmp of a null pointer.  With a page mapped there it reads some argument
\* and behaves like another command.
MissingArgument ==
    /\ Typed("missing argument", NoPage)
    /\ ~Translates(m, Page0)
    /\ UNCHANGED m
    /\ Fault(m)

\* ikb, dkb, shr, sm, sp, sr, nr, asp, cfp, and run and kill of a program
\* that exists: not implemented, they panic before they change anything.
NotImplemented ==
    /\ Typed("not implemented", NoPage)
    /\ UNCHANGED m
    /\ Panic

\* help, kernel_info, meminfo, ft, run and kill of an unknown program, an
\* unknown command, a blank line.
Harmless ==
    /\ Typed("harmless", NoPage)
    /\ UNCHANGED m
    /\ Return

Next ==
    /\ machine = "running"
    /\ \/ \E va \in Pages : command_ap(va)
       \/ \E va \in Pages : command_fp(va)
       \/ \E va \in Pages : AccessMemory(va)
       \/ MissingArgument
       \/ NotImplemented
       \/ Harmless

Spec == Init /\ [][Next]_vars

-----------------------------------------------------------------------------
Listed == Range(m.free)
TableDirs == {d \in Dirs : m.directory[d] # ZeroEntry}
Tables == {m.directory[d].frame : d \in TableDirs}
Mappers(f) == {va \in Pages : Walk(m, va) # ZeroEntry /\ Walk(m, va).frame = f}
InUse == {f \in Frames : Mappers(f) # {}}
Leaked == {f \in Usable : m.references[f] = 0} \ Listed

\* Whatever is typed, and however the commands fail, every usable frame is on
\* the free list once, or a page table of one directory entry, or mapped at
\* one page, or lost; never two of these.
FramesAccountedFor ==
    /\ IsInjective(m.free)
    /\ Listed \cup Tables \cup InUse \cup Leaked = Usable
    /\ Listed \cap (Tables \cup InUse) = {}
    /\ Tables \cap InUse = {}
    /\ \A f \in InUse : m.references[f] = 1 /\ Cardinality(Mappers(f)) = 1
    /\ \A f \in Tables :
        /\ m.references[f] = 1
        /\ \A d, e \in TableDirs :
            m.directory[d].frame = f /\ m.directory[e].frame = f => d = e

LeakExplained ==
    Leaked' # Leaked =>
        /\ cmd'.name = "ap"
        /\ \/ Len(m.free) = 1 /\ m.directory[PDX(cmd'.va)] = ZeroEntry
           \/ Bogus(m, cmd'.va)

\* A frame is lost only by an ap that took the last one and found no page
\* table for it, or by one for a page whose entry an earlier ap made from the
\* null pointer: an operator who leaves memory to spare loses none.
LeakOnlyWhenExhausted == [][LeakExplained]_vars

StopExplained ==
    machine' = "dead" =>
        \/ depth = MaxDepth
        \/ /\ cmd'.name # "fp"
           /\ cmd'.name = "ap" => m.free = <<>>
           /\ Translates(m, Page0) => cmd'.name = "ap" /\ cmd'.va = Page0

\* ap and fp stop the machine only when memory has run out, and fp not even
\* then unless the prompts have used up the stack.  With a page mapped at
\* address 0 nothing but the stack can end it, with one exception: an ap of
\* that very page that finds no frame left, which unmaps it and then stores
\* through the null pointer.
DeathExplained == [][StopExplained]_vars

=============================================================================
