----------------------------- MODULE AddressSpace ----------------------------
(***************************************************************************)
(* What the memory manager promises its callers, with no free list, no      *)
(* reference counts and no TLB: an address space that maps pages to frames, *)
(* a page table frame for each directory entry in use, and the frames that  *)
(* callers hold.  A frame is free exactly when nobody uses it, so there is  *)
(* nothing here that could count wrongly, leak or be freed twice.           *)
(*                                                                          *)
(* MemoryManager implements this specification: see MemoryManager!Abstract. *)
(***************************************************************************)
EXTENDS Integers

CONSTANTS Frames, NULL, Dirs, Slots, Reserved, Perms, PERM_PRESENT, ZeroEntry

VARIABLES
    translation,  \* the entry that translates each page, or ZeroEntry
    tableOf,      \* the frame of the page table of each directory, or NULL
    held          \* frames allocated and not yet mapped

avars == <<translation, tableOf, held>>

Pages == Dirs \X Slots

Mapped == {f \in Frames : \E va \in Pages : /\ translation[va] # ZeroEntry
                                            /\ translation[va].frame = f}
TablesInUse == {tableOf[d] : d \in Dirs} \ {NULL}
Free == Frames \ (Reserved \cup held \cup Mapped \cup TablesInUse)

Init ==
    /\ translation = [va \in Pages |-> ZeroEntry]
    /\ tableOf = [d \in Dirs |-> NULL]
    /\ held = {}

Allocate ==
    /\ \E f \in Free : held' = held \cup {f}
    /\ UNCHANGED <<translation, tableOf>>

FreeHeld(f) ==
    /\ held' = held \ {f}
    /\ UNCHANGED <<translation, tableOf>>

MappedTo(va, f) == translation[va] # ZeroEntry /\ translation[va].frame = f

\* A page whose directory entry is empty first takes a free frame for a table.
Map(f, va, perm) ==
    /\ ~MappedTo(va, f)
    /\ IF tableOf[va[1]] = NULL
       THEN \E t \in Free : tableOf' = [tableOf EXCEPT ![va[1]] = t]
       ELSE UNCHANGED tableOf
    /\ translation' = [translation EXCEPT
                          ![va] = [frame |-> f, perm |-> perm \cup {PERM_PRESENT}]]
    /\ held' = held \ {f}

\* A page already mapped to f: whatever permissions the caller asks for, the
\* entry keeps the ones it has.  This is what the code does, not what it says:
\* the comment of map_frame promises that the permissions become those of the
\* call in every case (memory_manager.c 411-412), and the early return of
\* lines 439-440 comes before the entry is written.
MapAgain(f, va) ==
    /\ MappedTo(va, f)
    /\ held' = held \ {f}
    /\ UNCHANGED <<translation, tableOf>>

Unmap(va) ==
    /\ translation' = [translation EXCEPT ![va] = ZeroEntry]
    /\ UNCHANGED <<tableOf, held>>

Next ==
    \/ Allocate
    \/ \E f \in held : FreeHeld(f)
    \/ \E f \in held \cup Mapped, va \in Pages :
          \/ \E perm \in Perms : Map(f, va, perm)
          \/ MapAgain(f, va)
    \/ \E va \in Pages : Unmap(va)

Spec == Init /\ [][Next]_avars

=============================================================================
