------------------------------- MODULE Paging -------------------------------
(***************************************************************************)
(* The functions of kern/memory_manager.c that run after boot, as           *)
(* operators from a memory state to a memory state:                         *)
(*                                                                          *)
(*   allocate_frame, free_frame, decrement_references, get_page_table,      *)
(*   map_frame, get_frame_info, unmap_frame, calculate_free_frames          *)
(*                                                                          *)
(* The kernel runs on one CPU with interrupts off, so a call of one of them *)
(* is one step; every module that has a caller of them (MemoryManager,      *)
(* PageCheck, CommandPrompt) builds its actions from these operators.       *)
(*                                                                          *)
(* A memory state m is a record                                             *)
(*   m.free       free_frame_list, from lh_first on (LinkedList.tla shows   *)
(*                that the pointer list behaves like this sequence)         *)
(*   m.references frames_info[f].references, a 16 bit counter               *)
(*   m.directory  the entries of the page directory                         *)
(*   m.table      the contents of each frame, read as a page table          *)
(*   m.tlb        the translations cached by the processor                  *)
(*                                                                          *)
(* A struct Frame_Info * is the number of its frame; the null pointer is    *)
(* NULL.  An entry is a frame number and a set of permission bits, and the  *)
(* zero word is ZeroEntry.  A virtual address is reduced to its page, the   *)
(* pair <<PDX, PTX>>.  A function that returns a value and changes memory   *)
(* is a record of its results: ret, the pointers it stores, and mem.        *)
(***************************************************************************)
EXTENDS Integers, Sequences, FiniteSets, Functions

CONSTANTS
    NumFrames,   \* number_of_frames
    Dirs,        \* the user part of the page directory: indices PDX(va)
    Slots,       \* the indices PTX(va) of a page table
    RefModulus   \* 2^16: references is an unsigned short

ASSUME NumFramesAssumption == NumFrames \in Nat \ {0}
ASSUME PagesAssumption == IsFiniteSet(Dirs) /\ IsFiniteSet(Slots)
ASSUME RefModulusAssumption == RefModulus \in Nat \ {0, 1}

Frames == 0 .. NumFrames - 1
NULL == NumFrames
E_NO_MEM == -4

Pages == Dirs \X Slots
PDX(va) == va[1]
PTX(va) == va[2]

PERM_PRESENT == "P"
PERM_USER == "U"
PERM_WRITEABLE == "W"
PermBits == {PERM_PRESENT, PERM_USER, PERM_WRITEABLE}

\* NULL is the frame number of a physical address beyond the end of memory.
Entries == [frame : Frames \cup {NULL}, perm : SUBSET PermBits]
ZeroEntry == [frame |-> 0, perm |-> {}]
CONSTRUCT_ENTRY(f, perm) == [frame |-> f, perm |-> perm]
ZeroTable == [s \in Slots |-> ZeroEntry]

Memories ==
    [free : Seq(Frames), references : [Frames -> 0 .. RefModulus - 1],
     directory : [Dirs -> Entries], table : [Frames -> [Slots -> Entries]],
     tlb : [Pages -> Entries]]

-----------------------------------------------------------------------------
\* The free list.

LIST_INSERT_HEAD(m, f) == [m EXCEPT !.free = <<f>> \o @]

\* LIST_REMOVE of the first element, the only removal in the kernel.
LIST_REMOVE_FIRST(m) == [m EXCEPT !.free = Tail(@)]

initialize_frame_info(m, f) == [m EXCEPT !.references[f] = 0]

\* Faulty variant: LIST_FIRST is used without the test for NULL.
allocate_frame_Unchecked(m) ==
    [ret |-> 0,
     frame |-> IF m.free = <<>> THEN NULL ELSE Head(m.free),
     mem |-> IF m.free = <<>>
             THEN m
             ELSE initialize_frame_info(LIST_REMOVE_FIRST(m), Head(m.free))]

\* Faulty variant: LIST_REMOVE is forgotten.
allocate_frame_StillListed(m) ==
    IF m.free = <<>>
    THEN [ret |-> E_NO_MEM, frame |-> NULL, mem |-> m]
    ELSE [ret |-> 0, frame |-> Head(m.free), mem |-> m]

allocate_frame(m) ==
    IF m.free = <<>>
    THEN [ret |-> E_NO_MEM, frame |-> NULL, mem |-> m]
    ELSE [ret |-> 0, frame |-> Head(m.free),
          mem |-> initialize_frame_info(LIST_REMOVE_FIRST(m), Head(m.free))]

free_frame(m, f) == LIST_INSERT_HEAD(m, f)

\* Faulty variant: the frame is freed with its last reference still there.
decrement_references_TooEarly(m, f) ==
    LET d == [m EXCEPT !.references[f] = (@ - 1) % RefModulus]
    IN  IF d.references[f] <= 1 THEN free_frame(d, f) ELSE d

\* Faulty variant: the count drops to 0 and the frame goes nowhere.
decrement_references_NoFree(m, f) ==
    [m EXCEPT !.references[f] = (@ - 1) % RefModulus]

decrement_references(m, f) ==
    LET d == [m EXCEPT !.references[f] = (@ - 1) % RefModulus]
    IN  IF d.references[f] = 0 THEN free_frame(d, f) ELSE d

calculate_free_frames(m) == Len(m.free)

-----------------------------------------------------------------------------
\* Page tables.

\* The path of get_page_table that creates the table: the frame is cleared,
\* counted once, and entered in the directory.
\*
\* Faulty variant: the memset is forgotten.
InstallTable_NotCleared(m, f, d) ==
    [m EXCEPT
        !.references[f] = 1,
        !.directory[d] =
            CONSTRUCT_ENTRY(f, {PERM_PRESENT, PERM_USER, PERM_WRITEABLE})]

InstallTable(m, f, d) ==
    [m EXCEPT
        !.table[f] = ZeroTable,
        !.references[f] = 1,
        !.directory[d] =
            CONSTRUCT_ENTRY(f, {PERM_PRESENT, PERM_USER, PERM_WRITEABLE})]

get_page_table(m, va, create) ==
    LET pde == m.directory[PDX(va)]
        a == allocate_frame(m)
    IN  IF pde # ZeroEntry
        THEN [ret |-> 0, table |-> pde.frame, mem |-> m]
        ELSE IF ~create
        THEN [ret |-> 0, table |-> NULL, mem |-> m]
        ELSE IF a.ret = E_NO_MEM
        THEN [ret |-> E_NO_MEM, table |-> NULL, mem |-> m]
        ELSE [ret |-> 0, table |-> a.frame,
              mem |-> InstallTable(a.mem, a.frame, PDX(va))]

\* The frame mapped at va, NULL if there is none, and the page table of va.
\* The test is "entry # 0", not the present bit.
get_frame_info(m, va) ==
    LET t == get_page_table(m, va, FALSE).table
        pte == m.table[t][PTX(va)]
    IN  [table |-> t,
         frame |-> IF t # NULL /\ pte # ZeroEntry THEN pte.frame ELSE NULL]

\* tlb_invalidate(): one invlpg, whatever the directory.
tlb_invalidate(m, va) == [m EXCEPT !.tlb[va] = ZeroEntry]

\* Faulty variant: the stale translation stays in the TLB.
unmap_frame_NoFlush(m, va) ==
    LET i == get_frame_info(m, va)
        d == decrement_references(m, i.frame)
    IN  IF i.frame # NULL
        THEN [d EXCEPT !.table[i.table][PTX(va)] = ZeroEntry]
        ELSE m

unmap_frame(m, va) ==
    LET i == get_frame_info(m, va)
        d == decrement_references(m, i.frame)
    IN  IF i.frame # NULL
        THEN tlb_invalidate(
                [d EXCEPT !.table[i.table][PTX(va)] = ZeroEntry], va)
        ELSE m

\* The last two statements of map_frame: references++ and the new entry.
WriteEntry(m, f, t, va, perm) ==
    [m EXCEPT
        !.references[f] = (@ + 1) % RefModulus,
        !.table[t][PTX(va)] = CONSTRUCT_ENTRY(f, perm \cup {PERM_PRESENT})]

\* Faulty variant: the entry is overwritten, the old frame keeps its count.
map_frame_NoUnmap(m, f, va, perm) ==
    LET g == get_page_table(m, va, TRUE)
        pte == g.mem.table[g.table][PTX(va)]
    IN  IF g.ret # 0
        THEN [ret |-> E_NO_MEM, mem |-> g.mem]
        ELSE IF PERM_PRESENT \in pte.perm /\ pte.frame = f
        THEN [ret |-> 0, mem |-> g.mem]
        ELSE [ret |-> 0, mem |-> WriteEntry(g.mem, f, g.table, va, perm)]

\* Faulty variant: a frame mapped where it already is loses its last
\* reference, is freed, and then gets a reference again.
map_frame_AlwaysUnmap(m, f, va, perm) ==
    LET g == get_page_table(m, va, TRUE)
    IN  IF g.ret # 0
        THEN [ret |-> E_NO_MEM, mem |-> g.mem]
        ELSE [ret |-> 0,
              mem |-> WriteEntry(unmap_frame(g.mem, va), f, g.table, va, perm)]

\* An entry for the frame already there is left alone, its old permissions
\* included; an entry for another frame is unmapped first.
map_frame(m, f, va, perm) ==
    LET g == get_page_table(m, va, TRUE)
        pte == g.mem.table[g.table][PTX(va)]
        present == PERM_PRESENT \in pte.perm
        cleared == IF present THEN unmap_frame(g.mem, va) ELSE g.mem
    IN  IF g.ret # 0
        THEN [ret |-> E_NO_MEM, mem |-> g.mem]
        ELSE IF present /\ pte.frame = f
        THEN [ret |-> 0, mem |-> g.mem]
        ELSE [ret |-> 0, mem |-> WriteEntry(cleared, f, g.table, va, perm)]

-----------------------------------------------------------------------------
\* The processor.

\* The two-level walk: the entry that translates va, ZeroEntry if none does.
Walk(m, va) ==
    LET pde == m.directory[PDX(va)]
    IN  IF PERM_PRESENT \in pde.perm
        THEN m.table[pde.frame][PTX(va)]
        ELSE ZeroEntry

Translates(m, va) == PERM_PRESENT \in Walk(m, va).perm

\* A reference to va caches its translation; only present entries are cached.
TLBFill(m, va) == [m EXCEPT !.tlb[va] = Walk(m, va)]

=============================================================================
