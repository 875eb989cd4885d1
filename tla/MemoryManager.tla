---------------------------- MODULE MemoryManager ---------------------------
(***************************************************************************)
(* The post-boot memory manager of kern/memory_manager.c under any sequence *)
(* of calls by kernel code that follows the interface's rules, with the     *)
(* processor filling and evicting its TLB between any two calls.            *)
(*                                                                          *)
(* The rules a caller follows are those of the callers in the kernel        *)
(* (page_check, command_ap, command_fp, the sys_*_page calls):              *)
(*   - a frame is freed by hand only when it was allocated and its          *)
(*     reference count is still 0 ("This function should only be called     *)
(*     when ptr_frame_info->references reaches 0");                         *)
(*   - a frame is mapped only when the caller got it from allocate_frame or *)
(*     found it mapped with get_frame_info;                                 *)
(*   - nobody maps one frame so often that its 16 bit count would wrap.     *)
(*     Nothing in map_frame enforces this; no caller in the kernel maps a   *)
(*     frame more than twice.                                               *)
(* held is the set of frames that callers have in their hands: allocated,   *)
(* not yet mapped.  What happens when a caller does not keep these rules is *)
(* the subject of CommandPrompt.tla.                                        *)
(***************************************************************************)
EXTENDS Paging

CONSTANTS
    Reserved,    \* frames that initialize_paging marks as in use
    Perms,       \* the perm arguments callers pass to map_frame
    Junk         \* what an uninitialised frame holds, read as a page table

ASSUME ReservedAssumption == Reserved \in SUBSET Frames
ASSUME PermsAssumption == Perms \subseteq SUBSET PermBits
ASSUME JunkAssumption == Junk \in [Slots -> Entries]

VARIABLES
    free_frame_list, references, page_directory, page_table, tlb, held

vars == <<free_frame_list, references, page_directory, page_table, tlb, held>>

mem == [free |-> free_frame_list, references |-> references,
        directory |-> page_directory, table |-> page_table, tlb |-> tlb]

SetMem(m) ==
    /\ free_frame_list' = m.free
    /\ references' = m.references
    /\ page_directory' = m.directory
    /\ page_table' = m.table
    /\ tlb' = m.tlb

\* Everything that owns a frame, seen in a memory state.
Listed(m) == Range(m.free)
TableDirs(m) == {d \in Dirs : m.directory[d] # ZeroEntry}
TableFrames(m) == {m.directory[d].frame : d \in TableDirs(m)}
Mappers(m, f) ==
    {va \in Pages : Walk(m, va) # ZeroEntry /\ Walk(m, va).frame = f}
DataFrames(m) == {f \in Frames : Mappers(m, f) # {}}

-----------------------------------------------------------------------------
\* What initialize_paging() leaves: every frame it does not reserve is on the
\* list once, the last one inserted (the highest) first.
IsInitialFreeList(s) ==
    /\ \A i, j \in DOMAIN s : i < j => s[i] > s[j]
    /\ Range(s) = Frames \ Reserved

\* The user part of the directory is empty, and so is the TLB.
Init ==
    /\ free_frame_list \in
        [1 .. Cardinality(Frames \ Reserved) -> Frames \ Reserved]
    /\ IsInitialFreeList(free_frame_list)
    /\ references = [f \in Frames |-> IF f \in Reserved THEN 1 ELSE 0]
    /\ page_directory = [d \in Dirs |-> ZeroEntry]
    /\ page_table = [f \in Frames |-> Junk]
    /\ tlb = [va \in Pages |-> ZeroEntry]
    /\ held = {}

AllocateFrame ==
    LET a == allocate_frame(mem)
    IN  /\ SetMem(a.mem)
        /\ held' = IF a.ret = 0 THEN held \cup {a.frame} ELSE held

FreeFrame(f) ==
    /\ f \in held
    /\ SetMem(free_frame(mem, f))
    /\ held' = held \ {f}

\* The frame is the mapping's once map_frame succeeds; on E_NO_MEM the caller
\* still has it.
MapFrame(f, va, perm) ==
    LET r == map_frame(mem, f, va, perm)
    IN  /\ f \in held \cup DataFrames(mem)
        /\ references[f] < RefModulus - 1
        /\ SetMem(r.mem)
        /\ held' = IF r.ret = 0 THEN held \ {f} ELSE held

UnmapFrame(va) ==
    /\ SetMem(unmap_frame(mem, va))
    /\ UNCHANGED held

Access(va) ==
    /\ Translates(mem, va)
    /\ SetMem(TLBFill(mem, va))
    /\ UNCHANGED held

Evict(va) ==
    /\ tlb[va] # ZeroEntry
    /\ SetMem(tlb_invalidate(mem, va))
    /\ UNCHANGED held

Next ==
    \/ AllocateFrame
    \/ \E f \in Frames : FreeFrame(f)
    \/ \E f \in Frames, va \in Pages, perm \in Perms : MapFrame(f, va, perm)
    \/ \E va \in Pages : UnmapFrame(va)
    \/ \E va \in Pages : Access(va)
    \/ \E va \in Pages : Evict(va)

Spec == Init /\ [][Next]_vars

-----------------------------------------------------------------------------
\* The six variables have the shapes the C declarations give them.
TypeOK ==
    /\ mem \in Memories
    /\ held \in SUBSET Frames

\* free_frame_list never holds a frame twice, and never one that is reserved,
\* referenced or in a caller's hands: LIST_INSERT_HEAD of a listed frame, or
\* of one still mapped, would hand it out twice.
FreeListSound ==
    /\ IsInjective(free_frame_list)
    /\ \A f \in Listed(mem) :
        references[f] = 0 /\ f \notin Reserved /\ f \notin held

\* references counts exactly the entries that point to a frame: one directory
\* entry for a page table, the page table entries for a data frame.
RefCountExact ==
    \A f \in Frames \ Reserved :
        references[f] = IF f \in TableFrames(mem)
                        THEN 1
                        ELSE Cardinality(Mappers(mem, f))

\* A frame is free as soon as nobody refers to it and no caller has it: no
\* sequence of calls loses a frame.
NoLeak ==
    \A f \in Frames :
        references[f] = 0 => f \in Listed(mem) \cup held

\* What the processor has cached for a page is what the page tables say:
\* every entry that unmap_frame clears is also flushed.
TLBCoherent ==
    \A va \in Pages : tlb[va] # ZeroEntry => tlb[va] = Walk(mem, va)

\* A page table belongs to one directory entry, is never reserved memory, and
\* is never mapped as a page, so no store through a mapping changes a mapping.
TablesPrivate ==
    /\ \A d, e \in TableDirs(mem) :
        page_directory[d].frame = page_directory[e].frame => d = e
    /\ \A f \in TableFrames(mem) :
        f \in Frames \ Reserved /\ Mappers(mem, f) = {}

\* One call changes the translation of at most one page: the page table that
\* get_page_table creates on the way brings no mapping of its own with it.
CallsAreLocal ==
    [][\A va, vb \in Pages :
          /\ Walk(mem, va)' # Walk(mem, va)
          /\ Walk(mem, vb)' # Walk(mem, vb)
          => va = vb]_vars

-----------------------------------------------------------------------------
\* The address space the callers see: the page walk of every page, and the
\* frames of the page tables.  The free list, the counts and the TLB vanish.
Abstract == INSTANCE AddressSpace WITH
    translation <- [va \in Pages |-> Walk(mem, va)],
    tableOf <- [d \in Dirs |-> IF page_directory[d] = ZeroEntry
                               THEN NULL
                               ELSE page_directory[d].frame]

\* Every call does to the address space what AddressSpace says: the frame that
\* allocate_frame hands out is one nobody uses, a page table is taken from
\* such frames, and mapping or unmapping a page touches nothing else.  The one
\* call that does less than map_frame's comment says is named there: a page
\* mapped again to its own frame keeps its old permissions (MapAgain).
ImplementsAddressSpace == Abstract!Spec

=============================================================================
