----------------------------- MODULE BootMemory ------------------------------
(***************************************************************************)
(* How the kernel gets its memory at boot (kern/memory_manager.c and        *)
(* kern/helpers.c): detect_memory, initialize_kernel_VM with its allocator  *)
(* boot_allocate_space and its mappings, check_boot_pgdir, turn_on_paging   *)
(* and initialize_paging, which hands the rest of memory over to the free   *)
(* list that MemoryManager.tla starts from.                                 *)
(*                                                                          *)
(* Addresses are physical and count small units; PAGE_SIZE units are a      *)
(* page, so that sizes and kernels that do not end on a page occur.  The    *)
(* page directory and the page tables hold frame numbers, NONE for the zero *)
(* word; boot_get_page_table does not clear the tables it allocates, so     *)
(* what memory held before shows through.                                   *)
(*                                                                          *)
(* One step is one group of statements of FOS_initialize's callees, or one  *)
(* turn of the loop of boot_map_range; s is the state that they pass along, *)
(* a record.                                                                *)
(***************************************************************************)
EXTENDS Integers, Sequences, FiniteSets, Functions

CONSTANTS
    PAGE_SIZE, PHYS_IO_MEM, PHYS_EXTENDED_MEM,
    NPTENTRIES, NPDENTRIES,
    KernelEnds,        \* end_of_kernel: where the linker may put it
    ExtendedSizes,     \* what the CMOS may say of extended memory
    Garbage,           \* what memory may hold before the kernel uses it
    FrameInfoSize,     \* sizeof(struct Frame_Info)
    EnvsSize,          \* NENV * sizeof(struct Env)
    KERNEL_STACK_SIZE

ROUNDDOWN(a) == a - (a % PAGE_SIZE)
ROUNDUP(a) == ROUNDDOWN(a + PAGE_SIZE - 1)
FrameOf(a) == a \div PAGE_SIZE
NONE == -1

\* The layout of inc/memlayout.h, by page directory index; the kernel's part
\* is the upper end, with room for all of physical memory.
CONSTANTS PDX_KERNEL_BASE
PDX_VPT == PDX_KERNEL_BASE - 1
PDX_STACK == PDX_KERNEL_BASE - 2
PDX_UVPT == PDX_KERNEL_BASE - 3
PDX_FRAMES_INFO == PDX_KERNEL_BASE - 4
PDX_UENVS == PDX_KERNEL_BASE - 5

\* Virtual pages, as directory index times NPTENTRIES plus table index.
PageAt(pdx) == pdx * NPTENTRIES
PDX(page) == page \div NPTENTRIES
PTX(page) == page % NPTENTRIES
StackPages == KERNEL_STACK_SIZE \div PAGE_SIZE

\* ptr_stack_bottom: page aligned, in the kernel image.
StackBottom == PHYS_EXTENDED_MEM

\* Frames of all physical addresses, whether memory answers there or not.
NumFrames == (NPDENTRIES - PDX_KERNEL_BASE) * NPTENTRIES
Frames == 0 .. NumFrames - 1

ASSUME BootAssumption ==
    /\ PAGE_SIZE \in Nat \ {0, 1} /\ NPTENTRIES \in Nat \ {0}
    /\ FrameInfoSize \in Nat \ {0} /\ EnvsSize \in Nat \ {0}
    /\ PHYS_IO_MEM \in Nat \ {0} /\ PHYS_EXTENDED_MEM \in Nat
    /\ PHYS_IO_MEM < PHYS_EXTENDED_MEM
    /\ PHYS_IO_MEM % PAGE_SIZE = 0 /\ PHYS_EXTENDED_MEM % PAGE_SIZE = 0
    /\ KERNEL_STACK_SIZE \in Nat \ {0} /\ KERNEL_STACK_SIZE % PAGE_SIZE = 0
    /\ StackPages < NPTENTRIES
    /\ KernelEnds \subseteq Nat /\ ExtendedSizes \subseteq Nat
    /\ \A e \in KernelEnds : e >= StackBottom + KERNEL_STACK_SIZE
    \* The kernel and its page directory are in memory.
    /\ \A e \in KernelEnds, x \in ExtendedSizes :
        ROUNDUP(e) + PAGE_SIZE <= PHYS_EXTENDED_MEM + x
    \* KERNEL_BASE has room for all of memory, the CMOS reports no more than
    \* 64MB; each of the two arrays has a page table of its own.
    /\ \A x \in ExtendedSizes :
        /\ FrameOf(PHYS_EXTENDED_MEM + x) <= NumFrames
        /\ FrameOf(PHYS_EXTENDED_MEM + x) * FrameInfoSize
                <= NPTENTRIES * PAGE_SIZE
    /\ EnvsSize <= NPTENTRIES * PAGE_SIZE
    /\ PDX_KERNEL_BASE \in Nat /\ NPDENTRIES \in Nat
    /\ PDX_UENVS > 0 /\ PDX_KERNEL_BASE < NPDENTRIES

VARIABLES pc, s,
    i       \* the pages that boot_map_range has mapped, between calls 0
vars == <<pc, s, i>>

Slots == 0 .. NPTENTRIES - 1
Indices == 0 .. NPDENTRIES - 1

\* The kernel is in memory, its globals are zero.
Init ==
    /\ pc = "detect_memory" /\ i = 0
    /\ \E end \in KernelEnds, ext \in ExtendedSizes, g \in Garbage :
        s = [end_of_kernel |-> end,
             extended |-> ext,
             maxpa |-> 0, number_of_frames |-> 0,
             ptr_free_mem |-> 0,
             allocated |-> {},
             frames_info |-> 0, envs |-> 0, ptr_page_directory |-> 0,
             directory |-> [d \in Indices |-> NONE],
             table |-> [f \in Frames |-> [n \in Slots |-> g]],
             references |-> [f \in Frames |-> NONE],
             free_frame_list |-> <<>>]

-----------------------------------------------------------------------------
detect_memory ==
    LET ext == ROUNDDOWN(s.extended)
        maxpa == IF ext # 0 THEN PHYS_EXTENDED_MEM + ext ELSE ext
    IN  /\ pc = "detect_memory"
        /\ s' = [s EXCEPT !.maxpa = maxpa, !.number_of_frames = FrameOf(maxpa)]
        /\ pc' = "create_directory"
        /\ UNCHANGED i

\* Faulty variant: the pointer is not rounded up.
boot_allocate_space_Unaligned(t, size) ==
    LET start == IF t.ptr_free_mem = 0 THEN t.end_of_kernel ELSE t.ptr_free_mem
    IN  [at |-> start,
         state |-> [t EXCEPT !.ptr_free_mem = start + size,
                             !.allocated = @ \cup {<<start, size>>}]]

\* allocated is history: the start and the size of what was handed out.
\* Every caller passes align = PAGE_SIZE, and the code rounds to PAGE_SIZE.
boot_allocate_space(t, size) ==
    LET start == ROUNDUP(IF t.ptr_free_mem = 0 THEN t.end_of_kernel
                                               ELSE t.ptr_free_mem)
    IN  [at |-> start,
         state |-> [t EXCEPT !.ptr_free_mem = start + size,
                             !.allocated = @ \cup {<<start, size>>}]]

\* K_VIRTUAL_ADDRESS panics on an address beyond the end of memory: it refuses
\* a page table that boot_allocate_space has placed there.
TableRefused(t, page) == t.directory[PDX(page)] >= t.number_of_frames

\* boot_get_page_table with create = 1, where its table is not refused: the
\* state with a table for page.
boot_get_page_table(t, page) ==
    LET a == boot_allocate_space(t, PAGE_SIZE)
    IN  IF t.directory[PDX(page)] \in {NONE, 0}
        THEN [a.state EXCEPT !.directory[PDX(page)] = FrameOf(a.at)]
        ELSE t

\* A store beyond the end of memory is lost.
IsMemory(t, frame) == frame < FrameOf(PHYS_EXTENDED_MEM + t.extended)

MapPage(t, page, frame) ==
    LET u == boot_get_page_table(t, page)
        tab == u.directory[PDX(page)]
    IN  IF IsMemory(u, tab)
        THEN [u EXCEPT !.table[tab][PTX(page)] = frame]
        ELSE u

\* boot_map_range, once around for (i = 0; i < size; i += PAGE_SIZE); the call
\* is at pc = call, and next follows it.
boot_map_range(call, page, size, address, next) ==
    /\ pc = call
    /\ IF i * PAGE_SIZE < size
       THEN \/ /\ TableRefused(s, page + i)
               /\ i' = 0
               /\ pc' = "panic"
               /\ UNCHANGED s
            \/ /\ ~TableRefused(s, page + i)
               /\ s' = MapPage(s, page + i, FrameOf(ROUNDUP(address)) + i)
               /\ i' = i + 1
               /\ UNCHANGED pc
       ELSE /\ i' = 0
            /\ pc' = next
            /\ UNCHANGED s

-----------------------------------------------------------------------------
\* initialize_kernel_VM, one step for each of its sections.

create_directory ==
    LET a == boot_allocate_space(s, PAGE_SIZE)
    IN  /\ pc = "create_directory"
        /\ s' = [a.state EXCEPT !.ptr_page_directory = a.at,
                                !.directory = [d \in Indices |-> NONE]]
        /\ pc' = "map_stack"
        /\ UNCHANGED i

map_stack ==
    boot_map_range("map_stack", PageAt(PDX_VPT) - StackPages,
                   KERNEL_STACK_SIZE, StackBottom, "map_memory")

\* The size is one byte short of the whole range.
map_memory ==
    boot_map_range("map_memory", PageAt(PDX_KERNEL_BASE),
                   NumFrames * PAGE_SIZE - 1, 0, "create_frames_info")

create_frames_info ==
    LET a == boot_allocate_space(s, s.number_of_frames * FrameInfoSize)
    IN  /\ pc = "create_frames_info"
        /\ s' = [a.state EXCEPT !.frames_info = a.at]
        /\ pc' = "map_frames_info"
        /\ UNCHANGED i

map_frames_info ==
    boot_map_range("map_frames_info", PageAt(PDX_FRAMES_INFO),
                   s.number_of_frames * FrameInfoSize, s.frames_info,
                   "setup_listing")

\* setup_listing_to_all_page_tables_entries: the directory is a table, twice.
setup_listing ==
    /\ pc = "setup_listing"
    /\ s' = [s EXCEPT !.directory[PDX_VPT] = FrameOf(s.ptr_page_directory),
                      !.directory[PDX_UVPT] = FrameOf(s.ptr_page_directory)]
    /\ pc' = "create_envs"
    /\ UNCHANGED i

create_envs ==
    LET a == boot_allocate_space(s, EnvsSize)
    IN  /\ pc = "create_envs"
        /\ s' = [a.state EXCEPT !.envs = a.at]
        /\ pc' = "map_envs"
        /\ UNCHANGED i

map_envs ==
    boot_map_range("map_envs", PageAt(PDX_UENVS), EnvsSize, s.envs,
                   "check_boot_pgdir")

\* The call does not return.
PANICS == -2

\* What a page translates to; through PDX_VPT and PDX_UVPT the directory is
\* read as a table, which no check does.
check_va2pa(t, page) ==
    CASE t.directory[PDX(page)] = NONE -> NONE
      [] TableRefused(t, page) -> PANICS
      [] OTHER -> t.table[t.directory[PDX(page)]][PTX(page)]

\* The asserts; a failed one panics, as does a call that does not return.
PgdirIsRight(t) ==
    /\ \A n \in 0 .. FrameOf(ROUNDUP(t.number_of_frames * FrameInfoSize)) - 1 :
        check_va2pa(t, PageAt(PDX_FRAMES_INFO) + n) = FrameOf(t.frames_info) + n
    /\ \A n \in Frames : check_va2pa(t, PageAt(PDX_KERNEL_BASE) + n) = n
    /\ \A n \in 0 .. StackPages - 1 :
        check_va2pa(t, PageAt(PDX_VPT) - StackPages + n)
            = FrameOf(StackBottom) + n
    /\ \A d \in Indices : t.directory[d] # NONE <=>
        \/ d \in {PDX_VPT, PDX_UVPT, PDX_STACK, PDX_UENVS, PDX_FRAMES_INFO}
        \/ d >= PDX_KERNEL_BASE

check_boot_pgdir ==
    /\ pc = "check_boot_pgdir"
    /\ pc' = IF PgdirIsRight(s) THEN "turn_on_paging" ELSE "panic"
    /\ UNCHANGED <<s, i>>

\* The identity mapping of the first 4MB is there only inside this call.
turn_on_paging ==
    /\ pc = "turn_on_paging"
    /\ s' = [s EXCEPT !.directory[0] = NONE]
    /\ pc' = "initialize_paging"
    /\ UNCHANGED i

\* Frames a up to b - 1, in the order LIST_INSERT_HEAD leaves them.
Descending(a, b) == [k \in 1 .. b - a |-> b - k]

\* Faulty variant: only the kernel image is reserved, not what was allocated
\* behind it.
initialize_paging_ImageOnly ==
    LET io == FrameOf(PHYS_IO_MEM)
        range_end == FrameOf(ROUNDUP(s.end_of_kernel))
    IN  /\ pc = "initialize_paging"
        /\ s' = [s EXCEPT
                !.references = [f \in Frames |->
                    IF f \in 1 .. io - 1 \/ f \in range_end .. s.number_of_frames - 1
                    THEN 0 ELSE IF f < range_end THEN 1 ELSE @[f]],
                !.free_frame_list =
                    Descending(range_end, s.number_of_frames) \o Descending(1, io)]
        /\ pc' = "done"
        /\ UNCHANGED i

initialize_paging ==
    LET io == FrameOf(PHYS_IO_MEM)
        range_end == FrameOf(ROUNDUP(s.ptr_free_mem))
    IN  /\ pc = "initialize_paging"
        /\ s' = [s EXCEPT
                !.references = [f \in Frames |->
                    IF f \in 1 .. io - 1 \/ f \in range_end .. s.number_of_frames - 1
                    THEN 0 ELSE IF f < range_end THEN 1 ELSE @[f]],
                !.free_frame_list =
                    Descending(range_end, s.number_of_frames) \o Descending(1, io)]
        /\ pc' = "done"
        /\ UNCHANGED i

Next ==
    \/ detect_memory \/ create_directory \/ map_stack \/ map_memory
    \/ create_frames_info \/ map_frames_info \/ setup_listing
    \/ create_envs \/ map_envs
    \/ check_boot_pgdir \/ turn_on_paging \/ initialize_paging

Spec == Init /\ [][Next]_vars

-----------------------------------------------------------------------------
\* The machine has the memory that the boot allocations take.
Fits == s.ptr_free_mem <= s.maxpa

\* Frames that are in use before the memory manager starts: the BIOS's, the
\* I/O hole, the kernel, and every boot allocation, to its last byte.
FramesOf(start, size) == FrameOf(start) .. FrameOf(start + size - 1)
InUse ==
    {0} \cup FramesOf(PHYS_IO_MEM, PHYS_EXTENDED_MEM - PHYS_IO_MEM)
        \cup FramesOf(PHYS_EXTENDED_MEM, s.end_of_kernel - PHYS_EXTENDED_MEM)
        \cup UNION {FramesOf(a[1], a[2]) : a \in s.allocated}

\* No two boot allocations share a frame, and none touches the kernel: a page
\* table is never also part of an array, whatever the sizes.
AllocationsDisjoint ==
    \A a, b \in s.allocated :
        /\ a # b => FramesOf(a[1], a[2]) \cap FramesOf(b[1], b[2]) = {}
        /\ a[1] >= s.end_of_kernel

\* The asserts of check_boot_pgdir hold, and no page table is refused, on every
\* machine with the memory for it, whatever that memory held before: the
\* kernel boots.
BootAssertsHold == pc = "panic" => ~Fits

\* What initialize_paging hands over is what MemoryManager.tla starts from:
\* the list has every frame that is not in use, once, and no other; counts
\* say the same; the user part of the directory is empty.
HandOver ==
    pc = "done" /\ Fits =>
        /\ IsInjective(s.free_frame_list)
        /\ Range(s.free_frame_list) = (0 .. s.number_of_frames - 1) \ InUse
        /\ \A f \in 0 .. s.number_of_frames - 1 :
            s.references[f] = IF f \in InUse THEN 1 ELSE 0
        /\ \A d \in 0 .. PDX_UENVS - 1 : s.directory[d] = NONE

-----------------------------------------------------------------------------
\* "The kernel ensures that "Invalid Memory" (USER_LIMIT) is *never* mapped":
\* the pages under the kernel stack have no translation.
InvalidMemoryNeverMapped ==
    pc = "done" /\ Fits =>
        \A page \in PageAt(PDX_STACK) .. PageAt(PDX_VPT) - StackPages - 1 :
            check_va2pa(s, page) = NONE

=============================================================================
