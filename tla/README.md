# FOS v2: a TLA+ model of the kernel

FOS is a small teaching kernel for one x86 processor, derived from JOS. This
directory holds TLA+ modules for its core, TLC configurations that check them on
small instances, and TLAPS proofs of the central results for every size.

The kernel runs with interrupts off, so a C function that touches no device runs to
its end and is one step of the model. What is concurrent is the hardware: the TLB
caches translations at any moment, the keyboard and the serial line deliver
characters while the kernel polls, and the operator types any command at any time.

Three pieces of the repository are exercises that are left open and panic: the new
page directory in `env_create`, `program_segment_alloc_map` and `env_free`. In the
kernel as it is built no user program can run, and the client of the memory manager is
the command prompt; `CommandPrompt` models that kernel. The code around the open pieces
(environments, traps, system calls) is complete, and `Environments` models it with the
three as external operators that do what their callers and their step lists rely on.

## Inventory

| Component | State | Operations | Interacts with | What makes it correct |
|---|---|---|---|---|
| Frame allocator, page tables (`kern/memory_manager.c`) | `free_frame_list`, `frames_info[].references`, page directory, page tables; the TLB | `allocate_frame`, `free_frame`, `decrement_references`, `get_page_table`, `map_frame`, `get_frame_info`, `unmap_frame` | boot code hands memory over; command prompt, system calls and `page_check` call it | a frame has one kind of owner, counts are exact, nothing leaks, the TLB agrees with the tables |
| Lists (`inc/queue.h`) | `lh_first`, `le_next`, `le_prev` | `LIST_INIT`, `LIST_INSERT_*`, `LIST_REMOVE` | free frames, free environments | the pointers are a sequence; a saved head stays valid |
| Boot memory (`initialize_kernel_VM`, `initialize_paging`, `helpers.c`) | `ptr_free_mem`, the first directory and tables, `frames_info`, `envs` | `detect_memory`, `boot_*`, `check_boot_pgdir`, `turn_on_paging`, `initialize_paging` | runs once, before the allocator | disjoint allocations; exactly the unused frames are handed over |
| Self-test (`page_check`) | its locals, the stolen list | one function | the allocator | passes, and restores everything |
| Command prompt (`kern/command_prompt.c`, `_panic`, `page_fault_handler`) | the stack of nested prompts | `ap`, `fp`, memory reads and writes, the other commands | allocator, `readline` | no frame gets two owners whatever fails |
| Console output (`cga_putc`) | CRT memory, cursor | one function | `cprintf`, `readline` | screen and cursor follow the text |
| Console input (`cons_intr`, `cons_getc`) | circular buffer | poll, store, read | devices, `getchar` | a queue |
| Line editor (`lib/readline.c`) | line buffer, index | one function | console input and output | buffer bounds; what is shown is what is returned; Enter returns |
| Keyboard (`kbd_proc_data`) | the static word `shift` | one function | scan codes, `cons_intr` | modifiers and escapes follow the keys |
| Environments (`kern/user_environment.c`, `envid2env`) | `envs`, `env_free_list`, `curenv`, cr3, `userPrograms[].environment` | `env_init`, `env_create`, `env_run`, `env_free`, `env_destroy`, `env_run_cmd_prmpt` | allocator; `run` and `kill` at the prompt | ids identify, address spaces are separate, an end returns every frame |
| Traps and system calls (`kern/trap.c`, `kern/syscall.c`) | the saved registers | page fault, `sys_env_destroy`, `sys_env_sleep`, `sys_allocate_page`, the rest | environments, allocator, console | a program ends nothing but itself and loses no memory of others |
| Strings (`lib/string.c`), `execute_command` | none | every function | all | agree with a reference |
| Printing (`lib/printfmt.c`, the two `printf.c`) | buffers of `vsnprintf` and of user programs | `vprintfmt` and its users | console, `sys_cputs` | the whole text arrives, no buffer is overrun |
| Debug tables (`kern/kdebug.c`) | none | `stab_binsearch`, `debuginfo_eip` | the monitor | the symbol that contains the address |
| Loaders (`boot/main.c`, segment loop of `env_create`) | none | `cmain`, `readseg`, `PROGRAM_SEGMENT_*` | disk, environments | every byte of every segment in place |

The hard behaviours: memory running out in the middle of a call; the order of
reference-count changes; a stale TLB; reused frames whose contents are not cleared;
boot sizes that do not end on a page; pointers to environments that are gone, ids that
wrap around, creation that fails half-way; characters arriving while the buffer is polled
or full; a decoder whose state lives between calls; and a kernel whose `panic` does
not stop it. `PROJECT.json` lists them by line, with the properties that would catch
each one.

## Modules

| Module | Models | State and actions |
|---|---|---|
| `Paging` | the functions of `memory_manager.c` that run after boot | operators from a memory record (list, counts, directory, tables, TLB) to a memory record, with their return values |
| `MemoryManager` | any sequence of calls by callers that keep the interface's rules | the five parts of memory as variables, `held` for frames in a caller's hands; one action per function; `Access` and `Evict` are the processor |
| `AddressSpace` | the abstract promise | a translation per page, a table per directory entry, the held frames; a frame is free when nobody uses it. `MapAgain` is `map_frame` of the frame that is already there, which keeps the entry as it is |
| `LinkedList` | `inc/queue.h` | `next` and `prev` pointers; history sequences say what the callers believe |
| `BootMemory` | `detect_memory` to `initialize_paging` | one step per section of `initialize_kernel_VM` and one per page of the loop in `boot_map_range` (`i` counts them); addresses in units, eight to a page |
| `PageCheck` | `page_check` | one step per group of statements; a failed assert stops it |
| `FosInitialize` | `FOS_initialize` | composes `BootMemory` and `PageCheck`: the test runs on the very list, counts, directory and frame contents that the boot leaves |
| `CommandPrompt` | the commands, `_panic`, kernel page faults | the memory record, nested prompts, whether the machine is alive |
| `Cga`, `Terminal` | `cga_putc` | operators on a screen; `Terminal` prints any characters and keeps the endless sheet of paper they would fill |
| `ConsoleInput` | `serial_intr`, `kbd_intr`, `cons_intr`, `cons_getc` | the buffer and a program counter inside `cons_getc`; devices deliver between any two steps |
| `Readline` | `readline`, `getchar`, the loop of `run_command_prompt` | composes `ConsoleInput` (by `INSTANCE`) and `Cga` |
| `Keyboard` | `kbd_proc_data` and its tables | the word `shift`; the keyboard sends make and break codes in any order of keys |
| `Environments` | environments, user traps, system calls, `run` and `kill` | a kernel record on top of `Paging`: `envs`, the free list, `curenv`, cr3, `userPrograms`; `mode` says who runs; history variables `owner`, `past`, `gone` |
| `Strings` | `lib/string.c`, `execute_command` | operators on a memory, byte by byte where the order matters |
| `Printfmt` | `lib/printfmt.c` and its three users | the characters handed to `putch`; what each `putch` makes of them |
| `Stabs` | `kern/kdebug.c` | the search loop with its variables |
| `Loader` | `boot/main.c`, the segments of `env_create` | memory holds the numbers of the bytes loaded |
| `Library` | calls of the four modules above | one variable, the last call with its arguments and result; one action per group of functions |
| `*_proofs` | theorems | see below |

Operators whose names end in `_Something` and whose comment starts with "Faulty
variant" are deliberate mistakes (a forgotten flush, a rounding the wrong way). No
specification uses them; they show that each property would notice the mistake.

Data is abstracted, control is not. A frame is a number, an address is its page, an
entry is a frame with a set of permission bits, a character is a model value. What a
frame holds matters only when it is read as a page table; before that it is `Junk`.
The reference counter keeps its width (`RefModulus`).

## Runs

| Run | Instance | What it shows |
|---|---|---|
| `memory_manager` | 5 frames, 2 x 2 pages, two permissions, counts modulo 4 | list, counts, tables, TLB and leaks (invariants); one call changes one page (`CallsAreLocal`); the whole implements `AddressSpace`. Five frames, one of them reserved, are enough for two page tables and two data frames, and for running out at every call; a frame can be mapped up to the limit of its counter; with two permissions a remap can ask for others than the entry has |
| `fos_initialize` | kernels ending at 11 offsets, 176 sizes of extended memory, cleared and uncleared memory, 32 frames of address space | boot allocations are disjoint, `check_boot_pgdir` passes whenever memory suffices, the hand-over is exact, and `page_check` passes and restores everything |
| `linked_list` | 4 interchangeable elements | pointers and sequence agree, also with a list put aside |
| `command_prompt` | 5 frames, 4 pages, 2 nested prompts | frames have one owner; leaks and deaths only as named |
| `terminal` | 2 rows of 3, three rows of scrolling | screen and cursor follow the paper through wraps, scrolls and tabs longer than a row |
| `console_input` | buffer of 3, two characters, two devices | queue order over wraps, up to the overrun |
| `readline` | buffer of 3, line of 2, screen of 3 x 2, 4 keys typed | echo and buffer agree; every ended line is returned |
| `keyboard` | 10 keys, 3 held together, 3 bytes on their way | modifiers, escape, characters, reboot |
| `environments` | 2 environments, 2 programs, 12 frames, 3 generations of ids, pages for segment, stack and address 0 | ids, separation, lost frames, ends of environments, with memory running out at every point of a creation and of `sys_allocate_page` |
| `library` | strings of up to 6 characters, formats of 4, tables of 4 stabs, two segments of up to 4 bytes, words of 6 bits | the pure functions agree with reference definitions |
| `console_overrun` | as `console_input` | **violated**: `cons_getc` does not return the next character once the buffer was full |
| `invalid_memory` | as `fos_initialize` | **violated**: `memlayout.h` says the pages under the kernel stack are never mapped; uncleared page tables can map them |

Why the bounds suffice: every index and count in the properties is compared with
neighbours (the next position, the next frame, one more or one less), the small
instances reach each wrap, each exhaustion and each page boundary, and the proofs
remove the bounds for all but the library functions.
`MaxTyped`, `MaxWaiting`, `DeviceSize`, `MaxTop`, `MaxDown`, `MaxSent` and `MaxDepth`
bound the environment. `MaxDepth` stands for the size of the kernel stack. In
`linked_list` the elements are symmetric, in `memory_manager` the directory entries and
the slots of a table: nothing distinguishes them. `environments`
has a view that leaves out the numbers of the frames and what free memory holds: no
step looks at either, and `SpacesSeparate` shows that no frame is shared, so the shape
of the address spaces and the length of the free list determine what can follow.

In `environments` 11 usable frames hold two programs of five (directory, two page
tables, two pages) with one frame to spare, so the second creation fails at each of its
allocations, depending on what the first program took or lost. `past` remembers the
ids of each environment up to the wrap-around, and programs pass any of them to
`sys_env_destroy`. A program may do anything at any time; nothing preempts it. What the
kernel does with an environment that does not exist (`kill` without one) cannot be
said, and the model stops there (`corrupt`).

In `library` every value of a 6 bit word is printed and parsed, so overflow, sign and
width occur; `MAX_ARGUMENTS` is 3, `PRINTBUF` 4 and a sector 2 bytes, so every limit is
met and passed.

Deadlock is checked except where the system really stops: `command_prompt` and
`environments` (the machine may die), `keyboard` (it reboots), `fos_initialize` (the boot ends).

Fairness is assumed in one place: `Readline` has weak fairness of the kernel's own
steps, because `getchar` polls in a loop and nothing preempts it. Nobody has to type.
`LineReturned` is under the condition that the console buffer was not overrun.

## What the violated runs say

* `cons_intr` never compares `wpos` with `rpos` (`console.c` 384 against the comment
  at 390).
* `boot_get_page_table` does not clear the tables it makes (`memory_manager.c` 224
  against `memlayout.h` 74). Harmless where memory starts out as zero.

More disagreements were met and have no run of their own:

* `boot_allocate_space` does not panic when memory runs out (comment at
  `memory_manager.c` 137).
* `map_frame` of the frame that is already mapped keeps the entry's permissions
  (`memory_manager.c` 440), although its comment says they "should be set to
  'perm|PERM_PRESENT'" (411-412). No caller in the kernel remaps a frame with other
  permissions, but the interface allows it and the run does it: `AddressSpace` promises
  what the code does, in an action of its own (`MapAgain`).
* The comment in `page_fault_handler` (`trap.c` 184-185) says that kernel-mode exceptions
  have been handled before it; nothing handles them. At a prompt that a panic in a system
  call has opened `curenv` is still set, and a command that touches an unmapped address
  (or lacks its argument, with page 0 unmapped) destroys that environment. With no
  environment current the handler faults on the null pointer until the machine resets.
  `EndsExplained` and `DeathExplained` say so.
* `command_ap` replaces what is mapped, where its comment (`command_prompt.c` 322) says
  "If the given user virtual address is mapped, do nothing"; and on the last free frame
  it loses that frame when it also needs a page table (`LeakOnlyWhenExhausted` states
  exactly when).
* `sys_allocate_page` loses a frame for every refused argument and when `map_frame`
  fails ("remember to free the page you allocated!", `syscall.c` 97), and refuses the
  `PTE_P` that its comment asks for (81 against 116). Its result never reaches the
  caller. `LossExplained` names these losses.
* The codes in `error.h` are negative already, so `-E_BAD_ENV` and `-E_INVAL` are
  positive: `sys_env_destroy` does not notice a bad id and works on the null
  environment (`syscall.c` 59). `EndsExplained` says what comes of it.
* `env_destroy` leaves `userPrograms` pointing at the environment it freed, and `run`
  forgets a program's sleeping environment, which nothing can end or resume afterwards.
  A program that sleeps may be given the entry point of an earlier program
  (`get_user_program_info_by_env` takes the first match); it is never resumed.
* The user library's `panic` executes `int3`, "which causes FOS to enter the FOS kernel
  monitor" (`lib/panic.c` 9); there is no gate for it and the processor resets.
* `stab_binsearch` adds 4 to the address after an exact match, because `addr` is a
  pointer to words, and may then land on another symbol of the type that starts within
  those four bytes; and when every symbol of the type lies behind the address it returns
  the entries in front of the first, not an empty region as its comment says (`kdebug.c`
  41-43), so that `debuginfo_eip` gives the name of a file for that of a function.
  `StabFound` includes both: it says how far the answer may be off, and where it is exact.
* `%-5d` pads with dashes: the flag "to pad on the right" (`printfmt.c` 108) works for
  strings only. The kernel's `cprintf` always returns 0 (`*cnt++`, `kern/printf.c` 13).
* `readseg` writes more than asked, and "it doesn't matter -- we load in increasing
  order" (`boot/main.c` 84) holds only for segments that share no sector or lie as far
  apart in memory as in the file: the condition in `SegmentsLoaded`. A segment whose
  sectors reach the headers at `ELFHDR` takes the loop away from under itself; the model
  stops there (`Astray`) and `SegmentsLoaded` says when.

## Theorems

All theorems are checked by `tlapm` to the last leaf, for every value of the constants
that satisfies the named `ASSUME`s of the modules; every run evaluates those on its
instance. Each module of proofs starts with its argument. In all of them the invariant
of the runs is not inductive, and what has to be added is the interesting part.

`MemoryManager_proofs`: for every number of frames, finite sets of directory entries
and slots, set of reserved frames, set of permissions, contents of uncleared frames
and counter modulus of at least 2, `Spec` implies `TypeOK`, `FreeListSound`,
`RefCountExact`, `NoLeak`, `TLBCoherent`, `TablesPrivate` and `CallsAreLocal`. None of
the six invariants is inductive alone: freeing at count 0 is right only because counts
are exact, counts stay exact only because a page table is not itself mapped, and both
need the list to be disjoint from everything in use. `Good` is their conjunction with
two facts more: what callers hold is unreferenced (`HeldOK`), and every entry that is
not zero is present and points to usable memory (`EntOK`). The last one is why the code
may test "not zero" in one function and the present bit in another. Each operator has a
lemma that says what it does to the walk of every page and that it preserves `Good`.
`Refinement` proves `ImplementsAddressSpace` from them: under the mapping of
`MemoryManager` every call, every failing call and every TLB event is a step of
`AddressSpace` or a stutter.

`CommandPrompt_proofs`: `FramesAccountedFor`, `LeakOnlyWhenExhausted` and
`DeathExplained`, for any number of frames, pages and nested prompts. While `ap` runs, a
frame has no owner; the lemmas follow the set of such frames (`Lost`) through
`allocate_frame`, `InstallTable`, `unmap_frame` and `WriteEntry`, and a leak is what is
left in it at the end of a command. Entries that `ap` made from the null pointer are part
of the invariant. The proof needed `FramesAccountedFor` to speak of the directory entries
that are not zero only: a zero entry's frame field equals the number of frame 0, which
the earlier wording got right only because frame 0 is reserved.

`Environments_proofs`: all four properties of the run, for any number of
environments, programs, pages and frames and any widths that satisfy
`EnvironmentsAssumption`.

* The table: `IdsIdentify` and `EndsExplained`, from `Inv`. They do not speak of memory,
  so every operation is first reduced to what it does to the table; memory may fail at
  any point of it. `Inv` says that an id is `e + j * ENVGEN` for a generation `j`, that
  the earlier ids are those of the generations before `j` counted cyclically, that the
  free list is the set of free environments, that `curenv` is live, and that
  `userPrograms` is right except for programs whose environment `env_destroy` freed.
* Memory: `SpacesSeparate` and `LossExplained`, from `MemInv`. The properties count
  frames and compare sets of them; that is not inductive, because `env_free` returns the
  right frames only if each has exactly one reference and one place. `MemInv` says so for
  each live environment: directory, tables and pages are different frames, none listed,
  each counted once, every entry that is not zero is present; and no two environments
  hold a frame in common. The memory manager sees one space at a time, so what a call
  does is stated for that space (`Keeps`: no frame is lost; `Drops`: this one is;
  everything else as before) and lifted to the kernel once. `Holds(s, L, W)`, the
  frames free or held by `L` are `W`, is then carried through the statements of
  `env_create` on all of its failure paths, `env_free` and `sys_allocate_page`; a loss is
  a frame that falls out of `W`, at most one in a call. The two loops of `env_free` are
  folds; their lemmas are proved by induction over the subsets of the set folded, derived
  from the well-foundedness of `<` on `Nat`.

`LinkedList_proofs`: `Represents` and `StolenIntact` for any set of elements. One
lemma covers the three insertions (an element between two neighbours), one the removal.

`Keyboard_proofs`: `ModifiersFollowKeys`, `EscapeIsTransient`,
`RebootOnlyByCtrlAltDel` and `CharacterOfKey`, for any of the keys, any number held and
any number of bytes not yet read. The invariant describes those bytes: the codes among
them are whole, and a key comes up only after it went down.

`Readline_proofs`: `EchoAgrees` for every screen, every line buffer that leaves a row of
the screen to spare, and any way the console delivers characters. The scroll is the hard
case: the prompt stays on the screen because the line is short enough.

`Console_proofs`: the two halves of the console. For every screen of at least two rows,
the cursor stays on the screen and `ScreenIsWindow` holds. The strengthening is that the
paper below the window is blank, because a scroll opens a blank row; a tab is five
single steps, each of which may scroll. For every `CONSBUFSIZE` and any interleaving of
the devices, `BufferHoldsWaiting` and `ReturnsNext`. The strengthening is that fewer than
`CONSBUFSIZE` characters wait; the modular arithmetic is replaced by a position function
whose equality with the remainder is a lemma.

`FosInitialize_proofs`: the whole of `FOS_initialize`, for every page size, memory size,
kernel end and old contents of memory that `BootAssumption` admits.

* The boot: `AllocationsDisjoint`, `BootAssertsHold` and `HandOver`, from `BootInv`. It
  says where the allocations are (`Placed`: disjoint, page-aligned, behind the kernel;
  `Covered`: no frame between them is left out), that every page table is an allocation
  of its own (`Tables`) and only the kernel's part of the directory has any
  (`OnlyKernel`), what has been mapped so far and to what (`Progress`, by place and loop
  variable), that frames beyond memory are not counted, and what the free list
  holds (`Listed`). `BootAssertsHold` speaks of the
  tables, which lie below `ptr_free_mem`, and of the asserts at the end; they hold because no later mapping touches an earlier one, which needs
  the regions of the address space to be apart and the tables to be different frames.
  `HandOver` needs `Covered`: `initialize_paging` takes everything below
  `ptr_free_mem` to be in use, which is right only if there is no gap.
* The self-test: `PageCheckPasses`, `StateRestored` and `StolenUntouched`, from
  `CheckInv`. For each group of statements of `page_check`, `View` gives the counts of
  its three frames, the entries of the page table that it made and the free list; all
  other counts are zero or as they were. It starts from `HandOver`, so the asserts
  are proved of the memory that the boot really leaves. With fewer than three
  usable frames the first asserts do fail; that is the condition in `PageCheckPasses`.

`BootAssumption` asks for what the code takes for granted: sizes and the two hardware
addresses are multiples of a page; the kernel, its stack and the page behind it, which
becomes the directory, are in memory (the kernel runs there); memory fits the window at
`KERNEL_BASE` and `frames_info` fits one page table (the CMOS reports at most 64MB of
extended memory, the window has 256MB and the array takes 12 bytes per frame);
`envs` fits one table. `PageCheckAssumption` says that page 0 and page 1 have a table
and are the user's. Where memory
cannot hold the boot allocations the kernel may panic, because `K_VIRTUAL_ADDRESS` refuses
a page table beyond memory or an assert fails; `BootAssertsHold` says that it happens
nowhere else.

Only model-checked:

* Liveness: `LineReturned`. The prover has no rule for fairness.
* `Library`: the loops of the C functions are RECURSIVE operators. What they compute for
  every input needs an induction over that input.

## Not modelled

* `ap` and `fp` on kernel addresses, where they would change the kernel's own tables;
  the TLB in `CommandPrompt`.
* Where `to_physical_address(NULL)` points. It depends on where `frames_info` lies; the
  model takes it to be beyond the end of memory, the case for most of its values.
* What follows `check_boot_pgdir` when an array does not fit into memory (the kernel
  notices only page tables that do not); machines without
  extended memory, or with less base memory than `PHYS_IO_MEM` (the code does not look
  at the size of base memory either).
* Permission bits of boot mappings, segment registers, port I/O, colours, the printer
  port, bytes that a device loses itself.
* The stubs that panic: `get_page`, `calculate_required_frames`, `freeMem`,
  `sys_map_frame`, `sys_unmap_frame`, `malloc`, most commands. Each is part of one
  action that panics, in `CommandPrompt` or `Environments`.
* In `Environments`: the TLB (switching cr3 flushes it), which registers hold what,
  names of unknown programs (nothing happens), the nesting of prompts after a panic
  (`CommandPrompt` has it), programs with more than one page per segment, and the
  mappings that `ap` made in the kernel's directory before a program was created.
* `boot.S`, the assembly trap entries, the disk's ports, the clock: instructions and
  port I/O without state that a property could relate.
* Source line numbers in `debuginfo_eip`, which the code does not look up.

## Plan

Every safety property of the kernel's state that a run checks is proved. Left to do: the
loops of `Library` as recursive functions, with the inductions that the prover's library
does not offer; mappings in the kernel's part of the directory, by `ap` and in
`env_create`.
