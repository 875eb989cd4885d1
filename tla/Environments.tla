---------------------------- MODULE Environments ----------------------------
(***************************************************************************)
(* User environments (kern/user_environment.c, envid2env of helpers.c), the *)
(* traps that enter the kernel from them (kern/trap.c), the system calls    *)
(* (kern/syscall.c) and the commands run and kill, on the memory manager of *)
(* Paging.                                                                  *)
(*                                                                          *)
(* Three pieces are exercises left open in the repository and panic: the    *)
(* creation of the directory in env_create (its steps 3 to 5),              *)
(* program_segment_alloc_map and env_free.  CommandPrompt.tla models the    *)
(* kernel as it is built, where run and kill end in those panics.  This     *)
(* module models the code around them, with the three as external           *)
(* operators that do what their callers and their step lists rely on.       *)
(*                                                                          *)
(* The kernel is a record k:                                                *)
(*   k.m         the memory state; its directory is the kernel's            *)
(*   k.envs      envs[]: id, status, directory (env_pgdir and the frame it  *)
(*               lies in, env_cr3) and the saved eip                        *)
(*   k.list      env_free_list, as the sequence that LinkedList.tla shows   *)
(*               it to be                                                   *)
(*   k.curenv    an index into envs, or NoEnv for the null pointer          *)
(*   k.cr3       the frame of the directory the processor uses              *)
(*   k.programs  userPrograms[].environment                                 *)
(***************************************************************************)
EXTENDS Paging, FiniteSetsExt

CONSTANTS
    NENV,         \* a power of two: the number of environments
    ENVGEN,       \* 1 << ENVGENSHIFT
    IdModulus,    \* 2^32: env_id is an int32
    NUM_USER_PROGS,
    KernelFrame,  \* the frame of the kernel's page directory
    SegmentPage, StackPage, Page0   \* the pages of a program, and address 0

ASSUME EnvironmentsAssumption ==
    /\ NENV \in Nat \ {0} /\ ENVGEN \in Nat \ {0} /\ ENVGEN % NENV = 0
    /\ IdModulus \in Nat /\ IdModulus % (2 * ENVGEN) = 0 /\ IdModulus > 2 * ENVGEN
    /\ NUM_USER_PROGS \in Nat
    /\ KernelFrame \in Frames
    /\ {SegmentPage, StackPage, Page0} \subseteq Pages

VARIABLES
    k,       \* the kernel
    mode,    \* "prompt", "user", "corrupt" or "dead"
    last,    \* the last command or trap
    owner,   \* the program each environment was created for
    past,    \* the ids each environment had before, up to the wrap-around
    gone     \* programs whose environment was ended by env_destroy

vars == <<k, mode, last, owner, past, gone>>

Envs == 0 .. NENV - 1
NoEnv == NENV
Programs == 1 .. NUM_USER_PROGS
Usable == Frames \ {KernelFrame}
UW == {PERM_USER, PERM_WRITEABLE}

EmptyDirectory == [d \in Dirs |-> ZeroEntry]

\* A saved eip inside the program; otherwise it is the entry of a program.
Inside == 0

NewEnv ==
    [env_id |-> 0, env_status |-> "FREE", env_pgdir |-> EmptyDirectory,
     env_cr3 |-> KernelFrame, eip |-> Inside]

\* After initialize_paging, page_check and env_init, which inserts the
\* environments in reverse order.
env_init == [i \in 1 .. NENV |-> i - 1]

InitialMemory ==
    [free |-> [i \in 1 .. NumFrames - 1 |-> NumFrames - i],
     references |-> [f \in Frames |-> IF f \in Usable THEN 0 ELSE 1],
     directory |-> EmptyDirectory,
     table |-> [f \in Frames |-> ZeroTable],
     tlb |-> [va \in Pages |-> ZeroEntry]]

Init ==
    /\ KernelFrame = 0
    /\ k = [m |-> InitialMemory, envs |-> [e \in Envs |-> NewEnv],
            list |-> env_init, curenv |-> NoEnv, cr3 |-> KernelFrame,
            programs |-> [p \in Programs |-> NoEnv]]
    /\ mode = "prompt"
    /\ last = [op |-> "boot"]
    /\ owner = [e \in Envs |-> 0]
    /\ past = [e \in Envs |-> <<>>]
    /\ gone = {}

-----------------------------------------------------------------------------
\* The memory manager working on the directory of environment e.

Space(s, e) == [s.m EXCEPT !.directory = s.envs[e].env_pgdir]

SetSpace(s, e, m) ==
    [s EXCEPT !.m = [m EXCEPT !.directory = s.m.directory],
              !.envs[e].env_pgdir = m.directory]

lcr3(s, f) == [s EXCEPT !.cr3 = f]

\* What allocate_frame gave, mapped at va for user reading and writing.  Of
\* the two ways to fail, the second leaves the frame in the caller's hands.
MapNew(a, va) ==
    LET r == map_frame(a.mem, a.frame, va, UW)
    IN  IF a.ret = E_NO_MEM
        THEN [ret |-> E_NO_MEM, frame |-> NULL, mem |-> a.mem]
        ELSE [ret |-> r.ret, frame |-> a.frame, mem |-> r.mem]

-----------------------------------------------------------------------------
\* The table of environments.

\* LIST_FIRST only: the environment leaves the list when it is complete.
allocate_environment(s) == IF s.list = <<>> THEN NoEnv ELSE Head(s.list)

\* Faulty variant: curenv goes on pointing to the environment.
free_environment_KeepsCurenv(s, e) ==
    [s EXCEPT !.envs[e].env_status = "FREE", !.list = <<e>> \o @]

free_environment(s, e) ==
    [s EXCEPT !.curenv = NoEnv, !.envs[e].env_status = "FREE",
              !.list = <<e>> \o @]

Int32(x) == ((x + IdModulus \div 2) % IdModulus) - IdModulus \div 2

\* Faulty variant: the sum may turn negative.
Generation_NoWrap(id) ==
    LET g == Int32(id + ENVGEN) IN g - (g % NENV)

\* The uniqueifier of the next id: never 0, never negative.
Generation(id) ==
    LET g == Int32(id + ENVGEN) - (Int32(id + ENVGEN) % NENV)
    IN  IF g <= 0 THEN ENVGEN ELSE g

\* LIST_REMOVE(e), wherever on the list e is.
LIST_REMOVE(list, e) ==
    LET i == CHOOSE i \in DOMAIN list : list[i] = e
    IN  SubSeq(list, 1, i - 1) \o SubSeq(list, i + 1, Len(list))

\* The registers are cleared and set up for user mode; eip comes later.
complete_environment_initialization(s, e) ==
    [s EXCEPT !.envs[e].env_id = Generation(@) + e,
              !.envs[e].env_status = "RUNNABLE",
              !.list = LIST_REMOVE(@, e)]

ENVX(id) == id % NENV

\* Faulty variant: any environment may be named.
envid2env_AnyEnvironment(s, id) ==
    LET e == ENVX(id)
    IN  IF id = 0 THEN s.curenv
        ELSE IF s.envs[e].env_status = "FREE" \/ s.envs[e].env_id # id
        THEN NoEnv ELSE e

\* With checkperm.  The error is -E_BAD_ENV, which is positive.  No
\* environment has a parent: env_parent_id is always 0.
envid2env(s, id) ==
    LET e == ENVX(id)
    IN  IF id = 0 THEN s.curenv
        ELSE IF s.envs[e].env_status = "FREE" \/ s.envs[e].env_id # id
        THEN NoEnv
        ELSE IF e # s.curenv /\ 0 # s.envs[s.curenv].env_id
        THEN NoEnv ELSE e

-----------------------------------------------------------------------------
\* The three pieces that are not in the repository.

\* env_free: unmap every page, free the page tables and the directory, switch
\* to the kernel's directory, return the environment to the list.
UnmapAll(m) == FoldSet(LAMBDA va, n : unmap_frame(n, va), m, Pages)

FreeTable(m, d) ==
    [decrement_references(m, m.directory[d].frame) EXCEPT !.directory[d] = ZeroEntry]

FreeTables(m) ==
    FoldSet(LAMBDA d, n : FreeTable(n, d), m,
            {d \in Dirs : m.directory[d] # ZeroEntry})

EmptySpace(s, e) ==
    decrement_references(FreeTables(UnmapAll(Space(s, e))), s.envs[e].env_cr3)

env_free(s, e) ==
    free_environment(lcr3(SetSpace(s, e, EmptySpace(s, e)), KernelFrame), e)

\* Steps 3 to 5 of env_create: a directory with one reference, a copy of the
\* kernel's.
CreateDirectory(s, e, f) ==
    [s EXCEPT !.m.references[f] = 1,
              !.envs[e].env_pgdir = s.m.directory, !.envs[e].env_cr3 = f]

\* program_segment_alloc_map for a segment of one page.
program_segment_alloc_map(s, e, va) ==
    LET n == MapNew(allocate_frame(Space(s, e)), va)
    IN  [ret |-> n.ret,
         s |-> SetSpace(s, e, IF n.ret = E_NO_MEM /\ n.frame # NULL
                              THEN free_frame(n.mem, n.frame)
                              ELSE n.mem)]

-----------------------------------------------------------------------------
\* env_create and what it calls.

set_environment_entry_point(s, p) ==
    [s EXCEPT !.envs[s.programs[p]].eip = p]

\* The failure paths: the environment is freed, the program has none.
Unload(s, e, p) == [env_free(s, e) EXCEPT !.programs[p] = NoEnv]

\* Step 10, the stack, and step 11, back to the directory cr3.  A frame that
\* cannot be mapped is not freed.
MapStack(s, e, p, n, cr3) ==
    IF n.ret = E_NO_MEM
    THEN [ok |-> FALSE, s |-> Unload(SetSpace(s, e, n.mem), e, p)]
    ELSE [ok |-> TRUE, s |-> lcr3(SetSpace(s, e, n.mem), cr3)]

\* Step 9, after the segments.
EnterProgram(s, e, p, cr3) ==
    MapStack(set_environment_entry_point(s, p), e, p,
             MapNew(allocate_frame(Space(s, e)), StackPage), cr3)

LoadProgram(seg, e, p, cr3) ==
    IF seg.ret = E_NO_MEM
    THEN [ok |-> FALSE, s |-> Unload(seg.s, e, p)]
    ELSE EnterProgram(seg.s, e, p, cr3)

\* Steps 6 and 7, with the directory of e in use.
LoadInto(s, e, p) ==
    LoadProgram(program_segment_alloc_map(
                    lcr3([s EXCEPT !.programs[p] = e], s.envs[e].env_cr3),
                    e, SegmentPage),
                e, p, s.cr3)

env_create(s, p) ==
    LET e == allocate_environment(s)
        a == allocate_frame(s.m)
    IN  IF e = NoEnv \/ a.ret = E_NO_MEM
        THEN [ok |-> FALSE, s |-> s]
        ELSE LoadInto(complete_environment_initialization(
                        CreateDirectory([s EXCEPT !.m = a.mem], e, a.frame), e),
                      e, p)

env_run(s, e) ==
    IF s.curenv # e
    THEN lcr3([s EXCEPT !.curenv = e], s.envs[e].env_cr3)
    ELSE s

-----------------------------------------------------------------------------
\* Steps.  The history variables follow them.

\* The ids that environment e has had, the latest last; Generations - 1 of
\* them are told apart from the current one.
Generations == ((IdModulus \div 2) \div ENVGEN) - 1
LastIds(s, n) == IF Len(s) > n THEN SubSeq(s, Len(s) - n + 1, Len(s)) ELSE s

Remember(old, new) ==
    past' = [e \in Envs |->
                IF new.envs[e].env_id = old.envs[e].env_id \/ old.envs[e].env_id = 0
                THEN past[e]
                ELSE LastIds(Append(past[e], old.envs[e].env_id), Generations - 1)]

Step(new, newMode, what) ==
    /\ k' = new
    /\ mode' = newMode
    /\ last' = what
    /\ Remember(k, new)

Stop(newMode, what) ==
    /\ mode' = newMode
    /\ last' = what
    /\ UNCHANGED <<k, owner, past, gone>>

\* c is what env_create returned: the program, or the null pointer.
RunCreated(c, p) ==
    LET e == c.s.programs[p]
    IN  /\ IF c.ok
           THEN /\ Step(env_run(c.s, e), "user", [op |-> "run", p |-> p])
                /\ owner' = [owner EXCEPT ![e] = p]
           ELSE /\ Step(c.s, "prompt", [op |-> "run", p |-> p])
                /\ UNCHANGED owner
        /\ gone' = IF c.s.envs = k.envs THEN gone ELSE gone \ {p}

command_run(p) ==
    /\ mode = "prompt"
    /\ RunCreated(env_create(k, p), p)

\* kill does not look whether the program has an environment, or still has
\* it: env_free of a null pointer or of a free environment is the end of
\* what can be said.
command_kill(p) ==
    LET e == k.programs[p]
        what == [op |-> "kill", p |-> p]
    IN  /\ mode = "prompt"
        /\ IF e = NoEnv \/ k.envs[e].env_status = "FREE"
           THEN Stop("corrupt", what)
           ELSE /\ Step([env_free(k, e) EXCEPT !.programs[p] = NoEnv], "prompt", what)
                /\ gone' = (gone \ {p}) \cup
                           {q \in Programs \ {p} : k.programs[q] = e}
                /\ UNCHANGED owner

\* trap(): the registers are saved in the environment.
Trapped == [k EXCEPT !.envs[k.curenv].eip = Inside]

\* s is the kernel as trap() leaves it; userPrograms is left alone.
env_destroy(s, e, what) ==
    /\ Step(env_free(s, e), "prompt", what)
    /\ gone' = gone \cup {p \in Programs : k.programs[p] = e}
    /\ UNCHANGED owner

\* The trap returns with env_run(curenv).
ReturnToUser(s, what) ==
    /\ Step(env_run(s, s.curenv), "user", what)
    /\ UNCHANGED <<owner, gone>>

\* A page fault in the program, or in a system call that follows a bad
\* pointer of the program.
PageFault ==
    /\ mode = "user"
    /\ env_destroy(Trapped, k.curenv, [op |-> "fault"])

\* Only page faults and system calls have gates: any other exception finds
\* none, nor does the fault for the missing gate, and the processor resets.
OtherException ==
    /\ mode = "user"
    /\ Stop("dead", [op |-> "exception"])

\* cputs of readable memory, cgetc, getenvid, calc_free_frames, and numbers
\* that are no system call.
HarmlessCall ==
    /\ mode = "user"
    /\ ReturnToUser(Trapped, [op |-> "harmless"])

\* get_page, map_frame, unmap_frame, calc_req_frames and freeMem panic: a
\* prompt, with the environment still current.
UnimplementedCall ==
    /\ mode = "user"
    /\ Step(Trapped, "prompt", [op |-> "panic"])
    /\ UNCHANGED <<owner, gone>>

\* rum and wum of a page at the prompt; for Page0 also a command that needs an
\* argument and got none, which reads address 0.  A panic in a system call has
\* left its environment current and its directory in use: the handler takes a
\* page fault of the kernel for one of that environment, and destroys it.  With
\* no environment current it reads through the null pointer and faults again,
\* for ever: the kernel's directory maps no user page.
AccessMemory(va) ==
    LET m == IF k.curenv = NoEnv THEN k.m ELSE Space(k, k.curenv)
        what == [op |-> "access", va |-> va]
    IN  /\ mode = "prompt"
        /\ \/ Translates(m, va) /\ Stop("prompt", what)
           \/ ~Translates(m, va) /\ k.curenv = NoEnv /\ Stop("dead", what)
           \/ ~Translates(m, va) /\ k.curenv # NoEnv /\ env_destroy(k, k.curenv, what)

\* A bad id is not noticed: -E_BAD_ENV is not negative.  The null environment
\* is read and destroyed; with nothing mapped at address 0 the read faults,
\* and that ends the caller.
sys_env_destroy(id) ==
    LET e == envid2env(k, id)
        what == [op |-> "destroy", id |-> id]
    IN  /\ mode = "user"
        /\ IF e = NoEnv /\ Translates(Space(k, k.curenv), Page0)
           THEN Stop("corrupt", what)
           ELSE env_destroy(Trapped, IF e = NoEnv THEN k.curenv ELSE e, what)

\* The first program whose environment is curenv lends its entry point.
env_run_cmd_prmpt(s) ==
    LET p == Min({q \in Programs : s.programs[q] = s.curenv})
    IN  [lcr3(set_environment_entry_point(s, p), KernelFrame) EXCEPT !.curenv = NoEnv]

sys_env_sleep ==
    /\ mode = "user"
    /\ Step(env_run_cmd_prmpt(Trapped), "prompt", [op |-> "sleep"])
    /\ UNCHANGED <<owner, gone>>

\* A valid call has an aligned user address and a perm of U or U | W.
ValidPerm(perm) == perm \ {PERM_WRITEABLE} = {PERM_USER}

\* The frame is allocated first and not freed when the arguments are refused;
\* when map_frame fails its count of 0 is decremented.
PageMapped(s, e, f, r) ==
    SetSpace(s, e, IF r.ret = E_NO_MEM THEN decrement_references(r.mem, f) ELSE r.mem)

AllocatedPage(s, e, a, va, aligned, perm) ==
    CASE a.ret = E_NO_MEM -> s
      [] a.ret = 0 /\ ~(aligned /\ ValidPerm(perm)) -> SetSpace(s, e, a.mem)
      [] a.ret = 0 /\ aligned /\ ValidPerm(perm) ->
            PageMapped(s, e, a.frame,
                       map_frame([a.mem EXCEPT !.table[a.frame] = ZeroTable],
                                 a.frame, va, perm))

\* The caller is told 0 whatever happened.
sys_allocate_page(va, aligned, perm) ==
    /\ mode = "user"
    /\ ReturnToUser(AllocatedPage(Trapped, k.curenv, allocate_frame(Space(k, k.curenv)),
                               va, aligned, perm),
                    [op |-> "allocate_page", va |-> va,
                     valid |-> aligned /\ ValidPerm(perm)])

\* The ids a program may pass: its own, 0, another's, or one out of date.
KnownIds == {0} \cup {k.envs[e].env_id : e \in Envs} \cup UNION {Range(past[e]) : e \in Envs}

Next ==
    \/ \E p \in Programs : command_run(p) \/ command_kill(p)
    \/ PageFault
    \/ OtherException
    \/ HarmlessCall
    \/ UnimplementedCall
    \/ \E va \in Pages : AccessMemory(va)
    \/ \E id \in KnownIds : sys_env_destroy(id)
    \/ sys_env_sleep
    \/ \E va \in Pages, aligned \in BOOLEAN, perm \in {UW, UW \cup {PERM_PRESENT}} :
        sys_allocate_page(va, aligned, perm)

Spec == Init /\ [][Next]_vars

-----------------------------------------------------------------------------
\* Properties.

Live(s) == {e \in Envs : s.envs[e].env_status = "RUNNABLE"}

TablesOf(s, e) ==
    {s.envs[e].env_pgdir[d].frame :
        d \in {d \in Dirs : s.envs[e].env_pgdir[d] # ZeroEntry}}

MappedPages(s, e) ==
    {va \in Pages : get_frame_info(Space(s, e), va).frame # NULL}

FramesOf(s, e) ==
    {s.envs[e].env_cr3} \cup TablesOf(s, e)
    \cup {get_frame_info(Space(s, e), va).frame : va \in MappedPages(s, e)}

Lost(s) ==
    Usable \ (Range(s.m.free) \cup UNION {FramesOf(s, e) : e \in Live(s)})

\* The free list holds exactly the environments marked FREE, each once; a
\* live environment has a positive id that leads back to it and to no other,
\* and no id it had before, up to the wrap-around of the uniqueifier, is its
\* id again (complete_environment_initialization, envid2env, and the comment
\* on envid_t: "All real environments are greater than 0").
IdsIdentify ==
    /\ IsInjective(k.list)
    /\ Range(k.list) = Envs \ Live(k)
    /\ \A e \in Live(k) :
        /\ k.envs[e].env_id > 0
        /\ ENVX(k.envs[e].env_id) = e
        /\ k.envs[e].env_id \notin Range(past[e])

\* The processor uses the kernel's directory exactly when there is no current
\* environment, and otherwise that of the current one, which is live; what
\* runs in user mode is the program the environment was created for; and
\* every usable frame is in at most one of: the free list, the directory, the
\* tables and the pages of one environment (env_create, env_run, env_destroy,
\* env_run_cmd_prmpt).
SpacesSeparate ==
    /\ k.cr3 = IF k.curenv = NoEnv THEN KernelFrame ELSE k.envs[k.curenv].env_cr3
    /\ k.curenv # NoEnv => k.curenv \in Live(k)
    /\ mode = "user" => /\ k.curenv # NoEnv
                        /\ k.envs[k.curenv].eip \in {Inside, owner[k.curenv]}
    /\ IsInjective(k.m.free)
    /\ \A e \in Live(k) :
        /\ FramesOf(k, e) \subseteq Usable \ Range(k.m.free)
        /\ \A f \in FramesOf(k, e) : k.m.references[f] = 1
        /\ Cardinality(FramesOf(k, e)) =
              1 + Cardinality(TablesOf(k, e)) + Cardinality(MappedPages(k, e))
        /\ \A x \in Live(k) \ {e} : FramesOf(k, e) \cap FramesOf(k, x) = {}

\* The calls that may lose a frame.
LossReason ==
    \/ /\ last'.op = "allocate_page"
       /\ \/ ~last'.valid
          \/ /\ Len(k.m.free) = 1
             /\ k.envs[k.curenv].env_pgdir[PDX(last'.va)] = ZeroEntry
    \/ /\ last'.op = "run"
       /\ k'.programs[last'.p] = NoEnv
       /\ Cardinality(Live(k')) = Cardinality(Live(k))

\* One step of LossExplained.
LossStep ==
    /\ Lost(k) \subseteq Lost(k')
    /\ Cardinality(Lost(k') \ Lost(k)) <= 1
    /\ Lost(k') \ Lost(k) # {} => LossReason

\* A frame is lost, neither free nor part of an environment, in two ways
\* only: sys_allocate_page, which allocates before it looks at its arguments
\* and drops a count of 0 when map_frame fails, and a run that fails (as one
\* does whose last frame is taken for the stack, with none left for its page
\* table).  Each loses one frame at most.  Ending an environment returns all
\* it had, whichever way it ends, and what was lost never comes back.
LossExplained == [][LossStep]_vars

\* userPrograms names environment e, so that kill can end it.
Named(s, e) == \E p \in Programs : s.programs[p] = e

\* One step of EndsExplained.
EndExplained ==
    /\ \A e \in Live(k) :
        \/ e \in Live(k') /\ k'.envs[e].env_id = k.envs[e].env_id
        \/ e = k.curenv /\ last'.op \in {"fault", "destroy"}
        \/ /\ e = k.curenv /\ mode = "prompt"
           /\ last'.op = "access" /\ ~Translates(Space(k, e), last'.va)
        \/ /\ last'.op = "kill"
           /\ k.programs[last'.p] = e
           /\ owner[e] = last'.p \/ last'.p \in gone
    /\ \A e \in Live(k) \cap Live(k') :
        Named(k, e) /\ ~Named(k', e) => last'.op = "run" /\ k.programs[last'.p] = e
    /\ mode' = "corrupt" =>
        \/ /\ last'.op = "kill"
           /\ k.programs[last'.p] = NoEnv \/ last'.p \in gone
        \/ /\ last'.op = "destroy"
           /\ last'.id \notin {0, k.envs[k.curenv].env_id}
           /\ Translates(Space(k, k.curenv), Page0)

\* A live environment keeps its id, and ends only
\*   - by a fault or a call of its own;
\*   - by a kill that names the program it was created for, or one that had
\*     lost its environment to env_destroy, which leaves userPrograms pointing
\*     at it;
\*   - at a prompt that a panic in its own system call has opened, when the
\*     operator makes the kernel touch a page it does not map.
\* As long as it lives, userPrograms forgets it only when its program is run
\* again.  And the kernel works on an environment that does not exist only by
\* a kill of a program that has none, or by a sys_env_destroy of a refused id
\* in a program with page 0 mapped (page_fault_handler, command_run,
\* command_kill, sys_env_destroy, envid2env).
EndsExplained == [][EndExplained]_vars

=============================================================================
