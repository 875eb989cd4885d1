------------------------------ MODULE PageCheck ------------------------------
(***************************************************************************)
(* page_check() of kern/helpers.c, the self-test FOS_initialize runs right  *)
(* after initialize_paging: it steals the free list, drives the memory      *)
(* manager through its corner cases with no memory left, and must leave     *)
(* everything as it found it, because the kernel keeps running on the same  *)
(* free list.  FosInitialize.tla calls it on what the boot code hands over. *)
(*                                                                          *)
(* One step is one group of statements between two comments of the code:    *)
(* the calls it makes and the asserts about them.  A failed assert panics   *)
(* (pc = 0).                                                                *)
(***************************************************************************)
EXTENDS Paging

VARIABLES
    pc,         \* the next group of statements; 0 after a failed assert,
                \* NotCalled before the call
    m,          \* the memory state
    pp,         \* the locals pp0, pp1, pp2 and (3) pp
    fl,         \* the stolen free list
    usable      \* the frames that initialize_paging put on the list

va0 == <<0, 0>>         \* address 0x0
vaPage == <<0, 1>>      \* address PAGE_SIZE
vaTable == <<1, 0>>     \* address PTSIZE

NotCalled == -1
Last == 21

Before ==
    /\ pc = NotCalled
    /\ m = <<>> /\ pp = <<>> /\ fl = <<>> /\ usable = {}

\* The call, in memory state k: the locals are set to 0.
Call(k) ==
    /\ pc = NotCalled
    /\ pc' = 1
    /\ m' = k
    /\ pp' = [i \in 0 .. 3 |-> NULL]
    /\ fl' = <<>>
    /\ usable' = Range(k.free)

\* check_va2pa(): ~0 (here NULL) unless both levels are present.
check_va2pa(k, va) == IF Translates(k, va) THEN Walk(k, va).frame ELSE NULL

\* The asserts of a group decide whether the next one runs.
Assert(i, cond) == pc' = IF cond THEN i + 1 ELSE 0

\* assert(allocate_frame(&pp_i) == 0 && cond)
Allocate(i, x, expected) ==
    LET a == allocate_frame(m)
    IN  /\ pc = i
        /\ m' = a.mem
        /\ pp' = [pp EXCEPT ![x] = a.frame]
        /\ Assert(i, a.ret = 0 /\ a.frame # NULL /\ a.frame \in expected)
        /\ UNCHANGED <<fl, usable>>

\* assert(allocate_frame(&pp) == E_NO_MEM)
NoFreeMemory(i) ==
    LET a == allocate_frame(m)
    IN  /\ pc = i
        /\ m' = a.mem
        /\ pp' = [pp EXCEPT ![3] = a.frame]
        /\ Assert(i, a.ret = E_NO_MEM)
        /\ UNCHANGED <<fl, usable>>

\* Faulty variant: the list is saved, and LIST_INIT is forgotten.
StealFreeList_NoInit ==
    /\ pc = 4
    /\ fl' = m.free
    /\ pc' = 5
    /\ UNCHANGED <<m, pp, usable>>

StealFreeList ==
    /\ pc = 4
    /\ fl' = m.free
    /\ m' = [m EXCEPT !.free = <<>>]
    /\ pc' = 5
    /\ UNCHANGED <<pp, usable>>

\* assert(map_frame(ptr_page_directory, pp_x, va, 0) < 0)
MapMustFail(i, x, va) ==
    LET r == map_frame(m, pp[x], va, {})
    IN  /\ pc = i
        /\ m' = r.mem
        /\ Assert(i, r.ret < 0)
        /\ UNCHANGED <<pp, fl, usable>>

\* map_frame that must succeed, and what is then asserted of the new state.
MapMustSucceed(i, k, x, va, Checks(_)) ==
    LET r == map_frame(k, pp[x], va, {})
    IN  /\ pc = i
        /\ m' = r.mem
        /\ Assert(i, /\ r.ret = 0
                     /\ check_va2pa(r.mem, va) = pp[x]
                     /\ Checks(r.mem))
        /\ UNCHANGED <<pp, fl, usable>>

Unmap(i, va, Checks(_)) ==
    LET k == unmap_frame(m, va)
    IN  /\ pc = i
        /\ m' = k
        /\ Assert(i, Checks(k))
        /\ UNCHANGED <<pp, fl, usable>>

Refs(k, x) == k.references[pp[x]]

\* "free pp0 and try again: pp0 should be used for page table"
UsePp0ForTable ==
    MapMustSucceed(7, free_frame(m, pp[0]), 1, va0, LAMBDA k :
        /\ k.directory[0].frame = pp[0]
        /\ Refs(k, 1) = 1
        /\ Refs(k, 0) = 1)

\* "map pp2 at PAGE_SIZE", the second time because it is already there
MapPp2(i) == MapMustSucceed(i, m, 2, vaPage, LAMBDA k : Refs(k, 2) = 1)

\* "insert pp1 at PAGE_SIZE (replacing pp2)"
ReplacePp2 ==
    MapMustSucceed(13, m, 1, vaPage, LAMBDA k :
        /\ check_va2pa(k, va0) = pp[1]
        /\ Refs(k, 1) = 2
        /\ Refs(k, 2) = 0)

UnmapFirst ==
    Unmap(15, va0, LAMBDA k :
        /\ check_va2pa(k, va0) = NULL
        /\ check_va2pa(k, vaPage) = pp[1]
        /\ Refs(k, 1) = 1
        /\ Refs(k, 2) = 0)

UnmapSecond ==
    Unmap(16, vaPage, LAMBDA k :
        /\ check_va2pa(k, va0) = NULL
        /\ check_va2pa(k, vaPage) = NULL
        /\ Refs(k, 1) = 0
        /\ Refs(k, 2) = 0)

\* "forcibly take pp0 back"
TakePp0Back ==
    /\ pc = 19
    /\ m' = [m EXCEPT !.directory[0] = ZeroEntry, !.references[pp[0]] = 0]
    /\ Assert(19, m.directory[0].frame = pp[0] /\ Refs(m, 0) = 1)
    /\ UNCHANGED <<pp, fl, usable>>

\* Faulty variant: one of the three frames is not given back.
GiveBack_ForgetsPp1 ==
    /\ pc = 20
    /\ m' = free_frame(free_frame([m EXCEPT !.free = fl], pp[0]), pp[2])
    /\ pc' = Last
    /\ UNCHANGED <<pp, fl, usable>>

\* "give free list back", "free the frames_info we took"
GiveBack ==
    /\ pc = 20
    /\ m' = free_frame(free_frame(free_frame([m EXCEPT !.free = fl],
                pp[0]), pp[1]), pp[2])
    /\ pc' = Last
    /\ UNCHANGED <<pp, fl, usable>>

Next ==
    \/ Allocate(1, 0, Frames)
    \/ Allocate(2, 1, Frames \ {pp[0]})
    \/ Allocate(3, 2, Frames \ {pp[0], pp[1]})
    \/ StealFreeList
    \/ NoFreeMemory(5)
    \/ MapMustFail(6, 1, va0)
    \/ UsePp0ForTable
    \/ MapPp2(8)
    \/ NoFreeMemory(9)
    \/ MapPp2(10)
    \/ NoFreeMemory(11)
    \/ MapMustFail(12, 0, vaTable)
    \/ ReplacePp2
    \/ Allocate(14, 3, {pp[2]})
    \/ UnmapFirst
    \/ UnmapSecond
    \/ Allocate(17, 3, {pp[1]})
    \/ NoFreeMemory(18)
    \/ TakePp0Back
    \/ GiveBack

-----------------------------------------------------------------------------
\* With at least the three frames the test needs, no assert of page_check
\* fails, whatever memory the machine has: the kernel reaches its prompt.
AssertsHold == Cardinality(usable) >= 3 => pc # 0

\* Afterwards the memory manager is as initialize_paging left it, up to the
\* order of the list: every usable frame is listed once with count 0, and the
\* directory is empty.  (The stolen list, the page table and the frames taken
\* by hand are all given back.)
StateRestored ==
    pc = Last =>
        /\ IsInjective(m.free)
        /\ Range(m.free) = usable
        /\ \A f \in Frames : m.references[f] = 0 <=> f \in usable
        /\ \A d \in Dirs : m.directory[d] = ZeroEntry

\* While the list is stolen, none of its frames is allocated, mapped or used
\* as a page table: the test works with its own three frames only.
StolenUntouched ==
    pc \in 5 .. 20 =>
        \A i \in DOMAIN fl :
            /\ m.references[fl[i]] = 0
            /\ fl[i] \notin Range(m.free)
            /\ \A d \in Dirs : m.directory[d] # ZeroEntry =>
                m.directory[d].frame # fl[i]
            /\ \A va \in Pages : check_va2pa(m, va) # fl[i]

=============================================================================
