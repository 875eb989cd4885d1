---------------------------- MODULE FosInitialize ----------------------------
(***************************************************************************)
(* FOS_initialize (kern/init.c) from detect_memory to page_check: the boot  *)
(* code of BootMemory.tla sets memory up, and the self-test of              *)
(* PageCheck.tla then runs on exactly what initialize_paging left: its free *)
(* list, its counts, its directory, and the old contents of the frames.     *)
(***************************************************************************)
EXTENDS BootMemory

VARIABLES test, m, pp, fl, usable
testVars == <<test, m, pp, fl, usable>>

UserDirs == 0 .. PDX_UENVS - 1

\* references is an unsigned short.
RefModulus == 65536

\* page_check sees the user part of the directory; a frame that memory does
\* not have is a frame that is never free.
Test == INSTANCE PageCheck WITH
            pc <- test,
            NumFrames <- NumFrames,
            Dirs <- UserDirs,
            RefModulus <- RefModulus

\* page_check uses two page tables, and two pages of the first.
ASSUME PageCheckAssumption == {0, 1} \subseteq UserDirs /\ {0, 1} \subseteq Slots

FosInit == Init /\ Test!Before

Boot == Next /\ UNCHANGED testVars

\* A word of the boot page tables as an entry.
Entry(w) ==
    IF w = NONE THEN Test!ZeroEntry
    ELSE Test!CONSTRUCT_ENTRY(w, {Test!PERM_PRESENT})

\* The memory state at the call.  The TLB is empty: turn_on_paging has just
\* loaded CR3, and no user page has been touched since.
MemoryAfterBoot ==
    [free |-> s.free_frame_list,
     references |-> [f \in Frames |-> IF s.references[f] = 0 THEN 0 ELSE 1],
     directory |-> [d \in UserDirs |-> Entry(s.directory[d])],
     table |-> [f \in Frames |-> [n \in Slots |-> Entry(s.table[f][n])]],
     tlb |-> [va \in Test!Pages |-> Test!ZeroEntry]]

\* Where memory is too small for the boot allocations, frames_info lies where
\* nothing answers, and what the test would see is not modelled.
CallPageCheck ==
    /\ pc = "done" /\ Fits
    /\ Test!Call(MemoryAfterBoot)
    /\ UNCHANGED vars

page_check == Test!Next /\ UNCHANGED vars

FosNext == Boot \/ CallPageCheck \/ page_check

FosSpec == FosInit /\ [][FosNext]_<<vars, testVars>>

-----------------------------------------------------------------------------
\* page_check's asserts hold on every machine whose boot allocations fit and
\* leave the three frames it needs, wherever the kernel ends and whatever the frames held.
PageCheckPasses == Test!AssertsHold

\* page_check gives everything back: the memory manager starts its work in
\* the state initialize_paging built, up to the order of the free list.
StateRestored == Test!StateRestored

\* The frames on the stolen list are not used while page_check runs.
StolenUntouched == Test!StolenUntouched

=============================================================================
