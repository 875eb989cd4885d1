--------------------------- MODULE MCEnvironments ---------------------------
(***************************************************************************)
(* Two environments, two programs, three generations of ids.  A program has *)
(* a directory, two page tables and two pages; a third page table covers    *)
(* address 0.                                                               *)
(***************************************************************************)
EXTENDS Environments

MCDirs == 0 .. 2
MCSlots == {0}
MCSegmentPage == <<0, 0>>
MCStackPage == <<1, 0>>
MCPage0 == <<2, 0>>

\* What tells two states apart: everything but the numbers of the frames,
\* the contents of what is free, and last, which no step reads.  No step
\* looks at the number of a frame, and by SpacesSeparate none is shared, so
\* the page tables that exist and the pages mapped, by environment, and the
\* length of the free list are all there is to know of the memory.
Shape ==
    <<mode, k.curenv, k.list, k.programs, past, gone, Len(k.m.free),
      k.cr3 = KernelFrame,
      [e \in Envs |-> k.envs[e].env_id],
      [e \in Live(k) |->
        <<owner[e], k.envs[e].eip,
          {d \in Dirs : k.envs[e].env_pgdir[d] # ZeroEntry},
          [va \in MappedPages(k, e) |-> Walk(Space(k, e), va).perm]>>]>>

=============================================================================
