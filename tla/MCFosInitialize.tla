---------------------------- MODULE MCFosInitialize -----------------------------
(* Machines of up to 31 frames of eight units: kernels that end on a page and  *)
(* between pages, and every amount of extended memory.                         *)
EXTENDS FosInitialize

MCKernelEnds == 56 .. 66
MCExtendedSizes == 40 .. 215
MCGarbage == {0, NONE}

=============================================================================
