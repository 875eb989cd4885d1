---------------------------- MODULE MCLinkedList -----------------------------
(* Lists over a few interchangeable elements. *)
EXTENDS LinkedList, TLC

ElemSymmetry == Permutations(Elems)

=============================================================================
