--------------------------- MODULE MCMemoryManager --------------------------
(* Small instances of MemoryManager. *)
EXTENDS MemoryManager, TLC

\* Two of them, so that a page is also mapped again with other permissions.
MCPerms == {{}, {"U", "W"}}

\* An uninitialised frame reads as a table that maps frame 0 everywhere.
MCJunk == [s \in Slots |-> [frame |-> 0, perm |-> {"P"}]]

\* No operator tells two directory entries apart, or two entries of a table.
MCSymmetry == Permutations(Dirs) \cup Permutations(Slots)

=============================================================================
