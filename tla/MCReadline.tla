----------------------------- MODULE MCReadline ------------------------------
(* Lines of at most two characters on a screen of three rows of two. *)
EXTENDS Readline

MCKeys == {"a", "b", BS, NL, CR, TAB}

=============================================================================
