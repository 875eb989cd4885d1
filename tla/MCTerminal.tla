----------------------------- MODULE MCTerminal ------------------------------
(* A screen of two short rows, any text on it, the cursor anywhere. *)
EXTENDS Terminal
=============================================================================
