----------------------------- MODULE MCKeyboard ------------------------------
(* A keyboard with a key of each kind, on which at most three are held. *)
EXTENDS Keyboard
=============================================================================
