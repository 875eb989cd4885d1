----------------------------- MODULE MCLibrary -----------------------------
(* Small alphabets for the library functions. *)
EXTENDS Library

MCLineChars == {" ", "\t", "a", "b"}
MCNumberChars == {" ", "+", "-", "0", "7", "9", "x", "a", "z"}
MCFormatChars == {"%", "-", "0", "3", ".", "*", "#", "l", "d", "s", "c", "e", "b"}

=============================================================================
