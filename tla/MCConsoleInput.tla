--------------------------- MODULE MCConsoleInput ----------------------------
(* A buffer of three characters, devices that hold two bytes. *)
EXTENDS ConsoleInput
=============================================================================
