--------------------------- MODULE MCCommandPrompt ---------------------------
(* A prompt on a machine with a handful of frames. *)
EXTENDS CommandPrompt

MCJunk == [s \in Slots |-> [frame |-> 0, perm |-> {"P"}]]
MCPage0 == <<0, 0>>

=============================================================================
