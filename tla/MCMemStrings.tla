---------------------------- MODULE MCMemStrings ----------------------------
(* Strings of which a few outgrow the buffer, and pointers of twice their  *)
(* size, of which a few outgrow the array.                                 *)
EXTENDS MemStrings

CONSTANT a

MCStrings == {<<>>, [i \in 1..16 |-> a]}

=============================================================================
