---------------------------- MODULE MCMemEditor ----------------------------
(* Strings that leave room in the 32 bytes BUFFER_INIT grows to, and one    *)
(* that does so by no byte: the terminator is what outgrows the block.      *)
EXTENDS MemEditor

CONSTANTS a, w

MCTexts == {<<>>, <<w>>, <<a, w>>, [i \in 1..32 |-> a]}

=============================================================================
