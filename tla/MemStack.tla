------------------------------ MODULE MemStack ------------------------------
(***************************************************************************)
(* What a stack of strings promises.  The last call, with the string it    *)
(* was given or has returned, is part of the interface.                    *)
(***************************************************************************)
EXTENDS Integers, Sequences

CONSTANT String

VARIABLES
  strings,  \* bottom first
  last      \* the last call

stackVars == <<strings, last>>

StackInit == strings = <<>> /\ last = [call |-> "init", str |-> <<>>]

StackPush(s) ==
  /\ strings' = Append(strings, s)
  /\ last' = [call |-> "push", str |-> s]

StackPop ==
  /\ strings # <<>>
  /\ strings' = SubSeq(strings, 1, Len(strings) - 1)
  /\ last' = [call |-> "pop", str |-> strings[Len(strings)]]

StackNext == StackPop \/ \E s \in String : StackPush(s)

StackSpec == StackInit /\ [][StackNext]_stackVars

=============================================================================
