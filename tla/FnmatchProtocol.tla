-------------------------- MODULE FnmatchProtocol --------------------------
(***************************************************************************)
(* What the resumable API of include/fnmatch.h promises a client, without  *)
(* the matching machine: which answer may follow which call, what input    *)
(* the context holds, and how much of it a pop gives back.  Whether a      *)
(* string matches is left open.  FnmatchContext implements it.             *)
(***************************************************************************)
EXTENDS Naturals, Sequences

CONSTANTS Byte, Sep, Nul, Strings

VARIABLES
  input,   \* the bytes pushed and not popped
  status   \* the last answer, or that the context is busy with a call

protocolVars == <<input, status>>

Init == input = <<>> /\ status = "PUSH"

Reset ==
  /\ status \notin {"BUSY", "CRASH"}
  /\ status' = "PUSH"
  /\ UNCHANGED input

(* The end of the string is pushed as an empty string.                     *)
Push(str) ==
  \/ /\ status \in {"PUSH", "CONTINUE"}
     /\ input' = input \o (IF str = <<>> THEN <<Nul>> ELSE str)
     /\ status' = "CONTINUE"
  \/ /\ status \notin {"PUSH", "CONTINUE", "BUSY", "CRASH"}
     /\ status' = "ERROR"
     /\ UNCHANGED input

Holds(byte) == \E i \in 1..Len(input) : input[i] = byte

(* A call starts working on the input, or answers at once: a final result  *)
(* asks for a pop, and the client that does not follow is stopped.         *)
Call ==
  /\ \/ status \in {"CONTINUE", "PARTIAL"} /\ status' = "BUSY"
     \/ status \in {"FULL", "NOMATCH"}     /\ status' = "POP"
     \/ status \in {"PUSH", "POP"}         /\ status' = "STOP"
  /\ UNCHANGED input

(* A component matches only at a separator and a string only at its end.   *)
Return ==
  /\ status = "BUSY"
  /\ \/ status' = "PUSH"
     \/ status' = "PARTIAL" /\ Holds(Sep)
     \/ status' = "FULL"    /\ Holds(Nul)
     \/ status' = "NOMATCH" /\ input # <<>>
  /\ UNCHANGED input

(* A pop gives back part of the input and keeps whole components.          *)
Pop ==
  \/ /\ status = "POP"
     /\ \E n \in 0..Len(input) :
          /\ n < Len(input)
          /\ n > 0 => input[n] = Sep
          /\ input' = SubSeq(input, 1, n)
     /\ status' = "CONTINUE"
  \/ /\ status \notin {"POP", "BUSY", "CRASH"}
     /\ status' = "ERROR"
     /\ UNCHANGED input

(* ... except that one of a string that starts with a separator, or of the *)
(* empty string, may read outside of the buffer.                           *)
PopCrashes ==
  /\ status = "POP"
  /\ input # <<>> /\ input[1] \in {Sep, Nul}
  /\ status' = "CRASH"
  /\ UNCHANGED input

Next ==
  \/ Reset
  \/ \E str \in Strings : Push(str)
  \/ Call
  \/ Return
  \/ Pop
  \/ PopCrashes

Spec == Init /\ [][Next]_protocolVars

=============================================================================
