--------------------------- MODULE FnmatchStream ---------------------------
(***************************************************************************)
(* A context whose client pushes a string piece by piece and asks for      *)
(* matches, but never pops: fnmatch_pattern_match is such a client.  What  *)
(* the machine reports is compared with the reference of FnmatchGlob.      *)
(***************************************************************************)
EXTENDS FnmatchContext, FnmatchGlob

Streaming ==
  \/ Reset
  \/ \E str \in Strings : Push(str)
  \/ Match
  \/ Running

StreamSpec == Init /\ [][Streaming]_vars

-----------------------------------------------------------------------------
(* A full match is reported only if the program matches the bytes that     *)
(* precede the terminator, whatever backtracking led there and however     *)
(* the string was cut into pushes.                                         *)
MatchIsSound ==
  state = "MATCH" /\ opcode = "END" =>
    /\ data[op.offset - 1] = Nul
    /\ Globs(program, data, op.offset - 1)

(* A partial match is reported only if the program up to the separator     *)
(* matches the bytes consumed so far.                                      *)
PartialIsSound ==
  state = "MATCH" /\ opcode # "END" =>
    PathTo(program, data, op.opptr + 1, op.offset)

(* The machine stands at an instruction: the program before it accepts a   *)
(* prefix, and the rest of what was consumed belongs to the wildcard of    *)
(* the instruction itself (this is where a mark leads back to).            *)
Stands(frame) ==
  \E i \in 0..frame.offset :
    /\ PathTo(program, data, frame.opptr, i)
    /\ \/ i = frame.offset
       \/ /\ Instr(frame.opptr).op \in {"ANY", "DEEP"}
          /\ Accepts(Instr(frame.opptr), data, i, frame.offset)

(* The machine and both marks stand where the reference can be.            *)
StandsOnPath ==
  /\ state \in {"CONTINUE", "PUSH"} => Stands(op)
  /\ any.offset # 0  => Stands(any)
  /\ deep.offset # 0 => Stands(deep)

=============================================================================
