--------------------------- MODULE FnmatchContext ---------------------------
(***************************************************************************)
(* The resumable matching API of src/context.c.  A client pushes pieces of *)
(* a path, asks for a match, and pops what it has finished with; the       *)
(* context keeps the bytes, the machine's position and its marks between   *)
(* the calls.                                                              *)
(*                                                                         *)
(* fnmatch_context_match is a loop, and here a call is a sequence of       *)
(* steps: Match enters it, each later step is one iteration, and the call  *)
(* returns when the state is no longer FNMATCH_CONTINUE.  The other calls  *)
(* are single steps.                                                       *)
(***************************************************************************)
EXTENDS FnmatchVM, FiniteSets

CONSTANTS
  Strings,     \* what the client pushes; <<>> stands for NULL and for ""
  MaxLength,   \* bound on the bytes pushed and not yet popped
  MaxResults   \* bound on the full matches and failures counted between resets

VARIABLES
  state,     \* context->state
  opcode,    \* context->opcode, the last one executed
  nmatch,    \* number of matching strings so far
  nnomatch,  \* number of non-matching strings
  call       \* "idle", "match" inside fnmatch_context_match, "crash" after
             \* a read outside the buffer

vars == <<program, data, length, op, any, deep, state, opcode, nmatch, nnomatch, call>>

ASSUME StringsAssumption == Strings \subseteq Seq(Byte \ {Nul})
ASSUME BoundsAssumption == MaxLength \in Nat /\ MaxResults \in Nat

State == {"NOMATCH", "MATCH", "PUSH", "POP", "CONTINUE", "STOP", "ERROR"}

(* Types, and what every array access rests on: the program position is in *)
(* the program, the pushed bytes and one more are in the buffer.           *)
TypeOK ==
  /\ program \in Programs
  /\ length \in Nat
  /\ data \in [DOMAIN data -> Byte]
  /\ 0..length \subseteq DOMAIN data /\ DOMAIN data \subseteq Nat
  /\ op \in Frame /\ op.opptr < Len(program)
  /\ any \in Frame
  /\ deep \in Frame
  /\ state \in State
  /\ opcode \in Opcode
  /\ nmatch \in Nat
  /\ nnomatch \in Nat
  /\ call \in {"idle", "match", "crash"}
  /\ call = "match" => state = "CONTINUE"

-----------------------------------------------------------------------------
(* fnmatch_context_init: an empty buffer, whose data is the one terminator *)
(* of buffer_initial, and then fnmatch_context_reset.                      *)
Init ==
  /\ program \in Programs
  /\ data = [i \in {0} |-> Nul]
  /\ length = 0
  /\ op = NoMark /\ any = NoMark /\ deep = NoMark
  /\ state = "PUSH"
  /\ opcode = "END"
  /\ nmatch = 0 /\ nnomatch = 0
  /\ call = "idle"

(* Fault: the marks survive a reset.                                       *)
Reset_keeps_marks ==
  /\ call = "idle"
  /\ op' = NoMark
  /\ state' = "PUSH"
  /\ opcode' = "END"
  /\ nmatch' = 0 /\ nnomatch' = 0
  /\ UNCHANGED <<program, data, length, any, deep, call>>

(* The buffer is not reset: bytes that were pushed are matched again.      *)
Reset ==
  /\ call = "idle"
  /\ op' = NoMark /\ any' = NoMark /\ deep' = NoMark
  /\ state' = "PUSH"
  /\ opcode' = "END"
  /\ nmatch' = 0 /\ nnomatch' = 0
  /\ UNCHANGED <<program, data, length, call>>

(* Fault: no terminator is written behind the bytes.                       *)
Appended_unterminated(s) ==
  [i \in 0..length + Len(s) |->
     IF i >= length /\ i < length + Len(s) THEN s[i - length + 1]
     ELSE IF i \in DOMAIN data THEN data[i] ELSE Nul]

(* buffer_append and buffer_appendc: the bytes, then a terminator.         *)
Appended(s) ==
  [i \in 0..length + Len(s) |->
     IF i < length THEN data[i]
     ELSE IF i < length + Len(s) THEN s[i - length + 1] ELSE Nul]

Push(str) ==
  LET bytes == IF Len(str) > 0 THEN str ELSE <<Nul>>
  IN
  /\ call = "idle"
  /\ IF state \in {"PUSH", "CONTINUE"}
     THEN /\ length + Len(bytes) <= MaxLength
          /\ data' = Appended(bytes)
          /\ length' = length + Len(bytes)
          /\ state' = "CONTINUE"
     ELSE state' = "ERROR" /\ UNCHANGED <<data, length>>
  /\ UNCHANGED <<program, op, any, deep, opcode, nmatch, nnomatch, call>>

Pop ==
  /\ call = "idle"
  /\ \/ /\ state # "POP"
        /\ state' = "ERROR"
        /\ UNCHANGED <<vmVars, call>>
     \/ /\ state = "POP"
        /\ vm_rewind
        /\ state' = "CONTINUE"
        /\ UNCHANGED call
     \/ /\ state = "POP" /\ ~CanRetry(any, deep) /\ Underflow
        /\ call' = "crash"
        /\ UNCHANGED <<vmVars, state>>
  /\ UNCHANGED <<opcode, nmatch, nnomatch>>

-----------------------------------------------------------------------------
(* fnmatch_context_match.                                                  *)

Returning(s) == state' = s /\ call' = IF s = "CONTINUE" THEN "match" ELSE "idle"

(* The switch at its start, with the call to fnmatch_vm_next.              *)
Match ==
  /\ call = "idle"
  /\ \/ state = "MATCH" /\ opcode = "END" /\ Returning("POP") /\ UNCHANGED op
     \/ /\ state = "MATCH" /\ opcode # "END"
        /\ IF Instr(op.opptr).op = "END"
           THEN Returning("STOP") /\ UNCHANGED op
           ELSE Returning("CONTINUE") /\ op' = [op EXCEPT !.opptr = @ + 1]
     \/ state = "NOMATCH" /\ Returning("POP") /\ UNCHANGED op
     \/ state \in {"PUSH", "POP"} /\ Returning("STOP") /\ UNCHANGED op
     \/ /\ state = "CONTINUE"
        /\ nmatch + nnomatch < MaxResults
        /\ Returning("CONTINUE") /\ UNCHANGED op
     \/ state \in {"STOP", "ERROR"} /\ Returning(state) /\ UNCHANGED op
  /\ UNCHANGED <<program, data, length, any, deep, opcode, nmatch, nnomatch>>

NeedInput ==
  /\ call = "match"
  /\ op.offset >= length
  /\ Returning("PUSH")
  /\ UNCHANGED <<vmVars, opcode, nmatch, nnomatch>>

(* Fault: the machine also runs when it stands at the end of the input.    *)
Executing_at_length(r) ==
  /\ call = "match"
  /\ op.offset <= length
  /\ opcode' = Instr(op.opptr).op
  /\ r = vm_op

Executing(r) ==
  /\ call = "match"
  /\ op.offset < length
  /\ opcode' = Instr(op.opptr).op
  /\ r = vm_op

(* Fault: the program goes on after its END.                               *)
AtBoundary_not_end(offset) ==
  \/ opcode' = "SEP"
  \/ opcode' = "DEEP" /\ data[offset] = Sep

(* Fault: a double star is returned wherever it stands.                    *)
AtBoundary_any_deep(offset) == opcode' \in {"END", "SEP", "DEEP"}

(* A match of END is returned as a full match, one that leaves the machine *)
(* at a separator as a partial match; after any other the program goes on. *)
AtBoundary(offset) ==
  \/ opcode' \in {"END", "SEP"}
  \/ opcode' = "DEEP" /\ data[offset] = Sep

OpMatches ==
  \E r \in {vm_op} :
    /\ Executing(r)
    /\ r.matched
    /\ IF AtBoundary(op.offset + r.step)
       THEN Returning("MATCH") /\ op' = [op EXCEPT !.offset = @ + r.step]
       ELSE Returning("CONTINUE") /\ op' = [opptr |-> op.opptr + 1, offset |-> op.offset + r.step]
    /\ any' = r.any /\ deep' = r.deep
    /\ nmatch' = IF opcode' = "END" THEN nmatch + 1 ELSE nmatch
    /\ UNCHANGED <<program, data, length, nnomatch>>

(* A mismatch goes back to a mark ...                                      *)
OpRetries ==
  \E r \in {vm_op} :
    /\ Executing(r)
    /\ ~r.matched
    /\ CanRetry(r.any, r.deep)
    /\ vm_restore(r.any, r.deep)
    /\ Returning("CONTINUE")
    /\ UNCHANGED <<program, data, length, nmatch, nnomatch>>

(* ... and is returned when there is none to go back to.                   *)
OpFails ==
  \E r \in {vm_op} :
    /\ Executing(r)
    /\ ~r.matched
    /\ ~CanRetry(r.any, r.deep)
    /\ any' = r.any /\ deep' = r.deep
    /\ Returning("NOMATCH")
    /\ nnomatch' = nnomatch + 1
    /\ UNCHANGED <<program, data, length, op, nmatch>>

Running == NeedInput \/ OpMatches \/ OpRetries \/ OpFails

Next ==
  \/ Reset
  \/ \E str \in Strings : Push(str)
  \/ Pop
  \/ Match
  \/ Running

Spec == Init /\ [][Next]_vars

(* A call of fnmatch_context_match runs until it returns.                  *)
FairSpec == Spec /\ WF_vars(Running)

-----------------------------------------------------------------------------
(* Safety.                                                                 *)

MarkOK(mark, code) ==
  IF mark.offset = 0
  THEN mark = NoMark
  ELSE /\ mark.opptr <= op.opptr
       /\ Instr(mark.opptr).op = code
       /\ mark.offset <= length

(* A set mark names an instruction of its kind at or before the current    *)
(* one, and an offset the pushed bytes reach: going back to it never       *)
(* leaves the program or the buffer.                                       *)
MarksOK == MarkOK(any, "ANY") /\ MarkOK(deep, "DEEP")

Final == state \in {"NOMATCH", "POP"} \/ (state = "MATCH" /\ opcode = "END")

(* When a result is final there is nothing left to go back to, so that a   *)
(* pop always discards a component and never resumes at a stale mark of    *)
(* the string that was just finished (fnmatch_vm_rewind retries first).    *)
FinalHasNoMarks == Final => any = NoMark /\ deep = NoMark

Terminated == \E i \in DOMAIN data : i >= length /\ data[i] = Nul

(* A pop cuts the length and leaves the popped bytes in place, terminator  *)
(* included, for its caller to read.  The byte at the length is then stale *)
(* and stays so until the next push, and until then the machine stands at  *)
(* the length or waits for input: it never takes a stale byte for one of   *)
(* the string.                                                             *)
StaleByteNotRead ==
  /\ Terminated
  /\ op.offset <= length
  /\ \/ data[length] = Nul
     \/ state \in {"PUSH", "STOP", "ERROR"}
     \/ state = "CONTINUE" /\ op.offset = length

(* A context that asks for a pop holds the bytes to give back, and behind  *)
(* a full match the terminator is the last of them.                        *)
PopHasInput ==
  /\ state = "NOMATCH" => op.offset < length
  /\ state = "POP" =>
       \/ op.offset < length
       \/ op.offset = length /\ length > 0 /\ data[length - 1] = Nul

(* Neither decrement of a pop has a test for 0 (src/src/vm.c:227-230), but  *)
(* popping a string that matched never goes below it, not even the empty   *)
(* one: only a pop behind a failure does, when the last instruction that   *)
(* was executed did not match.                                             *)
OnlyFailuresUnderflow ==
  call = "crash" => nnomatch > 0 /\ (opcode = "END" => Str # Nul)

(* Only the end of a component or of the string is reported as a match:    *)
(* the machine then stands behind a separator it matched, before one a     *)
(* DEEP stopped at, or behind the terminator, and fnmatch_vm_next can go   *)
(* on from a partial match.                                                *)
MatchAtBoundary ==
  state = "MATCH" =>
    /\ opcode = Instr(op.opptr).op
    /\ \/ opcode = "END"  /\ op.offset > 0 /\ data[op.offset - 1] = Nul
       \/ opcode = "SEP"  /\ op.offset > 0 /\ data[op.offset - 1] = Sep
       \/ opcode = "DEEP" /\ data[op.offset] = Sep

(* Separators of the program before an instruction, and of the buffer      *)
(* before an offset.                                                       *)
SepsBefore(opptr) == {i \in 0..Len(program) - 1 : i < opptr /\ Instr(i).op = "SEP"}
SepBytesBefore(offset) == {i \in 0..offset : i < offset /\ data[i] = Sep}

(* Programs in which only a SEP can match a separator.                     *)
Plain(p) ==
  \A i \in 1..Len(p) :
    /\ p[i].op # "DEEP"
    /\ p[i].op = "CHARS" => Sep \notin p[i].set
    /\ \A k \in 1..Len(p[i].str) : p[i].str[k] # Sep

(* A slash in the string is matched by a slash of the pattern only,        *)
(* through every backtrack, push and pop.                                  *)
SlashMatchedBySlash ==
  Plain(program) =>
    Cardinality(SepBytesBefore(op.offset)) <= Cardinality(SepsBefore(op.opptr + 1))

-----------------------------------------------------------------------------
(* What a step may never do.                                               *)

(* A pop discards everything from the start of the component in which the  *)
(* machine stopped, also the components that were pushed behind it: at     *)
(* least one byte.  No component in front of that one is touched, and what *)
(* is left is whole components.  The machine may have stopped at the       *)
(* separator that ends its component, or at a terminator behind it; a      *)
(* separator at offset 0 goes with the first component                     *)
(* (src/src/vm.c:227-252).                                                 *)
PopDropsFromComponent ==
  [][Pop /\ state' = "CONTINUE" =>
       /\ length' < length /\ length' <= op.offset
       /\ length' > 0 => data[length' - 1] = Sep
       /\ \A i \in 1..op.offset :
            i >= length' /\ data[i] = Sep =>
              i = op.offset \/ (i = op.offset - 1 /\ Str = Nul)]_vars

(* A pop takes the program back past as many separators as it takes the    *)
(* buffer.                                                                 *)
PopRewindsAccordingly ==
  [][Pop /\ state' = "CONTINUE" /\ Plain(program) =>
       Cardinality(SepBytesBefore(op.offset) \ SepBytesBefore(length'))
         = Cardinality(SepsBefore(op.opptr) \ SepsBefore(op'.opptr))]_vars

-----------------------------------------------------------------------------
(* A call of fnmatch_context_match returns, unless the program starts with *)
(* a star (see AlwaysReturns in FnmatchPattern): its loop ends although    *)
(* every mismatch may send the machine back.                               *)
MatchReturns == (call = "match" /\ program[1].op # "ANY") ~> (call # "match")

-----------------------------------------------------------------------------
(* The context implements the protocol that its client sees.               *)

Input == [i \in 1..length |-> data[i - 1]]

Status ==
  IF call = "match" THEN "BUSY"
  ELSE IF call = "crash" THEN "CRASH"
  ELSE IF state # "MATCH" THEN state
  ELSE IF opcode = "END" THEN "FULL" ELSE "PARTIAL"

Protocol == INSTANCE FnmatchProtocol WITH input <- Input, status <- Status

(* Every step of the context is a step of the protocol or invisible to it: *)
(* partial and full matches are only reported over input that has a        *)
(* separator or a terminator, and pops always shrink it to whole           *)
(* components.                                                             *)
ImplementsProtocol == Protocol!Spec

=============================================================================
