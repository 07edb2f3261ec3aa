----------------------------- MODULE FnmatchVM -----------------------------
(***************************************************************************)
(* The matching machine of src/vm.c: one operator per opcode, the two      *)
(* backtracking marks, and the rewinding that a pop performs.              *)
(*                                                                         *)
(* opptr counts instructions instead of the bytes of their encoding; both  *)
(* count from 0 and in program order, so every comparison the code makes   *)
(* between opptrs keeps its outcome.                                       *)
(***************************************************************************)
EXTENDS FnmatchProgram

VARIABLES
  program,   \* context->pattern->program
  data,      \* context->buffer.data, from offset 0 up to the terminator
  length,    \* context->buffer.length
  op,        \* current execution frame
  any,       \* frame saved by a FNMATCH_OP_ANY
  deep       \* frame saved by a FNMATCH_OP_DEEP

vmVars == <<program, data, length, op, any, deep>>

Frame  == [opptr : Nat, offset : Nat]
NoMark == [opptr |-> 0, offset |-> 0]

Instr(opptr) == program[opptr + 1]

Str == data[op.offset]

(* The terminator the client pushed, not the one that ends the buffer.     *)
AtNul == Str = Nul /\ op.offset < length

-----------------------------------------------------------------------------
(* The opcodes.  An outcome says whether the operation matched, how many   *)
(* bytes it consumed and which marks it leaves.                            *)

Outcome(matched, step, a, d) ==
  [matched |-> matched, step |-> step, any |-> a, deep |-> d]

vm_cond(condition, chars) ==
  Outcome(condition, IF condition THEN chars ELSE 0, any, deep)

(* Fault: a mark one byte further on.                                      *)
Marked_late(mark) ==
  IF mark.offset = 0 THEN [opptr |-> op.opptr, offset |-> op.offset + 2] ELSE mark

(* vm_mark_any, vm_mark_deep: a mark that is already set is kept.          *)
Marked(mark) ==
  IF mark.offset = 0 THEN [opptr |-> op.opptr, offset |-> op.offset + 1] ELSE mark

(* Fault: a literal that ends where the buffer ends counts as too long.    *)
vm_fixed_short ==
  LET str   == Instr(op.opptr).str
      short == op.offset + Len(str) >= length
      equal == \A k \in 1..Len(str) : data[op.offset + k - 1] = str[k]
  IN IF short THEN Outcome(FALSE, 0, NoMark, deep) ELSE vm_cond(equal, Len(str))

vm_fixed ==
  LET str   == Instr(op.opptr).str
      short == op.offset + Len(str) > length
      equal == \A k \in 1..Len(str) : data[op.offset + k - 1] = str[k]
  IN IF short THEN Outcome(FALSE, 0, NoMark, deep) ELSE vm_cond(equal, Len(str))

vm_chars == vm_cond(Str \in Instr(op.opptr).set, 1)

(* Fault: a question mark that accepts a separator.                        *)
vm_one_any_byte == vm_cond(Str # Nul, 1)

vm_one == vm_cond(Str \notin {Nul, Sep}, 1)

(* Fault: a star that goes on past a separator.                            *)
vm_any_past_sep ==
  CASE AtNul  -> Outcome(TRUE, 0, NoMark, NoMark)
    [] ~AtNul -> Outcome(TRUE, 0, Marked(any), deep)

vm_any ==
  CASE AtNul                 -> Outcome(TRUE, 0, NoMark, NoMark)
    [] ~AtNul /\ Str = Sep   -> Outcome(TRUE, 0, NoMark, deep)
    [] ~AtNul /\ Str # Sep   -> Outcome(TRUE, 0, Marked(any), deep)

vm_deep ==
  Outcome(TRUE, 0, any, IF AtNul THEN NoMark ELSE Marked(deep))

vm_sep ==
  IF Str = Sep
  THEN Outcome(TRUE, 1, IF any.opptr >= deep.opptr THEN NoMark ELSE any, deep)
  ELSE Outcome(FALSE, 0, any, deep)

(* Fault: the marks survive the end of the string.                         *)
vm_end_keeps_marks ==
  IF AtNul THEN Outcome(TRUE, 1, any, deep) ELSE Outcome(FALSE, 0, any, deep)

(* Fault: the terminator is not consumed.                                  *)
vm_end_in_place ==
  IF AtNul THEN Outcome(TRUE, 0, NoMark, NoMark) ELSE Outcome(FALSE, 0, any, deep)

vm_end ==
  IF AtNul THEN Outcome(TRUE, 1, NoMark, NoMark) ELSE Outcome(FALSE, 0, any, deep)

vm_op ==
  LET code == Instr(op.opptr).op
  IN CASE code = "FIXED" -> vm_fixed
       [] code = "CHARS" -> vm_chars
       [] code = "ONE"   -> vm_one
       [] code = "ANY"   -> vm_any
       [] code = "DEEP"  -> vm_deep
       [] code = "SEP"   -> vm_sep
       [] code = "END"   -> vm_end

-----------------------------------------------------------------------------
(* Backtracking.  fnmatch_vm_retry answers FNMATCH_STOP when it cannot go  *)
(* back; otherwise the machine continues from one of the two marks, which  *)
(* is cleared.                                                             *)

CanRetry(a, d) == op.opptr # 0 /\ (a.offset # 0 \/ d.offset # 0)

(* Fault: the mark that is restored is not cleared.                        *)
vm_restore_keeps_mark(a, d) ==
  IF a.opptr > d.opptr
  THEN op' = a /\ any' = a /\ deep' = d
  ELSE op' = d /\ any' = a /\ deep' = d

vm_restore(a, d) ==
  IF a.opptr > d.opptr
  THEN op' = a /\ any' = NoMark /\ deep' = d
  ELSE op' = d /\ any' = a      /\ deep' = NoMark

-----------------------------------------------------------------------------
(* Rewinding.                                                              *)

(* The two unconditional decrements: a terminator is skipped, then a       *)
(* separator.                                                              *)
SkipNul == IF Str = Nul THEN op.offset - 1 ELSE op.offset

(* Fault: a separator in front is skipped too.                             *)
SkipSep_both ==
  IF data[SkipNul] = Sep THEN SkipNul - 1
  ELSE IF SkipNul > 0 /\ data[SkipNul - 1] = Sep THEN SkipNul - 2 ELSE SkipNul

SkipSep == IF data[SkipNul] = Sep THEN SkipNul - 1 ELSE SkipNul

(* offset is a size_t: decrementing it at 0 makes the next read one of     *)
(* buffer.data[SIZE_MAX], which is outside the buffer.                     *)
Underflow ==
  IF op.offset = 0 THEN Str \in {Nul, Sep} ELSE SkipNul = 0 /\ data[0] = Sep

(* Fault: the offset of the separator itself.                              *)
ComponentStart_at_sep(from, start) ==
  \/ /\ start \in 1..from
     /\ data[start] = Sep
     /\ \A i \in start + 1..from : data[i] # Sep
  \/ /\ start = 0
     /\ \A i \in 1..from : data[i] # Sep

(* The offset after the last separator in 1..from, or 0 without one (a     *)
(* separator at offset 0 does not stop the loop).                          *)
ComponentStart(from, start) ==
  \/ /\ start \in 2..from + 1
     /\ data[start - 1] = Sep
     /\ \A i \in start..from : data[i] # Sep
  \/ /\ start = 0
     /\ \A i \in 1..from : data[i] # Sep

(* The instruction the program is taken back to: the nearest DEEP that     *)
(* precedes (if its mark is before the new offset) or the instruction that *)
(* follows the nearest preceding SEP, or the first one.                    *)
StopsAt(i, offset) ==
  Instr(i).op = "SEP" \/ (Instr(i).op = "DEEP" /\ deep.offset < offset)

ProgramStart(offset, start) ==
  \/ \E i \in 0..Len(program) - 1 :
       /\ i < op.opptr
       /\ StopsAt(i, offset)
       /\ \A j \in 0..Len(program) - 1 : i < j /\ j < op.opptr => ~StopsAt(j, offset)
       /\ start = IF Instr(i).op = "SEP" THEN i + 1 ELSE i
  \/ /\ start = 0
     /\ \A j \in 0..Len(program) - 1 : j < op.opptr => ~StopsAt(j, offset)

(* Fault: the length is not cut.                                           *)
vm_rewind_keeps_length ==
  \/ /\ CanRetry(any, deep)
     /\ vm_restore(any, deep)
     /\ UNCHANGED <<program, data, length>>
  \/ /\ ~CanRetry(any, deep)
     /\ ~Underflow
     /\ \E offset \in 0..length, opptr \in 0..Len(program) - 1 :
          /\ ComponentStart(SkipSep, offset)
          /\ ProgramStart(offset, opptr)
          /\ op' = [opptr |-> opptr, offset |-> offset]
     /\ UNCHANGED <<program, data, length, any, deep>>

(* fnmatch_vm_rewind when it does not underflow.  The bytes it discards    *)
(* stay in data: only the length is cut, the terminator is not rewritten.  *)
vm_rewind ==
  \/ /\ CanRetry(any, deep)
     /\ vm_restore(any, deep)
     /\ UNCHANGED <<program, data, length>>
  \/ /\ ~CanRetry(any, deep)
     /\ ~Underflow
     /\ \E offset \in 0..length, opptr \in 0..Len(program) - 1 :
          /\ ComponentStart(SkipSep, offset)
          /\ ProgramStart(offset, opptr)
          /\ op' = [opptr |-> opptr, offset |-> offset]
          /\ length' = offset
     /\ UNCHANGED <<program, data, any, deep>>

=============================================================================
