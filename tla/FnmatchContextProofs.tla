------------------------ MODULE FnmatchContextProofs ------------------------
(***************************************************************************)
(* Proofs about the context, for every alphabet, every set of well-formed  *)
(* programs and every client.  The inductive invariant is the conjunction  *)
(* of the invariants that the run context checks one by one.  From it      *)
(* follow, step by step, the refinement of FnmatchProtocol, that only a    *)
(* failure lets a pop leave the buffer, what a pop drops and which slashes *)
(* match one another, which both look for separators.                      *)
(***************************************************************************)
EXTENDS FnmatchContext, FiniteSetTheorems, TLAPS

IInv ==
  /\ TypeOK
  /\ MarksOK
  /\ FinalHasNoMarks
  /\ StaleByteNotRead
  /\ PopHasInput
  /\ MatchAtBoundary

-----------------------------------------------------------------------------
(* Programs.                                                               *)

(* Every instruction of a context's program has a known opcode, and the    *)
(* one after an instruction that is not END is in the program.             *)
LEMMA InstrFacts ==
  ASSUME TypeOK, NEW i \in Nat, i < Len(program)
  PROVE  /\ Instr(i) \in Instruction
         /\ Instr(i).op \in Opcode
         /\ Instr(i).op # "END" => i + 1 < Len(program)
         /\ Instr(i).op = "FIXED" => Len(Instr(i).str) \in Nat
         /\ Len(program) \in Nat
PROOF
<1>1. WellFormed(program)
  BY ProgramsAssumption DEF TypeOK
<1>2. program \in Seq(Instruction) /\ i + 1 \in 1..Len(program)
  BY <1>1 DEF WellFormed
<1>3. Instr(i) \in Instruction
  BY <1>2 DEF Instr
<1>4. program[i + 1].op = "END" <=> i + 1 = Len(program)
  BY <1>1, <1>2 DEF WellFormed
<1>5. Instr(i).op # "END" => i + 1 < Len(program)
  BY <1>2, <1>4 DEF Instr
<1>6. Instr(i).str \in Seq(Byte) /\ Instr(i).op \in Opcode
  BY <1>3 DEF Instruction
<1> QED
  BY <1>2, <1>3, <1>5, <1>6

-----------------------------------------------------------------------------
(* The opcodes.                                                            *)

(* A mark that is set by an instruction of its kind, kept or cleared is in *)
(* order.                                                                  *)
LEMMA MarkedOK ==
  ASSUME TypeOK, op.offset < length,
         NEW mark \in Frame, NEW code, MarkOK(mark, code),
         Instr(op.opptr).op = code
  PROVE  Marked(mark) \in Frame /\ MarkOK(Marked(mark), code)
PROOF
<1>1. op.opptr \in Nat /\ op.offset \in Nat /\ length \in Nat
  BY DEF TypeOK, Frame
<1>2. CASE mark.offset = 0
  BY <1>1, <1>2 DEF Marked, MarkOK, Frame
<1>3. CASE mark.offset # 0
  BY <1>3 DEF Marked
<1> QED
  BY <1>2, <1>3

LEMMA NoMarkOK == NoMark \in Frame /\ \A code : MarkOK(NoMark, code)
PROOF
  BY DEF NoMark, Frame, MarkOK

(* What executing an instruction may do: it consumes only pushed bytes,    *)
(* leaves the marks in order, and never fails on a wildcard.               *)
OutcomeOK(r) ==
  /\ r.matched \in BOOLEAN
  /\ r.step \in Nat
  /\ op.offset + r.step <= length
  /\ r.any \in Frame /\ MarkOK(r.any, "ANY")
  /\ r.deep \in Frame /\ MarkOK(r.deep, "DEEP")
  /\ Instr(op.opptr).op \in {"ANY", "DEEP"} => r.matched
  /\ Instr(op.opptr).op = "DEEP" => r.step = 0
  /\ Instr(op.opptr).op = "SEP" /\ r.matched => r.step = 1 /\ Str = Sep
  /\ Instr(op.opptr).op = "END" /\ r.matched =>
       r.step = 1 /\ Str = Nul /\ r.any = NoMark /\ r.deep = NoMark

LEMMA VmOpOK ==
  ASSUME TypeOK, MarksOK, op.offset < length
  PROVE  OutcomeOK(vm_op)
PROOF
<1> DEFINE code == Instr(op.opptr).op
<1>1. /\ op.opptr \in Nat /\ op.opptr < Len(program)
      /\ op.offset \in Nat /\ length \in Nat
      /\ any \in Frame /\ deep \in Frame
  BY DEF TypeOK, Frame
<1>2. MarkOK(any, "ANY") /\ MarkOK(deep, "DEEP")
  BY DEF MarksOK
<1>3. code \in Opcode /\ (code = "FIXED" => Len(Instr(op.opptr).str) \in Nat)
  BY <1>1, InstrFacts
<1>4. op.offset + 0 <= length /\ op.offset + 1 <= length
  BY <1>1
<1>5. CASE code = "FIXED"
  <2>1. vm_op = vm_fixed
    BY <1>5 DEF vm_op
  <2> QED
    BY <1>1, <1>2, <1>3, <1>5, <2>1, NoMarkOK DEF vm_fixed, vm_cond, Outcome, OutcomeOK
<1>6. CASE code = "CHARS"
  <2>1. vm_op = vm_chars
    BY <1>6 DEF vm_op
  <2> QED
    BY <1>1, <1>2, <1>4, <1>6, <2>1 DEF vm_chars, vm_cond, Outcome, OutcomeOK
<1>7. CASE code = "ONE"
  <2>1. vm_op = vm_one
    BY <1>7 DEF vm_op
  <2> QED
    BY <1>1, <1>2, <1>4, <1>7, <2>1 DEF vm_one, vm_cond, Outcome, OutcomeOK
<1>8. CASE code = "ANY"
  <2>1. vm_op = vm_any
    BY <1>8 DEF vm_op
  <2>2. Marked(any) \in Frame /\ MarkOK(Marked(any), "ANY")
    BY <1>1, <1>2, <1>8, MarkedOK
  <2> QED
    BY <1>1, <1>2, <1>4, <1>8, <2>1, <2>2, NoMarkOK DEF vm_any, Outcome, OutcomeOK
<1>9. CASE code = "DEEP"
  <2>1. vm_op = vm_deep
    BY <1>9 DEF vm_op
  <2>2. Marked(deep) \in Frame /\ MarkOK(Marked(deep), "DEEP")
    BY <1>1, <1>2, <1>9, MarkedOK
  <2> QED
    BY <1>1, <1>2, <1>4, <1>9, <2>1, <2>2, NoMarkOK DEF vm_deep, Outcome, OutcomeOK
<1>10. CASE code = "SEP"
  <2>1. vm_op = vm_sep
    BY <1>10 DEF vm_op
  <2> QED
    BY <1>1, <1>2, <1>4, <1>10, <2>1, NoMarkOK DEF vm_sep, Outcome, OutcomeOK
<1>11. CASE code = "END"
  <2>1. vm_op = vm_end
    BY <1>11 DEF vm_op
  <2> QED
    BY <1>1, <1>2, <1>4, <1>11, <2>1, NoMarkOK DEF vm_end, AtNul, Outcome, OutcomeOK
<1> QED
  BY <1>3, <1>5, <1>6, <1>7, <1>8, <1>9, <1>10, <1>11 DEF Opcode

(* In a program in which only a SEP matches separators, every other        *)
(* instruction consumes none, and a mark is set where none stands.         *)
PlainOutcome(r) ==
  /\ r.matched /\ Instr(op.opptr).op # "SEP" =>
       \A k \in op.offset..(op.offset + r.step) - 1 : data[k] # Sep
  /\ \/ r.any = NoMark
     \/ r.any = any
     \/ r.any = [opptr |-> op.opptr, offset |-> op.offset + 1] /\ Str # Sep

LEMMA VmOpPlain ==
  ASSUME TypeOK, Plain(program)
  PROVE  PlainOutcome(vm_op)
PROOF
<1> DEFINE code == Instr(op.opptr).op
           ins == program[op.opptr + 1]
<1>1. op.opptr \in Nat /\ op.opptr < Len(program) /\ op.offset \in Nat
  BY DEF TypeOK, Frame
<1>2. code \in Opcode /\ (code = "FIXED" => Len(Instr(op.opptr).str) \in Nat)
  BY <1>1, InstrFacts
<1>3. Len(program) \in Nat /\ op.opptr + 1 \in 1..Len(program) /\ ins = Instr(op.opptr)
  BY <1>1, InstrFacts DEF Instr
<1>4. /\ code # "DEEP"
      /\ code = "CHARS" => Sep \notin Instr(op.opptr).set
      /\ \A k \in 1..Len(Instr(op.opptr).str) : Instr(op.opptr).str[k] # Sep
  BY <1>3 DEF Plain
<1>5. \A k \in op.offset..(op.offset + 0) - 1 : FALSE
  BY <1>1
<1>6. CASE code = "FIXED"
  <2> DEFINE len == Len(Instr(op.opptr).str)
  <2>1. vm_op = vm_fixed
    BY <1>6 DEF vm_op
  <2>2. vm_op.any \in {NoMark, any}
    BY <2>1 DEF vm_fixed, vm_cond, Outcome
  <2>3. vm_op.matched =>
          /\ vm_op.step = len
          /\ \A k \in 1..len : data[op.offset + k - 1] = Instr(op.opptr).str[k]
    BY <2>1 DEF vm_fixed, vm_cond, Outcome
  <2>4. ASSUME vm_op.matched, NEW k \in op.offset..(op.offset + vm_op.step) - 1
        PROVE  data[k] # Sep
    <3>1. k - op.offset + 1 \in 1..len /\ op.offset + (k - op.offset + 1) - 1 = k
      BY <1>1, <1>2, <1>6, <2>3, <2>4
    <3>2. data[op.offset + (k - op.offset + 1) - 1] = Instr(op.opptr).str[k - op.offset + 1]
      BY <2>3, <2>4, <3>1
    <3> QED
      BY <1>4, <3>1, <3>2
  <2> QED
    BY <2>2, <2>4 DEF PlainOutcome
<1>7. CASE code \in {"CHARS", "ONE", "END"}
  <2>1. vm_op.any \in {NoMark, any} /\ vm_op.step \in {0, 1}
        /\ (vm_op.matched => Str # Sep)
    <3>1. CASE code = "CHARS"
      BY <1>4, <3>1 DEF vm_op, vm_chars, vm_cond, Outcome
    <3>2. CASE code = "ONE"
      BY <3>2 DEF vm_op, vm_one, vm_cond, Outcome
    <3>3. CASE code = "END"
      BY <3>3, ByteAssumption DEF vm_op, vm_end, AtNul, Outcome
    <3> QED
      BY <1>7, <3>1, <3>2, <3>3
  <2>2. ASSUME vm_op.matched, NEW k \in op.offset..(op.offset + vm_op.step) - 1
        PROVE  data[k] # Sep
    <3>1. k = op.offset
      BY <1>1, <2>1, <2>2
    <3> QED
      BY <2>1, <2>2, <3>1 DEF Str
  <2> QED
    BY <2>1, <2>2 DEF PlainOutcome
<1>8. CASE code = "ANY"
  <2>1. vm_op = vm_any /\ vm_any.step = 0
    BY <1>8 DEF vm_op, vm_any, Outcome
  <2>2. \/ vm_any.any \in {NoMark, any}
        \/ vm_any.any = [opptr |-> op.opptr, offset |-> op.offset + 1] /\ Str # Sep
    BY DEF vm_any, Outcome, Marked
  <2> QED
    BY <1>5, <2>1, <2>2 DEF PlainOutcome
<1>9. CASE code = "SEP"
  <2>1. vm_op = vm_sep /\ vm_sep.any \in {NoMark, any}
    BY <1>9 DEF vm_op, vm_sep, Outcome
  <2> QED
    BY <1>9, <2>1 DEF PlainOutcome
<1> QED
  BY <1>2, <1>4, <1>6, <1>7, <1>8, <1>9 DEF Opcode

(* Such a program has no mark of a double star.                            *)
LEMMA PlainNoDeep ==
  ASSUME TypeOK, Plain(program), NEW d \in Frame, MarkOK(d, "DEEP")
  PROVE  d = NoMark
PROOF
<1>1. d.opptr \in Nat /\ op.opptr \in Nat /\ op.opptr < Len(program) /\ Len(program) \in Nat
  BY InstrFacts DEF TypeOK, Frame
<1>2. ASSUME d.offset # 0 PROVE FALSE
  <2>1. d.opptr <= op.opptr /\ Instr(d.opptr).op = "DEEP"
    BY <1>2 DEF MarkOK
  <2>2. d.opptr + 1 \in 1..Len(program)
    BY <1>1, <2>1
  <2> QED
    BY <2>1, <2>2 DEF Plain, Instr
<1> QED
  BY <1>2 DEF MarkOK

-----------------------------------------------------------------------------
(* Steps of the context.                                                   *)

LEMMA InitOK == Init => IInv
PROOF
<1> SUFFICES ASSUME Init PROVE IInv
  OBVIOUS
<1>1. program \in Programs /\ WellFormed(program) /\ Len(program) \in Nat
  BY ProgramsAssumption DEF Init, WellFormed
<1>2. 0..length = {0}
  BY SMT DEF Init
<1>3. TypeOK
  BY <1>1, <1>2, ByteAssumption DEF Init, TypeOK, NoMark, Frame, State, Opcode, WellFormed
<1>4. MarksOK /\ FinalHasNoMarks /\ PopHasInput /\ MatchAtBoundary
  BY DEF Init, NoMark, MarksOK, MarkOK, FinalHasNoMarks, Final, PopHasInput, MatchAtBoundary
<1>5. StaleByteNotRead
  BY DEF Init, NoMark, StaleByteNotRead, Terminated
<1> QED
  BY <1>3, <1>4, <1>5 DEF IInv

LEMMA ResetOK == IInv /\ Reset => IInv'
PROOF
<1> SUFFICES ASSUME IInv, Reset PROVE IInv'
  OBVIOUS
<1> USE DEF IInv, Reset
<1>1. program \in Programs /\ WellFormed(program) /\ Len(program) \in Nat
  BY ProgramsAssumption DEF TypeOK, WellFormed
<1>2. TypeOK'
  BY <1>1 DEF TypeOK, NoMark, Frame, State, Opcode, WellFormed
<1>3. MarksOK' /\ FinalHasNoMarks' /\ PopHasInput' /\ MatchAtBoundary'
  BY DEF NoMark, MarksOK, MarkOK, FinalHasNoMarks, Final, PopHasInput, MatchAtBoundary
<1>4. StaleByteNotRead'
  BY DEF NoMark, StaleByteNotRead, Terminated, TypeOK
<1> QED
  BY <1>2, <1>3, <1>4

(* The buffer after a push: the bytes that were there, then the new ones,  *)
(* then a terminator.                                                      *)
LEMMA AppendedFacts ==
  ASSUME TypeOK, NEW s \in Seq(Byte)
  PROVE  /\ Len(s) \in Nat /\ length + Len(s) \in Nat
         /\ Appended(s) \in [0..length + Len(s) -> Byte]
         /\ \A i \in 0..length : i < length => Appended(s)[i] = data[i]
         /\ \A k \in 1..Len(s) : Appended(s)[length + k - 1] = s[k]
         /\ Appended(s)[length + Len(s)] = Nul
PROOF
<1>1. length \in Nat /\ Len(s) \in Nat /\ Nul \in Byte
  BY ByteAssumption DEF TypeOK
<1>2. ASSUME NEW i \in 0..length + Len(s)
      PROVE  /\ i < length => data[i] \in Byte
             /\ i >= length /\ i < length + Len(s) => s[i - length + 1] \in Byte
  <2>1. i < length => i \in 0..length
    BY <1>1
  <2>2. i >= length /\ i < length + Len(s) => i - length + 1 \in 1..Len(s)
    BY <1>1
  <2> QED
    BY <2>1, <2>2 DEF TypeOK
<1>3. Appended(s) \in [0..length + Len(s) -> Byte]
  BY <1>1, <1>2 DEF Appended
<1>4. \A i \in 0..length : i < length => Appended(s)[i] = data[i]
  BY <1>1 DEF Appended
<1>5. \A k \in 1..Len(s) : Appended(s)[length + k - 1] = s[k]
  BY <1>1 DEF Appended
<1>6. Appended(s)[length + Len(s)] = Nul
  BY <1>1 DEF Appended
<1> QED
  BY <1>1, <1>3, <1>4, <1>5, <1>6

(* What a push appends.                                                    *)
Pushed(str) == IF Len(str) > 0 THEN str ELSE <<Nul>>

LEMMA PushedFacts ==
  ASSUME NEW str \in Strings
  PROVE  Pushed(str) \in Seq(Byte) /\ Len(Pushed(str)) \in Nat \ {0}
PROOF
<1>1. str \in Seq(Byte \ {Nul})
  BY StringsAssumption
<1>2. str \in Seq(Byte)
  BY <1>1
<1>3. <<Nul>> \in Seq(Byte) /\ Len(<<Nul>>) = 1
  BY ByteAssumption
<1> QED
  BY <1>2, <1>3 DEF Pushed

LEMMA PushOK == ASSUME NEW str \in Strings PROVE IInv /\ Push(str) => IInv'
PROOF
<1> SUFFICES ASSUME IInv, Push(str) PROVE IInv'
  OBVIOUS
<1> USE DEF IInv
<1> DEFINE bytes == Pushed(str)
<1>1. bytes \in Seq(Byte) /\ Len(bytes) \in Nat \ {0}
  BY PushedFacts
<1>2. length \in Nat /\ op.offset \in Nat /\ op.offset <= length
  BY DEF TypeOK, Frame, StaleByteNotRead
<1>3. UNCHANGED <<program, op, any, deep, opcode, nmatch, nnomatch, call>> /\ call = "idle"
  BY DEF Push
<1>4. CASE state \in {"PUSH", "CONTINUE"}
  <2> HIDE DEF bytes
  <2>1. data' = Appended(bytes) /\ length' = length + Len(bytes) /\ state' = "CONTINUE"
    BY <1>4 DEF Push, bytes, Pushed
  <2>2. data' \in [0..length' -> Byte] /\ length' \in Nat /\ data'[length'] = Nul
    BY <1>1, <2>1, AppendedFacts
  <2>3. TypeOK'
    BY <1>3, <2>1, <2>2 DEF TypeOK, State, Instr
  <2>4. MarksOK'
    BY <1>1, <1>2, <1>3, <2>1 DEF MarksOK, MarkOK, Instr, TypeOK, Frame
  <2>5. StaleByteNotRead'
    BY <1>1, <1>2, <1>3, <2>1, <2>2 DEF StaleByteNotRead, Terminated
  <2> QED
    BY <2>1, <2>3, <2>4, <2>5 DEF FinalHasNoMarks, Final, PopHasInput, MatchAtBoundary
<1>5. CASE state \notin {"PUSH", "CONTINUE"}
  <2>1. state' = "ERROR" /\ UNCHANGED <<data, length>>
    BY <1>5 DEF Push
  <2>2. TypeOK' /\ MarksOK'
    BY <1>3, <2>1 DEF TypeOK, State, MarksOK, MarkOK, Instr
  <2>3. StaleByteNotRead'
    BY <1>3, <2>1 DEF StaleByteNotRead, Terminated
  <2> QED
    BY <2>1, <2>2, <2>3 DEF FinalHasNoMarks, Final, PopHasInput, MatchAtBoundary
<1> QED
  BY <1>4, <1>5

(* Entering a call never stops a partial match: there is an instruction    *)
(* after a SEP or a DEEP.                                                  *)
LEMMA MatchOK == IInv /\ Match => IInv'
PROOF
<1> SUFFICES ASSUME IInv, Match PROVE IInv'
  OBVIOUS
<1> USE DEF IInv
<1>1. UNCHANGED <<program, data, length, any, deep, opcode, nmatch, nnomatch>> /\ call = "idle"
  BY DEF Match
<1>2. op.opptr \in Nat /\ op.offset \in Nat /\ op.opptr < Len(program) /\ length \in Nat
  BY DEF TypeOK, Frame
<1>3. CASE state = "MATCH" /\ opcode # "END"
  <2>1. Instr(op.opptr).op # "END"
    BY <1>3 DEF MatchAtBoundary
  <2>2. /\ op' = [op EXCEPT !.opptr = @ + 1]
        /\ state' = "CONTINUE" /\ call' = "match"
    BY <1>3, <2>1 DEF Match, Returning
  <2>3. op' = [opptr |-> op.opptr + 1, offset |-> op.offset]
    BY <2>2 DEF TypeOK, Frame
  <2>4. op.opptr + 1 < Len(program)
    BY <1>2, <2>1, InstrFacts
  <2>5. TypeOK'
    BY <1>1, <1>2, <2>2, <2>3, <2>4 DEF TypeOK, Frame, State
  <2>6. MarksOK'
    BY <1>1, <1>2, <2>3 DEF MarksOK, MarkOK, Instr, TypeOK, Frame
  <2>7. data[length] = Nul
    BY <1>3 DEF StaleByteNotRead
  <2>8. StaleByteNotRead'
    BY <1>1, <2>3, <2>7 DEF StaleByteNotRead, Terminated
  <2> QED
    BY <2>2, <2>5, <2>6, <2>8 DEF FinalHasNoMarks, Final, PopHasInput, MatchAtBoundary
<1>4. CASE \/ state = "MATCH" /\ opcode = "END"
           \/ state = "NOMATCH"
  <2>1. op' = op /\ state' = "POP" /\ call' = "idle"
    BY <1>4 DEF Match, Returning
  <2>2. TypeOK' /\ MarksOK' /\ FinalHasNoMarks'
    BY <1>1, <1>4, <2>1 DEF TypeOK, State, MarksOK, MarkOK, Instr, FinalHasNoMarks, Final
  <2>3. StaleByteNotRead' /\ MatchAtBoundary'
    BY <1>1, <1>4, <2>1 DEF StaleByteNotRead, Terminated, MatchAtBoundary
  <2>4. PopHasInput'
    BY <1>1, <1>2, <1>4, <2>1 DEF PopHasInput, MatchAtBoundary, StaleByteNotRead
  <2> QED
    BY <2>2, <2>3, <2>4
<1>5. CASE state \in {"PUSH", "POP", "CONTINUE", "STOP", "ERROR"}
  <2>1. /\ op' = op
        /\ \/ state' = "STOP" /\ call' = "idle"
           \/ state' = state /\ state' \in {"STOP", "ERROR"} /\ call' = "idle"
           \/ state' = state /\ state' = "CONTINUE" /\ call' = "match"
    BY <1>5 DEF Match, Returning
  <2>2. TypeOK' /\ MarksOK'
    BY <1>1, <2>1 DEF TypeOK, State, MarksOK, MarkOK, Instr
  <2>3. StaleByteNotRead'
    BY <1>1, <2>1 DEF StaleByteNotRead, Terminated
  <2> QED
    BY <2>1, <2>2, <2>3 DEF FinalHasNoMarks, Final, PopHasInput, MatchAtBoundary
<1> QED
  BY <1>3, <1>4, <1>5 DEF TypeOK, State

LEMMA NeedInputOK == IInv /\ NeedInput => IInv'
PROOF
<1> SUFFICES ASSUME IInv, NeedInput PROVE IInv'
  OBVIOUS
<1> USE DEF IInv
<1>1. /\ UNCHANGED <<program, data, length, op, any, deep, opcode, nmatch, nnomatch>>
      /\ state' = "PUSH" /\ call' = "idle"
  BY DEF NeedInput, Returning, vmVars
<1>2. TypeOK' /\ MarksOK'
  BY <1>1 DEF TypeOK, State, MarksOK, MarkOK, Instr
<1>3. StaleByteNotRead'
  BY <1>1 DEF StaleByteNotRead, Terminated
<1> QED
  BY <1>1, <1>2, <1>3 DEF FinalHasNoMarks, Final, PopHasInput, MatchAtBoundary

(* An iteration that executes an instruction: it has input, the byte at    *)
(* the length is the terminator, and the outcome is in order.              *)
LEMMA ExecutingFacts ==
  ASSUME IInv, NEW r, Executing(r)
  PROVE  /\ OutcomeOK(r)
         /\ op.opptr \in Nat /\ op.opptr < Len(program)
         /\ op.offset \in Nat /\ length \in Nat /\ op.offset < length
         /\ opcode' = Instr(op.opptr).op /\ opcode' \in Opcode
         /\ data[length] = Nul
         /\ state = "CONTINUE"
PROOF
<1>1. /\ op.opptr \in Nat /\ op.opptr < Len(program)
      /\ op.offset \in Nat /\ length \in Nat /\ op.offset < length
  BY DEF IInv, TypeOK, Frame, Executing
<1>2. OutcomeOK(r)
  BY <1>1, VmOpOK DEF IInv, Executing
<1>3. opcode' = Instr(op.opptr).op /\ opcode' \in Opcode
  BY <1>1, InstrFacts DEF IInv, Executing
<1>4. state = "CONTINUE" /\ data[length] = Nul
  BY <1>1 DEF IInv, TypeOK, StaleByteNotRead, Executing
<1> QED
  BY <1>1, <1>2, <1>3, <1>4

LEMMA OpMatchesOK == IInv /\ OpMatches => IInv'
PROOF
<1> SUFFICES ASSUME IInv, OpMatches PROVE IInv'
  OBVIOUS
<1> USE DEF IInv
<1> DEFINE r == vm_op
           end == op.offset + r.step
<1>1. /\ Executing(r) /\ r.matched
      /\ IF AtBoundary(end)
         THEN Returning("MATCH") /\ op' = [op EXCEPT !.offset = @ + r.step]
         ELSE Returning("CONTINUE") /\ op' = [opptr |-> op.opptr + 1, offset |-> end]
      /\ any' = r.any /\ deep' = r.deep
      /\ nmatch' = IF opcode' = "END" THEN nmatch + 1 ELSE nmatch
      /\ UNCHANGED <<program, data, length, nnomatch>>
  BY DEF OpMatches
<1> HIDE DEF r
<1>2. /\ OutcomeOK(r)
      /\ op.opptr \in Nat /\ op.opptr < Len(program)
      /\ op.offset \in Nat /\ length \in Nat /\ op.offset < length
      /\ opcode' = Instr(op.opptr).op /\ opcode' \in Opcode
      /\ data[length] = Nul
  BY <1>1, ExecutingFacts
<1>3. end \in Nat /\ end <= length
  BY <1>2 DEF OutcomeOK
<1>4. nmatch' \in Nat
  BY <1>1 DEF TypeOK
<1>5. CASE AtBoundary(end)
  <2>1. state' = "MATCH" /\ call' = "idle" /\ op' = [opptr |-> op.opptr, offset |-> end]
    BY <1>1, <1>5 DEF Returning, TypeOK, Frame
  <2>2. TypeOK'
    BY <1>1, <1>2, <1>3, <1>4, <2>1 DEF TypeOK, Frame, State, OutcomeOK
  <2>3. MarksOK'
    BY <1>1, <1>2, <2>1 DEF MarksOK, MarkOK, Instr, OutcomeOK
  <2>4. FinalHasNoMarks'
    BY <1>1, <1>2, <2>1 DEF FinalHasNoMarks, Final, OutcomeOK
  <2>5. StaleByteNotRead'
    BY <1>1, <1>2, <1>3, <2>1 DEF StaleByteNotRead, Terminated
  <2>6. PopHasInput'
    BY <2>1 DEF PopHasInput
  <2>7. MatchAtBoundary'
    <3>1. opcode' = (Instr(op.opptr).op)'
      BY <1>1, <1>2, <2>1 DEF Instr
    <3>2. CASE opcode' = "END"
      <4>1. end = op.offset + 1 /\ data[op.offset] = Nul
        BY <1>1, <1>2, <3>2 DEF OutcomeOK, Str
      <4> QED
        BY <1>1, <1>2, <2>1, <3>1, <3>2, <4>1 DEF MatchAtBoundary
    <3>3. CASE opcode' = "SEP"
      <4>1. end = op.offset + 1 /\ data[op.offset] = Sep
        BY <1>1, <1>2, <3>3 DEF OutcomeOK, Str
      <4> QED
        BY <1>1, <1>2, <2>1, <3>1, <3>3, <4>1 DEF MatchAtBoundary
    <3>4. CASE opcode' = "DEEP" /\ data[end] = Sep
      BY <1>1, <1>2, <2>1, <3>1, <3>4 DEF MatchAtBoundary
    <3> QED
      BY <1>5, <3>2, <3>3, <3>4 DEF AtBoundary
  <2> QED
    BY <2>2, <2>3, <2>4, <2>5, <2>6, <2>7
<1>6. CASE ~AtBoundary(end)
  <2>1. /\ state' = "CONTINUE" /\ call' = "match"
        /\ op' = [opptr |-> op.opptr + 1, offset |-> end]
    BY <1>1, <1>6 DEF Returning
  <2>2. op.opptr + 1 < Len(program)
    BY <1>2, <1>6, InstrFacts DEF AtBoundary
  <2>3. TypeOK'
    <3>1. op' \in Frame /\ op'.opptr < Len(program)
      BY <1>2, <1>3, <2>1, <2>2 DEF Frame
    <3>2. any' \in Frame /\ deep' \in Frame
      BY <1>1, <1>2 DEF OutcomeOK
    <3> QED
      BY <1>1, <1>2, <1>4, <2>1, <3>1, <3>2 DEF TypeOK, State
  <2>4. MarksOK'
    BY <1>1, <1>2, <2>1 DEF MarksOK, MarkOK, Instr, OutcomeOK, Frame
  <2>5. StaleByteNotRead'
    BY <1>1, <1>2, <1>3, <2>1 DEF StaleByteNotRead, Terminated
  <2> QED
    BY <2>1, <2>3, <2>4, <2>5 DEF FinalHasNoMarks, Final, PopHasInput, MatchAtBoundary
<1> QED
  BY <1>5, <1>6

(* Going back to a mark keeps the other one in order: the mark that is     *)
(* restored is the one further on in the program.                          *)
LEMMA RestoreOK ==
  ASSUME TypeOK, NEW a \in Frame, NEW d \in Frame,
         MarkOK(a, "ANY"), MarkOK(d, "DEEP"), vm_restore(a, d),
         UNCHANGED <<program, length>>
  PROVE  /\ op' \in Frame /\ op'.opptr < Len(program) /\ op'.offset <= length
         /\ any' \in Frame /\ deep' \in Frame
         /\ MarksOK'
PROOF
<1>1. op.opptr \in Nat /\ op.opptr < Len(program) /\ length \in Nat /\ Len(program) \in Nat
  BY InstrFacts DEF TypeOK, Frame
<1>2. NoMark \in Frame /\ NoMark.offset = 0 /\ NoMark.opptr = 0
  BY DEF NoMark, Frame
<1>3. CASE a.opptr > d.opptr
  <2>1. op' = a /\ any' = NoMark /\ deep' = d
    BY <1>3 DEF vm_restore
  <2> QED
    BY <1>1, <1>2, <1>3, <2>1 DEF MarksOK, MarkOK, Frame, Instr
<1>4. CASE ~(a.opptr > d.opptr)
  <2>1. op' = d /\ any' = a /\ deep' = NoMark
    BY <1>4 DEF vm_restore
  <2> QED
    BY <1>1, <1>2, <1>4, <2>1 DEF MarksOK, MarkOK, Frame, Instr
<1> QED
  BY <1>3, <1>4

LEMMA OpRetriesOK == IInv /\ OpRetries => IInv'
PROOF
<1> SUFFICES ASSUME IInv, OpRetries PROVE IInv'
  OBVIOUS
<1> USE DEF IInv
<1> DEFINE r == vm_op
<1>1. /\ Executing(r)
      /\ vm_restore(r.any, r.deep)
      /\ state' = "CONTINUE" /\ call' = "match"
      /\ UNCHANGED <<program, data, length, nmatch, nnomatch>>
  BY DEF OpRetries, Returning
<1> HIDE DEF r
<1>2. OutcomeOK(r) /\ opcode' \in Opcode /\ data[length] = Nul
  BY <1>1, ExecutingFacts
<1>3. /\ op' \in Frame /\ op'.opptr < Len(program) /\ op'.offset <= length
      /\ any' \in Frame /\ deep' \in Frame
      /\ MarksOK'
  BY <1>1, <1>2, RestoreOK DEF OutcomeOK
<1>4. TypeOK'
  BY <1>1, <1>2, <1>3 DEF TypeOK, State
<1>5. StaleByteNotRead'
  BY <1>1, <1>2, <1>3 DEF StaleByteNotRead, Terminated
<1> QED
  BY <1>1, <1>3, <1>4, <1>5 DEF FinalHasNoMarks, Final, PopHasInput, MatchAtBoundary

LEMMA OpFailsOK == IInv /\ OpFails => IInv'
PROOF
<1> SUFFICES ASSUME IInv, OpFails PROVE IInv'
  OBVIOUS
<1> USE DEF IInv
<1> DEFINE r == vm_op
<1>1. /\ Executing(r) /\ ~r.matched
      /\ ~CanRetry(r.any, r.deep)
      /\ any' = r.any /\ deep' = r.deep
      /\ state' = "NOMATCH" /\ call' = "idle"
      /\ nnomatch' = nnomatch + 1
      /\ UNCHANGED <<program, data, length, op, nmatch>>
  BY DEF OpFails, Returning
<1> HIDE DEF r
<1>2. /\ OutcomeOK(r) /\ opcode' \in Opcode /\ data[length] = Nul
      /\ op.opptr \in Nat /\ op.offset < length
  BY <1>1, ExecutingFacts
<1>3. r.any = NoMark /\ r.deep = NoMark
  <2>1. Instr(op.opptr).op \notin {"ANY", "DEEP"}
    BY <1>1, <1>2 DEF OutcomeOK
  <2>2. CASE op.opptr = 0
    BY <1>2, <2>1, <2>2 DEF OutcomeOK, MarkOK, Frame
  <2>3. CASE op.opptr # 0
    BY <1>1, <1>2, <2>3 DEF CanRetry, OutcomeOK, MarkOK
  <2> QED
    BY <2>2, <2>3
<1>4. TypeOK'
  BY <1>1, <1>2 DEF TypeOK, State, OutcomeOK
<1>5. MarksOK' /\ FinalHasNoMarks'
  BY <1>1, <1>3 DEF MarksOK, MarkOK, NoMark, FinalHasNoMarks
<1>6. StaleByteNotRead' /\ PopHasInput' /\ MatchAtBoundary'
  BY <1>1, <1>2 DEF StaleByteNotRead, Terminated, PopHasInput, MatchAtBoundary
<1> QED
  BY <1>4, <1>5, <1>6

(* A pop never retries: it is asked for when there are no marks.           *)
LEMMA PopFacts ==
  ASSUME IInv, state = "POP"
  PROVE  /\ any = NoMark /\ deep = NoMark /\ ~CanRetry(any, deep)
         /\ op.offset \in Nat /\ length \in Nat /\ op.offset <= length /\ length > 0
PROOF
<1>1. any = NoMark /\ deep = NoMark
  BY DEF IInv, FinalHasNoMarks, Final
<1>2. op.offset \in Nat /\ length \in Nat /\ op.offset <= length
  BY DEF IInv, TypeOK, Frame, StaleByteNotRead
<1>3. length > 0
  BY <1>2 DEF IInv, PopHasInput
<1> QED
  BY <1>1, <1>2, <1>3 DEF CanRetry, NoMark

LEMMA PopOK == IInv /\ Pop => IInv'
PROOF
<1> SUFFICES ASSUME IInv, Pop PROVE IInv'
  OBVIOUS
<1> USE DEF IInv
<1>1. UNCHANGED <<opcode, nmatch, nnomatch>> /\ call = "idle"
  BY DEF Pop
<1>2. CASE /\ state # "POP"
           /\ state' = "ERROR"
           /\ UNCHANGED <<vmVars, call>>
  <2>1. UNCHANGED <<program, data, length, op, any, deep, call>>
    BY <1>2 DEF vmVars
  <2>2. TypeOK' /\ MarksOK'
    BY <1>1, <1>2, <2>1 DEF TypeOK, State, MarksOK, MarkOK, Instr
  <2>3. StaleByteNotRead'
    BY <1>2, <2>1 DEF StaleByteNotRead, Terminated
  <2> QED
    BY <1>2, <2>2, <2>3 DEF FinalHasNoMarks, Final, PopHasInput, MatchAtBoundary
<1>3. CASE /\ state = "POP"
           /\ vm_rewind
           /\ state' = "CONTINUE"
           /\ UNCHANGED call
  <2>1. any = NoMark /\ deep = NoMark /\ ~CanRetry(any, deep) /\ length \in Nat
    BY <1>3, PopFacts
  <2>2. PICK offset \in 0..length, opptr \in 0..Len(program) - 1 :
          op' = [opptr |-> opptr, offset |-> offset] /\ length' = offset
    BY <1>3, <2>1 DEF vm_rewind
  <2>3. UNCHANGED <<program, data, any, deep>>
    BY <1>3, <2>1 DEF vm_rewind
  <2>4. Len(program) \in Nat
    BY InstrFacts DEF TypeOK, Frame
  <2>5. TypeOK'
    BY <1>1, <1>3, <2>1, <2>2, <2>3, <2>4 DEF TypeOK, State, Frame
  <2>6. MarksOK'
    BY <2>1, <2>3 DEF MarksOK, MarkOK, NoMark
  <2>7. StaleByteNotRead'
    <3>1. Terminated'
      BY <2>1, <2>2, <2>3 DEF StaleByteNotRead, Terminated, TypeOK
    <3> QED
      BY <1>3, <2>1, <2>2, <3>1 DEF StaleByteNotRead
  <2> QED
    BY <1>3, <2>5, <2>6, <2>7 DEF FinalHasNoMarks, Final, PopHasInput, MatchAtBoundary
<1>4. CASE /\ state = "POP"
           /\ call' = "crash"
           /\ UNCHANGED <<vmVars, state>>
  <2>1. UNCHANGED <<program, data, length, op, any, deep, state>>
    BY <1>4 DEF vmVars
  <2>2. TypeOK' /\ MarksOK' /\ FinalHasNoMarks'
    BY <1>1, <1>4, <2>1 DEF TypeOK, MarksOK, MarkOK, Instr, FinalHasNoMarks, Final
  <2>3. StaleByteNotRead' /\ PopHasInput' /\ MatchAtBoundary'
    BY <1>4, <2>1 DEF StaleByteNotRead, Terminated, PopHasInput, MatchAtBoundary
  <2> QED
    BY <2>2, <2>3
<1> QED
  BY <1>2, <1>3, <1>4 DEF Pop

LEMMA StutterOK == IInv /\ UNCHANGED vars => IInv'
PROOF
<1> SUFFICES ASSUME IInv, UNCHANGED vars PROVE IInv'
  OBVIOUS
<1>1. /\ UNCHANGED <<program, data, length, op, any, deep>>
      /\ UNCHANGED <<state, opcode, nmatch, nnomatch, call>>
  BY DEF vars
<1>2. TypeOK' /\ MarksOK' /\ FinalHasNoMarks'
  BY <1>1 DEF IInv, TypeOK, MarksOK, MarkOK, Instr, FinalHasNoMarks, Final
<1>3. StaleByteNotRead' /\ PopHasInput' /\ MatchAtBoundary'
  BY <1>1 DEF IInv, StaleByteNotRead, Terminated, PopHasInput, MatchAtBoundary, Instr
<1> QED
  BY <1>2, <1>3 DEF IInv

LEMMA NextOK == IInv /\ [Next]_vars => IInv'
PROOF
  BY ResetOK, PushOK, PopOK, MatchOK, NeedInputOK, OpMatchesOK, OpRetriesOK, OpFailsOK,
     StutterOK DEF Next, Running

-----------------------------------------------------------------------------
(* Theorems.                                                               *)

(* The inductive invariant: the context's fields stay in range, and the    *)
(* machine's position, its marks and the state it reports fit together     *)
(* through every sequence of pushes, matches, pops and resets.             *)
THEOREM Invariance == Spec => []IInv
PROOF
<1>1. Init => IInv
  BY InitOK
<1>2. IInv /\ [Next]_vars => IInv'
  BY NextOK
<1> QED
  BY <1>1, <1>2, PTL DEF Spec

(* Every field of a context keeps its type; the program counter never      *)
(* leaves the program and the buffer always has a byte behind its length.  *)
THEOREM TypeCorrect == Spec => []TypeOK
PROOF
  BY Invariance, PTL DEF IInv

(* A final result of the machine leaves no mark to go back to, so that a   *)
(* pop discards a component and never resumes a finished match.            *)
THEOREM FinalResultsAreFinal == Spec => []FinalHasNoMarks
PROOF
  BY Invariance, PTL DEF IInv

(* The marks stay in the program and in the buffer.                        *)
THEOREM MarksStayInRange == Spec => []MarksOK
PROOF
  BY Invariance, PTL DEF IInv

(* The byte a pop leaves behind the length is never taken for input, and   *)
(* what a pop returns is always terminated.                                *)
THEOREM StaleBytesAreNotMatched == Spec => []StaleByteNotRead
PROOF
  BY Invariance, PTL DEF IInv

(* Matches are reported at the end of a component or of the string only.   *)
THEOREM MatchesAtBoundaries == Spec => []MatchAtBoundary
PROOF
  BY Invariance, PTL DEF IInv

(* A context that asks for a pop has bytes to give back.                   *)
THEOREM PopsHaveInput == Spec => []PopHasInput
PROOF
  BY Invariance, PTL DEF IInv

(* The last instruction that was executed did not match.                   *)
Failed == nnomatch > 0 /\ (opcode = "END" => Str # Nul)

(* What is popped has failed, or the machine is behind its terminator.     *)
FailInv ==
  /\ state = "NOMATCH" => Failed
  /\ state = "POP" => Failed \/ (op.offset > 0 /\ data[op.offset - 1] = Nul)
  /\ call = "crash" => Failed

LEMMA FailPopOK == IInv /\ FailInv /\ Pop => FailInv'
PROOF
<1> SUFFICES ASSUME IInv, FailInv, Pop PROVE FailInv'
  OBVIOUS
<1>1. call = "idle"
  BY DEF Pop
<1>2. CASE state' = "ERROR" /\ UNCHANGED <<vmVars, call>>
  BY <1>1, <1>2 DEF FailInv
<1>3. CASE state' = "CONTINUE" /\ UNCHANGED call
  BY <1>1, <1>3 DEF FailInv
<1>4. CASE state = "POP" /\ Underflow /\ call' = "crash" /\ UNCHANGED <<vmVars, state>>
  <2>1. op.offset \in Nat
    BY <1>4, PopFacts
  <2>2. ~(op.offset > 0 /\ data[op.offset - 1] = Nul)
    <3> SUFFICES ASSUME op.offset > 0, data[op.offset - 1] = Nul PROVE FALSE
      OBVIOUS
    <3>1. SkipNul = 0 /\ data[0] = Sep
      BY <1>4, <2>1 DEF Underflow
    <3>2. op.offset = 1
      BY <2>1, <3>1 DEF SkipNul
    <3> QED
      BY <3>1, <3>2, ByteAssumption
  <2>3. Failed
    BY <1>4, <2>2 DEF FailInv
  <2>4. Failed' = Failed
    BY <1>4 DEF Pop, Failed, Str, vmVars
  <2> QED
    BY <1>4, <2>3, <2>4 DEF FailInv
<1> QED
  BY <1>2, <1>3, <1>4 DEF Pop

LEMMA FailMatchOK == IInv /\ FailInv /\ Match => FailInv'
PROOF
<1> SUFFICES ASSUME IInv, FailInv, Match PROVE FailInv'
  OBVIOUS
<1>1. UNCHANGED <<data, opcode, nnomatch>> /\ call = "idle" /\ call' \in {"idle", "match"}
  BY DEF Match, Returning
<1>2. CASE state = "MATCH" /\ opcode = "END" /\ state' = "POP" /\ UNCHANGED op
  BY <1>1, <1>2 DEF IInv, MatchAtBoundary, FailInv
<1>3. CASE state = "NOMATCH" /\ state' = "POP" /\ UNCHANGED op
  <2>1. Failed'
    BY <1>1, <1>3 DEF FailInv, Failed, Str
  <2> QED
    BY <1>1, <1>3, <2>1 DEF FailInv
<1>4. CASE state' \notin {"NOMATCH", "POP"}
  BY <1>1, <1>4 DEF FailInv
<1> QED
  BY <1>2, <1>3, <1>4 DEF Match, Returning

LEMMA FailStepOK == IInv /\ FailInv /\ [Next]_vars => FailInv'
PROOF
<1> SUFFICES ASSUME IInv, FailInv, [Next]_vars PROVE FailInv'
  OBVIOUS
<1>1. CASE Reset
  BY <1>1 DEF Reset, FailInv
<1>2. CASE \E str \in Strings : Push(str)
  BY <1>2 DEF Push, FailInv
<1>3. CASE NeedInput \/ OpMatches \/ OpRetries
  <2>1. state' \in {"PUSH", "MATCH", "CONTINUE"} /\ call' \in {"idle", "match"}
    BY <1>3 DEF NeedInput, OpMatches, OpRetries, Returning
  <2> QED
    BY <2>1 DEF FailInv
<1>4. CASE OpFails
  <2>1. /\ Executing(vm_op) /\ ~vm_op.matched
        /\ state' = "NOMATCH" /\ call' = "idle" /\ nnomatch' = nnomatch + 1
        /\ UNCHANGED <<data, op>>
    BY <1>4 DEF OpFails, Returning
  <2>2. nnomatch \in Nat /\ op.offset < length /\ opcode' = Instr(op.opptr).op
    BY <2>1 DEF Executing, IInv, TypeOK
  <2>3. opcode' = "END" => Str # Nul
    <3> SUFFICES ASSUME Instr(op.opptr).op = "END" PROVE Str # Nul
      BY <2>2
    <3>1. vm_op = vm_end
      BY DEF vm_op
    <3>2. ~AtNul
      BY <2>1, <3>1 DEF vm_end, Outcome
    <3> QED
      BY <2>2, <3>2 DEF AtNul
  <2>4. Failed'
    BY <2>1, <2>2, <2>3 DEF Failed, Str
  <2> QED
    BY <2>1, <2>4 DEF FailInv
<1>5. CASE UNCHANGED vars
  BY <1>5 DEF vars, FailInv, Failed, Str
<1> QED
  BY <1>1, <1>2, <1>3, <1>4, <1>5, FailPopOK, FailMatchOK DEF Next, Running

(* A pop leaves the buffer only behind a failure: the position behind a    *)
(* terminator, where a full match leaves the machine, is never decremented *)
(* below 0 (src/src/vm.c:227-230).                                         *)
THEOREM UnderflowsFollowFailures == Spec => []OnlyFailuresUnderflow
PROOF
<1>1. Init => FailInv
  BY DEF Init, FailInv
<1>2. FailInv => OnlyFailuresUnderflow
  BY DEF FailInv, Failed, OnlyFailuresUnderflow
<1> QED
  BY <1>1, <1>2, FailStepOK, Invariance, PTL DEF Spec

-----------------------------------------------------------------------------
(* The refinement of FnmatchProtocol.                                      *)

(* The input is the pushed bytes in order.                                 *)
LEMMA InputFacts ==
  ASSUME IInv
  PROVE  /\ Input \in Seq(Byte) /\ Len(Input) = length /\ length \in Nat
         /\ \A i \in 1..length : Input[i] = data[i - 1]
PROOF
<1>1. length \in Nat /\ \A i \in 1..length : data[i - 1] \in Byte
  BY DEF IInv, TypeOK
<1>2. Input = [i \in 1..length |-> data[i - 1]]
  BY DEF Input
<1>3. Input \in [1..length -> Byte]
  BY <1>1, <1>2
<1>4. Input \in Seq(Byte) /\ Len(Input) = length
  BY <1>1, <1>3
<1> QED
  BY <1>1, <1>2, <1>4

LEMMA InputFactsNext ==
  ASSUME IInv'
  PROVE  /\ Input' \in Seq(Byte) /\ Len(Input') = length' /\ length' \in Nat
         /\ \A i \in 1..length' : Input'[i] = data'[i - 1]
PROOF
<1>1. length' \in Nat /\ \A i \in 1..length' : data'[i - 1] \in Byte
  BY DEF IInv, TypeOK
<1>2. Input' = [i \in 1..length' |-> data'[i - 1]]
  BY DEF Input
<1>3. Input' \in [1..length' -> Byte]
  BY <1>1, <1>2
<1>4. Input' \in Seq(Byte) /\ Len(Input') = length'
  BY <1>1, <1>3
<1> QED
  BY <1>1, <1>2, <1>4

LEMMA SameInput ==
  ASSUME UNCHANGED <<data, length>>
  PROVE  Input' = Input
PROOF
  BY DEF Input

LEMMA StatusFacts ==
  ASSUME IInv
  PROVE  /\ call = "idle" /\ state # "MATCH" => Status = state
         /\ call = "idle" /\ state = "MATCH" =>
              Status = IF opcode = "END" THEN "FULL" ELSE "PARTIAL"
         /\ call = "match" => Status = "BUSY"
         /\ call = "idle" => Status \notin {"BUSY", "CRASH"}
PROOF
  BY DEF IInv, TypeOK, State, Status

LEMMA ProtocolInit == Init => Protocol!Init
PROOF
<1> SUFFICES ASSUME Init PROVE Protocol!Init
  OBVIOUS
<1>1. Status = "PUSH"
  BY DEF Init, Status
<1>2. IInv /\ length = 0
  BY InitOK DEF Init
<1>3. Input \in Seq(Byte) /\ Len(Input) = 0
  BY <1>2, InputFacts
<1> QED
  BY <1>1, <1>3 DEF Protocol!Init

LEMMA ProtocolReset == IInv /\ Reset => Protocol!Reset
PROOF
<1> SUFFICES ASSUME IInv, Reset PROVE Protocol!Reset
  OBVIOUS
<1>1. Status \notin {"BUSY", "CRASH"} /\ Status' = "PUSH"
  BY StatusFacts DEF Reset, Status
<1>2. Input' = Input
  BY SameInput DEF Reset
<1> QED
  BY <1>1, <1>2 DEF Protocol!Reset

LEMMA ProtocolPush ==
  ASSUME NEW str \in Strings, IInv, Push(str)
  PROVE  Protocol!Push(str)
PROOF
<1> DEFINE bytes == Pushed(str)
<1>1. call = "idle" /\ call' = "idle"
  BY DEF Push
<1>2. IInv'
  BY PushOK
<1>3. CASE state \in {"PUSH", "CONTINUE"}
  <2>1. data' = Appended(bytes) /\ length' = length + Len(bytes) /\ state' = "CONTINUE"
    BY <1>3 DEF Push, Pushed
  <2>2. Status = state /\ Status' = "CONTINUE"
    BY <1>1, <1>3, <2>1 DEF Status
  <2>3. bytes \in Seq(Byte) /\ Len(bytes) \in Nat \ {0}
    BY PushedFacts
  <2>4. bytes = IF str = <<>> THEN <<Nul>> ELSE str
    <3>1. str \in Seq(Byte \ {Nul})
      BY StringsAssumption
    <3>2. Len(str) > 0 <=> str # <<>>
      BY <3>1
    <3> QED
      BY <3>2 DEF Pushed
  <2> HIDE DEF bytes
  <2>5. Input' = Input \o bytes
    <3>1. /\ Input \in Seq(Byte) /\ Len(Input) = length /\ length \in Nat
          /\ \A i \in 1..length : Input[i] = data[i - 1]
      BY InputFacts
    <3>2. /\ Input' \in Seq(Byte) /\ Len(Input') = length + Len(bytes)
          /\ \A i \in 1..length + Len(bytes) : Input'[i] = data'[i - 1]
      BY <1>2, <2>1, InputFactsNext
    <3>3. ASSUME NEW i \in 1..length + Len(bytes)
          PROVE  Input'[i] = (Input \o bytes)[i]
      <4>1. CASE i <= length
        <5>1. i - 1 \in 0..length /\ i - 1 < length /\ i \in 1..length
          BY <3>1, <4>1
        <5>2. data'[i - 1] = data[i - 1]
          BY <2>1, <2>3, <5>1, AppendedFacts DEF IInv
        <5>3. (Input \o bytes)[i] = Input[i]
          BY <2>3, <3>1, <5>1
        <5> QED
          BY <3>1, <3>2, <5>1, <5>2, <5>3
      <4>2. CASE i > length
        <5> DEFINE k == i - length
        <5>1. k \in 1..Len(bytes) /\ length + k - 1 = i - 1
          BY <2>3, <3>1, <4>2
        <5>2. data'[i - 1] = bytes[k]
          BY <2>1, <2>3, <5>1, AppendedFacts DEF IInv
        <5>3. (Input \o bytes)[i] = bytes[k]
          BY <2>3, <3>1, <4>2
        <5> QED
          BY <3>2, <5>2, <5>3
      <4> QED
        BY <3>1, <4>1, <4>2
    <3>4. Input \o bytes \in Seq(Byte) /\ Len(Input \o bytes) = length + Len(bytes)
      BY <2>3, <3>1
    <3> QED
      BY <3>2, <3>3, <3>4
  <2> QED
    BY <1>3, <2>2, <2>4, <2>5 DEF Protocol!Push
<1>4. CASE state \notin {"PUSH", "CONTINUE"}
  <2>1. state' = "ERROR" /\ UNCHANGED <<data, length>>
    BY <1>4 DEF Push
  <2>2. Status \notin {"PUSH", "CONTINUE", "BUSY", "CRASH"} /\ Status' = "ERROR"
    BY <1>1, <1>4, <2>1, StatusFacts DEF Status
  <2> QED
    BY <2>1, <2>2, SameInput DEF Protocol!Push
<1> QED
  BY <1>3, <1>4

LEMMA ProtocolMatch == IInv /\ Match => Protocol!Call \/ UNCHANGED <<Input, Status>>
PROOF
<1> SUFFICES ASSUME IInv, Match PROVE Protocol!Call \/ UNCHANGED <<Input, Status>>
  OBVIOUS
<1>1. Input' = Input /\ opcode' = opcode /\ call = "idle"
  BY SameInput DEF Match
<1>2. CASE state = "MATCH" /\ opcode = "END"
  <2>1. Status = "FULL" /\ Status' = "POP"
    BY <1>1, <1>2 DEF Match, Returning, Status
  <2> QED
    BY <1>1, <2>1 DEF Protocol!Call
<1>3. CASE state = "MATCH" /\ opcode # "END"
  <2>1. Instr(op.opptr).op # "END"
    BY <1>3 DEF IInv, MatchAtBoundary
  <2>2. Status = "PARTIAL" /\ Status' = "BUSY"
    BY <1>1, <1>3, <2>1 DEF Match, Returning, Status
  <2> QED
    BY <1>1, <2>2 DEF Protocol!Call
<1>4. CASE state = "NOMATCH"
  <2>1. Status = "NOMATCH" /\ Status' = "POP"
    BY <1>1, <1>4 DEF Match, Returning, Status
  <2> QED
    BY <1>1, <2>1 DEF Protocol!Call
<1>5. CASE state \in {"PUSH", "POP"}
  <2>1. Status \in {"PUSH", "POP"} /\ Status' = "STOP"
    BY <1>1, <1>5 DEF Match, Returning, Status
  <2> QED
    BY <1>1, <2>1 DEF Protocol!Call
<1>6. CASE state = "CONTINUE"
  <2>1. Status = "CONTINUE" /\ Status' = "BUSY"
    BY <1>1, <1>6 DEF Match, Returning, Status
  <2> QED
    BY <1>1, <2>1 DEF Protocol!Call
<1>7. CASE state \in {"STOP", "ERROR"}
  <2>1. Status' = Status
    BY <1>1, <1>7 DEF Match, Returning, Status
  <2> QED
    BY <1>1, <2>1
<1> QED
  BY <1>2, <1>3, <1>4, <1>5, <1>6, <1>7 DEF IInv, TypeOK, State

LEMMA ProtocolNeedInput == IInv /\ NeedInput => Protocol!Return
PROOF
<1> SUFFICES ASSUME IInv, NeedInput PROVE Protocol!Return
  OBVIOUS
<1>1. Status = "BUSY" /\ Status' = "PUSH"
  BY DEF NeedInput, Returning, Status
<1>2. Input' = Input
  BY SameInput DEF NeedInput, vmVars
<1> QED
  BY <1>1, <1>2 DEF Protocol!Return

LEMMA ProtocolOpMatches == IInv /\ OpMatches => Protocol!Return \/ UNCHANGED <<Input, Status>>
PROOF
<1> SUFFICES ASSUME IInv, OpMatches PROVE Protocol!Return \/ UNCHANGED <<Input, Status>>
  OBVIOUS
<1>1. Input' = Input /\ UNCHANGED <<data, length>>
  BY SameInput DEF OpMatches
<1>2. Status = "BUSY"
  BY DEF OpMatches, Executing, Status
<1>3. \/ state' = "MATCH" /\ call' = "idle"
      \/ state' = "CONTINUE" /\ call' = "match"
  BY DEF OpMatches, Returning
<1>4. IInv'
  BY OpMatchesOK
<1>5. /\ length \in Nat /\ op'.offset \in Nat /\ op'.offset <= length
      /\ \A i \in 1..length : Input[i] = data[i - 1]
  BY <1>1, <1>4, InputFacts DEF IInv, TypeOK, Frame, StaleByteNotRead
<1>6. CASE state' = "CONTINUE" /\ call' = "match"
  BY <1>1, <1>2, <1>6 DEF Status
<1>7. CASE state' = "MATCH" /\ call' = "idle"
  <2>1. /\ \/ opcode' = "END"  /\ op'.offset > 0 /\ data[op'.offset - 1] = Nul
           \/ opcode' = "SEP"  /\ op'.offset > 0 /\ data[op'.offset - 1] = Sep
           \/ opcode' = "DEEP" /\ data[op'.offset] = Sep
        /\ data[length] = Nul
    BY <1>1, <1>4, <1>7 DEF IInv, MatchAtBoundary, StaleByteNotRead
  <2>2. Len(Input) = length
    BY InputFacts
  <2>3. CASE opcode' = "END"
    <3>1. Status' = "FULL"
      BY <1>7, <2>3 DEF Status
    <3>2. op'.offset \in 1..Len(Input) /\ Input[op'.offset] = Nul
      BY <1>5, <2>1, <2>2, <2>3
    <3> QED
      BY <1>1, <1>2, <3>1, <3>2 DEF Protocol!Return, Protocol!Holds
  <2>4. CASE opcode' = "SEP"
    <3>1. Status' = "PARTIAL"
      BY <1>7, <2>4 DEF Status
    <3>2. op'.offset \in 1..Len(Input) /\ Input[op'.offset] = Sep
      BY <1>5, <2>1, <2>2, <2>4
    <3> QED
      BY <1>1, <1>2, <3>1, <3>2 DEF Protocol!Return, Protocol!Holds
  <2>5. CASE opcode' = "DEEP"
    <3>1. Status' = "PARTIAL"
      BY <1>7, <2>5 DEF Status
    <3>2. op'.offset # length
      BY <2>1, <2>5, ByteAssumption
    <3>3. op'.offset + 1 \in 1..Len(Input) /\ Input[op'.offset + 1] = Sep
      BY <1>5, <2>1, <2>2, <2>5, <3>2
    <3> QED
      BY <1>1, <1>2, <3>1, <3>3 DEF Protocol!Return, Protocol!Holds
  <2> QED
    BY <2>1, <2>3, <2>4, <2>5
<1> QED
  BY <1>3, <1>6, <1>7

LEMMA ProtocolOpRetries == IInv /\ OpRetries => UNCHANGED <<Input, Status>>
PROOF
<1> SUFFICES ASSUME IInv, OpRetries PROVE UNCHANGED <<Input, Status>>
  OBVIOUS
<1>1. Input' = Input
  BY SameInput DEF OpRetries
<1>2. Status = "BUSY" /\ Status' = "BUSY"
  BY DEF OpRetries, Executing, Returning, Status
<1> QED
  BY <1>1, <1>2

LEMMA ProtocolOpFails == IInv /\ OpFails => Protocol!Return
PROOF
<1> SUFFICES ASSUME IInv, OpFails PROVE Protocol!Return
  OBVIOUS
<1>1. Input' = Input
  BY SameInput DEF OpFails
<1>2. Status = "BUSY" /\ Status' = "NOMATCH"
  BY DEF OpFails, Executing, Returning, Status
<1>3. op.offset \in Nat /\ op.offset < length
  BY DEF OpFails, Executing, IInv, TypeOK, Frame
<1>4. Input # <<>>
  BY <1>3, InputFacts
<1> QED
  BY <1>1, <1>2, <1>4 DEF Protocol!Return

-----------------------------------------------------------------------------
(* Pops.                                                                   *)

(* Where a rewind starts to look for a separator, and what it finds: the   *)
(* start of a component before the end of the buffer.                      *)
LEMMA ComponentStartFacts ==
  ASSUME IInv, state = "POP", ~Underflow, NEW start \in Nat, ComponentStart(SkipSep, start)
  PROVE  start < length /\ (start > 0 => data[start - 1] = Sep)
PROOF
<1>1. op.offset \in Nat /\ length \in Nat /\ op.offset <= length /\ length > 0
  BY PopFacts
<1>2. \/ op.offset < length
      \/ op.offset = length /\ data[length - 1] = Nul /\ data[length] = Nul
  BY DEF IInv, PopHasInput, StaleByteNotRead
<1>3. SkipNul \in Nat /\ SkipNul <= op.offset /\ (Str = Nul => SkipNul < op.offset)
      /\ (Str # Nul => SkipNul = op.offset)
  BY <1>1 DEF Underflow, SkipNul
<1>4. SkipSep \in Nat /\ SkipSep <= SkipNul /\ (data[SkipNul] = Sep => SkipSep < SkipNul)
      /\ (data[SkipNul] # Sep => SkipSep = SkipNul)
  BY <1>1, <1>3 DEF Underflow, SkipSep, SkipNul, Str
<1>5. CASE start = 0
  BY <1>1, <1>5
<1>6. CASE start \in 2..SkipSep + 1 /\ data[start - 1] = Sep
  <2>1. start - 1 <= SkipSep /\ start - 1 \in Nat
    BY <1>4, <1>6
  <2>2. CASE op.offset < length
    <3>1. start - 1 # op.offset
      <4>1. CASE start - 1 = op.offset
        <5>1. SkipSep = SkipNul /\ SkipNul = op.offset
          BY <1>1, <1>3, <1>4, <2>1, <4>1
        <5>2. data[SkipNul] = Sep
          BY <1>6, <4>1, <5>1
        <5> QED
          BY <1>4, <5>1, <5>2
      <4> QED
        BY <4>1
    <3> QED
      BY <1>1, <1>3, <1>4, <1>6, <2>1, <2>2, <3>1
  <2>3. CASE op.offset = length /\ data[length - 1] = Nul /\ data[length] = Nul
    <3>1. SkipNul <= length - 1
      BY <1>1, <1>3, <2>3 DEF Str
    <3>2. start - 1 # length - 1
      BY <1>6, <2>3, ByteAssumption
    <3>3. start - 1 <= length - 1
      BY <1>1, <1>3, <1>4, <2>1, <3>1
    <3>4. start < length
      BY <1>1, <3>2, <3>3
    <3> QED
      BY <1>6, <3>4
  <2> QED
    BY <1>2, <2>2, <2>3
<1> QED
  BY <1>5, <1>6 DEF ComponentStart

LEMMA ProtocolPop == IInv /\ Pop => Protocol!Pop \/ Protocol!PopCrashes
PROOF
<1> SUFFICES ASSUME IInv, Pop PROVE Protocol!Pop \/ Protocol!PopCrashes
  OBVIOUS
<1>1. call = "idle"
  BY DEF Pop
<1>2. CASE state # "POP" /\ state' = "ERROR" /\ UNCHANGED <<vmVars, call>>
  <2>1. Status \notin {"POP", "BUSY", "CRASH"} /\ Status' = "ERROR"
    BY <1>1, <1>2, StatusFacts DEF Status
  <2>2. Input' = Input
    BY <1>2, SameInput DEF vmVars
  <2> QED
    BY <2>1, <2>2 DEF Protocol!Pop
<1>3. CASE state = "POP" /\ vm_rewind /\ state' = "CONTINUE" /\ UNCHANGED call
  <2>1. Status = "POP" /\ Status' = "CONTINUE"
    BY <1>1, <1>3 DEF Status
  <2>2. ~CanRetry(any, deep)
    BY <1>3, PopFacts
  <2>3. PICK offset \in 0..length :
          ComponentStart(SkipSep, offset) /\ length' = offset /\ data' = data /\ ~Underflow
    BY <1>3, <2>2 DEF vm_rewind
  <2>4. offset \in Nat /\ offset < length /\ (offset > 0 => data[offset - 1] = Sep)
    BY <1>3, <2>3, ComponentStartFacts
  <2>5. /\ Input \in Seq(Byte) /\ Len(Input) = length /\ length \in Nat
        /\ \A i \in 1..length : Input[i] = data[i - 1]
    BY InputFacts
  <2>6. offset > 0 => Input[offset] = Sep
    BY <2>4, <2>5
  <2>7. Input' = SubSeq(Input, 1, offset)
    <3>1. Input' = [i \in 1..offset |-> data[i - 1]]
      BY <2>3 DEF Input
    <3>2. SubSeq(Input, 1, offset) \in Seq(Byte) /\ Len(SubSeq(Input, 1, offset)) = offset
          /\ \A i \in 1..offset : SubSeq(Input, 1, offset)[i] = Input[i]
      BY <2>4, <2>5
    <3>3. \A i \in 1..offset : Input[i] = data[i - 1]
      BY <2>4, <2>5
    <3>4. Input' \in Seq(Byte) /\ Len(Input') = offset
      BY <2>3, PopOK, InputFactsNext
    <3> QED
      BY <3>1, <3>2, <3>3, <3>4
  <2> QED
    BY <2>1, <2>4, <2>5, <2>6, <2>7 DEF Protocol!Pop
<1>4. CASE state = "POP" /\ Underflow /\ call' = "crash" /\ UNCHANGED <<vmVars, state>>
  <2>1. Status = "POP" /\ Status' = "CRASH"
    BY <1>1, <1>4 DEF Status
  <2>2. Input' = Input
    BY <1>4, SameInput DEF vmVars
  <2>3. /\ Input \in Seq(Byte) /\ Len(Input) = length /\ length \in Nat /\ length > 0
        /\ \A i \in 1..length : Input[i] = data[i - 1]
    BY <1>4, InputFacts, PopFacts
  <2>4. data[0] \in {Sep, Nul}
    BY <1>4 DEF Underflow, Str
  <2>5. Input # <<>> /\ Input[1] \in {Sep, Nul}
    BY <2>3, <2>4
  <2> QED
    BY <2>1, <2>2, <2>5 DEF Protocol!PopCrashes
<1> QED
  BY <1>2, <1>3, <1>4 DEF Pop

-----------------------------------------------------------------------------
(* Every behaviour of a context is one the protocol allows: the answers    *)
(* come in the order it states, partial matches only over input with a     *)
(* separator and full ones over input with a terminator, and a pop always  *)
(* gives back a nonempty tail of whole components.                         *)
THEOREM Refinement == Spec => ImplementsProtocol
PROOF
<1>1. Init => Protocol!Init
  BY ProtocolInit
<1>2. IInv /\ [Next]_vars => [Protocol!Next]_(Protocol!protocolVars)
  <2> SUFFICES ASSUME IInv, [Next]_vars PROVE [Protocol!Next]_(Protocol!protocolVars)
    OBVIOUS
  <2>1. CASE Reset
    BY <2>1, ProtocolReset DEF Protocol!Next
  <2>2. ASSUME NEW str \in Strings, Push(str) PROVE Protocol!Next
    BY <2>2, ProtocolPush DEF Protocol!Next
  <2>3. CASE Pop
    BY <2>3, ProtocolPop DEF Protocol!Next
  <2>4. CASE Match
    BY <2>4, ProtocolMatch DEF Protocol!Next, Protocol!protocolVars
  <2>5. CASE Running
    BY <2>5, ProtocolNeedInput, ProtocolOpMatches, ProtocolOpRetries, ProtocolOpFails
       DEF Running, Protocol!Next, Protocol!protocolVars
  <2>6. CASE UNCHANGED vars
    BY <2>6 DEF vars, Protocol!protocolVars, Input, Status
  <2> QED
    BY <2>1, <2>2, <2>3, <2>4, <2>5, <2>6 DEF Next
<1> QED
  BY <1>1, <1>2, Invariance, PTL DEF Spec, ImplementsProtocol, Protocol!Spec

(* A rewind never goes forward.                                            *)
LEMMA RewindsBack ==
  ASSUME IInv, state = "POP", ~Underflow, NEW start \in Nat, ComponentStart(SkipSep, start)
  PROVE  start <= op.offset
PROOF
<1>1. op.offset \in Nat
  BY PopFacts
<1>2. SkipNul \in Nat /\ SkipNul <= op.offset
  BY <1>1 DEF Underflow, SkipNul
<1>3. /\ SkipSep \in Int /\ SkipSep <= SkipNul
      /\ data[SkipNul] = Sep => SkipSep < SkipNul
      /\ data[SkipNul] # Sep => SkipSep = SkipNul
  BY <1>2 DEF SkipSep
<1>4. CASE start - 1 = SkipNul
  <2>1. CASE start = 0
    BY <1>1, <2>1
  <2>2. CASE start \in 2..SkipSep + 1 /\ data[start - 1] = Sep
    BY <1>2, <1>3, <1>4, <2>2
  <2> QED
    BY <2>1, <2>2 DEF ComponentStart
<1>5. CASE start - 1 # SkipNul
  <2>1. start = 0 \/ start - 1 <= SkipSep
    BY <1>3 DEF ComponentStart
  <2> QED
    BY <1>1, <1>2, <1>3, <1>5, <2>1
<1> QED
  BY <1>4, <1>5

(* A separator behind where a rewind stops is the one the machine stopped  *)
(* at, or the one in front of the terminator it stopped at.                *)
LEMMA SeparatorsDropped ==
  ASSUME IInv, state = "POP", ~Underflow, NEW start \in Nat, ComponentStart(SkipSep, start),
         NEW i \in 1..op.offset, i >= start, data[i] = Sep
  PROVE  i = op.offset \/ (i = op.offset - 1 /\ Str = Nul)
PROOF
<1>1. op.offset \in Nat
  BY PopFacts
<1>2. SkipNul \in Int /\ SkipNul = IF Str = Nul THEN op.offset - 1 ELSE op.offset
  BY <1>1 DEF SkipNul
<1>3. SkipSep \in Int /\ SkipSep = IF data[SkipNul] = Sep THEN SkipNul - 1 ELSE SkipNul
  BY <1>2 DEF SkipSep
<1>4. ~(i <= SkipSep)
  BY <1>1, <1>3 DEF ComponentStart
<1>5. CASE Str # Nul
  BY <1>1, <1>2, <1>3, <1>4, <1>5
<1>6. CASE Str = Nul
  BY <1>1, <1>2, <1>3, <1>4, <1>6
<1> QED
  BY <1>5, <1>6

(* A pop discards all from the start of the component the machine stopped  *)
(* in, and nothing of the components in front of it.                       *)
THEOREM PopsDropFromComponent == Spec => PopDropsFromComponent
PROOF
<1>1. IInv /\ [Next]_vars =>
        [Pop /\ state' = "CONTINUE" =>
           /\ length' < length /\ length' <= op.offset
           /\ length' > 0 => data[length' - 1] = Sep
           /\ \A i \in 1..op.offset :
                i >= length' /\ data[i] = Sep =>
                  i = op.offset \/ (i = op.offset - 1 /\ Str = Nul)]_vars
  <2> SUFFICES ASSUME IInv, Pop, state' = "CONTINUE"
               PROVE  /\ length' < length /\ length' <= op.offset
                      /\ length' > 0 => data[length' - 1] = Sep
                      /\ \A i \in 1..op.offset :
                           i >= length' /\ data[i] = Sep =>
                             i = op.offset \/ (i = op.offset - 1 /\ Str = Nul)
    OBVIOUS
  <2>1. state = "POP" /\ vm_rewind
    BY DEF Pop
  <2>2. ~CanRetry(any, deep) /\ length \in Nat
    BY <2>1, PopFacts
  <2>3. PICK offset \in 0..length :
          ComponentStart(SkipSep, offset) /\ length' = offset /\ ~Underflow
    BY <2>1, <2>2 DEF vm_rewind
  <2>4. offset \in Nat /\ offset < length /\ (offset > 0 => data[offset - 1] = Sep)
    BY <2>1, <2>2, <2>3, ComponentStartFacts
  <2>5. offset <= op.offset
    BY <2>1, <2>3, <2>4, RewindsBack
  <2>6. \A i \in 1..op.offset :
          i >= offset /\ data[i] = Sep => i = op.offset \/ (i = op.offset - 1 /\ Str = Nul)
    BY <2>1, <2>3, <2>4, SeparatorsDropped
  <2> QED
    BY <2>3, <2>4, <2>5, <2>6
<1> QED
  BY <1>1, Invariance, PTL DEF Spec, PopDropsFromComponent

-----------------------------------------------------------------------------
(* Counting separators: of a buffer s before an offset, of a program p     *)
(* before an instruction.                                                  *)

Seps(s, o)    == {i \in 0..o : i < o /\ s[i] = Sep}
Slashes(p, n) == {i \in 0..Len(p) - 1 : i < n /\ p[i + 1].op = "SEP"}

Balanced(p, s, n, o) == Cardinality(Seps(s, o)) <= Cardinality(Slashes(p, n))

LEMMA SepsFinite ==
  ASSUME NEW s, NEW o \in Nat
  PROVE  IsFiniteSet(Seps(s, o)) /\ Cardinality(Seps(s, o)) \in Nat
PROOF
<1>1. IsFiniteSet(0..o) /\ Seps(s, o) \in SUBSET (0..o)
  BY FS_Interval DEF Seps
<1>2. IsFiniteSet(Seps(s, o))
  BY <1>1, FS_Subset
<1> QED
  BY <1>2, FS_CardinalityType

LEMMA SlashesFinite ==
  ASSUME NEW p, Len(p) \in Nat, NEW n
  PROVE  IsFiniteSet(Slashes(p, n)) /\ Cardinality(Slashes(p, n)) \in Nat
PROOF
<1>1. IsFiniteSet(0..Len(p) - 1) /\ Slashes(p, n) \in SUBSET (0..Len(p) - 1)
  BY FS_Interval DEF Slashes
<1>2. IsFiniteSet(Slashes(p, n))
  BY <1>1, FS_Subset
<1> QED
  BY <1>2, FS_CardinalityType

(* The balance survives what loses separators of the buffer or gains       *)
(* separators of the program.                                              *)
LEMMA BalancedSubset ==
  ASSUME NEW p, Len(p) \in Nat, NEW s, NEW t, NEW n, NEW m, NEW o \in Nat, NEW e \in Nat,
         Balanced(p, s, n, o),
         Seps(t, e) \subseteq Seps(s, o), Slashes(p, n) \subseteq Slashes(p, m)
  PROVE  Balanced(p, t, m, e)
PROOF
<1>1. /\ IsFiniteSet(Seps(s, o)) /\ Cardinality(Seps(s, o)) \in Nat
      /\ Cardinality(Seps(t, e)) \in Nat
  BY SepsFinite
<1>2. /\ IsFiniteSet(Slashes(p, m)) /\ Cardinality(Slashes(p, m)) \in Nat
      /\ Cardinality(Slashes(p, n)) \in Nat
  BY SlashesFinite
<1>3. Cardinality(Seps(t, e)) <= Cardinality(Seps(s, o))
  BY <1>1, FS_Subset
<1>4. Cardinality(Slashes(p, n)) <= Cardinality(Slashes(p, m))
  BY <1>2, FS_Subset
<1>5. Cardinality(Seps(s, o)) <= Cardinality(Slashes(p, n))
  BY DEF Balanced
<1>6. Cardinality(Seps(t, e)) <= Cardinality(Slashes(p, m))
  BY <1>1, <1>2, <1>3, <1>4, <1>5
<1> QED
  BY <1>6 DEF Balanced

LEMMA BalancedZero == ASSUME NEW p, Len(p) \in Nat, NEW s, NEW n PROVE Balanced(p, s, n, 0)
PROOF
<1>1. Seps(s, 0) = {}
  BY DEF Seps
<1>2. Cardinality(Seps(s, 0)) = 0
  BY <1>1, FS_EmptySet
<1>3. Cardinality(Slashes(p, n)) \in Nat
  BY SlashesFinite
<1> QED
  BY <1>2, <1>3 DEF Balanced

(* Bytes that are no separators are consumed without one.                  *)
LEMMA BalancedOn ==
  ASSUME NEW p, Len(p) \in Nat, NEW s, NEW n \in Nat, NEW m \in Nat, n <= m,
         NEW o \in Nat, NEW e \in Nat, Balanced(p, s, n, o),
         \A k \in o..e - 1 : s[k] # Sep
  PROVE  Balanced(p, s, m, e)
PROOF
<1>1. ASSUME NEW i \in Seps(s, e) PROVE i \in Seps(s, o)
  <2>1. i \in Nat /\ i < e /\ s[i] = Sep
    BY <1>1 DEF Seps
  <2>2. i < o
    <3>1. CASE ~(i < o)
      <4>1. i \in o..e - 1
        BY <2>1, <3>1
      <4> QED
        BY <2>1, <4>1
    <3> QED
      BY <3>1
  <2>3. i \in 0..o
    BY <2>1, <2>2
  <2> QED
    BY <2>1, <2>2, <2>3 DEF Seps
<1>2. Slashes(p, n) \subseteq Slashes(p, m)
  BY DEF Slashes
<1> QED
  BY <1>1, <1>2, BalancedSubset

(* Only the bytes before the offset count.                                 *)
LEMMA BalancedAgree ==
  ASSUME NEW p, Len(p) \in Nat, NEW s, NEW t, NEW n, NEW o \in Nat, Balanced(p, s, n, o),
         \A k \in 0..o : k < o => t[k] = s[k]
  PROVE  Balanced(p, t, n, o)
PROOF
<1>1. Seps(t, o) = Seps(s, o)
  BY DEF Seps
<1> QED
  BY <1>1 DEF Balanced

(* A separator is consumed with one.                                       *)
LEMMA BalancedSep ==
  ASSUME NEW p, Len(p) \in Nat, NEW s, NEW n \in Nat, n < Len(p), NEW o \in Nat,
         Balanced(p, s, n, o), p[n + 1].op = "SEP"
  PROVE  Balanced(p, s, n + 1, o + 1)
PROOF
<1>1. /\ IsFiniteSet(Seps(s, o)) /\ Cardinality(Seps(s, o)) \in Nat
      /\ Cardinality(Seps(s, o + 1)) \in Nat
  BY SepsFinite
<1>2. /\ IsFiniteSet(Slashes(p, n)) /\ Cardinality(Slashes(p, n)) \in Nat
      /\ IsFiniteSet(Slashes(p, n + 1)) /\ Cardinality(Slashes(p, n + 1)) \in Nat
  BY SlashesFinite
<1>3. o \notin Seps(s, o) /\ n \notin Slashes(p, n)
  BY DEF Seps, Slashes
<1>4. Seps(s, o + 1) \subseteq Seps(s, o) \cup {o}
  BY DEF Seps
<1>5. Slashes(p, n) \cup {n} \subseteq Slashes(p, n + 1)
  BY DEF Slashes
<1>6. /\ IsFiniteSet(Seps(s, o) \cup {o})
      /\ Cardinality(Seps(s, o) \cup {o}) = Cardinality(Seps(s, o)) + 1
  BY <1>1, <1>3, FS_AddElement
<1>7. Cardinality(Slashes(p, n) \cup {n}) = Cardinality(Slashes(p, n)) + 1
  BY <1>2, <1>3, FS_AddElement
<1>8. Cardinality(Seps(s, o + 1)) <= Cardinality(Seps(s, o) \cup {o})
  BY <1>4, <1>6, FS_Subset
<1>9. Cardinality(Slashes(p, n) \cup {n}) <= Cardinality(Slashes(p, n + 1))
  BY <1>2, <1>5, FS_Subset
<1>10. Cardinality(Seps(s, o)) <= Cardinality(Slashes(p, n))
  BY DEF Balanced
<1>11. Cardinality(Seps(s, o + 1)) <= Cardinality(Slashes(p, n + 1))
  BY <1>1, <1>2, <1>6, <1>7, <1>8, <1>9, <1>10
<1> QED
  BY <1>11 DEF Balanced


-----------------------------------------------------------------------------
(* The machine and the mark of a star stay in balance.  Behind a separator *)
(* that was just matched the instruction is still the SEP, which then      *)
(* counts as well.                                                         *)

Weighs(p, s, st, o, a) ==
  /\ Balanced(p, s, o.opptr + 1, o.offset)
  /\ st \in {"CONTINUE", "PUSH", "NOMATCH", "POP"} => Balanced(p, s, o.opptr, o.offset)
  /\ a.offset # 0 => Balanced(p, s, a.opptr, a.offset)

SlashInv == Plain(program) => Weighs(program, data, state, op, any)

LEMMA SlashFacts ==
  ASSUME IInv
  PROVE  /\ op.opptr \in Nat /\ op.opptr < Len(program) /\ Len(program) \in Nat
         /\ op.offset \in Nat /\ length \in Nat /\ op.offset <= length
         /\ any.opptr \in Nat /\ any.offset \in Nat
         /\ any.offset # 0 => any.offset <= length
         /\ Plain(program) => deep = NoMark
PROOF
<1>1. /\ op.opptr \in Nat /\ op.opptr < Len(program) /\ Len(program) \in Nat
      /\ op.offset \in Nat /\ length \in Nat /\ op.offset <= length
      /\ any.opptr \in Nat /\ any.offset \in Nat
  BY InstrFacts DEF IInv, TypeOK, Frame, StaleByteNotRead
<1>2. any.offset # 0 => any.offset <= length
  BY DEF IInv, MarksOK, MarkOK
<1>3. Plain(program) => deep = NoMark
  BY PlainNoDeep DEF IInv, TypeOK, MarksOK
<1> QED
  BY <1>1, <1>2, <1>3

(* A position that is balanced at its instruction is balanced behind it.   *)
LEMMA WeighsAt ==
  ASSUME NEW p, Len(p) \in Nat, NEW s, NEW st, NEW o \in Frame, NEW a,
         Balanced(p, s, o.opptr, o.offset),
         a.offset # 0 => Balanced(p, s, a.opptr, a.offset)
  PROVE  Weighs(p, s, st, o, a)
PROOF
<1>1. o.opptr \in Nat /\ o.offset \in Nat /\ o.opptr + 1 \in Nat /\ o.opptr <= o.opptr + 1
  BY DEF Frame
<1>2. Slashes(p, o.opptr) \subseteq Slashes(p, o.opptr + 1)
  BY <1>1 DEF Slashes
<1>3. Balanced(p, s, o.opptr + 1, o.offset)
  BY <1>1, <1>2, BalancedSubset
<1> QED
  BY <1>3 DEF Weighs

LEMMA SlashInitOK == Init => SlashInv
PROOF
<1> SUFFICES ASSUME Init PROVE SlashInv
  OBVIOUS
<1>1. op \in Frame /\ op.offset = 0 /\ any.offset = 0 /\ Len(program) \in Nat
  BY InitOK, SlashFacts DEF Init, NoMark, Frame
<1>2. Balanced(program, data, op.opptr, op.offset)
  BY <1>1, BalancedZero
<1> QED
  BY <1>1, <1>2, WeighsAt DEF SlashInv

LEMMA SlashResetOK == IInv /\ SlashInv /\ Reset => SlashInv'
PROOF
<1> SUFFICES ASSUME IInv, SlashInv, Reset, Plain(program)
             PROVE  Weighs(program, data, state', op', any')
  BY DEF SlashInv, Reset
<1>1. op' \in Frame /\ op'.offset = 0 /\ any'.offset = 0 /\ Len(program) \in Nat
  BY SlashFacts DEF Reset, NoMark, Frame
<1>2. Balanced(program, data, op'.opptr, op'.offset)
  BY <1>1, BalancedZero
<1> QED
  BY <1>1, <1>2, WeighsAt

LEMMA SlashPushOK ==
  ASSUME NEW str \in Strings
  PROVE  IInv /\ SlashInv /\ Push(str) => SlashInv'
PROOF
<1> SUFFICES ASSUME IInv, SlashInv, Push(str), Plain(program)
             PROVE  Weighs(program, data', state', op, any)
  BY DEF SlashInv, Push
<1>1. Weighs(program, data, state, op, any)
  BY DEF SlashInv
<1>2. CASE state \in {"PUSH", "CONTINUE"}
  <2>1. data' = Appended(Pushed(str)) /\ state' = "CONTINUE"
    BY <1>2 DEF Push, Pushed
  <2>2. \A k \in 0..length : k < length => data'[k] = data[k]
    BY <2>1, PushedFacts, AppendedFacts DEF IInv
  <2>3. /\ op \in Frame /\ op.offset \in Nat /\ op.offset <= length /\ length \in Nat
        /\ Len(program) \in Nat /\ any.offset \in Nat
        /\ any.offset # 0 => any.offset <= length
    BY SlashFacts DEF IInv, TypeOK
  <2>4. ASSUME NEW o \in Nat, o <= length PROVE \A k \in 0..o : k < o => data'[k] = data[k]
    BY <2>2, <2>3, <2>4
  <2>5. Balanced(program, data', op.opptr, op.offset)
    <3>1. Balanced(program, data, op.opptr, op.offset)
      BY <1>1, <1>2 DEF Weighs
    <3> QED
      BY <2>3, <2>4, <3>1, BalancedAgree
  <2>6. any.offset # 0 => Balanced(program, data', any.opptr, any.offset)
    <3>1. any.offset # 0 => Balanced(program, data, any.opptr, any.offset)
      BY <1>1 DEF Weighs
    <3> QED
      BY <2>3, <2>4, <3>1, BalancedAgree
  <2> QED
    BY <2>3, <2>5, <2>6, WeighsAt
<1>3. CASE state \notin {"PUSH", "CONTINUE"}
  BY <1>1, <1>3 DEF Push, Weighs
<1> QED
  BY <1>2, <1>3

LEMMA SlashMatchOK == IInv /\ SlashInv /\ Match => SlashInv'
PROOF
<1> SUFFICES ASSUME IInv, SlashInv, Match, Plain(program)
             PROVE  Weighs(program, data, state', op', any)
  BY DEF SlashInv, Match
<1>1. Weighs(program, data, state, op, any)
  BY DEF SlashInv
<1>2. /\ op \in Frame /\ op.opptr \in Nat /\ op.offset \in Nat
      /\ Len(program) \in Nat /\ state \in State
  BY SlashFacts DEF IInv, TypeOK
<1>3. CASE state = "MATCH" /\ opcode = "END"
  <2>1. op' = op /\ Instr(op.opptr).op = "END"
    BY <1>3 DEF Match, IInv, MatchAtBoundary
  <2>2. Slashes(program, op.opptr + 1) = Slashes(program, op.opptr)
    BY <1>2, <2>1 DEF Slashes, Instr
  <2>3. Balanced(program, data, op.opptr, op.offset)
    BY <1>1, <2>2 DEF Weighs, Balanced
  <2> QED
    BY <1>1, <1>2, <2>1, <2>3, WeighsAt DEF Weighs
<1>4. CASE state = "MATCH" /\ opcode # "END"
  <2>1. CASE state' = "STOP" /\ op' = op
    BY <1>1, <2>1 DEF Weighs
  <2>2. CASE op' = [op EXCEPT !.opptr = @ + 1]
    <3>1. op' = [opptr |-> op.opptr + 1, offset |-> op.offset] /\ op' \in Frame
      BY <1>2, <2>2 DEF Frame
    <3>2. op'.opptr = op.opptr + 1 /\ op'.offset = op.offset
      BY <3>1
    <3>3. Balanced(program, data, op'.opptr, op'.offset)
      BY <1>1, <3>2 DEF Weighs
    <3> QED
      BY <1>1, <1>2, <3>1, <3>3, WeighsAt DEF Weighs
  <2> QED
    BY <1>4, <2>1, <2>2 DEF Match, Returning
<1>5. CASE state # "MATCH"
  <2>1. op' = op /\ (state' \in {"CONTINUE", "PUSH", "NOMATCH", "POP"} =>
                       state \in {"CONTINUE", "PUSH", "NOMATCH", "POP"})
    BY <1>5 DEF Match, Returning
  <2> QED
    BY <1>1, <2>1 DEF Weighs
<1> QED
  BY <1>3, <1>4, <1>5


(* What executing an instruction leaves is in balance.                     *)
LEMMA SlashExecuting ==
  ASSUME IInv, SlashInv, Plain(program), NEW r, Executing(r)
  PROVE  /\ r.any \in Frame /\ r.deep = NoMark
         /\ Balanced(program, data, op.opptr, op.offset)
         /\ r.any.offset # 0 => Balanced(program, data, r.any.opptr, r.any.offset)
         /\ r.matched => Balanced(program, data, op.opptr + 1, op.offset + r.step)
PROOF
<1>1. /\ op.opptr \in Nat /\ op.opptr < Len(program) /\ Len(program) \in Nat
      /\ op.offset \in Nat
  BY SlashFacts
<1>2. OutcomeOK(r) /\ state = "CONTINUE" /\ r = vm_op
  BY ExecutingFacts DEF Executing
<1>3. PlainOutcome(r)
  BY <1>2, VmOpPlain DEF IInv
<1>4. Weighs(program, data, state, op, any)
  BY DEF SlashInv
<1>5. Balanced(program, data, op.opptr, op.offset)
  BY <1>2, <1>4 DEF Weighs
<1>6. r.any.offset # 0 => Balanced(program, data, r.any.opptr, r.any.offset)
  <2>1. CASE r.any = NoMark
    BY <2>1 DEF NoMark
  <2>2. CASE r.any = any
    BY <1>4, <2>2 DEF Weighs
  <2>3. CASE r.any = [opptr |-> op.opptr, offset |-> op.offset + 1] /\ Str # Sep
    <3>1. \A k \in op.offset..(op.offset + 1) - 1 : data[k] # Sep
      <4>1. \A k \in op.offset..(op.offset + 1) - 1 : k = op.offset
        BY <1>1
      <4> QED
        BY <2>3, <4>1 DEF Str
    <3>2. op.offset + 1 \in Nat /\ op.opptr <= op.opptr
      BY <1>1
    <3>3. Balanced(program, data, op.opptr, op.offset + 1)
      BY <1>1, <1>5, <3>1, <3>2, BalancedOn
    <3> QED
      BY <2>3, <3>3
  <2> QED
    BY <1>3, <2>1, <2>2, <2>3 DEF PlainOutcome
<1>7. r.matched => Balanced(program, data, op.opptr + 1, op.offset + r.step)
  <2>1. CASE Instr(op.opptr).op = "SEP"
    <3>1. program[op.opptr + 1].op = "SEP"
      BY <2>1 DEF Instr
    <3>2. Balanced(program, data, op.opptr + 1, op.offset + 1)
      BY <1>1, <1>5, <3>1, BalancedSep
    <3> QED
      BY <1>2, <2>1, <3>2 DEF OutcomeOK
  <2>2. CASE Instr(op.opptr).op # "SEP" /\ r.matched
    <3> DEFINE end  == op.offset + r.step
               next == op.opptr + 1
    <3>1. \A k \in op.offset..end - 1 : data[k] # Sep
      BY <1>3, <2>2 DEF PlainOutcome
    <3>2. end \in Nat /\ next \in Nat /\ op.opptr <= next
      BY <1>1, <1>2 DEF OutcomeOK
    <3> HIDE DEF end, next
    <3>3. Balanced(program, data, next, end)
      BY <1>1, <1>5, <3>1, <3>2, BalancedOn
    <3> USE DEF end, next
    <3> QED
      BY <3>3
  <2> QED
    BY <2>1, <2>2
<1>8. r.any \in Frame /\ r.deep = NoMark
  BY <1>2, PlainNoDeep DEF IInv, OutcomeOK
<1> QED
  BY <1>5, <1>6, <1>7, <1>8

LEMMA SlashOpMatchesOK == IInv /\ SlashInv /\ OpMatches => SlashInv'
PROOF
<1> SUFFICES ASSUME IInv, SlashInv, OpMatches, Plain(program)
             PROVE  Weighs(program, data, state', op', any')
  BY DEF SlashInv, OpMatches
<1> DEFINE r == vm_op
           end == op.offset + r.step
<1>1. /\ Executing(r) /\ r.matched
      /\ \/ Returning("MATCH") /\ op' = [op EXCEPT !.offset = @ + r.step]
         \/ Returning("CONTINUE") /\ op' = [opptr |-> op.opptr + 1, offset |-> end]
      /\ any' = r.any
  BY DEF OpMatches
<1> HIDE DEF r
<1>2. /\ r.any.offset # 0 => Balanced(program, data, r.any.opptr, r.any.offset)
      /\ Balanced(program, data, op.opptr + 1, end)
  BY <1>1, SlashExecuting
<1>3. /\ op \in Frame /\ op.opptr \in Nat /\ op.offset \in Nat /\ end \in Nat
      /\ Len(program) \in Nat
  BY <1>1, SlashFacts, ExecutingFacts DEF IInv, TypeOK, OutcomeOK
<1>4. CASE Returning("MATCH") /\ op' = [op EXCEPT !.offset = @ + r.step]
  <2>1. op' = [opptr |-> op.opptr, offset |-> end] /\ state' = "MATCH"
    BY <1>3, <1>4 DEF Returning, Frame
  <2> QED
    BY <1>1, <1>2, <2>1 DEF Weighs
<1>5. CASE Returning("CONTINUE") /\ op' = [opptr |-> op.opptr + 1, offset |-> end]
  <2>1. op' \in Frame /\ op'.opptr = op.opptr + 1 /\ op'.offset = end
    BY <1>3, <1>5 DEF Frame
  <2> QED
    BY <1>1, <1>2, <1>3, <2>1, WeighsAt
<1> QED
  BY <1>1, <1>4, <1>5

LEMMA SlashOpRetriesOK == IInv /\ SlashInv /\ OpRetries => SlashInv'
PROOF
<1> SUFFICES ASSUME IInv, SlashInv, OpRetries, Plain(program)
             PROVE  Weighs(program, data, state', op', any')
  BY DEF SlashInv, OpRetries
<1> DEFINE r == vm_op
<1>1. Executing(r) /\ ~r.matched /\ vm_restore(r.any, r.deep)
  BY DEF OpRetries
<1> HIDE DEF r
<1>2. r.any.offset # 0 => Balanced(program, data, r.any.opptr, r.any.offset)
  BY <1>1, SlashExecuting
<1>3. r.any \in Frame /\ Len(program) \in Nat /\ (r.any.offset = 0 => r.any = NoMark)
  BY <1>1, SlashFacts, ExecutingFacts DEF OutcomeOK, MarkOK
<1>4. r.deep = NoMark
  BY <1>1, SlashExecuting
<1>5. NoMark.opptr = 0 /\ NoMark.offset = 0 /\ NoMark \in Frame
  BY DEF NoMark, Frame
<1>6. CASE r.any.opptr > r.deep.opptr
  <2>1. op' = r.any /\ any' = NoMark
    BY <1>1, <1>6 DEF vm_restore
  <2>2. r.any.offset # 0
    BY <1>3, <1>4, <1>5, <1>6
  <2> QED
    BY <1>2, <1>3, <1>5, <2>1, <2>2, WeighsAt
<1>7. CASE ~(r.any.opptr > r.deep.opptr)
  <2>1. op' = NoMark /\ any' = r.any
    BY <1>1, <1>4, <1>7 DEF vm_restore
  <2>2. Balanced(program, data, op'.opptr, op'.offset)
    BY <1>3, <1>5, <2>1, BalancedZero
  <2> QED
    BY <1>2, <1>3, <1>5, <2>1, <2>2, WeighsAt
<1> QED
  BY <1>6, <1>7

LEMMA SlashOpFailsOK == IInv /\ SlashInv /\ OpFails => SlashInv'
PROOF
<1> SUFFICES ASSUME IInv, SlashInv, OpFails, Plain(program)
             PROVE  Weighs(program, data, state', op', any')
  BY DEF SlashInv, OpFails
<1>1. Executing(vm_op) /\ any' = vm_op.any /\ op' = op
  BY DEF OpFails
<1>2. /\ Balanced(program, data, op.opptr, op.offset)
      /\ any'.offset # 0 => Balanced(program, data, any'.opptr, any'.offset)
  BY <1>1, SlashExecuting
<1>3. op \in Frame /\ Len(program) \in Nat
  BY SlashFacts DEF IInv, TypeOK
<1> QED
  BY <1>1, <1>2, <1>3, WeighsAt

(* A rewind takes the program back past no separator.                      *)
LEMMA RewindKeepsSlashes ==
  ASSUME IInv, Plain(program), NEW offset, NEW start \in Nat, ProgramStart(offset, start)
  PROVE  Slashes(program, op.opptr) \subseteq Slashes(program, start)
PROOF
<1>1. op.opptr \in Nat /\ Len(program) \in Nat
  BY SlashFacts
<1>2. ASSUME NEW j \in Slashes(program, op.opptr)
      PROVE  j \in 0..Len(program) - 1 /\ j < op.opptr /\ StopsAt(j, offset)
  BY DEF Slashes, StopsAt, Instr
<1>3. CASE \A j \in 0..Len(program) - 1 : j < op.opptr => ~StopsAt(j, offset)
  BY <1>2, <1>3
<1>4. ASSUME NEW i \in 0..Len(program) - 1, StopsAt(i, offset),
             \A j \in 0..Len(program) - 1 : i < j /\ j < op.opptr => ~StopsAt(j, offset),
             start = IF Instr(i).op = "SEP" THEN i + 1 ELSE i
      PROVE  Slashes(program, op.opptr) \subseteq Slashes(program, start)
  <2>1. i + 1 \in 1..Len(program)
    BY <1>1
  <2>2. program[i + 1].op # "DEEP"
    BY <2>1 DEF Plain
  <2>3. start = i + 1
    BY <1>4, <2>2 DEF StopsAt, Instr
  <2>4. ASSUME NEW j \in Slashes(program, op.opptr) PROVE j < start
    <3>1. j \in 0..Len(program) - 1 /\ ~(i < j)
      BY <1>2, <1>4
    <3> QED
      BY <2>3, <3>1
  <2> QED
    BY <2>4 DEF Slashes
<1> QED
  BY <1>3, <1>4 DEF ProgramStart

LEMMA SlashPopOK == IInv /\ SlashInv /\ Pop => SlashInv'
PROOF
<1> SUFFICES ASSUME IInv, SlashInv, Pop, Plain(program)
             PROVE  Weighs(program, data, state', op', any')
  BY DEF SlashInv, Pop, vm_rewind, vmVars
<1>1. Weighs(program, data, state, op, any)
  BY DEF SlashInv
<1>2. CASE UNCHANGED vmVars /\ state' \in {state, "ERROR"}
  BY <1>1, <1>2 DEF vmVars, Weighs
<1>3. CASE state = "POP" /\ vm_rewind
  <2>1. any = NoMark /\ ~CanRetry(any, deep) /\ op.offset \in Nat /\ length \in Nat
    BY <1>3, PopFacts
  <2>2. ~Underflow /\ any' = any
    BY <1>3, <2>1 DEF vm_rewind
  <2>3. PICK offset \in 0..length, start \in 0..Len(program) - 1 :
          /\ ComponentStart(SkipSep, offset)
          /\ ProgramStart(offset, start)
          /\ op' = [opptr |-> start, offset |-> offset]
    BY <1>3, <2>1 DEF vm_rewind
  <2>4. Len(program) \in Nat /\ offset \in Nat /\ start \in Nat
    BY <2>1, SlashFacts
  <2>5. offset <= op.offset
    BY <1>3, <2>2, <2>3, <2>4, RewindsBack
  <2>6. Seps(data, offset) \subseteq Seps(data, op.offset)
    BY <2>1, <2>4, <2>5 DEF Seps
  <2>7. Slashes(program, op.opptr) \subseteq Slashes(program, start)
    BY <2>3, <2>4, RewindKeepsSlashes
  <2>8. Balanced(program, data, op.opptr, op.offset)
    BY <1>1, <1>3 DEF Weighs
  <2>9. Balanced(program, data, start, offset)
    BY <2>1, <2>4, <2>6, <2>7, <2>8, BalancedSubset
  <2>10. op' \in Frame /\ op'.opptr = start /\ op'.offset = offset /\ any'.offset = 0
    BY <2>1, <2>2, <2>3, <2>4 DEF Frame, NoMark
  <2> QED
    BY <2>4, <2>9, <2>10, WeighsAt
<1> QED
  BY <1>2, <1>3 DEF Pop

LEMMA SlashNextOK == IInv /\ SlashInv /\ [Next]_vars => SlashInv'
PROOF
<1> SUFFICES ASSUME IInv, SlashInv, [Next]_vars PROVE SlashInv'
  OBVIOUS
<1>1. CASE NeedInput
  <2>1. UNCHANGED <<program, data, op, any>> /\ state = "CONTINUE" /\ state' = "PUSH"
    BY <1>1 DEF NeedInput, Returning, vmVars, IInv, TypeOK
  <2> QED
    BY <2>1 DEF SlashInv, Weighs
<1>2. CASE UNCHANGED vars
  <2>1. UNCHANGED <<program, data, op, any, state>>
    BY <1>2 DEF vars
  <2> QED
    BY <2>1 DEF SlashInv
<1> QED
  BY <1>1, <1>2, SlashResetOK, SlashPushOK, SlashPopOK, SlashMatchOK, SlashOpMatchesOK,
     SlashOpRetriesOK, SlashOpFailsOK DEF Next, Running

(* In a program in which only SEP instructions match separators, the       *)
(* machine never gets past more separators of the string than of the       *)
(* program: no wildcard takes a slash, through every backtrack, push and   *)
(* pop (vm_any, vm_one, vm_sep of src/src/vm.c and the rewind that follows *)
(* a pop).                                                                 *)
THEOREM SlashesMatchSlashes == Spec => []SlashMatchedBySlash
PROOF
<1>1. Init => IInv /\ SlashInv
  BY InitOK, SlashInitOK
<1>2. (IInv /\ SlashInv) /\ [Next]_vars => (IInv /\ SlashInv)'
  BY NextOK, SlashNextOK
<1>3. IInv /\ SlashInv => SlashMatchedBySlash
  <2> SUFFICES ASSUME IInv, SlashInv, Plain(program)
               PROVE  Cardinality(SepBytesBefore(op.offset))
                        <= Cardinality(SepsBefore(op.opptr + 1))
    BY DEF SlashMatchedBySlash
  <2>1. Balanced(program, data, op.opptr + 1, op.offset)
    BY DEF SlashInv, Weighs
  <2>2. SepBytesBefore(op.offset) = Seps(data, op.offset)
    BY DEF SepBytesBefore, Seps
  <2>3. SepsBefore(op.opptr + 1) = Slashes(program, op.opptr + 1)
    BY DEF SepsBefore, Slashes, Instr
  <2> QED
    BY <2>1, <2>2, <2>3 DEF Balanced
<1> QED
  BY <1>1, <1>2, <1>3, PTL DEF Spec

=============================================================================
