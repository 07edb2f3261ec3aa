------------------------ MODULE FnmatchClientProofs ------------------------
(***************************************************************************)
(* Proofs about the clients of a context, for every alphabet and every set *)
(* of well-formed programs.                                                *)
(*                                                                         *)
(* First the matching machine of a client that streams its input: what it  *)
(* reports as a match is one by the reference of FnmatchGlob, however the  *)
(* string is pushed.  The invariant SInv is that the machine and its two   *)
(* marks always stand where the reference can be; a step then extends the  *)
(* path it stands on.                                                      *)
(*                                                                         *)
(* Then fnmatch and fnmatch_pattern_match: the assertions hold, an answer  *)
(* of 0 is right, and so is FNM_NOMATCH, for every subject.                *)
(* For the first two the invariant PInv adds three things to that of the   *)
(* streaming client: what the buffer holds in each phase of the call, that *)
(* the machine never gets past the terminator, and that it never sees a    *)
(* separator again once it has asked for more input at the end of the      *)
(* subject.  The third is the completeness of the backtracking: if the     *)
(* subject has a match, one is always left that begins with where the      *)
(* machine is or with a later place of one of its marks (Complete).        *)
(*                                                                         *)
(* Last the scanner, for every finite tree and every choice of callbacks   *)
(* and answers.                                                            *)
(***************************************************************************)
EXTENDS FnmatchPattern, FnmatchScanner, FnmatchContextProofs

(* Stands, of a program and a buffer that are parameters.                  *)
StandsIn(p, s, frame) ==
  \E i \in 0..frame.offset :
    /\ PathTo(p, s, frame.opptr, i)
    /\ \/ i = frame.offset
       \/ /\ p[frame.opptr + 1].op \in {"ANY", "DEEP"}
          /\ Accepts(p[frame.opptr + 1], s, i, frame.offset)

SInv ==
  /\ IInv
  /\ StandsOnPath
  /\ MatchIsSound
  /\ PartialIsSound

-----------------------------------------------------------------------------
(* Paths of the reference.                                                 *)

LEMMA EmptyPath == ASSUME NEW p, NEW s PROVE PathTo(p, s, 0, 0)
PROOF
<1> DEFINE cut == [k \in 0..0 |-> 0]
<1>1. cut \in [0..0 -> 0..0] /\ cut[0] = 0
  OBVIOUS
<1>2. \A k \in 1..0 : Accepts(p[k], s, cut[k - 1], cut[k])
  OBVIOUS
<1> QED
  BY <1>1, <1>2 DEF PathTo

(* A path is extended by what the next instruction accepts.                *)
LEMMA LongerPath ==
  ASSUME NEW p, NEW s, NEW n \in Nat, NEW i \in Nat, NEW j \in Nat, i <= j,
         PathTo(p, s, n, i), Accepts(p[n + 1], s, i, j)
  PROVE  PathTo(p, s, n + 1, j)
PROOF
<1>1. PICK cut \in [0..n -> 0..i] :
        /\ cut[0] = 0
        /\ cut[n] = i
        /\ \A k \in 1..n : Accepts(p[k], s, cut[k - 1], cut[k])
  BY DEF PathTo
<1> DEFINE longer == [k \in 0..n + 1 |-> IF k <= n THEN cut[k] ELSE j]
<1>2. longer \in [0..n + 1 -> 0..j]
  <2>1. ASSUME NEW k \in 0..n + 1 PROVE (IF k <= n THEN cut[k] ELSE j) \in 0..j
    <3>1. CASE k <= n
      <4>1. cut[k] \in 0..i
        BY <1>1, <3>1
      <4> QED
        BY <3>1, <4>1
    <3>2. CASE ~(k <= n)
      BY <3>2
    <3> QED
      BY <3>1, <3>2
  <2> QED
    BY <2>1
<1>3. \A k \in 0..n : longer[k] = cut[k]
  OBVIOUS
<1>4. longer[n + 1] = j
  OBVIOUS
<1> HIDE DEF longer
<1>5. ASSUME NEW k \in 1..n + 1 PROVE Accepts(p[k], s, longer[k - 1], longer[k])
  <2>1. CASE k = n + 1
    BY <1>1, <1>3, <1>4, <2>1
  <2>2. CASE k # n + 1
    <3>1. k \in 1..n /\ k - 1 \in 0..n /\ k \in 0..n
      BY <2>2
    <3> QED
      BY <1>1, <1>3, <3>1
  <2> QED
    BY <2>1, <2>2
<1>6. longer[0] = 0
  BY <1>1, <1>3
<1> QED
  BY <1>2, <1>4, <1>5, <1>6 DEF PathTo

(* Only the bytes before o decide what is accepted up to o.                *)
Agree(s, t, o) == \A k \in 0..o : k < o => t[k] = s[k]

LEMMA AcceptsAgree ==
  ASSUME NEW ins \in Instruction, NEW s, NEW t, NEW o \in Nat, Agree(s, t, o),
         NEW i \in 0..o, NEW j \in 0..o, Accepts(ins, s, i, j)
  PROVE  Accepts(ins, t, i, j)
PROOF
<1>1. ins.str \in Seq(Byte) /\ Len(ins.str) \in Nat
  BY DEF Instruction
<1>2. CASE ins.op = "FIXED"
  <2>1. j = i + Len(ins.str) /\ \A k \in 1..Len(ins.str) : s[i + k - 1] = ins.str[k]
    BY <1>2 DEF Accepts
  <2>2. \A k \in 1..Len(ins.str) : i + k - 1 \in 0..o /\ i + k - 1 < o
    BY <1>1, <2>1
  <2> QED
    BY <1>2, <2>1, <2>2 DEF Accepts, Agree
<1>3. CASE ins.op = "ANY"
  <2>1. i <= j /\ \A k \in i..j - 1 : s[k] \notin {Sep, Nul}
    BY <1>3 DEF Accepts
  <2>2. \A k \in i..j - 1 : k \in 0..o /\ k < o
    OBVIOUS
  <2> QED
    BY <1>3, <2>1, <2>2 DEF Accepts, Agree
<1>4. CASE ins.op \in {"CHARS", "ONE", "SEP"}
  <2>1. j = i + 1
    BY <1>4 DEF Accepts
  <2>2. t[i] = s[i]
    BY <2>1 DEF Agree
  <2> QED
    BY <1>4, <2>2 DEF Accepts
<1>5. CASE ins.op = "DEEP"
  BY <1>5 DEF Accepts
<1> QED
  BY <1>2, <1>3, <1>4, <1>5 DEF Accepts

LEMMA PathAgree ==
  ASSUME NEW p \in Seq(Instruction), NEW s, NEW t, NEW o \in Nat, Agree(s, t, o),
         NEW n \in Nat, n <= Len(p), PathTo(p, s, n, o)
  PROVE  PathTo(p, t, n, o)
PROOF
<1>1. PICK cut \in [0..n -> 0..o] :
        /\ cut[0] = 0
        /\ cut[n] = o
        /\ \A k \in 1..n : Accepts(p[k], s, cut[k - 1], cut[k])
  BY DEF PathTo
<1>2. ASSUME NEW k \in 1..n PROVE Accepts(p[k], t, cut[k - 1], cut[k])
  <2>1. p[k] \in Instruction /\ cut[k - 1] \in 0..o /\ cut[k] \in 0..o
    BY <1>1
  <2> QED
    BY <1>1, <2>1, AcceptsAgree
<1> QED
  BY <1>1, <1>2 DEF PathTo

LEMMA StandsAgree ==
  ASSUME NEW p \in Seq(Instruction), NEW s, NEW t, NEW frame \in Frame,
         Agree(s, t, frame.offset), frame.opptr < Len(p), StandsIn(p, s, frame)
  PROVE  StandsIn(p, t, frame)
PROOF
<1>1. frame.offset \in Nat /\ frame.opptr \in Nat /\ p[frame.opptr + 1] \in Instruction
  BY DEF Frame
<1>2. PICK i \in 0..frame.offset :
        /\ PathTo(p, s, frame.opptr, i)
        /\ \/ i = frame.offset
           \/ /\ p[frame.opptr + 1].op \in {"ANY", "DEEP"}
              /\ Accepts(p[frame.opptr + 1], s, i, frame.offset)
  BY DEF StandsIn
<1>3. i \in Nat /\ Agree(s, t, i) /\ frame.opptr <= Len(p) /\ frame.offset \in 0..frame.offset
  BY <1>1 DEF Agree
<1>4. PathTo(p, t, frame.opptr, i)
  BY <1>1, <1>2, <1>3, PathAgree
<1>5. Accepts(p[frame.opptr + 1], s, i, frame.offset)
        => Accepts(p[frame.opptr + 1], t, i, frame.offset)
  BY <1>1, <1>3, AcceptsAgree
<1> QED
  BY <1>2, <1>4, <1>5 DEF StandsIn

-----------------------------------------------------------------------------
(* Standing at an instruction.                                             *)

LEMMA StandsIsStandsIn ==
  ASSUME NEW frame
  PROVE  Stands(frame) <=> StandsIn(program, data, frame)
PROOF
  BY DEF Stands, StandsIn, Instr

LEMMA NoMarkStands == ASSUME NEW p, NEW s PROVE StandsIn(p, s, NoMark)
PROOF
  BY EmptyPath DEF StandsIn, NoMark

(* At any instruction but a wildcard, the path ends where the machine is.  *)
LEMMA StandsHere ==
  ASSUME NEW p, NEW s, NEW frame \in Frame, StandsIn(p, s, frame),
         p[frame.opptr + 1].op \notin {"ANY", "DEEP"}
  PROVE  PathTo(p, s, frame.opptr, frame.offset)
PROOF
  BY DEF StandsIn

(* A wildcard may always take exactly what it has taken so far.            *)
LEMMA WildcardEnds ==
  ASSUME NEW p, NEW s, NEW frame \in Frame, StandsIn(p, s, frame),
         p[frame.opptr + 1].op \in {"ANY", "DEEP"}
  PROVE  PathTo(p, s, frame.opptr + 1, frame.offset)
PROOF
<1>1. frame.offset \in Nat /\ frame.opptr \in Nat
  BY DEF Frame
<1>2. PICK i \in 0..frame.offset :
        /\ PathTo(p, s, frame.opptr, i)
        /\ \/ i = frame.offset
           \/ Accepts(p[frame.opptr + 1], s, i, frame.offset)
  BY DEF StandsIn
<1>3. i \in Nat /\ i <= frame.offset
  BY <1>1
<1>4. Accepts(p[frame.opptr + 1], s, i, frame.offset)
  <2>1. CASE i = frame.offset
    <3>1. \A k \in i..frame.offset - 1 : FALSE
      BY <1>1, <2>1
    <3> QED
      BY <1>3, <3>1 DEF Accepts
  <2> QED
    BY <1>2, <2>1
<1> QED
  BY <1>1, <1>2, <1>3, <1>4, LongerPath

(* ... or one byte more, which is what a mark records.                     *)
LEMMA WildcardTakes ==
  ASSUME NEW p, NEW s, NEW frame \in Frame, StandsIn(p, s, frame),
         \/ p[frame.opptr + 1].op = "DEEP"
         \/ p[frame.opptr + 1].op = "ANY" /\ s[frame.offset] \notin {Sep, Nul}
  PROVE  StandsIn(p, s, [opptr |-> frame.opptr, offset |-> frame.offset + 1])
PROOF
<1> DEFINE behind == frame.offset + 1
<1>1. frame.offset \in Nat /\ frame.opptr \in Nat
  BY DEF Frame
<1>2. PICK i \in 0..frame.offset :
        /\ PathTo(p, s, frame.opptr, i)
        /\ \/ i = frame.offset
           \/ Accepts(p[frame.opptr + 1], s, i, frame.offset)
  BY DEF StandsIn
<1>3. i \in Nat /\ i <= frame.offset /\ i \in 0..behind /\ i <= behind
  BY <1>1
<1>4. Accepts(p[frame.opptr + 1], s, i, behind)
  <2>1. CASE p[frame.opptr + 1].op = "DEEP"
    BY <1>3, <2>1 DEF Accepts
  <2>2. CASE p[frame.opptr + 1].op = "ANY" /\ s[frame.offset] \notin {Sep, Nul}
    <3>1. ASSUME NEW k \in i..behind - 1 PROVE s[k] \notin {Sep, Nul}
      <4>1. CASE k = frame.offset
        BY <2>2, <4>1
      <4>2. CASE k # frame.offset
        <5>1. k \in i..frame.offset - 1 /\ i # frame.offset
          BY <1>1, <1>3, <4>2
        <5> QED
          BY <1>2, <2>2, <5>1 DEF Accepts
      <4> QED
        BY <4>1, <4>2
    <3> QED
      BY <1>3, <2>2, <3>1 DEF Accepts
  <2> QED
    BY <2>1, <2>2
<1> QED
  BY <1>1, <1>2, <1>3, <1>4 DEF StandsIn

-----------------------------------------------------------------------------
(* The opcodes.                                                            *)

MarkStands(mark) == mark.offset # 0 => StandsIn(program, data, mark)

LEMMA MarkedStands ==
  ASSUME TypeOK, NEW mark, MarkStands(mark), StandsIn(program, data, op),
         \/ Instr(op.opptr).op = "DEEP"
         \/ Instr(op.opptr).op = "ANY" /\ Str \notin {Sep, Nul}
  PROVE  MarkStands(Marked(mark))
PROOF
<1>1. CASE mark.offset = 0
  <2>1. StandsIn(program, data, [opptr |-> op.opptr, offset |-> op.offset + 1])
    BY WildcardTakes DEF TypeOK, Instr, Str
  <2> QED
    BY <1>1, <2>1 DEF Marked, MarkStands
<1>2. CASE mark.offset # 0
  BY <1>2 DEF Marked
<1> QED
  BY <1>1, <1>2

(* What an instruction reports is a step of the reference.                 *)
OutcomeStands(r) ==
  /\ MarkStands(r.any)
  /\ MarkStands(r.deep)
  /\ r.matched /\ Instr(op.opptr).op # "END" =>
       PathTo(program, data, op.opptr + 1, op.offset + r.step)
  /\ r.matched /\ Instr(op.opptr).op = "END" => PathTo(program, data, op.opptr, op.offset)

LEMMA VmOpStands ==
  ASSUME TypeOK, op.offset < length,
         StandsIn(program, data, op), MarkStands(any), MarkStands(deep)
  PROVE  OutcomeStands(vm_op)
PROOF
<1> DEFINE code == Instr(op.opptr).op
           path == PathTo(program, data, op.opptr, op.offset)
<1>1. /\ op \in Frame /\ op.opptr \in Nat /\ op.opptr < Len(program)
      /\ op.offset \in Nat /\ length \in Nat
  BY DEF TypeOK, Frame
<1>2. MarkStands(NoMark)
  BY DEF MarkStands, NoMark
<1>3. code \in Opcode /\ (code = "FIXED" => Len(Instr(op.opptr).str) \in Nat)
  BY <1>1, InstrFacts
<1>4. Instr(op.opptr) = program[op.opptr + 1] /\ Str = data[op.offset]
  BY DEF Instr, Str
<1>5. code \notin {"ANY", "DEEP"} => path
  BY <1>1, <1>4, StandsHere
<1>6. code \in {"ANY", "DEEP"} => PathTo(program, data, op.opptr + 1, op.offset)
  BY <1>1, <1>4, WildcardEnds
<1>7. ASSUME NEW j \in Nat, op.offset <= j, code \notin {"ANY", "DEEP"},
             Accepts(Instr(op.opptr), data, op.offset, j)
      PROVE  PathTo(program, data, op.opptr + 1, j)
  BY <1>1, <1>4, <1>5, <1>7, LongerPath
<1>8. op.offset + 1 \in Nat /\ op.offset <= op.offset + 1 /\ op.offset + 0 = op.offset
  BY <1>1
<1>9. CASE code = "FIXED"
  <2> DEFINE len == Len(Instr(op.opptr).str)
             r == vm_fixed
  <2>1. MarkStands(r.any) /\ MarkStands(r.deep) /\ r.matched \in BOOLEAN
    BY <1>2 DEF vm_fixed, vm_cond, Outcome
  <2>2. r.matched => r.step = len /\ \A k \in 1..len : data[op.offset + k - 1] = Instr(op.opptr).str[k]
    BY DEF vm_fixed, vm_cond, Outcome
  <2>3. op.offset + len \in Nat /\ op.offset <= op.offset + len
    BY <1>1, <1>3, <1>9
  <2>4. r.matched => Accepts(Instr(op.opptr), data, op.offset, op.offset + r.step)
    BY <1>9, <2>2 DEF Accepts
  <2>5. r.matched => PathTo(program, data, op.opptr + 1, op.offset + r.step)
    BY <1>7, <1>9, <2>2, <2>3, <2>4
  <2>6. vm_op = r
    BY <1>9 DEF vm_op
  <2> QED
    BY <1>9, <2>1, <2>5, <2>6 DEF OutcomeStands
<1>10. CASE code \in {"CHARS", "ONE"}
  <2>1. /\ vm_op.any = any /\ vm_op.deep = deep
        /\ vm_op.matched => /\ vm_op.step = 1
                            /\ code = "CHARS" => Str \in Instr(op.opptr).set
                            /\ code = "ONE" => Str \notin {Sep, Nul}
    <3>1. CASE code = "CHARS"
      BY <3>1 DEF vm_op, vm_chars, vm_cond, Outcome
    <3>2. CASE code = "ONE"
      BY <3>2 DEF vm_op, vm_one, vm_cond, Outcome
    <3> QED
      BY <1>10, <3>1, <3>2
  <2>2. vm_op.matched => Accepts(Instr(op.opptr), data, op.offset, op.offset + 1)
    BY <1>4, <1>10, <2>1 DEF Accepts
  <2>3. vm_op.matched => PathTo(program, data, op.opptr + 1, op.offset + 1)
    BY <1>7, <1>8, <1>10, <2>2
  <2> QED
    BY <1>10, <2>1, <2>3 DEF OutcomeStands
<1>11. CASE code = "ANY"
  <2>1. vm_op = vm_any /\ vm_any.step = 0
    BY <1>11 DEF vm_op, vm_any, Outcome
  <2>2. AtNul <=> Str = Nul
    BY DEF AtNul
  <2>3. Str \notin {Sep, Nul} => MarkStands(Marked(any))
    BY <1>11, MarkedStands
  <2>4. MarkStands(vm_any.any) /\ MarkStands(vm_any.deep)
    BY <1>2, <2>2, <2>3 DEF vm_any, Outcome
  <2> QED
    BY <1>6, <1>8, <1>11, <2>1, <2>4 DEF OutcomeStands
<1>12. CASE code = "DEEP"
  <2>1. vm_op = vm_deep /\ vm_deep.step = 0
    BY <1>12 DEF vm_op, vm_deep, Outcome
  <2>2. MarkStands(Marked(deep))
    BY <1>12, MarkedStands
  <2>3. MarkStands(vm_deep.any) /\ MarkStands(vm_deep.deep)
    BY <1>2, <2>2 DEF vm_deep, Outcome
  <2> QED
    BY <1>6, <1>8, <1>12, <2>1, <2>3 DEF OutcomeStands
<1>13. CASE code = "SEP"
  <2>1. vm_op = vm_sep
    BY <1>13 DEF vm_op
  <2>2. /\ vm_sep.matched => vm_sep.step = 1 /\ Str = Sep
        /\ MarkStands(vm_sep.any) /\ MarkStands(vm_sep.deep)
    BY <1>2 DEF vm_sep, Outcome
  <2>3. vm_sep.matched => Accepts(Instr(op.opptr), data, op.offset, op.offset + 1)
    BY <1>4, <1>13, <2>2 DEF Accepts
  <2>4. vm_sep.matched => PathTo(program, data, op.opptr + 1, op.offset + 1)
    BY <1>7, <1>8, <1>13, <2>3
  <2> QED
    BY <1>13, <2>1, <2>2, <2>4 DEF OutcomeStands
<1>14. CASE code = "END"
  <2>1. vm_op = vm_end
    BY <1>14 DEF vm_op
  <2>2. MarkStands(vm_end.any) /\ MarkStands(vm_end.deep)
    BY <1>2 DEF vm_end, Outcome
  <2> QED
    BY <1>5, <1>14, <2>1, <2>2 DEF OutcomeStands
<1> QED
  BY <1>3, <1>9, <1>10, <1>11, <1>12, <1>13, <1>14 DEF Opcode

-----------------------------------------------------------------------------
(* Steps of the streaming client.                                          *)

LEMMA SInvFacts ==
  ASSUME SInv
  PROVE  /\ TypeOK /\ op \in Frame /\ op.opptr \in Nat /\ op.offset \in Nat
         /\ state \in {"CONTINUE", "PUSH"} => StandsIn(program, data, op)
         /\ MarkStands(any) /\ MarkStands(deep)
PROOF
  BY StandsIsStandsIn DEF SInv, IInv, TypeOK, Frame, StandsOnPath, MarkStands

(* What a step has to show of the position and the marks.                  *)
LEMMA StandsNext ==
  ASSUME state' \in {"CONTINUE", "PUSH"} => StandsIn(program', data', op'),
         any'.offset # 0 => StandsIn(program', data', any'),
         deep'.offset # 0 => StandsIn(program', data', deep')
  PROVE  StandsOnPath'
PROOF
  BY DEF StandsOnPath, Stands, StandsIn, Instr

(* Marks that are kept, or that stand by the outcome of an instruction.    *)
LEMMA MarksNext ==
  ASSUME UNCHANGED <<program, data>>,
         state' \in {"CONTINUE", "PUSH"} => StandsIn(program, data, op'),
         MarkStands(any'), MarkStands(deep')
  PROVE  StandsOnPath'
PROOF
  BY StandsNext DEF MarkStands

LEMMA SInitOK == Init => SInv
PROOF
<1> SUFFICES ASSUME Init PROVE SInv
  OBVIOUS
<1>1. Stands(op)
  BY NoMarkStands, StandsIsStandsIn DEF Init
<1> QED
  BY <1>1, InitOK DEF Init, SInv, StandsOnPath, MatchIsSound, PartialIsSound, NoMark

LEMMA SResetOK == SInv /\ Reset => StandsOnPath' /\ state' # "MATCH"
PROOF
<1> SUFFICES ASSUME SInv, Reset PROVE StandsOnPath' /\ state' # "MATCH"
  OBVIOUS
<1>1. StandsIn(program', data', op') /\ any'.offset = 0 /\ deep'.offset = 0
  BY NoMarkStands DEF Reset, NoMark
<1> QED
  BY <1>1, StandsNext DEF Reset

(* What a frame stands on does not change when bytes are pushed.           *)
LEMMA SPushOK ==
  ASSUME NEW str \in Strings
  PROVE  SInv /\ Push(str) => StandsOnPath' /\ state' # "MATCH"
PROOF
<1> SUFFICES ASSUME SInv, Push(str) PROVE StandsOnPath' /\ state' # "MATCH"
  OBVIOUS
<1>1. UNCHANGED <<program, op, any, deep>>
  BY DEF Push
<1>2. TypeOK /\ MarkStands(any) /\ MarkStands(deep)
  BY SInvFacts
<1>3. CASE state \in {"PUSH", "CONTINUE"}
  <2>1. data' = Appended(Pushed(str)) /\ state' = "CONTINUE"
    BY <1>3 DEF Push, Pushed
  <2>2. \A i \in 0..length : i < length => data'[i] = data[i]
    BY <1>2, <2>1, PushedFacts, AppendedFacts
  <2>3. program \in Seq(Instruction) /\ Len(program) \in Nat /\ length \in Nat
    BY <1>2, ProgramsAssumption DEF TypeOK, WellFormed
  <2>4. ASSUME NEW frame \in Frame, frame.opptr < Len(program), frame.offset <= length,
               StandsIn(program, data, frame)
        PROVE  StandsIn(program, data', frame)
    <3>1. Agree(data, data', frame.offset)
      BY <2>2, <2>3, <2>4 DEF Agree, Frame
    <3> QED
      BY <2>3, <2>4, <3>1, StandsAgree
  <2>5. /\ op \in Frame /\ op.opptr < Len(program) /\ op.offset <= length
        /\ StandsIn(program, data, op)
    BY <1>2, <1>3, SInvFacts DEF SInv, IInv, TypeOK, StaleByteNotRead
  <2>6. any.offset # 0 =>
          any \in Frame /\ any.opptr < Len(program) /\ any.offset <= length
    BY <1>2, <2>3, <2>5 DEF SInv, IInv, TypeOK, MarksOK, MarkOK, Frame
  <2>7. deep.offset # 0 =>
          deep \in Frame /\ deep.opptr < Len(program) /\ deep.offset <= length
    BY <1>2, <2>3, <2>5 DEF SInv, IInv, TypeOK, MarksOK, MarkOK, Frame
  <2>8. StandsIn(program, data', op)
    BY <2>4, <2>5
  <2>9. any.offset # 0 => StandsIn(program, data', any)
    BY <1>2, <2>4, <2>6 DEF MarkStands
  <2>10. deep.offset # 0 => StandsIn(program, data', deep)
    BY <1>2, <2>4, <2>7 DEF MarkStands
  <2> QED
    BY <1>1, <2>1, <2>8, <2>9, <2>10, StandsNext
<1>4. CASE state \notin {"PUSH", "CONTINUE"}
  BY <1>1, <1>2, <1>4, MarksNext DEF Push
<1> QED
  BY <1>3, <1>4

LEMMA SMatchOK == SInv /\ Match => StandsOnPath' /\ state' # "MATCH"
PROOF
<1> SUFFICES ASSUME SInv, Match PROVE StandsOnPath' /\ state' # "MATCH"
  OBVIOUS
<1>1. UNCHANGED <<program, data, any, deep>>
  BY DEF Match
<1>2. /\ TypeOK /\ op \in Frame /\ op.opptr \in Nat /\ op.offset \in Nat
      /\ MarkStands(any) /\ MarkStands(deep)
      /\ state \in {"CONTINUE", "PUSH"} => StandsIn(program, data, op)
  BY SInvFacts
<1>3. CASE state = "MATCH" /\ opcode # "END"
  <2>1. PathTo(program, data, op.opptr + 1, op.offset)
    BY <1>3 DEF SInv, PartialIsSound
  <2>2. StandsIn(program, data, [opptr |-> op.opptr + 1, offset |-> op.offset])
    BY <1>2, <2>1 DEF StandsIn
  <2>3. /\ state' \in {"STOP", "CONTINUE"}
        /\ state' = "CONTINUE" => op' = [op EXCEPT !.opptr = @ + 1]
    BY <1>3 DEF Match, Returning
  <2>4. state' = "CONTINUE" => op' = [opptr |-> op.opptr + 1, offset |-> op.offset]
    BY <1>2, <2>3 DEF Frame
  <2> QED
    BY <1>1, <1>2, <2>2, <2>3, <2>4, MarksNext
<1>4. CASE ~(state = "MATCH" /\ opcode # "END")
  <2>1. /\ op' = op /\ state' \in {"POP", "STOP", "CONTINUE", "ERROR"}
        /\ state' = "CONTINUE" => state = "CONTINUE"
    BY <1>4 DEF Match, Returning
  <2> QED
    BY <1>1, <1>2, <2>1, MarksNext
<1> QED
  BY <1>3, <1>4

LEMMA SNeedInputOK == SInv /\ NeedInput => StandsOnPath' /\ state' # "MATCH"
PROOF
<1> SUFFICES ASSUME SInv, NeedInput PROVE StandsOnPath' /\ state' # "MATCH"
  OBVIOUS
<1>1. UNCHANGED <<program, data, op, any, deep>> /\ state' = "PUSH"
  BY DEF NeedInput, Returning, vmVars
<1>2. TypeOK /\ state = "CONTINUE"
  BY SInvFacts DEF NeedInput, TypeOK
<1>3. StandsIn(program, data, op') /\ MarkStands(any') /\ MarkStands(deep')
  BY <1>1, <1>2, SInvFacts
<1> QED
  BY <1>1, <1>3, MarksNext

(* An iteration that executes an instruction starts where the reference    *)
(* can be.                                                                 *)
LEMMA ExecutingStands ==
  ASSUME SInv, NEW r, Executing(r)
  PROVE  OutcomeStands(r) /\ OutcomeOK(r)
PROOF
<1>1. /\ op.offset < length /\ state = "CONTINUE" /\ OutcomeOK(r) /\ r = vm_op
  BY ExecutingFacts DEF SInv, Executing
<1>2. StandsIn(program, data, op) /\ MarkStands(any) /\ MarkStands(deep) /\ TypeOK
  BY <1>1, SInvFacts
<1> QED
  BY <1>1, <1>2, VmOpStands

LEMMA SOpMatchesOK ==
  SInv /\ OpMatches => StandsOnPath' /\ MatchIsSound' /\ PartialIsSound'
PROOF
<1> SUFFICES ASSUME SInv, OpMatches
             PROVE  StandsOnPath' /\ MatchIsSound' /\ PartialIsSound'
  OBVIOUS
<1> DEFINE r == vm_op
           end == op.offset + r.step
<1>1. /\ Executing(r) /\ r.matched
      /\ IF AtBoundary(end)
         THEN Returning("MATCH") /\ op' = [op EXCEPT !.offset = @ + r.step]
         ELSE Returning("CONTINUE") /\ op' = [opptr |-> op.opptr + 1, offset |-> end]
      /\ any' = r.any /\ deep' = r.deep
      /\ UNCHANGED <<program, data>>
  BY DEF OpMatches
<1> HIDE DEF r
<1>2. OutcomeStands(r) /\ OutcomeOK(r)
  BY <1>1, ExecutingStands
<1>3. /\ op \in Frame /\ op.opptr \in Nat /\ op.opptr < Len(program)
      /\ op.offset \in Nat /\ opcode' = Instr(op.opptr).op /\ TypeOK
      /\ r.step \in Nat /\ end \in Nat
  BY <1>1, <1>2, ExecutingFacts, SInvFacts DEF SInv, OutcomeOK
<1>4. MarkStands(any') /\ MarkStands(deep')
  BY <1>1, <1>2 DEF OutcomeStands
<1>5. CASE AtBoundary(end)
  <2>1. state' = "MATCH" /\ op' = [opptr |-> op.opptr, offset |-> end]
    BY <1>1, <1>3, <1>5 DEF Returning, Frame
  <2>2. StandsOnPath'
    BY <1>1, <1>4, <2>1, MarksNext
  <2>3. ASSUME opcode' = "END"
        PROVE  data[op.offset] = Nul /\ Globs(program, data, op.offset) /\ end - 1 = op.offset
    <3>1. WellFormed(program)
      BY <1>3, ProgramsAssumption DEF TypeOK
    <3>2. op.opptr + 1 \in 1..Len(program) /\ program[op.opptr + 1].op = "END"
      BY <1>3, <2>3, <3>1 DEF WellFormed, Instr
    <3>3. op.opptr + 1 = Len(program)
      BY <3>1, <3>2 DEF WellFormed
    <3>4. op.opptr = Len(program) - 1
      BY <1>3, <3>3
    <3>5. PathTo(program, data, op.opptr, op.offset)
      BY <1>1, <1>2, <1>3, <2>3 DEF OutcomeStands
    <3>6. data[op.offset] = Nul /\ r.step = 1
      BY <1>1, <1>2, <1>3, <2>3 DEF OutcomeOK, Str
    <3> QED
      BY <1>3, <3>4, <3>5, <3>6 DEF Globs
  <2>4. MatchIsSound'
    BY <1>1, <2>1, <2>3 DEF MatchIsSound, Globs
  <2>5. opcode' # "END" => PathTo(program, data, op.opptr + 1, end)
    BY <1>1, <1>2, <1>3 DEF OutcomeStands
  <2>6. PartialIsSound'
    BY <1>1, <2>1, <2>5 DEF PartialIsSound
  <2> QED
    BY <2>2, <2>4, <2>6
<1>6. CASE ~AtBoundary(end)
  <2>1. /\ state' = "CONTINUE"
        /\ op' = [opptr |-> op.opptr + 1, offset |-> end]
    BY <1>1, <1>6 DEF Returning
  <2>2. PathTo(program, data, op.opptr + 1, end)
    BY <1>1, <1>2, <1>3, <1>6 DEF OutcomeStands, AtBoundary
  <2>3. StandsIn(program, data, op')
    BY <1>3, <2>1, <2>2 DEF StandsIn
  <2> QED
    BY <1>1, <1>4, <2>1, <2>3, MarksNext DEF MatchIsSound, PartialIsSound
<1> QED
  BY <1>5, <1>6

(* The machine goes back to a mark that stands, or to the start.           *)
LEMMA SOpRetriesOK == SInv /\ OpRetries => StandsOnPath' /\ state' # "MATCH"
PROOF
<1> SUFFICES ASSUME SInv, OpRetries PROVE StandsOnPath' /\ state' # "MATCH"
  OBVIOUS
<1> DEFINE r == vm_op
<1>1. /\ Executing(r) /\ vm_restore(r.any, r.deep) /\ state' = "CONTINUE"
      /\ UNCHANGED <<program, data>>
  BY DEF OpRetries, Returning
<1> HIDE DEF r
<1>2. OutcomeStands(r) /\ OutcomeOK(r)
  BY <1>1, ExecutingStands
<1>3. MarkStands(NoMark) /\ StandsIn(program, data, NoMark)
  BY NoMarkStands DEF MarkStands
<1>4. CASE r.any.opptr > r.deep.opptr
  <2>1. op' = r.any /\ any' = NoMark /\ deep' = r.deep
    BY <1>1, <1>4 DEF vm_restore
  <2>2. r.any.offset # 0
    BY <1>2, <1>4 DEF OutcomeOK, MarkOK, NoMark, Frame
  <2> QED
    BY <1>1, <1>2, <1>3, <2>1, <2>2, MarksNext DEF OutcomeStands, MarkStands
<1>5. CASE ~(r.any.opptr > r.deep.opptr)
  <2>1. op' = r.deep /\ any' = r.any /\ deep' = NoMark
    BY <1>1, <1>5 DEF vm_restore
  <2>2. r.deep.offset = 0 => r.deep = NoMark
    BY <1>2 DEF OutcomeOK, MarkOK
  <2>3. StandsIn(program, data, op')
    BY <1>2, <1>3, <2>1, <2>2 DEF OutcomeStands, MarkStands
  <2> QED
    BY <1>1, <1>2, <1>3, <2>1, <2>3, MarksNext DEF OutcomeStands
<1> QED
  BY <1>4, <1>5

LEMMA SOpFailsOK == SInv /\ OpFails => StandsOnPath' /\ state' # "MATCH"
PROOF
<1> SUFFICES ASSUME SInv, OpFails PROVE StandsOnPath' /\ state' # "MATCH"
  OBVIOUS
<1> DEFINE r == vm_op
<1>1. /\ Executing(r) /\ any' = r.any /\ deep' = r.deep /\ state' = "NOMATCH"
      /\ UNCHANGED <<program, data>>
  BY DEF OpFails, Returning
<1> HIDE DEF r
<1>2. MarkStands(any') /\ MarkStands(deep')
  BY <1>1, ExecutingStands DEF OutcomeStands
<1> QED
  BY <1>1, <1>2, MarksNext

LEMMA SStutterOK ==
  SInv /\ UNCHANGED vars => StandsOnPath' /\ MatchIsSound' /\ PartialIsSound'
PROOF
<1> SUFFICES ASSUME SInv, UNCHANGED vars
             PROVE  StandsOnPath' /\ MatchIsSound' /\ PartialIsSound'
  OBVIOUS
<1>1. UNCHANGED <<program, data, op, any, deep, state, opcode>>
  BY DEF vars
<1>2. StandsOnPath'
  BY <1>1, SInvFacts, MarksNext
<1> QED
  BY <1>1, <1>2 DEF SInv, MatchIsSound, PartialIsSound, Globs

LEMMA SNextOK == SInv /\ [Streaming]_vars => SInv'
PROOF
<1> SUFFICES ASSUME SInv, [Streaming]_vars PROVE SInv'
  OBVIOUS
<1>1. IInv'
  BY NextOK DEF SInv, Streaming, Next
<1>2. state' # "MATCH" => MatchIsSound' /\ PartialIsSound'
  BY DEF MatchIsSound, PartialIsSound
<1>3. StandsOnPath' /\ MatchIsSound' /\ PartialIsSound'
  BY <1>2, SResetOK, SPushOK, SMatchOK, SNeedInputOK, SOpMatchesOK, SOpRetriesOK,
     SOpFailsOK, SStutterOK DEF Streaming, Running
<1> QED
  BY <1>1, <1>3 DEF SInv

-----------------------------------------------------------------------------
(* Theorems.                                                               *)

LEMMA StreamInvariance == StreamSpec => []SInv
PROOF
<1>1. Init => SInv
  BY SInitOK
<1>2. SInv /\ [Streaming]_vars => SInv'
  BY SNextOK
<1> QED
  BY <1>1, <1>2, PTL DEF StreamSpec

(* A full match is only reported for a string the program matches, however *)
(* the string was cut into pushes and whatever backtracking it took.       *)
THEOREM FullMatchesAreSound == StreamSpec => []MatchIsSound
PROOF
  BY StreamInvariance, PTL DEF SInv

(* A partial match is only reported where the program up to its separator  *)
(* matches the bytes consumed so far.                                      *)
THEOREM PartialMatchesAreSound == StreamSpec => []PartialIsSound
PROOF
  BY StreamInvariance, PTL DEF SInv

(* The machine and its marks stand on paths of the reference: going back   *)
(* to a mark never leaves the matches the program has.                     *)
THEOREM MarksStandOnPaths == StreamSpec => []StandsOnPath
PROOF
  BY StreamInvariance, PTL DEF SInv

-----------------------------------------------------------------------------
(* fnmatch and fnmatch_pattern_match.                                      *)

N == Len(subject)

First  == {"match", "test", "terminate"}
Second == {"rematch", "retest"}
Active == state \in {"CONTINUE", "PUSH"}

(* The bytes of the subject and a terminator.                              *)
Text(s, sub) == s[Len(sub)] = Nul /\ \A i \in 0..Len(sub) : i < Len(sub) => s[i] = sub[i + 1]

(* What the buffer holds.  For the empty subject the first push is already *)
(* that of a terminator.                                                   *)
Loaded ==
  /\ pc \in {"enter", "push"} => length = 0 /\ op = NoMark /\ any = NoMark /\ deep = NoMark
  /\ pc \in First => Text(data, subject) /\ length = IF N = 0 THEN 1 ELSE N
  /\ pc \in Second => Text(data, subject) /\ length = N + 1 /\ N # 0

(* What the context has answered.                                          *)
InStep ==
  /\ call = "match" => pc \in {"test", "retest"}
  /\ pc \in {"enter", "push"} => state = "PUSH"
  /\ pc = "match" => state \in {"CONTINUE", "MATCH"}
  /\ pc = "test" /\ N # 0 => call = "match" \/ state \in {"MATCH", "PUSH", "NOMATCH"}
  /\ pc = "terminate" => state = "PUSH" /\ N # 0
  /\ pc = "rematch" => state = "CONTINUE"
  /\ pc = "retest" => call = "match" \/ state \in {"MATCH", "NOMATCH"}
  /\ state = "PUSH" => op.offset = length
  /\ N # 0 => pc # "abort"

(* Neither the machine nor a mark gets past the terminator.                *)
Reach ==
  /\ Active \/ (state = "MATCH" /\ opcode # "END") => op.offset <= N
  /\ any.offset <= N /\ deep.offset <= N

NoSep(s, i, j) == \A k \in i..j - 1 : s[k] # Sep

(* Where a mark of a star leads back to: the start, for a star that is the *)
(* first instruction.                                                      *)
Back(mark) == IF mark.opptr = 0 THEN 0 ELSE mark.offset

(* There is no separator between a mark and the machine, ...               *)
Behind ==
  /\ Active /\ op.opptr = 0 => op.offset = 0
  /\ Active /\ any.offset # 0 => NoSep(data, Back(any), op.offset)
  /\ state = "MATCH" => any.offset = 0

(* ... and none ahead of it once the whole subject has been consumed.      *)
Ahead ==
  /\ pc \in Second /\ state = "CONTINUE" => NoSep(data, op.offset, N)
  /\ pc = "retest" /\ state = "MATCH" => opcode = "END"

Answered == answer = "0" => SubjectGlobs

PInv ==
  /\ SInv
  /\ subject \in Subjects
  /\ Proper(program) =>
       /\ Loaded
       /\ InStep
       /\ Reach
       /\ Plain(program) => Behind /\ Ahead /\ Answered

-----------------------------------------------------------------------------
(* Subjects and programs.                                                  *)

LEMMA SubjectFacts ==
  ASSUME NEW sub \in Subjects
  PROVE  /\ sub \in Strings /\ sub \in Seq(Byte) /\ Len(sub) \in Nat
         /\ \A i \in 1..Len(sub) : sub[i] \in Byte /\ sub[i] # Nul
PROOF
<1>1. sub \in Strings /\ sub \in Seq(Byte \ {Nul})
  BY SubjectsAssumption, StringsAssumption
<1>2. \A i \in 1..Len(sub) : sub[i] \in Byte \ {Nul}
  BY <1>1
<1>3. sub \in Seq(Byte) /\ Len(sub) \in Nat
  BY <1>1
<1> QED
  BY <1>1, <1>2, <1>3

LEMMA ProperIsPlain ==
  ASSUME Proper(program), "DEEP" \notin Codes(program)
  PROVE  Plain(program)
PROOF
  BY DEF Proper, Codes, Plain

(* What an instruction other than END consumes is no terminator, and a     *)
(* mark is set where none stands.                                          *)
NewMark == [opptr |-> op.opptr, offset |-> op.offset + 1]

TextOutcome(r) ==
  /\ r.matched /\ Instr(op.opptr).op # "END" =>
       \A k \in op.offset..(op.offset + r.step) - 1 : data[k] # Nul
  /\ r.any \in {NoMark, any} \/ (r.any = NewMark /\ Str # Nul)
  /\ r.deep \in {NoMark, deep} \/ (r.deep = NewMark /\ Str # Nul)
  /\ Instr(op.opptr).op = "SEP" /\ r.matched /\ deep = NoMark => r.any = NoMark

LEMMA VmOpText ==
  ASSUME TypeOK, op.offset < length, Proper(program)
  PROVE  TextOutcome(vm_op)
PROOF
<1> DEFINE code == Instr(op.opptr).op
           ins == program[op.opptr + 1]
<1>1. op.opptr \in Nat /\ op.opptr < Len(program) /\ op.offset \in Nat
  BY DEF TypeOK, Frame
<1>2. code \in Opcode /\ (code = "FIXED" => Len(Instr(op.opptr).str) \in Nat)
  BY <1>1, InstrFacts
<1>3. Len(program) \in Nat /\ op.opptr + 1 \in 1..Len(program) /\ ins = Instr(op.opptr)
  BY <1>1, InstrFacts DEF Instr
<1>4. code = "CHARS" => Nul \notin Instr(op.opptr).set
  BY <1>3 DEF Proper
<1>5. code = "FIXED" => \A k \in 1..Len(Instr(op.opptr).str) : Instr(op.opptr).str[k] # Nul
  BY <1>3, ProgramsAssumption DEF TypeOK, WellFormed
<1>6. \A k \in op.offset..(op.offset + 0) - 1 : FALSE
  BY <1>1
<1>7. AtNul <=> Str = Nul
  BY DEF AtNul
<1>8. CASE code = "FIXED"
  <2> DEFINE len == Len(Instr(op.opptr).str)
  <2>1. vm_op = vm_fixed
    BY <1>8 DEF vm_op
  <2>2. vm_op.any \in {NoMark, any} /\ vm_op.deep = deep
    BY <2>1 DEF vm_fixed, vm_cond, Outcome
  <2>3. vm_op.matched =>
          /\ vm_op.step = len
          /\ \A k \in 1..len : data[op.offset + k - 1] = Instr(op.opptr).str[k]
    BY <2>1 DEF vm_fixed, vm_cond, Outcome
  <2>4. ASSUME vm_op.matched, NEW k \in op.offset..(op.offset + vm_op.step) - 1
        PROVE  data[k] # Nul
    <3>1. k - op.offset + 1 \in 1..len /\ op.offset + (k - op.offset + 1) - 1 = k
      <4>1. len \in Nat
        BY <1>2, <1>8
      <4>2. k \in op.offset..(op.offset + len) - 1
        BY <2>3, <2>4
      <4> HIDE DEF len
      <4> QED
        BY <1>1, <4>1, <4>2
    <3>2. data[op.offset + (k - op.offset + 1) - 1] = Instr(op.opptr).str[k - op.offset + 1]
      BY <2>3, <2>4, <3>1
    <3> QED
      BY <1>5, <1>8, <3>1, <3>2
  <2> QED
    BY <1>8, <2>2, <2>4 DEF TextOutcome
<1>9. CASE code \in {"CHARS", "ONE", "SEP", "END"}
  <2>1. /\ vm_op.any \in {NoMark, any} /\ vm_op.deep \in {NoMark, deep}
        /\ vm_op.step \in {0, 1}
        /\ vm_op.matched /\ code # "END" => Str # Nul
    <3>1. CASE code = "CHARS"
      BY <1>4, <3>1 DEF vm_op, vm_chars, vm_cond, Outcome
    <3>2. CASE code = "ONE"
      BY <3>2 DEF vm_op, vm_one, vm_cond, Outcome
    <3>3. CASE code = "SEP"
      BY <3>3, ByteAssumption DEF vm_op, vm_sep, Outcome
    <3>4. CASE code = "END"
      BY <3>4 DEF vm_op, vm_end, Outcome
    <3> QED
      BY <1>9, <3>1, <3>2, <3>3, <3>4
  <2>2. ASSUME vm_op.matched, code # "END",
               NEW k \in op.offset..(op.offset + vm_op.step) - 1
        PROVE  data[k] # Nul
    <3>1. k = op.offset
      BY <1>1, <2>1, <2>2
    <3> QED
      BY <2>1, <2>2, <3>1 DEF Str
  <2>3. ASSUME code = "SEP", vm_op.matched, deep = NoMark PROVE vm_op.any = NoMark
    <3>1. deep.opptr = 0 /\ any.opptr \in Nat
      BY <2>3 DEF NoMark, TypeOK, Frame
    <3> QED
      BY <2>3, <3>1 DEF vm_op, vm_sep, Outcome
  <2> QED
    BY <2>1, <2>2, <2>3 DEF TextOutcome
<1>10. CASE code = "ANY"
  <2>1. vm_op = vm_any /\ vm_any.step = 0
    BY <1>10 DEF vm_op, vm_any, Outcome
  <2>2. /\ vm_any.any \in {NoMark, any} \/ (vm_any.any = NewMark /\ Str # Nul)
        /\ vm_any.deep \in {NoMark, deep}
    BY <1>7 DEF vm_any, Outcome, Marked, NewMark
  <2> QED
    BY <1>6, <1>10, <2>1, <2>2 DEF TextOutcome
<1>11. CASE code = "DEEP"
  <2>1. vm_op = vm_deep /\ vm_deep.step = 0
    BY <1>11 DEF vm_op, vm_deep, Outcome
  <2>2. /\ vm_deep.deep \in {NoMark, deep} \/ (vm_deep.deep = NewMark /\ Str # Nul)
        /\ vm_deep.any = any
    BY <1>7 DEF vm_deep, Outcome, Marked, NewMark
  <2> QED
    BY <1>6, <1>11, <2>1, <2>2 DEF TextOutcome
<1> QED
  BY <1>2, <1>8, <1>9, <1>10, <1>11 DEF Opcode

-----------------------------------------------------------------------------
(* What the invariant says of the machine.                                 *)

PText == Loaded /\ InStep /\ Reach
PSep  == Behind /\ Ahead /\ Answered

LEMMA PositionFacts ==
  ASSUME SInv
  PROVE  /\ TypeOK
         /\ op \in Frame /\ op.opptr \in Nat /\ op.offset \in Nat
         /\ any \in Frame /\ any.opptr \in Nat /\ any.offset \in Nat
         /\ deep \in Frame /\ deep.opptr \in Nat /\ deep.offset \in Nat
         /\ length \in Nat /\ op.offset <= length
         /\ Plain(program) => deep = NoMark
PROOF
<1>1. /\ TypeOK
      /\ op \in Frame /\ op.opptr \in Nat /\ op.offset \in Nat
      /\ any \in Frame /\ any.opptr \in Nat /\ any.offset \in Nat
      /\ deep \in Frame /\ deep.opptr \in Nat /\ deep.offset \in Nat
      /\ length \in Nat /\ op.offset <= length
  BY DEF SInv, IInv, TypeOK, Frame, StaleByteNotRead
<1>2. Plain(program) => deep = NoMark
  BY <1>1, PlainNoDeep DEF SInv, IInv, MarksOK
<1> QED
  BY <1>1, <1>2

(* Every step of the call is one of the streaming client.                  *)
LEMMA PStreams ==
  ASSUME SInv, subject \in Subjects, [PatternNext]_patternVars
  PROVE  SInv' /\ subject' = subject /\ program' = program
PROOF
<1>1. subject \in Strings /\ <<>> \in Strings
  BY SubjectsAssumption
<1>2. CASE Enter \/ Test \/ Retest \/ Ended \/ UNCHANGED patternVars
  <2>1. UNCHANGED vars
    BY <1>2 DEF Enter, Test, Retest, Returned, Ended, patternVars
  <2>2. subject' = subject
    BY <1>2 DEF Enter, Test, Retest, Ended, patternVars, callVars, Goto, Answer
  <2> QED
    BY <2>1, <2>2, SNextOK DEF vars
<1>3. CASE PushSubject \/ PushTerminator
  <2>1. \E str \in Strings : Push(str)
    BY <1>1, <1>3 DEF PushSubject, PushTerminator
  <2>2. subject' = subject /\ program' = program
    BY <1>3 DEF PushSubject, PushTerminator, Goto, Push
  <2> QED
    BY <2>1, <2>2, SNextOK DEF Streaming
<1>4. CASE CallMatch \/ Iterate
  <2>1. Match \/ Running
    BY <1>4 DEF CallMatch, Iterate
  <2>2. subject' = subject
    BY <1>4 DEF CallMatch, Iterate, Goto, callVars
  <2>3. program' = program
    BY <2>1 DEF Match, Running, NeedInput, OpMatches, OpRetries, OpFails, vmVars
  <2> QED
    BY <2>1, <2>2, <2>3, SNextOK DEF Streaming
<1> QED
  BY <1>2, <1>3, <1>4 DEF PatternNext, PatternStep

(* A full match before the terminator has been pushed is one of the empty  *)
(* subject.                                                                *)
LEMMA NoEarlyEnd ==
  ASSUME SInv, subject \in Subjects, Loaded, pc \in First, N # 0, state = "MATCH"
  PROVE  opcode # "END"
PROOF
<1>1. op.offset \in Nat /\ op.offset <= length /\ length = N /\ N \in Nat
  BY PositionFacts, SubjectFacts DEF Loaded, N
<1>2. SUFFICES ASSUME opcode = "END" PROVE FALSE
  OBVIOUS
<1>3. op.offset > 0 /\ data[op.offset - 1] = Nul
  BY <1>2 DEF SInv, IInv, MatchAtBoundary
<1>4. op.offset - 1 \in 0..N /\ op.offset - 1 < N /\ (op.offset - 1) + 1 \in 1..N
  BY <1>1, <1>3
<1>5. data[op.offset - 1] = subject[(op.offset - 1) + 1]
  BY <1>4 DEF Loaded, Text, N
<1> QED
  BY <1>3, <1>4, <1>5, SubjectFacts DEF N

(* The outcome of an instruction stays before the terminator.              *)
LEMMA StaysInText ==
  ASSUME SInv, subject \in Subjects, Proper(program), Loaded, Reach,
         pc \in {"test", "retest"}, NEW r, Executing(r)
  PROVE  /\ r.matched /\ Instr(op.opptr).op # "END" => op.offset + r.step <= N
         /\ r.any.offset <= N /\ r.deep.offset <= N
PROOF
<1>1. /\ op.offset \in Nat /\ N \in Nat /\ any.offset \in Nat /\ deep.offset \in Nat
      /\ op.offset < length /\ length \in Nat
  BY PositionFacts, SubjectFacts DEF N, Executing
<1>2. OutcomeOK(r) /\ state = "CONTINUE" /\ r = vm_op
  BY ExecutingFacts DEF SInv, Executing
<1>3. TextOutcome(r)
  BY <1>1, <1>2, PositionFacts, VmOpText
<1>4. op.offset <= N /\ any.offset <= N /\ deep.offset <= N
  BY <1>2 DEF Reach, Active
<1>5. data[N] = Nul
  BY DEF Loaded, First, Second, Text, N
<1>6. NoMark.offset = 0
  BY DEF NoMark
<1>7. Str # Nul => NewMark.offset <= N
  <2>1. Str # Nul => op.offset # N
    BY <1>5 DEF Str
  <2> QED
    BY <1>1, <1>4, <2>1 DEF NewMark
<1>8. r.any.offset <= N /\ r.deep.offset <= N
  BY <1>1, <1>3, <1>4, <1>6, <1>7 DEF TextOutcome
<1>9. ASSUME r.matched, Instr(op.opptr).op # "END", ~(op.offset + r.step <= N) PROVE FALSE
  <2>1. r.step \in Nat
    BY <1>2 DEF OutcomeOK
  <2>2. N \in op.offset..(op.offset + r.step) - 1
    BY <1>1, <1>4, <1>9, <2>1
  <2>3. data[N] # Nul
    BY <1>3, <1>9, <2>2 DEF TextOutcome
  <2> QED
    BY <1>5, <2>3
<1> QED
  BY <1>8, <1>9

-----------------------------------------------------------------------------
(* Steps of the call: the text and the answers.                            *)

LEMMA TextEnter ==
  ASSUME SInv, PText, Enter
  PROVE  PText'
PROOF
<1>1. /\ UNCHANGED <<data, length, op, any, deep, state, opcode, call, subject>>
      /\ pc = "enter" /\ pc' \in {"push", "return"}
  BY DEF Enter, Goto, vars
<1>2. Loaded'
  BY <1>1 DEF PText, Loaded, First, Second
<1>3. InStep'
  BY <1>1 DEF PText, InStep, N
<1>4. Reach'
  BY <1>1 DEF PText, Reach, Active, N
<1> QED
  BY <1>2, <1>3, <1>4 DEF PText

LEMMA TextPushSubject ==
  ASSUME SInv, subject \in Subjects, PText, PushSubject
  PROVE  PText'
PROOF
<1> DEFINE bytes == Pushed(subject)
<1>1. /\ pc = "push" /\ pc' = "match" /\ subject' = subject
      /\ length = 0 /\ op = NoMark /\ any = NoMark /\ deep = NoMark
      /\ state = "PUSH" /\ N \in Nat
  BY SubjectFacts DEF PText, PushSubject, Goto, Loaded, InStep, N
<1>2. /\ data' = Appended(bytes) /\ length' = length + Len(bytes) /\ state' = "CONTINUE"
      /\ UNCHANGED <<op, any, deep, call>> /\ call = "idle"
  BY <1>1 DEF PushSubject, Push, Pushed
<1>3. bytes \in Seq(Byte) /\ TypeOK
  BY PositionFacts, SubjectFacts, PushedFacts
<1>4. /\ \A k \in 1..Len(bytes) : data'[length + k - 1] = bytes[k]
      /\ data'[length + Len(bytes)] = Nul
  BY <1>2, <1>3, AppendedFacts
<1>5. Text(data', subject) /\ length' = IF N = 0 THEN 1 ELSE N
  <2>1. CASE N = 0
    <3>1. bytes = <<Nul>> /\ Len(bytes) = 1 /\ bytes[1] = Nul
      BY <2>1 DEF Pushed, N
    <3>2. data'[0] = Nul
      <4>1. 1 \in 1..Len(bytes) /\ length + 1 - 1 = 0
        BY <1>1, <3>1
      <4> QED
        BY <1>4, <3>1, <4>1
    <3> QED
      BY <1>1, <1>2, <2>1, <3>1, <3>2 DEF Text, N
  <2>2. CASE N # 0
    <3>1. bytes = subject /\ Len(bytes) = N
      BY <1>1, <2>2 DEF Pushed, N
    <3>2. data'[N] = Nul
      BY <1>1, <1>4, <3>1
    <3>3. ASSUME NEW i \in 0..N, i < N PROVE data'[i] = subject[i + 1]
      <4>1. i + 1 \in 1..Len(bytes) /\ length + (i + 1) - 1 = i
        BY <1>1, <3>1, <3>3
      <4>2. data'[length + (i + 1) - 1] = bytes[i + 1]
        BY <1>4, <4>1
      <4> QED
        BY <3>1, <4>1, <4>2
    <3> QED
      BY <1>1, <1>2, <2>2, <3>1, <3>2, <3>3 DEF Text, N
  <2> QED
    BY <2>1, <2>2
<1>6. Loaded'
  BY <1>1, <1>5 DEF Loaded, First, Second, N
<1>7. InStep'
  BY <1>1, <1>2 DEF InStep
<1>8. Reach'
  BY <1>1, <1>2 DEF Reach, NoMark, N
<1> QED
  BY <1>6, <1>7, <1>8 DEF PText

LEMMA TextCallMatch ==
  ASSUME SInv, subject \in Subjects, PText, CallMatch
  PROVE  PText'
PROOF
<1>1. /\ UNCHANGED <<data, length, any, deep, opcode, subject>> /\ Match
      /\ \/ pc = "match" /\ pc' = "test"
         \/ pc = "rematch" /\ pc' = "retest"
  BY DEF CallMatch, Match, Goto
<1>2. Loaded'
  BY <1>1 DEF PText, Loaded, First, Second, N
<1>3. CASE state = "CONTINUE"
  <2>1. state' = "CONTINUE" /\ call' = "match" /\ op' = op
    BY <1>1, <1>3 DEF Match, Returning
  <2>2. InStep'
    BY <1>1, <2>1 DEF InStep
  <2>3. Reach'
    BY <1>1, <1>3, <2>1 DEF PText, Reach, Active, N
  <2> QED
    BY <1>2, <2>2, <2>3 DEF PText
<1>4. CASE state = "MATCH" /\ opcode # "END"
  <2>1. pc = "match" /\ pc' = "test"
    BY <1>1, <1>4 DEF PText, InStep
  <2>2. Instr(op.opptr).op # "END"
    BY <1>4 DEF SInv, IInv, MatchAtBoundary
  <2>3. state' = "CONTINUE" /\ call' = "match" /\ op' = [op EXCEPT !.opptr = @ + 1]
    BY <1>1, <1>4, <2>2 DEF Match, Returning
  <2>4. op'.offset = op.offset
    BY <2>3, PositionFacts DEF Frame
  <2>5. InStep'
    BY <2>1, <2>3 DEF InStep
  <2>6. Reach'
    BY <1>1, <1>4, <2>4 DEF PText, Reach, N
  <2> QED
    BY <1>2, <2>5, <2>6 DEF PText
<1>5. CASE state = "MATCH" /\ opcode = "END"
  <2>1. pc = "match" /\ pc' = "test"
    BY <1>1, <1>5 DEF PText, InStep
  <2>2. N = 0
    BY <1>5, <2>1, NoEarlyEnd DEF PText, First
  <2>3. state' = "POP" /\ call' = "idle" /\ op' = op
    BY <1>1, <1>5 DEF Match, Returning
  <2>4. InStep'
    BY <1>1, <2>1, <2>2, <2>3 DEF InStep, N
  <2>5. Reach'
    BY <1>1, <2>3 DEF PText, Reach, Active, N
  <2> QED
    BY <1>2, <2>4, <2>5 DEF PText
<1> QED
  BY <1>1, <1>3, <1>4, <1>5 DEF PText, InStep


LEMMA TextIterate ==
  ASSUME SInv, subject \in Subjects, Proper(program), PText, Iterate
  PROVE  PText'
PROOF
<1>1. UNCHANGED <<subject, pc>> /\ Running
  BY DEF Iterate, callVars
<1>2. call = "match" /\ pc \in {"test", "retest"} /\ state = "CONTINUE"
  BY <1>1, PositionFacts DEF PText, InStep, Running, NeedInput, OpMatches, OpRetries, OpFails,
     Executing, TypeOK
<1>3. UNCHANGED <<data, length>>
  BY <1>1 DEF Running, NeedInput, OpMatches, OpRetries, OpFails, vmVars
<1>4. Loaded'
  BY <1>1, <1>2, <1>3 DEF PText, Loaded, First, Second, N
<1>5. /\ op.offset \in Nat /\ length \in Nat /\ N \in Nat /\ op.offset <= length
      /\ op.offset <= N /\ any.offset <= N /\ deep.offset <= N
  BY <1>2, PositionFacts, SubjectFacts DEF PText, Reach, Active, N
<1>6. ASSUME NEW r, Executing(r)
      PROVE  /\ r.matched /\ Instr(op.opptr).op # "END" => op.offset + r.step <= N
             /\ r.any.offset <= N /\ r.deep.offset <= N
             /\ opcode' = Instr(op.opptr).op
  <2>1. /\ r.matched /\ Instr(op.opptr).op # "END" => op.offset + r.step <= N
        /\ r.any.offset <= N /\ r.deep.offset <= N
    BY <1>2, <1>6, StaysInText DEF PText
  <2> QED
    BY <1>6, <2>1 DEF Executing
<1>7. CASE NeedInput
  <2>1. UNCHANGED <<op, any, deep, opcode>> /\ state' = "PUSH" /\ op.offset >= length
    BY <1>7 DEF NeedInput, Returning, vmVars
  <2>2. pc = "test" /\ op.offset = length
    <3>1. length <= N
      BY <1>5, <2>1
    <3>2. length # N + 1
      BY <1>5, <3>1
    <3> QED
      BY <1>2, <1>5, <2>1, <3>2 DEF PText, Loaded, Second
  <2>3. InStep'
    BY <1>1, <1>3, <2>1, <2>2 DEF PText, InStep, N
  <2>4. Reach'
    BY <1>1, <1>5, <2>1 DEF Reach, N
  <2> QED
    BY <1>4, <2>3, <2>4 DEF PText
<1>8. CASE OpMatches
  <2> DEFINE r == vm_op
  <2>1. /\ Executing(r) /\ r.matched
        /\ \/ Returning("MATCH") /\ op' = [op EXCEPT !.offset = @ + r.step]
           \/ /\ ~AtBoundary(op.offset + r.step)
              /\ Returning("CONTINUE") /\ op' = [opptr |-> op.opptr + 1, offset |-> op.offset + r.step]
        /\ any' = r.any /\ deep' = r.deep
    BY <1>8 DEF OpMatches
  <2> HIDE DEF r
  <2>2. op'.offset = op.offset + r.step
    BY <2>1, PositionFacts DEF Frame
  <2>3. /\ opcode' # "END" => op'.offset <= N
        /\ any'.offset <= N /\ deep'.offset <= N
    BY <1>6, <2>1, <2>2
  <2>4. state' = "MATCH" \/ (state' = "CONTINUE" /\ call' = "match" /\ opcode' # "END")
    BY <2>1 DEF Returning, AtBoundary
  <2>5. state' = "CONTINUE" => call' = "match"
    BY <2>4
  <2>6. InStep'
    BY <1>1, <1>2, <2>4 DEF PText, InStep, N
  <2>7. Reach'
    BY <1>1, <2>3, <2>4 DEF Reach, Active, N
  <2> QED
    BY <1>4, <2>6, <2>7 DEF PText
<1>9. CASE OpRetries
  <2> DEFINE r == vm_op
  <2>1. /\ Executing(r) /\ vm_restore(r.any, r.deep)
        /\ state' = "CONTINUE" /\ call' = "match"
    BY <1>9 DEF OpRetries, Returning
  <2> HIDE DEF r
  <2>2. /\ op'.offset \in {r.any.offset, r.deep.offset}
        /\ any'.offset \in {r.any.offset, 0} /\ deep'.offset \in {r.deep.offset, 0}
    BY <2>1 DEF vm_restore, NoMark
  <2>3. op'.offset <= N /\ any'.offset <= N /\ deep'.offset <= N
    BY <1>5, <1>6, <2>1, <2>2
  <2>4. InStep'
    BY <1>1, <1>2, <2>1 DEF PText, InStep, N
  <2>5. Reach'
    BY <1>1, <2>3 DEF Reach, N
  <2> QED
    BY <1>4, <2>4, <2>5 DEF PText
<1>10. CASE OpFails
  <2> DEFINE r == vm_op
  <2>1. /\ Executing(r) /\ any' = r.any /\ deep' = r.deep
        /\ state' = "NOMATCH" /\ call' = "idle"
    BY <1>10 DEF OpFails, Returning
  <2> HIDE DEF r
  <2>2. any'.offset <= N /\ deep'.offset <= N
    BY <1>6, <2>1
  <2>3. InStep'
    BY <1>1, <1>2, <2>1 DEF PText, InStep, N
  <2>4. Reach'
    BY <1>1, <2>1, <2>2 DEF Reach, Active, N
  <2> QED
    BY <1>4, <2>3, <2>4 DEF PText
<1> QED
  BY <1>1, <1>7, <1>8, <1>9, <1>10 DEF Running

LEMMA TextTest ==
  ASSUME SInv, subject \in Subjects, PText, Test
  PROVE  PText'
PROOF
<1>1. /\ UNCHANGED <<data, length, op, any, deep, state, opcode, call, subject>>
      /\ pc = "test" /\ call = "idle"
      /\ \/ pc' = "match" /\ state = "MATCH"
         \/ pc' = "terminate" /\ state = "PUSH"
         \/ pc' = "return"
         \/ pc' = "abort" /\ state \notin {"MATCH", "PUSH", "NOMATCH"}
  BY DEF Test, Returned, Goto, Answer, vars
<1>2. Loaded'
  BY <1>1 DEF PText, Loaded, First, Second, N
<1>3. state = "PUSH" => N # 0
  <2> SUFFICES ASSUME state = "PUSH", N = 0 PROVE FALSE
    OBVIOUS
  <2>1. op.offset = length /\ length = 1 /\ op.offset <= 0
    BY <1>1 DEF PText, InStep, Loaded, First, Reach, Active
  <2> QED
    BY <2>1
<1>4. InStep'
  BY <1>1, <1>3 DEF PText, InStep, N
<1>5. Reach'
  BY <1>1 DEF PText, Reach, Active, N
<1> QED
  BY <1>2, <1>4, <1>5 DEF PText

(* The terminator is appended behind the whole subject.                    *)
LEMMA TerminatorPushed ==
  ASSUME SInv, subject \in Subjects, PText, PushTerminator
  PROVE  /\ pc = "terminate" /\ pc' = "rematch" /\ subject' = subject
         /\ N \in Nat /\ N # 0 /\ length = N /\ length' = N + 1 /\ op.offset = N
         /\ state = "PUSH" /\ state' = "CONTINUE" /\ call' = "idle"
         /\ UNCHANGED <<op, any, deep>>
         /\ \A i \in 0..N : i < N => data'[i] = data[i]
         /\ data'[N] = Nul
PROOF
<1>1. /\ pc = "terminate" /\ pc' = "rematch" /\ subject' = subject
      /\ state = "PUSH" /\ N # 0 /\ length = N /\ op.offset = length /\ N \in Nat
  BY SubjectFacts DEF PText, PushTerminator, Goto, InStep, Loaded, First, N
<1>2. /\ data' = Appended(Pushed(<<>>)) /\ length' = length + Len(Pushed(<<>>))
      /\ state' = "CONTINUE" /\ call' = "idle"
      /\ UNCHANGED <<op, any, deep>>
  BY <1>1 DEF PushTerminator, Push, Pushed
<1>3. /\ <<>> \in Strings /\ Pushed(<<>>) = <<Nul>> /\ Len(<<Nul>>) = 1 /\ <<Nul>>[1] = Nul
      /\ TypeOK
  BY SubjectsAssumption, PositionFacts DEF Pushed
<1>4. <<Nul>> \in Seq(Byte)
  BY ByteAssumption
<1>5. /\ \A i \in 0..length : i < length => data'[i] = data[i]
      /\ \A k \in 1..Len(<<Nul>>) : data'[length + k - 1] = <<Nul>>[k]
  BY <1>2, <1>3, <1>4, AppendedFacts
<1>6. data'[N] = Nul
  <2>1. 1 \in 1..Len(<<Nul>>) /\ length + 1 - 1 = N
    BY <1>1, <1>3
  <2> QED
    BY <1>3, <1>5, <2>1
<1>7. length' = N + 1
  BY <1>1, <1>2, <1>3
<1> QED
  BY <1>1, <1>2, <1>5, <1>6, <1>7

LEMMA TextPushTerminator ==
  ASSUME SInv, subject \in Subjects, PText, PushTerminator
  PROVE  PText'
PROOF
<1>1. /\ pc' = "rematch" /\ pc = "terminate" /\ subject' = subject
      /\ N \in Nat /\ N # 0 /\ length' = N + 1 /\ op.offset = N
      /\ state' = "CONTINUE" /\ call' = "idle"
      /\ UNCHANGED <<op, any, deep>>
  BY TerminatorPushed
<1>2. Text(data', subject)
  <2>1. \A i \in 0..N : i < N => data[i] = subject[i + 1]
    BY <1>1 DEF PText, Loaded, First, Text, N
  <2>2. \A i \in 0..N : i < N => data'[i] = data[i]
    BY TerminatorPushed
  <2>3. data'[N] = Nul
    BY TerminatorPushed
  <2> QED
    BY <2>1, <2>2, <2>3 DEF Text, N
<1>3. Loaded'
  BY <1>1, <1>2 DEF Loaded, First, Second, N
<1>4. InStep'
  BY <1>1 DEF InStep
<1>5. Reach'
  BY <1>1 DEF PText, Reach, N
<1> QED
  BY <1>3, <1>4, <1>5 DEF PText

LEMMA TextRetest ==
  ASSUME SInv, PText, Retest
  PROVE  PText' /\ pc' = "return"
PROOF
<1>1. /\ UNCHANGED <<data, length, op, any, deep, state, opcode, call, subject>>
      /\ pc = "retest" /\ call = "idle"
      /\ \/ pc' = "return"
         \/ pc' = "abort" /\ state \notin {"MATCH", "NOMATCH"}
  BY DEF Retest, Returned, Goto, Answer, vars
<1>2. pc' = "return"
  BY <1>1 DEF PText, InStep
<1>3. Loaded'
  BY <1>2 DEF Loaded, First, Second
<1>4. InStep'
  BY <1>1, <1>2 DEF PText, InStep, N
<1>5. Reach'
  BY <1>1 DEF PText, Reach, Active, N
<1> QED
  BY <1>2, <1>3, <1>4, <1>5 DEF PText

LEMMA TextStutter ==
  ASSUME PText, UNCHANGED patternVars
  PROVE  PText'
PROOF
<1>1. UNCHANGED <<data, length, op, any, deep, state, opcode, call, subject, pc>>
  BY DEF patternVars, vars, callVars
<1>2. Loaded'
  BY <1>1 DEF PText, Loaded, N
<1>3. InStep'
  BY <1>1 DEF PText, InStep, N
<1>4. Reach'
  BY <1>1 DEF PText, Reach, Active, N
<1> QED
  BY <1>2, <1>3, <1>4 DEF PText

LEMMA TextNext ==
  ASSUME SInv, subject \in Subjects, Proper(program), PText, [PatternNext]_patternVars
  PROVE  PText'
PROOF
<1>1. CASE Enter
  BY <1>1, TextEnter
<1>2. CASE PushSubject
  BY <1>2, TextPushSubject
<1>3. CASE CallMatch
  BY <1>3, TextCallMatch
<1>4. CASE Iterate
  BY <1>4, TextIterate
<1>5. CASE Test
  BY <1>5, TextTest
<1>6. CASE PushTerminator
  BY <1>6, TextPushTerminator
<1>7. CASE Retest
  BY <1>7, TextRetest
<1>8. CASE Ended \/ UNCHANGED patternVars
  BY <1>8, TextStutter DEF Ended
<1> QED
  BY <1>1, <1>2, <1>3, <1>4, <1>5, <1>6, <1>7, <1>8 DEF PatternNext, PatternStep


-----------------------------------------------------------------------------
(* Steps of the call: separators.                                          *)

LEMMA NoSepJoin ==
  ASSUME NEW s, NEW i \in Nat, NEW j \in Nat, NEW e \in Nat, NoSep(s, i, j), NoSep(s, j, e)
  PROVE  NoSep(s, i, e)
PROOF
<1>1. \A k \in i..e - 1 : k \in i..j - 1 \/ k \in j..e - 1
  OBVIOUS
<1> QED
  BY <1>1 DEF NoSep

LEMMA NoSepLater ==
  ASSUME NEW s, NEW i \in Nat, NEW j \in Nat, NEW e \in Nat, NoSep(s, i, e), i <= j
  PROVE  NoSep(s, j, e)
PROOF
<1>1. \A k \in j..e - 1 : k \in i..e - 1
  OBVIOUS
<1> QED
  BY <1>1 DEF NoSep

LEMMA NoSepEmpty == ASSUME NEW s, NEW i \in Nat, NEW j \in Nat, j <= i PROVE NoSep(s, i, j)
PROOF
  BY DEF NoSep

(* What an instruction leaves of the mark.                                 *)
LEMMA MarkOutcome ==
  ASSUME SInv, Plain(program), Proper(program), Behind, NEW r, Executing(r)
  PROVE  /\ OutcomeOK(r) /\ state = "CONTINUE" /\ opcode' = Instr(op.opptr).op
         /\ r.step \in Nat /\ r.deep = NoMark
         /\ Instr(op.opptr).op # "DEEP"
         /\ r.matched /\ Instr(op.opptr).op \in {"SEP", "END"} => r.any = NoMark
         /\ r.matched /\ Instr(op.opptr).op # "SEP" =>
              NoSep(data, op.offset, op.offset + r.step)
         /\ \/ r.any = NoMark
            \/ r.any.offset # 0 /\ r.any = any /\ NoSep(data, Back(any), op.offset)
            \/ r.any = NewMark
PROOF
<1>1. /\ TypeOK /\ deep = NoMark /\ op.opptr \in Nat /\ op.opptr < Len(program)
      /\ op.offset \in Nat /\ op.offset < length
  BY PositionFacts DEF Executing, TypeOK
<1>2. OutcomeOK(r) /\ state = "CONTINUE" /\ opcode' = Instr(op.opptr).op /\ r = vm_op
  BY ExecutingFacts DEF SInv, Executing
<1>3. r.step \in Nat /\ r.deep = NoMark
  BY <1>1, <1>2, PlainNoDeep DEF OutcomeOK
<1>4. TextOutcome(r) /\ PlainOutcome(r)
  BY <1>1, <1>2, VmOpText, VmOpPlain
<1>5. Instr(op.opptr).op # "DEEP"
  <2>1. op.opptr + 1 \in 1..Len(program)
    BY <1>1, InstrFacts
  <2> QED
    BY <2>1 DEF Plain, Instr
<1>6. r.matched /\ Instr(op.opptr).op \in {"SEP", "END"} => r.any = NoMark
  BY <1>1, <1>2, <1>4 DEF TextOutcome, OutcomeOK
<1>7. r.matched /\ Instr(op.opptr).op # "SEP" => NoSep(data, op.offset, op.offset + r.step)
  BY <1>4 DEF PlainOutcome, NoSep
<1>8. \/ r.any = NoMark
      \/ r.any.offset # 0 /\ r.any = any /\ NoSep(data, Back(any), op.offset)
      \/ r.any = NewMark
  <2>1. r.any = NoMark \/ r.any = any \/ r.any = NewMark
    BY <1>4 DEF PlainOutcome, NewMark
  <2>2. r.any.offset = 0 => r.any = NoMark
    BY <1>2 DEF OutcomeOK, MarkOK
  <2>3. any.offset # 0 => NoSep(data, Back(any), op.offset)
    BY <1>2 DEF Behind, Active
  <2> QED
    BY <2>1, <2>2, <2>3
<1> QED
  BY <1>2, <1>3, <1>5, <1>6, <1>7, <1>8

LEMMA SepOpMatches ==
  ASSUME SInv, subject \in Subjects, Plain(program), Proper(program), PText, PSep,
         pc \in {"test", "retest"}, OpMatches, UNCHANGED callVars
  PROVE  Behind' /\ Ahead'
PROOF
<1> DEFINE r == vm_op
           end == op.offset + r.step
<1>1. /\ Executing(r) /\ r.matched
      /\ \/ AtBoundary(end) /\ Returning("MATCH") /\ op' = [op EXCEPT !.offset = @ + r.step]
         \/ /\ ~AtBoundary(end)
            /\ Returning("CONTINUE") /\ op' = [opptr |-> op.opptr + 1, offset |-> end]
      /\ any' = r.any /\ UNCHANGED <<program, data, length>>
  BY DEF OpMatches
<1>2. UNCHANGED <<subject, pc>>
  BY DEF callVars
<1> HIDE DEF r
<1>3. /\ OutcomeOK(r) /\ state = "CONTINUE" /\ opcode' = Instr(op.opptr).op
      /\ r.step \in Nat /\ Instr(op.opptr).op # "DEEP"
      /\ Instr(op.opptr).op \in {"SEP", "END"} => r.any = NoMark
      /\ Instr(op.opptr).op # "SEP" => NoSep(data, op.offset, end)
  BY <1>1, MarkOutcome DEF PSep
<1>4. /\ \/ r.any = NoMark
         \/ r.any.offset # 0 /\ r.any = any /\ NoSep(data, Back(any), op.offset)
         \/ r.any = NewMark
  BY <1>1, MarkOutcome DEF PSep
<1>5. /\ op.offset \in Nat /\ op.opptr \in Nat /\ any.offset \in Nat /\ any.opptr \in Nat
      /\ N \in Nat /\ end \in Nat /\ op.offset <= end /\ op.offset < length
      /\ length \in Nat
  BY <1>1, <1>3, PositionFacts, SubjectFacts DEF N, Executing
<1>6. pc = "retest" => NoSep(data, op.offset, N) /\ data[N] = Nul /\ length = N + 1
  BY <1>3 DEF PText, PSep, Loaded, Text, Ahead, Second, N
<1>7. CASE AtBoundary(end) /\ Returning("MATCH")
  <2>1. opcode' \in {"END", "SEP"} /\ state' = "MATCH"
    BY <1>3, <1>7 DEF AtBoundary, Returning
  <2>2. any'.offset = 0
    BY <1>1, <1>3, <2>1 DEF NoMark
  <2>3. Behind'
    BY <2>1, <2>2 DEF Behind, Active
  <2>4. ASSUME pc = "retest", opcode' = "SEP" PROVE FALSE
    <3>1. data[op.offset] = Sep
      BY <1>1, <1>3, <2>4 DEF OutcomeOK, Str
    <3>2. op.offset # N
      BY <1>6, <2>4, <3>1, ByteAssumption
    <3>3. op.offset \in op.offset..N - 1
      BY <1>5, <1>6, <2>4, <3>2
    <3> QED
      BY <1>6, <2>4, <3>1, <3>3 DEF NoSep
  <2>5. Ahead'
    BY <1>2, <2>1, <2>4 DEF Ahead
  <2> QED
    BY <2>3, <2>5
<1>8. CASE /\ ~AtBoundary(end)
           /\ Returning("CONTINUE") /\ op' = [opptr |-> op.opptr + 1, offset |-> end]
  <2>1. state' = "CONTINUE" /\ op'.opptr = op.opptr + 1 /\ op'.offset = end
    BY <1>8 DEF Returning
  <2>2. NoSep(data, op.offset, end)
    BY <1>3, <1>8 DEF AtBoundary
  <2>3. r.any.offset # 0 => NoSep(data, Back(r.any), end)
    <3>1. CASE r.any = NoMark
      BY <3>1 DEF NoMark
    <3>2. CASE r.any = any /\ NoSep(data, Back(any), op.offset)
      <4>1. Back(any) \in Nat
        BY <1>5 DEF Back
      <4>2. NoSep(data, Back(any), end)
        BY <1>5, <2>2, <3>2, <4>1, NoSepJoin
      <4> QED
        BY <3>2, <4>2
    <3>3. CASE r.any = NewMark
      <4>1. Back(r.any) \in Nat /\ op.offset <= Back(r.any)
        <5>1. op.opptr = 0 => op.offset = 0
          BY <1>3 DEF PSep, Behind, Active
        <5> QED
          BY <1>5, <3>3, <5>1 DEF Back, NewMark
      <4>2. NoSep(data, Back(r.any), end)
        BY <1>5, <2>2, <4>1, NoSepLater
      <4> QED
        BY <4>2
    <3> QED
      BY <1>4, <3>1, <3>2, <3>3
  <2>4. Behind'
    <3>1. op'.opptr # 0
      BY <1>5, <2>1
    <3> QED
      BY <1>1, <2>1, <2>3, <3>1 DEF Behind
  <2>5. pc = "retest" => NoSep(data, end, N)
    BY <1>5, <1>6, NoSepLater
  <2>6. Ahead'
    <3>1. pc' \in Second => pc = "retest"
      BY <1>2 DEF Second
    <3> QED
      BY <1>1, <1>2, <2>1, <2>5, <3>1 DEF Ahead, N
  <2> QED
    BY <2>4, <2>6
<1> QED
  BY <1>1, <1>7, <1>8

(* Going back to the mark, or to the start, goes back past no separator.   *)
LEMMA SepOpRetries ==
  ASSUME SInv, subject \in Subjects, Plain(program), Proper(program), PText, PSep,
         pc \in {"test", "retest"}, OpRetries, UNCHANGED callVars
  PROVE  Behind' /\ Ahead'
PROOF
<1> DEFINE r == vm_op
<1>1. /\ Executing(r) /\ CanRetry(r.any, r.deep) /\ vm_restore(r.any, r.deep)
      /\ state' = "CONTINUE" /\ UNCHANGED <<program, data, length>>
  BY DEF OpRetries, Returning
<1>2. UNCHANGED <<subject, pc>>
  BY DEF callVars
<1> HIDE DEF r
<1>3. /\ OutcomeOK(r) /\ state = "CONTINUE" /\ r.deep = NoMark
      /\ \/ r.any = NoMark
         \/ r.any.offset # 0 /\ r.any = any /\ NoSep(data, Back(any), op.offset)
         \/ r.any = NewMark
  BY <1>1, MarkOutcome DEF PSep
<1>4. NoMark.opptr = 0 /\ NoMark.offset = 0
  BY DEF NoMark
<1>5. r.any.offset # 0 /\ op.opptr # 0
  BY <1>1, <1>3, <1>4 DEF CanRetry
<1>6. /\ op.offset \in Nat /\ op.opptr \in Nat /\ any.offset \in Nat /\ any.opptr \in Nat
      /\ N \in Nat
  BY PositionFacts, SubjectFacts DEF N
<1>7. pc = "retest" => NoSep(data, op.offset, N)
  BY <1>3 DEF PSep, Ahead, Second
<1>8. pc = "retest" => NoSep(data, Back(r.any), N)
  <2>1. CASE r.any = any /\ NoSep(data, Back(any), op.offset)
    <3>1. Back(any) \in Nat
      BY <1>6 DEF Back
    <3>2. pc = "retest" => NoSep(data, Back(any), N)
      BY <1>6, <1>7, <2>1, <3>1, NoSepJoin
    <3> QED
      BY <2>1, <3>2
  <2>2. CASE r.any = NewMark
    <3>1. Back(r.any) \in Nat /\ op.offset <= Back(r.any)
      BY <1>5, <1>6, <2>2 DEF Back, NewMark
    <3> QED
      BY <1>6, <1>7, <3>1, NoSepLater
  <2> QED
    BY <1>3, <1>4, <1>5, <2>1, <2>2
<1>9. /\ op'.offset = Back(r.any)
      /\ op'.opptr = 0 => op'.offset = 0
      /\ any'.offset # 0 => op'.offset = 0 /\ any'.opptr \in Nat /\ any'.offset \in Nat
  <2>1. r.any.opptr \in Nat /\ r.any.offset \in Nat
    BY <1>3 DEF OutcomeOK, Frame
  <2>2. CASE r.any.opptr > r.deep.opptr
    <3>1. op' = r.any /\ any' = NoMark
      BY <1>1, <2>2 DEF vm_restore
    <3> QED
      BY <1>3, <1>4, <2>1, <2>2, <3>1 DEF Back
  <2>3. CASE ~(r.any.opptr > r.deep.opptr)
    <3>1. op' = NoMark /\ any' = r.any
      BY <1>1, <1>3, <2>3 DEF vm_restore
    <3>2. r.any.opptr = 0
      BY <1>3, <1>4, <2>1, <2>3
    <3> QED
      BY <1>4, <2>1, <3>1, <3>2 DEF Back
  <2> QED
    BY <2>2, <2>3
<1>10. any'.offset # 0 => NoSep(data, Back(any'), op'.offset)
  <2>1. any'.offset # 0 => op'.offset = 0 /\ Back(any') \in Nat
    BY <1>9 DEF Back
  <2> QED
    BY <2>1, NoSepEmpty
<1>11. Behind'
  <2>1. any'.offset # 0 => NoSep(data', Back(any'), op'.offset)
    BY <1>1, <1>10
  <2> QED
    BY <1>1, <1>9, <2>1 DEF Behind, Back
<1>12. Ahead'
  <2>1. pc' \in Second => pc = "retest"
    BY <1>2 DEF Second
  <2> QED
    BY <1>1, <1>2, <1>8, <1>9, <2>1 DEF Ahead, N
<1> QED
  BY <1>11, <1>12


(* What the call does to the context besides executing instructions.       *)
LEMMA SepEnter ==
  ASSUME PSep, Enter \/ Test \/ UNCHANGED patternVars
  PROVE  Behind' /\ Ahead'
PROOF
<1>1. UNCHANGED <<data, op, any, state, opcode, subject>>
  BY DEF Enter, Test, Returned, Goto, Answer, vars, patternVars, callVars
<1>2. pc' \in Second => pc' = pc
  BY DEF Enter, Test, Goto, Answer, Second, patternVars, callVars
<1>3. Behind'
  BY <1>1 DEF PSep, Behind, Active
<1>4. Ahead'
  BY <1>1, <1>2 DEF PSep, Ahead, N, Second
<1> QED
  BY <1>3, <1>4

LEMMA SepPushSubject ==
  ASSUME PText, PushSubject
  PROVE  Behind' /\ Ahead'
PROOF
<1>1. pc' = "match" /\ state' = "CONTINUE" /\ op' = NoMark /\ any' = NoMark
  BY DEF PText, Loaded, InStep, PushSubject, Push, Goto
<1>2. Behind'
  BY <1>1 DEF Behind, NoMark
<1>3. Ahead'
  BY <1>1 DEF Ahead, Second
<1> QED
  BY <1>2, <1>3

LEMMA SepCallMatch ==
  ASSUME SInv, subject \in Subjects, PText, PSep, CallMatch
  PROVE  Behind' /\ Ahead'
PROOF
<1>1. /\ UNCHANGED <<data, any, opcode, subject>> /\ Match
      /\ \/ pc = "match" /\ pc' = "test"
         \/ pc = "rematch" /\ pc' = "retest"
  BY DEF CallMatch, Match, Goto
<1>2. CASE state = "CONTINUE"
  <2>1. state' = "CONTINUE" /\ op' = op
    BY <1>1, <1>2 DEF Match, Returning
  <2>2. Behind'
    BY <1>1, <1>2, <2>1 DEF PSep, Behind, Active
  <2>3. Ahead'
    BY <1>1, <1>2, <2>1 DEF PSep, Ahead, N, Second
  <2> QED
    BY <2>2, <2>3
<1>3. CASE state = "MATCH"
  <2>1. pc' = "test" /\ any'.offset = 0
    BY <1>1, <1>3 DEF PText, InStep, PSep, Behind
  <2>2. /\ state' \in {"POP", "STOP", "CONTINUE"}
        /\ state' = "CONTINUE" => op' = [op EXCEPT !.opptr = @ + 1]
    BY <1>1, <1>3 DEF Match, Returning
  <2>3. state' = "CONTINUE" => op'.opptr # 0
    BY <2>2, PositionFacts DEF Frame
  <2>4. Behind'
    BY <2>1, <2>2, <2>3 DEF Behind, Active
  <2>5. Ahead'
    BY <2>1 DEF Ahead, Second
  <2> QED
    BY <2>4, <2>5
<1> QED
  BY <1>1, <1>2, <1>3 DEF PText, InStep

LEMMA SepIterate ==
  ASSUME SInv, subject \in Subjects, Plain(program), Proper(program), PText, PSep, Iterate
  PROVE  Behind' /\ Ahead'
PROOF
<1>1. UNCHANGED callVars /\ Running
  BY DEF Iterate
<1>2. pc \in {"test", "retest"} /\ state = "CONTINUE"
  BY <1>1, PositionFacts DEF PText, InStep, Running, NeedInput, OpMatches, OpRetries, OpFails,
     Executing, TypeOK
<1>3. CASE NeedInput
  <2>1. UNCHANGED <<data, op, any>> /\ state' = "PUSH"
    BY <1>3 DEF NeedInput, Returning, vmVars
  <2>2. Behind'
    BY <1>2, <2>1 DEF PSep, Behind, Active
  <2>3. Ahead'
    BY <2>1 DEF Ahead
  <2> QED
    BY <2>2, <2>3
<1>4. CASE OpFails
  <2>1. state' = "NOMATCH"
    BY <1>4 DEF OpFails, Returning
  <2> QED
    BY <2>1 DEF Behind, Ahead, Active
<1> QED
  BY <1>1, <1>2, <1>3, <1>4, SepOpMatches, SepOpRetries DEF Running

LEMMA SepPushTerminator ==
  ASSUME SInv, subject \in Subjects, PText, PSep, PushTerminator
  PROVE  Behind' /\ Ahead'
PROOF
<1>1. /\ pc' = "rematch" /\ subject' = subject
      /\ N \in Nat /\ op.offset = N /\ state = "PUSH" /\ state' = "CONTINUE"
      /\ UNCHANGED <<op, any>>
  BY TerminatorPushed
<1>2. Back(any) \in Nat
  BY PositionFacts DEF Back
<1>3. any.offset # 0 => NoSep(data', Back(any), op.offset)
  <2> SUFFICES ASSUME any.offset # 0, NEW k \in Back(any)..op.offset - 1
               PROVE  data'[k] # Sep
    BY DEF NoSep
  <2>1. k \in 0..N /\ k < N
    BY <1>1, <1>2
  <2>2. data'[k] = data[k]
    BY <2>1, TerminatorPushed
  <2>3. data[k] # Sep
    BY <1>1 DEF PSep, Behind, Active, NoSep
  <2> QED
    BY <2>2, <2>3
<1>4. Behind'
  BY <1>1, <1>3 DEF PSep, Behind, Active, Back
<1>5. NoSep(data', op.offset, N)
  BY <1>1, NoSepEmpty
<1>6. Ahead'
  BY <1>1, <1>5 DEF Ahead, N
<1> QED
  BY <1>4, <1>6

LEMMA SepRetest ==
  ASSUME PText, PSep, Retest
  PROVE  Behind' /\ Ahead'
PROOF
<1>1. UNCHANGED <<data, op, any, state, opcode>>
  BY DEF Retest, Returned, vars
<1>2. pc' \notin Second
  BY DEF Retest, Goto, Answer, Second
<1>3. Behind'
  BY <1>1 DEF PSep, Behind, Active
<1>4. Ahead'
  BY <1>2 DEF Ahead, Second
<1> QED
  BY <1>3, <1>4

-----------------------------------------------------------------------------
(* The answer.                                                             *)

(* A full match of the subject and the terminator is one of the subject.   *)
LEMMA MatchIsGlob ==
  ASSUME SInv, subject \in Subjects, Loaded, pc = "retest", state = "MATCH", opcode = "END"
  PROVE  SubjectGlobs
PROOF
<1>1. /\ op.offset \in Nat /\ N \in Nat /\ op.offset <= N + 1
  BY PositionFacts, SubjectFacts DEF Loaded, Second, N
<1>2. op.offset > 0
  BY DEF SInv, IInv, MatchAtBoundary
<1>3. data[op.offset - 1] = Nul /\ Globs(program, data, op.offset - 1)
  BY DEF SInv, MatchIsSound
<1>4. \A i \in 0..N : i < N => data[i] = subject[i + 1]
  BY DEF Loaded, Second, Text, N
<1>5. op.offset - 1 = N
  <2> SUFFICES ASSUME op.offset - 1 # N PROVE FALSE
    OBVIOUS
  <2>1. op.offset - 1 \in 0..N /\ op.offset - 1 < N /\ (op.offset - 1) + 1 \in 1..N
    BY <1>1, <1>2
  <2>2. data[op.offset - 1] = subject[(op.offset - 1) + 1]
    BY <1>4, <2>1
  <2> QED
    BY <1>3, <2>1, <2>2, SubjectFacts DEF N
<1>6. Agree(data, SubjectData, N)
  <2> SUFFICES ASSUME NEW k \in 0..N, k < N PROVE SubjectData[k] = data[k]
    BY DEF Agree
  <2>1. k \in 0..Len(subject) - 1
    BY <1>1 DEF N
  <2>2. SubjectData[k] = subject[k + 1]
    BY <2>1 DEF SubjectData
  <2> QED
    BY <1>4, <2>2
<1>7. program \in Seq(Instruction) /\ Len(program) \in Nat /\ Len(program) > 0
  BY PositionFacts, ProgramsAssumption DEF TypeOK, WellFormed
<1> DEFINE last == Len(program) - 1
<1>8. last \in Nat /\ last <= Len(program)
  BY <1>7
<1>9. PathTo(program, data, last, N)
  BY <1>3, <1>5 DEF Globs
<1> HIDE DEF last
<1>10. PathTo(program, SubjectData, last, N)
  BY <1>1, <1>6, <1>7, <1>8, <1>9, PathAgree
<1> QED
  BY <1>10 DEF SubjectGlobs, Globs, last, N

LEMMA AnsweredNext ==
  ASSUME SInv, subject \in Subjects, PText, PSep, [PatternNext]_patternVars
  PROVE  Answered'
PROOF
<1>1. subject' = subject /\ program' = program
  BY PStreams
<1>2. SubjectGlobs' <=> SubjectGlobs
  BY <1>1 DEF SubjectGlobs, SubjectData
<1>3. CASE answer' # "0" \/ answer' = answer
  BY <1>2, <1>3 DEF PSep, Answered
<1>4. CASE Retest
  <2>1. CASE answer' = "0"
    <3>1. pc = "retest" /\ state = "MATCH"
      BY <1>4, <2>1 DEF Retest, Answer, Goto, PSep, Answered, PText, InStep, Returned
    <3>2. opcode = "END"
      BY <3>1 DEF PSep, Ahead
    <3>3. SubjectGlobs
      BY <3>1, <3>2, MatchIsGlob DEF PText
    <3> QED
      BY <1>2, <3>3 DEF Answered
  <2> QED
    BY <2>1 DEF Answered
<1>5. CASE Test
  <2>1. answer' = answer \/ (state = "NOMATCH" /\ answer' = "FNM_NOMATCH")
    BY <1>5 DEF Test, Goto, Answer
  <2> QED
    BY <1>3, <2>1
<1>6. CASE Enter
  <2>1. answer' = answer \/ answer' = "FNM_NOSYS"
    BY <1>6 DEF Enter, Goto
  <2> QED
    BY <1>3, <2>1
<1>7. CASE PushSubject \/ CallMatch \/ Iterate \/ PushTerminator \/ Ended \/ UNCHANGED patternVars
  <2>1. answer' = answer
    BY <1>7 DEF PushSubject, CallMatch, Iterate, PushTerminator, Ended, Goto, patternVars, callVars
  <2> QED
    BY <1>3, <2>1
<1> QED
  BY <1>4, <1>5, <1>6, <1>7 DEF PatternNext, PatternStep

LEMMA SepNext ==
  ASSUME SInv, subject \in Subjects, Plain(program), Proper(program), PText, PSep,
         [PatternNext]_patternVars
  PROVE  PSep'
PROOF
<1> SUFFICES Behind' /\ Ahead'
  BY AnsweredNext DEF PSep
<1>1. CASE Enter \/ Test \/ UNCHANGED patternVars
  BY <1>1, SepEnter
<1>2. CASE PushSubject
  BY <1>2, SepPushSubject
<1>3. CASE CallMatch
  BY <1>3, SepCallMatch
<1>4. CASE Iterate
  BY <1>4, SepIterate
<1>5. CASE PushTerminator
  BY <1>5, SepPushTerminator
<1>6. CASE Retest
  BY <1>6, SepRetest
<1>7. CASE Ended
  BY <1>7, SepEnter DEF Ended
<1> QED
  BY <1>1, <1>2, <1>3, <1>4, <1>5, <1>6, <1>7 DEF PatternNext, PatternStep

-----------------------------------------------------------------------------
(* Theorems.                                                               *)

LEMMA PInitOK == PatternInit => PInv
PROOF
<1> SUFFICES ASSUME PatternInit PROVE PInv
  OBVIOUS
<1>1. /\ pc = "enter" /\ answer = "none" /\ subject \in Subjects /\ N \in Nat
      /\ length = 0 /\ op = NoMark /\ any = NoMark /\ deep = NoMark
      /\ state = "PUSH" /\ call = "idle"
  BY SubjectFacts DEF PatternInit, Init, N
<1>2. SInv
  BY SInitOK DEF PatternInit
<1>3. Loaded
  BY <1>1 DEF Loaded, First, Second
<1>4. InStep
  BY <1>1 DEF InStep, NoMark
<1>5. Reach
  BY <1>1 DEF Reach, NoMark
<1>6. Behind /\ Ahead /\ Answered
  BY <1>1 DEF Behind, Ahead, Answered, NoMark
<1> QED
  BY <1>1, <1>2, <1>3, <1>4, <1>5, <1>6 DEF PInv

LEMMA PNextOK == PInv /\ [PatternNext]_patternVars => PInv'
PROOF
<1> SUFFICES ASSUME PInv, [PatternNext]_patternVars PROVE PInv'
  OBVIOUS
<1>1. SInv /\ subject \in Subjects
  BY DEF PInv
<1>2. SInv' /\ subject' = subject /\ program' = program
  BY <1>1, PStreams
<1>3. ASSUME Proper(program) PROVE PText'
  BY <1>1, <1>3, TextNext DEF PInv, PText
<1>4. ASSUME Proper(program), Plain(program) PROVE PSep'
  BY <1>1, <1>4, SepNext DEF PInv, PText, PSep
<1> QED
  BY <1>1, <1>2, <1>3, <1>4 DEF PInv, PText, PSep

LEMMA CallInvariance == PatternSpec => []PInv
PROOF
<1>1. PatternInit => PInv
  BY PInitOK
<1>2. PInv /\ [PatternNext]_patternVars => PInv'
  BY PNextOK
<1> QED
  BY <1>1, <1>2, PTL DEF PatternSpec

(* The assertions of fnmatch_pattern_match hold: after the whole subject   *)
(* the machine asks for more input or reports a mismatch, and after the    *)
(* terminator it has its answer.                                           *)
THEOREM AssertionsNeverFail == PatternSpec => []AssertionsHold
PROOF
<1>1. PInv => AssertionsHold
  <2> SUFFICES ASSUME PInv, Proper(program), subject # <<>> PROVE pc # "abort"
    BY DEF AssertionsHold
  <2>1. N # 0
    BY SubjectFacts DEF PInv, N
  <2> QED
    BY <2>1 DEF PInv, InStep
<1> QED
  BY <1>1, CallInvariance, PTL

(* fnmatch returns 0 only for strings that the pattern matches, piece by   *)
(* piece and byte by byte: a partial match of a component never counts as  *)
(* a match of the whole string.                                            *)
THEOREM ZeroAnswersAreMatches == PatternSpec => []ZeroIsMatch
PROOF
<1>1. PInv => ZeroIsMatch
  BY ProperIsPlain DEF PInv, ZeroIsMatch, Answered
<1> QED
  BY <1>1, CallInvariance, PTL

-----------------------------------------------------------------------------
(* Completeness.  The machine tries the pieces of a subject one by one and *)
(* from the shortest, and remembers two places to go back to: why that is  *)
(* enough, for one star in a component and one double star.                *)

Bytes(sub) == [i \in 0..Len(sub) - 1 |-> sub[i + 1]]

(* The instructions m to n - 1 accept the bytes of the subject from i up   *)
(* to e.                                                                   *)
Takes(p, sub, m, i, n, e) ==
  \E cut \in [m..n -> 0..Len(sub)] :
    /\ cut[m] = i
    /\ cut[n] = e
    /\ \A k \in m + 1..n : Accepts(p[k], Bytes(sub), cut[k - 1], cut[k])

(* The program from instruction m on accepts the rest of the subject.      *)
Rest(p, sub, m, i) == Takes(p, sub, m, i, Len(p) - 1, Len(sub))

LEMMA TakesNone ==
  ASSUME NEW p, NEW sub, Len(sub) \in Nat, NEW m \in Nat, NEW i \in 0..Len(sub)
  PROVE  Takes(p, sub, m, i, m, i)
PROOF
<1> DEFINE cut == [k \in m..m |-> i]
<1>1. cut \in [m..m -> 0..Len(sub)] /\ cut[m] = i
  OBVIOUS
<1>2. \A k \in m + 1..m : FALSE
  OBVIOUS
<1> HIDE DEF cut
<1> QED
  BY <1>1, <1>2 DEF Takes

LEMMA TakesNoneEnds ==
  ASSUME NEW p, NEW sub, NEW m \in Nat, NEW i, NEW e, Takes(p, sub, m, i, m, e)
  PROVE  e = i
PROOF
  BY DEF Takes

LEMMA TakesOne ==
  ASSUME NEW p, NEW sub, Len(sub) \in Nat, NEW m \in Nat,
         NEW i \in 0..Len(sub), NEW e \in 0..Len(sub),
         Accepts(p[m + 1], Bytes(sub), i, e)
  PROVE  Takes(p, sub, m, i, m + 1, e)
PROOF
<1> DEFINE cut == [k \in m..m + 1 |-> IF k = m THEN i ELSE e]
<1>1. cut \in [m..m + 1 -> 0..Len(sub)] /\ cut[m] = i /\ cut[m + 1] = e
  OBVIOUS
<1>2. \A k \in m + 1..m + 1 : k = m + 1 /\ k - 1 = m
  OBVIOUS
<1> HIDE DEF cut
<1>3. \A k \in m + 1..m + 1 : Accepts(p[k], Bytes(sub), cut[k - 1], cut[k])
  BY <1>1, <1>2
<1> QED
  BY <1>1, <1>3 DEF Takes

LEMMA TakesOneAccepts ==
  ASSUME NEW p, NEW sub, NEW m \in Nat, NEW i, NEW e, Takes(p, sub, m, i, m + 1, e)
  PROVE  Accepts(p[m + 1], Bytes(sub), i, e)
PROOF
<1>1. PICK cut : /\ cut[m] = i /\ cut[m + 1] = e
                 /\ \A k \in m + 1..m + 1 : Accepts(p[k], Bytes(sub), cut[k - 1], cut[k])
  BY DEF Takes
<1>2. m + 1 \in m + 1..m + 1 /\ (m + 1) - 1 = m
  OBVIOUS
<1>3. Accepts(p[m + 1], Bytes(sub), cut[(m + 1) - 1], cut[m + 1])
  BY <1>1, <1>2
<1> QED
  BY <1>1, <1>2, <1>3

LEMMA TakesSplit ==
  ASSUME NEW p, NEW sub, NEW m \in Nat, NEW q \in Nat, NEW n \in Nat, m <= q, q <= n,
         NEW i, NEW e, Takes(p, sub, m, i, n, e)
  PROVE  \E c \in 0..Len(sub) : Takes(p, sub, m, i, q, c) /\ Takes(p, sub, q, c, n, e)
PROOF
<1>1. PICK cut \in [m..n -> 0..Len(sub)] :
        /\ cut[m] = i /\ cut[n] = e
        /\ \A k \in m + 1..n : Accepts(p[k], Bytes(sub), cut[k - 1], cut[k])
  BY DEF Takes
<1>2. cut[q] \in 0..Len(sub)
  OBVIOUS
<1>3. Takes(p, sub, m, i, q, cut[q])
  <2> DEFINE lower == [k \in m..q |-> cut[k]]
  <2>1. lower \in [m..q -> 0..Len(sub)] /\ lower[m] = cut[m] /\ lower[q] = cut[q]
    OBVIOUS
  <2>2. \A k \in m + 1..q : k \in m + 1..n /\ lower[k] = cut[k] /\ lower[k - 1] = cut[k - 1]
    OBVIOUS
  <2> HIDE DEF lower
  <2>3. \A k \in m + 1..q : Accepts(p[k], Bytes(sub), lower[k - 1], lower[k])
    BY <1>1, <2>2
  <2> QED
    BY <1>1, <2>1, <2>3 DEF Takes
<1>4. Takes(p, sub, q, cut[q], n, e)
  <2> DEFINE right == [k \in q..n |-> cut[k]]
  <2>1. right \in [q..n -> 0..Len(sub)] /\ right[q] = cut[q] /\ right[n] = cut[n]
    OBVIOUS
  <2>2. \A k \in q + 1..n : k \in m + 1..n /\ right[k] = cut[k] /\ right[k - 1] = cut[k - 1]
    OBVIOUS
  <2> HIDE DEF right
  <2>3. \A k \in q + 1..n : Accepts(p[k], Bytes(sub), right[k - 1], right[k])
    BY <1>1, <2>2
  <2> QED
    BY <1>1, <2>1, <2>3 DEF Takes
<1> QED
  BY <1>2, <1>3, <1>4

LEMMA TakesJoin ==
  ASSUME NEW p, NEW sub, NEW m \in Nat, NEW q \in Nat, NEW n \in Nat, m <= q, q <= n,
         NEW i, NEW c, NEW e, Takes(p, sub, m, i, q, c), Takes(p, sub, q, c, n, e)
  PROVE  Takes(p, sub, m, i, n, e)
PROOF
<1>1. PICK lower \in [m..q -> 0..Len(sub)] :
        /\ lower[m] = i /\ lower[q] = c
        /\ \A k \in m + 1..q : Accepts(p[k], Bytes(sub), lower[k - 1], lower[k])
  BY DEF Takes
<1>2. PICK right \in [q..n -> 0..Len(sub)] :
        /\ right[q] = c /\ right[n] = e
        /\ \A k \in q + 1..n : Accepts(p[k], Bytes(sub), right[k - 1], right[k])
  BY DEF Takes
<1> DEFINE cut == [k \in m..n |-> IF k <= q THEN lower[k] ELSE right[k]]
<1>3. /\ cut \in [m..n -> 0..Len(sub)]
      /\ \A k \in m..q : cut[k] = lower[k]
      /\ \A k \in q..n : cut[k] = right[k]
  BY <1>1, <1>2
<1> HIDE DEF cut
<1>4. cut[m] = i /\ cut[n] = e
  BY <1>1, <1>2, <1>3
<1>5. ASSUME NEW k \in m + 1..n PROVE Accepts(p[k], Bytes(sub), cut[k - 1], cut[k])
  <2>1. CASE k <= q
    <3>1. k \in m + 1..q /\ cut[k] = lower[k] /\ cut[k - 1] = lower[k - 1]
      BY <1>3, <2>1
    <3> QED
      BY <1>1, <3>1
  <2>2. CASE q < k
    <3>1. k \in q + 1..n /\ cut[k] = right[k] /\ cut[k - 1] = right[k - 1]
      BY <1>3, <2>2
    <3> QED
      BY <1>2, <3>1
  <2> QED
    BY <2>1, <2>2
<1> QED
  BY <1>3, <1>4, <1>5 DEF Takes

(* Programs and subjects for which fnmatch has to find every match.        *)
Fit(p, sub) ==
  /\ WellFormed(p) /\ Proper(p) /\ SingleStars(p)
  /\ sub \in Seq(Byte \ {Nul})

Sized == {"FIXED", "CHARS", "ONE"}
Star  == {"ANY", "DEEP"}

Width(ins) == IF ins.op = "FIXED" THEN Len(ins.str) ELSE 1

LEMMA FitFacts ==
  ASSUME NEW p, NEW sub, Fit(p, sub)
  PROVE  /\ Len(sub) \in Nat
         /\ Len(p) \in Nat /\ Len(p) - 1 \in Nat
         /\ \A k \in 1..Len(p) :
              /\ p[k] \in Instruction
              /\ p[k].op \in Opcode
              /\ p[k].op = "END" <=> k = Len(p)
              /\ Width(p[k]) \in Nat
              /\ p[k].op = "CHARS" => Sep \notin p[k].set
              /\ \A h \in 1..Len(p[k].str) : p[k].str[h] # Sep
         /\ \A k \in 0..Len(sub) - 1 : Bytes(sub)[k] \in Byte /\ Bytes(sub)[k] # Nul
PROOF
<1>1. Len(sub) \in Nat /\ \A k \in 1..Len(sub) : sub[k] \in Byte \ {Nul}
  BY DEF Fit
<1>2. p \in Seq(Instruction) /\ Len(p) \in Nat /\ Len(p) > 0
  BY DEF Fit, WellFormed
<1>3. ASSUME NEW k \in 1..Len(p)
      PROVE  /\ p[k] \in Instruction
             /\ p[k].op \in Opcode
             /\ p[k].op = "END" <=> k = Len(p)
             /\ Width(p[k]) \in Nat
             /\ p[k].op = "CHARS" => Sep \notin p[k].set
             /\ \A h \in 1..Len(p[k].str) : p[k].str[h] # Sep
  <2>1. p[k] \in Instruction
    BY <1>2
  <2>2. p[k].op \in Opcode /\ p[k].str \in Seq(Byte) /\ Len(p[k].str) \in Nat
    BY <2>1 DEF Instruction
  <2>3. p[k].op = "END" <=> k = Len(p)
    BY DEF Fit, WellFormed
  <2>4. (p[k].op = "CHARS" => Sep \notin p[k].set) /\ \A h \in 1..Len(p[k].str) : p[k].str[h] # Sep
    BY DEF Fit, Proper
  <2> QED
    BY <2>1, <2>2, <2>3, <2>4 DEF Width
<1>4. ASSUME NEW k \in 0..Len(sub) - 1 PROVE Bytes(sub)[k] \in Byte /\ Bytes(sub)[k] # Nul
  <2>1. k + 1 \in 1..Len(sub) /\ Bytes(sub)[k] = sub[k + 1]
    BY <1>1 DEF Bytes
  <2> QED
    BY <1>1, <2>1
<1> QED
  BY <1>1, <1>2, <1>3, <1>4

(* Between two stars, and behind the only double star.                     *)
LEMMA StarFacts ==
  ASSUME NEW p, NEW sub, Fit(p, sub),
         NEW i \in 0..Len(p) - 1, NEW j \in 0..Len(p) - 1, i < j,
         p[i + 1].op \in Star, p[j + 1].op \in Star
  PROVE  \/ p[i + 1].op = "DEEP" /\ p[j + 1].op = "ANY"
         \/ \E k \in i + 1..j - 1 : p[i + 1].op = "ANY" /\ p[k + 1].op = "SEP"
PROOF
<1>1. i + 1 \in 1..Len(p) /\ j + 1 \in 1..Len(p) /\ i + 1 < j + 1
  BY FitFacts
<1>2. \/ p[i + 1].op = "DEEP" /\ p[j + 1].op = "ANY"
      \/ p[i + 1].op = "ANY" /\ \E k \in i + 1..j + 1 : p[k].op = "SEP"
  BY <1>1 DEF Fit, SingleStars, Star
<1>3. CASE p[i + 1].op = "ANY" /\ \E k \in i + 1..j + 1 : p[k].op = "SEP"
  <2>1. PICK k \in i + 1..j + 1 : p[k].op = "SEP"
    BY <1>3
  <2>2. k # i + 1 /\ k # j + 1
    BY <2>1 DEF Star
  <2>3. k - 1 \in i + 1..j - 1 /\ (k - 1) + 1 = k
    BY <2>2
  <2> QED
    BY <1>3, <2>1, <2>3
<1> QED
  BY <1>2, <1>3

(* An instruction of fixed width accepts one piece only, and none of them  *)
(* but SEP a separator.                                                    *)
LEMMA AcceptsWidth ==
  ASSUME NEW p, NEW sub, Fit(p, sub), NEW m \in 0..Len(p) - 1,
         NEW i \in 0..Len(sub), NEW j \in 0..Len(sub),
         p[m + 1].op \in Sized \cup {"SEP"}, Accepts(p[m + 1], Bytes(sub), i, j)
  PROVE  /\ j = i + Width(p[m + 1])
         /\ p[m + 1].op = "SEP" => Bytes(sub)[i] = Sep
         /\ p[m + 1].op # "SEP" => NoSep(Bytes(sub), i, j)
PROOF
<1> DEFINE ins == p[m + 1]
<1>1. /\ m + 1 \in 1..Len(p) /\ Width(ins) \in Nat
      /\ ins.op = "CHARS" => Sep \notin ins.set
      /\ \A h \in 1..Len(ins.str) : ins.str[h] # Sep
  BY FitFacts
<1> HIDE DEF ins
<1>2. Accepts(ins, Bytes(sub), i, j) /\ ins.op \in Sized \cup {"SEP"}
  BY DEF ins
<1>3. CASE ins.op = "FIXED"
  <2>1. j = i + Len(ins.str) /\ \A k \in 1..Len(ins.str) : Bytes(sub)[i + k - 1] = ins.str[k]
    BY <1>2, <1>3 DEF Accepts
  <2>2. ASSUME NEW k \in i..j - 1 PROVE Bytes(sub)[k] # Sep
    <3>1. k - i + 1 \in 1..Len(ins.str) /\ i + (k - i + 1) - 1 = k
      BY <1>1, <1>3, <2>1 DEF Width
    <3>2. Bytes(sub)[i + (k - i + 1) - 1] = ins.str[k - i + 1]
      BY <2>1, <3>1
    <3> QED
      BY <1>1, <3>1, <3>2
  <2> QED
    BY <1>3, <2>1, <2>2 DEF Width, NoSep, ins
<1>4. CASE ins.op # "FIXED"
  <2>1. j = i + 1
    BY <1>2, <1>4 DEF Accepts, Sized
  <2>2. ins.op = "SEP" => Bytes(sub)[i] = Sep
    BY <1>2 DEF Accepts
  <2>3. ins.op # "SEP" => Bytes(sub)[i] # Sep
    BY <1>1, <1>2, <1>4 DEF Accepts, Sized
  <2>4. \A k \in i..j - 1 : k = i
    BY <2>1
  <2> QED
    BY <1>4, <2>1, <2>2, <2>3, <2>4 DEF Width, NoSep, ins
<1> QED
  BY <1>3, <1>4

(* The first instruction of a rest, and how a rest goes through a later    *)
(* instruction.                                                            *)
LEMMA RestFirst ==
  ASSUME NEW p, NEW sub, Fit(p, sub), NEW m \in 0..Len(p) - 1, NEW i \in 0..Len(sub),
         p[m + 1].op # "END"
  PROVE  /\ m + 1 \in 0..Len(p) - 1
         /\ Rest(p, sub, m, i) =>
              \E j \in 0..Len(sub) : Accepts(p[m + 1], Bytes(sub), i, j) /\ Rest(p, sub, m + 1, j)
         /\ \A j \in 0..Len(sub) :
              Accepts(p[m + 1], Bytes(sub), i, j) /\ Rest(p, sub, m + 1, j) => Rest(p, sub, m, i)
PROOF
<1>1. /\ Len(p) \in Nat /\ Len(p) - 1 \in Nat /\ Len(sub) \in Nat /\ m \in Nat /\ m + 1 \in Nat
      /\ m + 1 \in 0..Len(p) - 1 /\ m <= m + 1 /\ m + 1 <= Len(p) - 1
  <2>1. Len(p) \in Nat /\ Len(p) - 1 \in Nat /\ Len(sub) \in Nat /\ m + 1 # Len(p)
    BY FitFacts
  <2> QED
    BY <2>1
<1>2. ASSUME Rest(p, sub, m, i)
      PROVE  \E j \in 0..Len(sub) : Accepts(p[m + 1], Bytes(sub), i, j) /\ Rest(p, sub, m + 1, j)
  <2>1. PICK j \in 0..Len(sub) :
          Takes(p, sub, m, i, m + 1, j) /\ Takes(p, sub, m + 1, j, Len(p) - 1, Len(sub))
    BY <1>1, <1>2, TakesSplit DEF Rest
  <2>2. Accepts(p[m + 1], Bytes(sub), i, j)
    BY <1>1, <2>1, TakesOneAccepts
  <2> QED
    BY <2>1, <2>2 DEF Rest
<1>3. ASSUME NEW j \in 0..Len(sub), Accepts(p[m + 1], Bytes(sub), i, j), Rest(p, sub, m + 1, j)
      PROVE  Rest(p, sub, m, i)
  <2>1. Takes(p, sub, m, i, m + 1, j)
    BY <1>1, <1>3, TakesOne
  <2> QED
    BY <1>1, <1>3, <2>1, TakesJoin DEF Rest
<1> QED
  BY <1>1, <1>2, <1>3

LEMMA RestThrough ==
  ASSUME NEW p, NEW sub, Fit(p, sub), NEW m \in 0..Len(p) - 1, NEW q \in 0..Len(p) - 1, m <= q,
         NEW i, Rest(p, sub, m, i)
  PROVE  \E c \in 0..Len(sub) : Takes(p, sub, m, i, q, c) /\ Rest(p, sub, q, c)
PROOF
<1>1. /\ Len(p) - 1 \in Nat /\ m \in Nat /\ q \in Nat /\ q <= Len(p) - 1
      /\ Takes(p, sub, m, i, Len(p) - 1, Len(sub))
  BY FitFacts DEF Rest
<1> QED
  BY <1>1, TakesSplit DEF Rest

(* The last of the instructions that take a piece.                         *)
LEMMA TakesLast ==
  ASSUME NEW p, NEW sub, NEW m \in Nat, NEW n \in Nat, m <= n,
         NEW i, NEW e, Takes(p, sub, m, i, n + 1, e)
  PROVE  \E c \in 0..Len(sub) :
           Takes(p, sub, m, i, n, c) /\ Accepts(p[n + 1], Bytes(sub), c, e)
PROOF
<1> DEFINE behind == n + 1
<1>1. behind \in Nat /\ n <= behind /\ Takes(p, sub, m, i, behind, e)
  OBVIOUS
<1> HIDE DEF behind
<1>2. PICK c \in 0..Len(sub) : Takes(p, sub, m, i, n, c) /\ Takes(p, sub, n, c, behind, e)
  BY <1>1, TakesSplit
<1>3. Accepts(p[n + 1], Bytes(sub), c, e)
  BY <1>2, TakesOneAccepts DEF behind
<1> QED
  BY <1>2, <1>3

(* A mark that is set and from which the rest can still be accepted.       *)
RestFrom(p, sub, mark) == mark.offset # 0 /\ Rest(p, sub, mark.opptr, mark.offset)

(* The machine is behind a star in a component: since the last piece that  *)
(* the star was given, only instructions of fixed width have matched, so   *)
(* that a piece that ends one byte later moves all that follows it by one. *)
Near(p, sub, pos, o, a) ==
  a.offset # 0 =>
    /\ a.opptr < pos /\ a.offset <= o + 1
    /\ p[a.opptr + 1].op = "ANY"
    /\ Bytes(sub)[a.offset - 1] # Sep
    /\ \A k \in a.opptr + 1..pos - 1 : p[k + 1].op \in Sized
    /\ \A i, e \in 0..Len(sub) :
         Takes(p, sub, a.opptr + 1, i, pos, e) =>
           e + a.offset = o + i + 1 /\ NoSep(Bytes(sub), i, e)

(* The machine is behind a double star: if a later piece of it leads to a  *)
(* match, then one that does so is where the machine is now or later, or   *)
(* the machine, or the mark of the other star, leads to one as well.       *)
Least(p, sub, pos, o, a, d) ==
  d.offset # 0 =>
    /\ d.opptr < pos
    /\ p[d.opptr + 1].op = "DEEP"
    /\ a.offset # 0 => d.opptr < a.opptr
    /\ \A e \in 0..Len(sub) :
         Takes(p, sub, d.opptr, d.offset, pos, e) /\ Rest(p, sub, pos, e) =>
           e >= o \/ Rest(p, sub, pos, o) \/ RestFrom(p, sub, a)

(* The machine at instruction pos and offset o, with the marks a and d,    *)
(* has not missed a match.                                                 *)
Search(p, sub, pos, o, a, d) ==
  /\ pos \in 0..Len(p) - 1 /\ o \in 0..Len(sub)
  /\ a \in Frame /\ a.offset <= Len(sub) /\ (a.offset = 0 => a = NoMark)
  /\ d \in Frame /\ d.offset <= Len(sub) /\ (d.offset = 0 => d = NoMark)
  /\ Near(p, sub, pos, o, a)
  /\ Least(p, sub, pos, o, a, d)
  /\ Rest(p, sub, pos, o) \/ RestFrom(p, sub, a) \/ RestFrom(p, sub, d)

LEMMA NoMarkFacts ==
  /\ NoMark \in Frame /\ NoMark.offset = 0 /\ NoMark.opptr = 0
  /\ \A p, sub, pos, o : Near(p, sub, pos, o, NoMark)
  /\ \A p, sub, pos, o, a : Least(p, sub, pos, o, a, NoMark)
  /\ \A p, sub : ~RestFrom(p, sub, NoMark)
PROOF
  BY DEF NoMark, Frame, Near, Least, RestFrom

(* A match by way of a longer piece of the star gets to the machine's      *)
(* instruction further on in the same component.                           *)
LEMMA StarFurther ==
  ASSUME NEW p, NEW sub, Fit(p, sub), NEW pos \in 0..Len(p) - 1, NEW o \in 0..Len(sub),
         NEW a \in Frame, Near(p, sub, pos, o, a), RestFrom(p, sub, a), a.offset <= Len(sub)
  PROVE  \E e \in 0..Len(sub) : o < e /\ NoSep(Bytes(sub), o, e) /\ Rest(p, sub, pos, e)
PROOF
<1>1. /\ Len(p) \in Nat /\ Len(sub) \in Nat /\ a.opptr \in Nat /\ a.offset \in Nat
      /\ a.offset # 0 /\ a.opptr < pos /\ a.offset <= o + 1
      /\ p[a.opptr + 1].op = "ANY" /\ Bytes(sub)[a.offset - 1] # Sep
      /\ \A i, e \in 0..Len(sub) :
           Takes(p, sub, a.opptr + 1, i, pos, e) =>
             e + a.offset = o + i + 1 /\ NoSep(Bytes(sub), i, e)
  BY FitFacts DEF Near, RestFrom, Frame
<1> DEFINE m == a.opptr
           start == a.offset
<1>2. m \in 0..Len(p) - 1 /\ start \in 0..Len(sub) /\ m + 1 <= pos /\ Rest(p, sub, m, start)
  BY <1>1 DEF RestFrom
<1> HIDE DEF m, start
<1>3. p[m + 1].op = "ANY"
  BY <1>1 DEF m
<1>4. m + 1 \in 0..Len(p) - 1
  BY <1>2, <1>3, RestFirst
<1>5. PICK i \in 0..Len(sub) : Accepts(p[m + 1], Bytes(sub), start, i) /\ Rest(p, sub, m + 1, i)
  BY <1>2, <1>3, RestFirst
<1>6. start <= i /\ NoSep(Bytes(sub), start, i)
  BY <1>3, <1>5 DEF Accepts, NoSep
<1>7. PICK e \in 0..Len(sub) : Takes(p, sub, m + 1, i, pos, e) /\ Rest(p, sub, pos, e)
  BY <1>2, <1>4, <1>5, RestThrough
<1>8. e + start = o + i + 1 /\ NoSep(Bytes(sub), i, e)
  BY <1>1, <1>7 DEF m, start
<1>9. o < e
  <2>1. start \in Nat /\ i \in Nat /\ e \in Nat /\ o \in Nat
    BY <1>1, <1>2
  <2> QED
    BY <1>6, <1>8, <2>1
<1>10. NoSep(Bytes(sub), o, e)
  <2> SUFFICES ASSUME NEW k \in o..e - 1 PROVE Bytes(sub)[k] # Sep
    BY DEF NoSep
  <2>1. start <= o + 1 /\ Bytes(sub)[start - 1] # Sep
    BY <1>1 DEF start
  <2>2. k = start - 1 \/ k \in start..i - 1 \/ k \in i..e - 1
    BY <1>2, <2>1
  <2> QED
    BY <1>6, <1>8, <2>1, <2>2 DEF NoSep
<1> QED
  BY <1>7, <1>9, <1>10

(* A separator ends what a star can do, and so does a literal that is too  *)
(* long for the rest of the subject: clearing the mark misses nothing.     *)
LEMMA StarEnds ==
  ASSUME NEW p, NEW sub, Fit(p, sub), NEW pos \in 0..Len(p) - 1, NEW o \in 0..Len(sub),
         NEW a \in Frame, Near(p, sub, pos, o, a), a.offset <= Len(sub),
         \/ o < Len(sub) /\ Bytes(sub)[o] = Sep
         \/ p[pos + 1].op = "FIXED" /\ o + Width(p[pos + 1]) > Len(sub)
  PROVE  ~RestFrom(p, sub, a)
PROOF
<1> SUFFICES ASSUME RestFrom(p, sub, a) PROVE FALSE
  OBVIOUS
<1>1. PICK e \in 0..Len(sub) : o < e /\ NoSep(Bytes(sub), o, e) /\ Rest(p, sub, pos, e)
  BY StarFurther
<1>2. Len(sub) \in Nat /\ Len(p) \in Nat /\ pos + 1 \in 1..Len(p) /\ Width(p[pos + 1]) \in Nat
  BY FitFacts
<1>3. CASE o < Len(sub) /\ Bytes(sub)[o] = Sep
  <2>1. o \in o..e - 1
    BY <1>1
  <2> QED
    BY <1>1, <1>3, <2>1 DEF NoSep
<1>4. CASE p[pos + 1].op = "FIXED" /\ o + Width(p[pos + 1]) > Len(sub)
  <2>1. PICK j \in 0..Len(sub) : Accepts(p[pos + 1], Bytes(sub), e, j)
    BY <1>1, <1>4, RestFirst
  <2>2. j = e + Width(p[pos + 1])
    BY <1>4, <2>1, AcceptsWidth DEF Sized
  <2> QED
    BY <1>1, <1>2, <1>4, <2>2
<1> QED
  BY <1>3, <1>4

(* An instruction of fixed width matches.                                  *)
LEMMA NearTakes ==
  ASSUME NEW p, NEW sub, Fit(p, sub), NEW pos \in 0..Len(p) - 1,
         NEW o \in 0..Len(sub), NEW o2 \in 0..Len(sub), NEW a \in Frame,
         Near(p, sub, pos, o, a), p[pos + 1].op \in Sized,
         Accepts(p[pos + 1], Bytes(sub), o, o2)
  PROVE  Near(p, sub, pos + 1, o2, a)
PROOF
<1> SUFFICES ASSUME a.offset # 0 PROVE Near(p, sub, pos + 1, o2, a)
  BY DEF Near
<1>1. /\ Len(sub) \in Nat /\ Len(p) \in Nat /\ a.opptr \in Nat /\ a.offset \in Nat
      /\ pos + 1 \in 1..Len(p) /\ Width(p[pos + 1]) \in Nat
  BY FitFacts DEF Frame
<1>2. /\ a.opptr < pos /\ a.offset <= o + 1
      /\ p[a.opptr + 1].op = "ANY" /\ Bytes(sub)[a.offset - 1] # Sep
      /\ \A k \in a.opptr + 1..pos - 1 : p[k + 1].op \in Sized
      /\ \A i, e \in 0..Len(sub) :
           Takes(p, sub, a.opptr + 1, i, pos, e) =>
             e + a.offset = o + i + 1 /\ NoSep(Bytes(sub), i, e)
  BY DEF Near
<1>3. o2 = o + Width(p[pos + 1])
  BY AcceptsWidth
<1>7. /\ a.opptr < pos /\ pos \in Nat /\ a.opptr + 1 \in Nat /\ a.opptr + 1 <= pos
      /\ o \in Nat /\ o2 \in Nat
  <2>1. a.opptr < pos
    BY <1>2
  <2> QED
    BY <1>1, <2>1
<1>4. a.opptr < pos + 1 /\ a.offset <= o2 + 1
  <2> DEFINE width == Width(p[pos + 1])
  <2>1. a.offset <= o + 1 /\ o2 = o + width
    BY <1>2, <1>3
  <2>2. width \in Nat /\ a.offset \in Nat /\ a.opptr \in Nat
    BY <1>1
  <2> HIDE DEF width
  <2> QED
    BY <1>7, <2>1, <2>2
<1>5. \A k \in a.opptr + 1..(pos + 1) - 1 : p[k + 1].op \in Sized
  <2> SUFFICES ASSUME NEW k \in a.opptr + 1..(pos + 1) - 1 PROVE p[k + 1].op \in Sized
    OBVIOUS
  <2>1. k = pos \/ k \in a.opptr + 1..pos - 1
    BY <1>1
  <2> QED
    BY <1>2, <2>1
<1>6. ASSUME NEW i \in 0..Len(sub), NEW e \in 0..Len(sub),
             Takes(p, sub, a.opptr + 1, i, pos + 1, e)
      PROVE  e + a.offset = o2 + i + 1 /\ NoSep(Bytes(sub), i, e)
  <2> DEFINE m == a.opptr + 1
  <2>1. m \in Nat /\ pos \in Nat /\ m <= pos
    BY <1>7
  <2>2. Takes(p, sub, m, i, pos + 1, e)
    BY <1>6
  <2> HIDE DEF m
  <2>3. PICK c \in 0..Len(sub) :
          Takes(p, sub, m, i, pos, c) /\ Accepts(p[pos + 1], Bytes(sub), c, e)
    BY <2>1, <2>2, TakesLast
  <2>4. c + a.offset = o + i + 1 /\ NoSep(Bytes(sub), i, c)
    BY <1>2, <2>3 DEF m
  <2>5. e = c + Width(p[pos + 1]) /\ NoSep(Bytes(sub), c, e)
    BY <2>3, AcceptsWidth DEF Sized
  <2>6. NoSep(Bytes(sub), i, e)
    <3> SUFFICES ASSUME NEW k \in i..e - 1 PROVE Bytes(sub)[k] # Sep
      BY DEF NoSep
    <3>1. k \in i..c - 1 \/ k \in c..e - 1
      OBVIOUS
    <3> QED
      BY <2>4, <2>5, <3>1 DEF NoSep
  <2>7. e + a.offset = o2 + i + 1
    <3> DEFINE start == a.offset
               width == Width(p[pos + 1])
    <3>1. /\ c \in Nat /\ i \in Nat /\ o \in Nat /\ start \in Nat /\ width \in Nat
          /\ c + start = o + i + 1 /\ e = c + width /\ o2 = o + width
      BY <1>1, <1>3, <2>4, <2>5
    <3> HIDE DEF start, width
    <3>2. e + start = o2 + i + 1
      BY <3>1
    <3> QED
      BY <3>2 DEF start
  <2> QED
    BY <2>6, <2>7
<1> QED
  BY <1>2, <1>4, <1>5, <1>6 DEF Near

LEMMA LeastTakes ==
  ASSUME NEW p, NEW sub, Fit(p, sub), NEW pos \in 0..Len(p) - 1,
         NEW o \in 0..Len(sub), NEW o2 \in 0..Len(sub), NEW a \in Frame, NEW d \in Frame,
         Least(p, sub, pos, o, a, d), d.offset <= Len(sub),
         p[pos + 1].op \in Sized \cup {"SEP"},
         Accepts(p[pos + 1], Bytes(sub), o, o2)
  PROVE  Least(p, sub, pos + 1, o2, a, d)
PROOF
<1> SUFFICES ASSUME d.offset # 0 PROVE Least(p, sub, pos + 1, o2, a, d)
  BY DEF Least
<1>1. /\ Len(sub) \in Nat /\ Len(p) \in Nat /\ d.opptr \in Nat /\ d.offset \in Nat
      /\ pos + 1 \in 1..Len(p) /\ Width(p[pos + 1]) \in Nat
  BY FitFacts DEF Frame
<1>2. /\ d.opptr < pos /\ p[d.opptr + 1].op = "DEEP"
      /\ a.offset # 0 => d.opptr < a.opptr
      /\ \A e \in 0..Len(sub) :
           Takes(p, sub, d.opptr, d.offset, pos, e) /\ Rest(p, sub, pos, e) =>
             e >= o \/ Rest(p, sub, pos, o) \/ RestFrom(p, sub, a)
  BY DEF Least
<1>3. o2 = o + Width(p[pos + 1]) /\ p[pos + 1].op # "END"
  BY AcceptsWidth DEF Sized
<1>4. ASSUME NEW e \in 0..Len(sub),
             Takes(p, sub, d.opptr, d.offset, pos + 1, e), Rest(p, sub, pos + 1, e)
      PROVE  e >= o2 \/ Rest(p, sub, pos + 1, o2) \/ RestFrom(p, sub, a)
  <2>1. PICK c \in 0..Len(sub) :
          Takes(p, sub, d.opptr, d.offset, pos, c) /\ Accepts(p[pos + 1], Bytes(sub), c, e)
    BY <1>1, <1>2, <1>4, TakesLast
  <2>2. Rest(p, sub, pos, c)
    BY <1>3, <1>4, <2>1, RestFirst
  <2>3. c >= o \/ Rest(p, sub, pos, o) \/ RestFrom(p, sub, a)
    BY <1>2, <2>1, <2>2
  <2>4. e = c + Width(p[pos + 1])
    BY <2>1, AcceptsWidth
  <2>5. ASSUME Rest(p, sub, pos, o) PROVE Rest(p, sub, pos + 1, o2)
    <3>1. PICK j \in 0..Len(sub) : Accepts(p[pos + 1], Bytes(sub), o, j) /\ Rest(p, sub, pos + 1, j)
      BY <1>3, <2>5, RestFirst
    <3>2. j = o2
      BY <1>3, <3>1, AcceptsWidth
    <3> QED
      BY <3>1, <3>2
  <2> QED
    BY <1>1, <1>3, <2>3, <2>4, <2>5
<1>5. d.opptr < pos + 1
  BY <1>1, <1>2
<1> QED
  BY <1>2, <1>4, <1>5 DEF Least

LEMMA SearchTakes ==
  ASSUME NEW p, NEW sub, Fit(p, sub), NEW pos, NEW o, NEW a, NEW d,
         Search(p, sub, pos, o, a, d), NEW o2 \in 0..Len(sub),
         Accepts(p[pos + 1], Bytes(sub), o, o2),
         p[pos + 1].op \in Sized \cup {"SEP"}
  PROVE  /\ p[pos + 1].op # "SEP" => Search(p, sub, pos + 1, o2, a, d)
         /\ p[pos + 1].op = "SEP" => Search(p, sub, pos + 1, o2, NoMark, d)
PROOF
<1>1. /\ pos \in 0..Len(p) - 1 /\ o \in 0..Len(sub) /\ a \in Frame /\ d \in Frame
      /\ a.offset <= Len(sub) /\ d.offset <= Len(sub)
      /\ Near(p, sub, pos, o, a) /\ Least(p, sub, pos, o, a, d)
      /\ Rest(p, sub, pos, o) \/ RestFrom(p, sub, a) \/ RestFrom(p, sub, d)
      /\ p[pos + 1].op # "END" /\ Len(sub) \in Nat
  BY FitFacts DEF Search, Sized
<1>2. pos + 1 \in 0..Len(p) - 1
  BY <1>1, RestFirst
<1>3. Least(p, sub, pos + 1, o2, a, d)
  BY <1>1, LeastTakes
<1>4. Rest(p, sub, pos, o) => Rest(p, sub, pos + 1, o2)
  <2> SUFFICES ASSUME Rest(p, sub, pos, o) PROVE Rest(p, sub, pos + 1, o2)
    OBVIOUS
  <2>1. PICK j \in 0..Len(sub) : Accepts(p[pos + 1], Bytes(sub), o, j) /\ Rest(p, sub, pos + 1, j)
    BY <1>1, RestFirst
  <2>2. j = o2
    <3>1. j = o + Width(p[pos + 1]) /\ o2 = o + Width(p[pos + 1])
      BY <1>1, <2>1, AcceptsWidth
    <3> QED
      BY <3>1
  <2> QED
    BY <2>1, <2>2
<1>5. ASSUME p[pos + 1].op # "SEP" PROVE Search(p, sub, pos + 1, o2, a, d)
  <2>1. Near(p, sub, pos + 1, o2, a)
    BY <1>1, <1>5, NearTakes
  <2> QED
    BY <1>1, <1>2, <1>3, <1>4, <2>1 DEF Search
<1>6. ASSUME p[pos + 1].op = "SEP" PROVE Search(p, sub, pos + 1, o2, NoMark, d)
  <2>1. o2 = o + 1 /\ Bytes(sub)[o] = Sep
    BY <1>1, <1>6, AcceptsWidth DEF Width
  <2>2. o < Len(sub)
    BY <1>1, <2>1
  <2>3. ~RestFrom(p, sub, a)
    BY <1>1, <2>1, <2>2, StarEnds
  <2>4. Least(p, sub, pos + 1, o2, NoMark, d)
    BY <1>3, <2>3, NoMarkFacts DEF Least
  <2> QED
    BY <1>1, <1>2, <1>4, <2>3, <2>4, NoMarkFacts DEF Search
<1> QED
  BY <1>5, <1>6

(* At a star no star of the same component has a mark.                     *)
LEMMA NoMarkAtStar ==
  ASSUME NEW p, NEW sub, Fit(p, sub), NEW pos, NEW o, NEW a, NEW d,
         Search(p, sub, pos, o, a, d), p[pos + 1].op \in Star
  PROVE  /\ a = NoMark
         /\ p[pos + 1].op = "DEEP" => d = NoMark
PROOF
<1>1. /\ pos \in 0..Len(p) - 1 /\ Len(p) \in Nat
      /\ a.opptr \in Nat /\ (a.offset = 0 => a = NoMark)
      /\ d.opptr \in Nat /\ (d.offset = 0 => d = NoMark)
  BY FitFacts DEF Search, Frame
<1>2. ASSUME a.offset # 0 PROVE FALSE
  <2>1. /\ a.opptr < pos /\ p[a.opptr + 1].op = "ANY"
        /\ \A k \in a.opptr + 1..pos - 1 : p[k + 1].op \in Sized
    BY <1>2 DEF Search, Near
  <2>2. a.opptr \in 0..Len(p) - 1
    BY <1>1, <2>1
  <2>3. \E k \in a.opptr + 1..pos - 1 : p[k + 1].op = "SEP"
    BY <1>1, <2>1, <2>2, StarFacts DEF Star
  <2> QED
    BY <2>1, <2>3 DEF Sized
<1>3. ASSUME d.offset # 0, p[pos + 1].op = "DEEP" PROVE FALSE
  <2>1. d.opptr < pos /\ p[d.opptr + 1].op = "DEEP"
    BY <1>3 DEF Search, Least
  <2>2. d.opptr \in 0..Len(p) - 1
    BY <1>1, <2>1
  <2> QED
    BY <1>1, <1>3, <2>1, <2>2, StarFacts DEF Star
<1> QED
  BY <1>1, <1>2, <1>3

(* A star takes nothing, or one byte more.                                 *)
LEMMA StarFirst ==
  ASSUME NEW p, NEW sub, Fit(p, sub), NEW pos \in 0..Len(p) - 1, NEW o \in 0..Len(sub),
         p[pos + 1].op \in Star, Rest(p, sub, pos, o)
  PROVE  \/ Rest(p, sub, pos + 1, o)
         \/ /\ o < Len(sub) /\ Rest(p, sub, pos, o + 1)
            /\ p[pos + 1].op = "ANY" => Bytes(sub)[o] # Sep
PROOF
<1>1. p[pos + 1].op # "END" /\ Len(sub) \in Nat
  BY FitFacts DEF Star
<1>2. PICK j \in 0..Len(sub) : Accepts(p[pos + 1], Bytes(sub), o, j) /\ Rest(p, sub, pos + 1, j)
  BY <1>1, RestFirst
<1>3. o <= j /\ (p[pos + 1].op = "ANY" => \A k \in o..j - 1 : Bytes(sub)[k] \notin {Sep, Nul})
  BY <1>2 DEF Accepts, Star
<1>4. CASE j = o
  BY <1>2, <1>4
<1>5. CASE o < j
  <2> DEFINE behind == o + 1
  <2>1. o < Len(sub) /\ behind \in 0..Len(sub) /\ behind <= j /\ o \in o..j - 1
    BY <1>1, <1>5
  <2>2. p[pos + 1].op = "ANY" => \A k \in behind..j - 1 : Bytes(sub)[k] \notin {Sep, Nul}
    BY <1>3
  <2> HIDE DEF behind
  <2>3. Accepts(p[pos + 1], Bytes(sub), behind, j)
    BY <2>1, <2>2 DEF Accepts, Star
  <2>4. Rest(p, sub, pos, behind)
    BY <1>1, <1>2, <2>1, <2>3, RestFirst
  <2> QED
    BY <1>3, <2>1, <2>4 DEF behind
<1> QED
  BY <1>3, <1>4, <1>5

(* Behind a star the double star has missed nothing.                       *)
LEMMA LeastAny ==
  ASSUME NEW p, NEW sub, Fit(p, sub), NEW pos \in 0..Len(p) - 1, NEW o \in 0..Len(sub),
         NEW a \in Frame, NEW d \in Frame, Least(p, sub, pos, o, NoMark, d), d.offset <= Len(sub),
         p[pos + 1].op = "ANY", a.offset # 0 => a.opptr = pos,
         Rest(p, sub, pos, o) => Rest(p, sub, pos + 1, o) \/ RestFrom(p, sub, a)
  PROVE  Least(p, sub, pos + 1, o, a, d)
PROOF
<1> SUFFICES ASSUME d.offset # 0 PROVE Least(p, sub, pos + 1, o, a, d)
  BY DEF Least
<1>1. d.opptr \in Nat /\ d.offset \in Nat /\ Len(sub) \in Nat /\ Len(p) \in Nat
  BY FitFacts DEF Frame
<1>2. /\ d.opptr < pos /\ p[d.opptr + 1].op = "DEEP"
      /\ \A e \in 0..Len(sub) :
           Takes(p, sub, d.opptr, d.offset, pos, e) /\ Rest(p, sub, pos, e) =>
             e >= o \/ Rest(p, sub, pos, o)
  BY NoMarkFacts DEF Least
<1>3. ASSUME NEW e \in 0..Len(sub),
             Takes(p, sub, d.opptr, d.offset, pos + 1, e), Rest(p, sub, pos + 1, e)
      PROVE  e >= o \/ Rest(p, sub, pos + 1, o) \/ RestFrom(p, sub, a)
  <2> DEFINE m == d.opptr
  <2>6. m \in Nat /\ pos \in Nat /\ m <= pos
    <3>1. d.opptr < pos
      BY <1>2
    <3> QED
      BY <1>1, <3>1
  <2>7. Takes(p, sub, m, d.offset, pos + 1, e)
    BY <1>3
  <2> HIDE DEF m
  <2>8. \E c \in 0..Len(sub) :
          Takes(p, sub, m, d.offset, pos, c) /\ Accepts(p[pos + 1], Bytes(sub), c, e)
    BY <2>6, <2>7, TakesLast
  <2>1. PICK c \in 0..Len(sub) :
          Takes(p, sub, d.opptr, d.offset, pos, c) /\ Accepts(p[pos + 1], Bytes(sub), c, e)
    BY <2>8 DEF m
  <2>2. Rest(p, sub, pos, c)
    BY <1>3, <2>1, RestFirst
  <2>3. c >= o \/ Rest(p, sub, pos, o)
    BY <1>2, <2>1, <2>2
  <2>4. c <= e
    BY <2>1 DEF Accepts
  <2>5. c >= o => e >= o
    BY <2>4
  <2> QED
    BY <2>3, <2>5
<1>4. d.opptr < pos + 1 /\ (a.offset # 0 => d.opptr < a.opptr)
  BY <1>1, <1>2
<1> QED
  BY <1>2, <1>3, <1>4 DEF Least

LEMMA SearchAny ==
  ASSUME NEW p, NEW sub, Fit(p, sub), NEW pos, NEW o, NEW a, NEW d,
         Search(p, sub, pos, o, a, d), p[pos + 1].op = "ANY"
  PROVE  /\ o = Len(sub) => Search(p, sub, pos + 1, o, NoMark, NoMark)
         /\ o < Len(sub) /\ Bytes(sub)[o] = Sep => Search(p, sub, pos + 1, o, NoMark, d)
         /\ o < Len(sub) /\ Bytes(sub)[o] # Sep =>
              Search(p, sub, pos + 1, o, [opptr |-> pos, offset |-> o + 1], d)
PROOF
<1>1. /\ pos \in 0..Len(p) - 1 /\ o \in 0..Len(sub) /\ d \in Frame
      /\ d.offset <= Len(sub) /\ (d.offset = 0 => d = NoMark)
      /\ d.opptr \in Nat /\ d.offset \in Nat /\ Len(sub) \in Nat /\ Len(p) \in Nat
  BY FitFacts DEF Search, Frame
<1>2. a = NoMark
  BY NoMarkAtStar DEF Star
<1>3. /\ Least(p, sub, pos, o, NoMark, d)
      /\ Rest(p, sub, pos, o) \/ RestFrom(p, sub, d)
  BY <1>2, NoMarkFacts DEF Search
<1>4. pos + 1 \in 0..Len(p) - 1
  BY <1>1, RestFirst
<1> DEFINE behind == o + 1
           mark == [opptr |-> pos, offset |-> behind]
<1>5. /\ mark \in Frame /\ mark.offset = behind /\ mark.opptr = pos /\ behind # 0
      /\ o < Len(sub) => behind <= Len(sub)
  BY <1>1 DEF Frame
<1>6. Rest(p, sub, pos, o) =>
        \/ Rest(p, sub, pos + 1, o)
        \/ o < Len(sub) /\ Bytes(sub)[o] # Sep /\ Rest(p, sub, pos, behind)
  BY <1>1, StarFirst DEF Star
<1> HIDE DEF behind
<1>7. ASSUME o = Len(sub) PROVE Search(p, sub, pos + 1, o, NoMark, NoMark)
  <2>1. Rest(p, sub, pos, o)
    <3> SUFFICES ASSUME RestFrom(p, sub, d) PROVE Rest(p, sub, pos, o)
      BY <1>3
    <3>1. d.offset # 0 /\ Rest(p, sub, d.opptr, d.offset)
      BY DEF RestFrom
    <3>2. /\ d.opptr < pos
          /\ \A e \in 0..Len(sub) :
               Takes(p, sub, d.opptr, d.offset, pos, e) /\ Rest(p, sub, pos, e) =>
                 e >= o \/ Rest(p, sub, pos, o)
      BY <1>3, <3>1, NoMarkFacts DEF Least
    <3>3. d.opptr \in 0..Len(p) - 1 /\ d.opptr <= pos
      <4>1. d.opptr < pos
        BY <3>2
      <4> QED
        BY <1>1, <4>1
    <3>4. PICK e \in 0..Len(sub) :
            Takes(p, sub, d.opptr, d.offset, pos, e) /\ Rest(p, sub, pos, e)
      BY <1>1, <3>1, <3>3, RestThrough
    <3>5. e >= o => e = o
      BY <1>1, <1>7
    <3> QED
      BY <3>2, <3>4, <3>5
  <2>2. Rest(p, sub, pos + 1, o)
    BY <1>1, <1>6, <1>7, <2>1
  <2> QED
    BY <1>1, <1>4, <2>2, NoMarkFacts DEF Search
<1>8. ASSUME o < Len(sub), Bytes(sub)[o] = Sep PROVE Search(p, sub, pos + 1, o, NoMark, d)
  <2>1. Rest(p, sub, pos, o) => Rest(p, sub, pos + 1, o)
    BY <1>6, <1>8
  <2>2. Least(p, sub, pos + 1, o, NoMark, d)
    BY <1>1, <1>3, <2>1, LeastAny, NoMarkFacts
  <2> QED
    BY <1>1, <1>3, <1>4, <2>1, <2>2, NoMarkFacts DEF Search
<1>9. ASSUME o < Len(sub), Bytes(sub)[o] # Sep PROVE Search(p, sub, pos + 1, o, mark, d)
  <2>1. Rest(p, sub, pos, o) => Rest(p, sub, pos + 1, o) \/ RestFrom(p, sub, mark)
    BY <1>5, <1>6 DEF RestFrom
  <2>2. Near(p, sub, pos + 1, o, mark)
    <3>1. pos < pos + 1 /\ behind <= o + 1 /\ behind - 1 = o
      BY <1>1 DEF behind
    <3>2. \A k \in pos + 1..(pos + 1) - 1 : FALSE
      BY <1>1
    <3>3. ASSUME NEW i \in 0..Len(sub), NEW e \in 0..Len(sub),
                 Takes(p, sub, pos + 1, i, pos + 1, e)
          PROVE  e + behind = o + i + 1 /\ NoSep(Bytes(sub), i, e)
      <4>1. e = i
        BY <1>1, <3>3, TakesNoneEnds
      <4>2. e + behind = o + i + 1
        BY <1>1, <4>1 DEF behind
      <4>3. \A k \in i..e - 1 : FALSE
        BY <4>1
      <4> QED
        BY <4>2, <4>3 DEF NoSep
    <3> HIDE DEF mark
    <3>4. /\ mark.opptr < pos + 1 /\ mark.offset <= o + 1
          /\ p[mark.opptr + 1].op = "ANY"
          /\ Bytes(sub)[mark.offset - 1] # Sep
      BY <1>5, <1>9, <3>1
    <3>5. \A k \in mark.opptr + 1..(pos + 1) - 1 : p[k + 1].op \in Sized
      BY <1>5, <3>2
    <3>6. \A i, e \in 0..Len(sub) :
            Takes(p, sub, mark.opptr + 1, i, pos + 1, e) =>
              e + mark.offset = o + i + 1 /\ NoSep(Bytes(sub), i, e)
      BY <1>5, <3>3
    <3> QED
      BY <3>4, <3>5, <3>6 DEF Near
  <2> HIDE DEF mark
  <2>3. Least(p, sub, pos + 1, o, mark, d)
    BY <1>1, <1>3, <1>5, <2>1, LeastAny
  <2> QED
    BY <1>1, <1>3, <1>4, <1>5, <1>9, <2>1, <2>2, <2>3 DEF Search
<1> QED
  BY <1>7, <1>8, <1>9 DEF behind

LEMMA SearchDeep ==
  ASSUME NEW p, NEW sub, Fit(p, sub), NEW pos, NEW o, NEW a, NEW d,
         Search(p, sub, pos, o, a, d), p[pos + 1].op = "DEEP"
  PROVE  /\ o = Len(sub) => Search(p, sub, pos + 1, o, a, NoMark)
         /\ o < Len(sub) => Search(p, sub, pos + 1, o, a, [opptr |-> pos, offset |-> o + 1])
PROOF
<1>1. /\ pos \in 0..Len(p) - 1 /\ o \in 0..Len(sub) /\ Len(sub) \in Nat /\ Len(p) \in Nat
      /\ pos \in Nat
  BY FitFacts DEF Search
<1>2. a = NoMark /\ d = NoMark
  BY NoMarkAtStar DEF Star
<1>3. Rest(p, sub, pos, o)
  BY <1>2, NoMarkFacts DEF Search
<1>4. pos + 1 \in 0..Len(p) - 1
  BY <1>1, RestFirst
<1> DEFINE behind == o + 1
           mark == [opptr |-> pos, offset |-> behind]
<1>5. /\ mark \in Frame /\ mark.offset = behind /\ mark.opptr = pos /\ behind # 0
      /\ o < Len(sub) => behind \in 0..Len(sub)
  BY <1>1 DEF Frame
<1>6. Rest(p, sub, pos + 1, o) \/ (o < Len(sub) /\ Rest(p, sub, pos, behind))
  BY <1>1, <1>3, StarFirst DEF Star
<1>7. ASSUME o = Len(sub) PROVE Search(p, sub, pos + 1, o, a, NoMark)
  <2>1. Rest(p, sub, pos + 1, o)
    BY <1>1, <1>6, <1>7
  <2> QED
    BY <1>1, <1>2, <1>4, <2>1, NoMarkFacts DEF Search
<1>8. ASSUME o < Len(sub) PROVE Search(p, sub, pos + 1, o, a, mark)
  <2>1. ASSUME NEW e \in 0..Len(sub), Takes(p, sub, pos, behind, pos + 1, e) PROVE e >= o
    <3>1. Accepts(p[pos + 1], Bytes(sub), behind, e)
      BY <1>1, <2>1, TakesOneAccepts
    <3>2. behind <= e
      BY <3>1 DEF Accepts
    <3> QED
      BY <1>1, <3>2
  <2>2. Rest(p, sub, pos + 1, o) \/ RestFrom(p, sub, mark)
    BY <1>5, <1>6 DEF RestFrom
  <2>3. pos < pos + 1
    BY <1>1
  <2> HIDE DEF mark, behind
  <2>4. /\ mark.opptr < pos + 1 /\ p[mark.opptr + 1].op = "DEEP"
        /\ a.offset # 0 => mark.opptr < a.opptr
        /\ \A e \in 0..Len(sub) : Takes(p, sub, mark.opptr, mark.offset, pos + 1, e) => e >= o
    BY <1>2, <1>5, <2>1, <2>3, NoMarkFacts
  <2>5. Least(p, sub, pos + 1, o, a, mark)
    BY <2>4 DEF Least
  <2>6. mark.offset <= Len(sub) /\ mark.offset # 0
    BY <1>1, <1>5, <1>8
  <2> QED
    BY <1>1, <1>2, <1>4, <1>5, <2>2, <2>5, <2>6, NoMarkFacts DEF Search
<1> QED
  BY <1>7, <1>8

(* A literal that is too long clears the mark of the star.                 *)
LEMMA SearchDrops ==
  ASSUME NEW p, NEW sub, Fit(p, sub), NEW pos, NEW o, NEW a, NEW d,
         Search(p, sub, pos, o, a, d),
         p[pos + 1].op = "FIXED", o + Width(p[pos + 1]) > Len(sub)
  PROVE  Search(p, sub, pos, o, NoMark, d)
PROOF
<1>1. /\ pos \in 0..Len(p) - 1 /\ o \in 0..Len(sub) /\ a \in Frame /\ a.offset <= Len(sub)
      /\ Near(p, sub, pos, o, a)
  BY DEF Search
<1>2. ~RestFrom(p, sub, a)
  BY <1>1, StarEnds
<1>3. Least(p, sub, pos, o, NoMark, d)
  BY <1>2, NoMarkFacts DEF Search, Least
<1> QED
  BY <1>2, <1>3, NoMarkFacts DEF Search

(* A mismatch: there is a mark to go back to, the nearer one is that of    *)
(* the star, and going back misses no match.                               *)
LEMMA SearchRetries ==
  ASSUME NEW p, NEW sub, Fit(p, sub), NEW pos, NEW o, NEW a, NEW d,
         Search(p, sub, pos, o, a, d), ~Rest(p, sub, pos, o)
  PROVE  /\ pos # 0 /\ (a.offset # 0 \/ d.offset # 0)
         /\ a.offset # 0 =>
              /\ a.opptr > d.opptr
              /\ Search(p, sub, a.opptr, a.offset, NoMark, d)
         /\ a.offset = 0 =>
              /\ ~(a.opptr > d.opptr)
              /\ Search(p, sub, d.opptr, d.offset, a, NoMark)
PROOF
<1>1. /\ pos \in 0..Len(p) - 1 /\ o \in 0..Len(sub) /\ Len(sub) \in Nat /\ Len(p) \in Nat
      /\ a \in Frame /\ a.offset <= Len(sub) /\ (a.offset = 0 => a = NoMark)
      /\ d \in Frame /\ d.offset <= Len(sub) /\ (d.offset = 0 => d = NoMark)
      /\ a.opptr \in Nat /\ a.offset \in Nat /\ d.opptr \in Nat /\ d.offset \in Nat
      /\ RestFrom(p, sub, a) \/ RestFrom(p, sub, d)
  BY FitFacts DEF Search, Frame
<1>2. /\ a.offset # 0 =>
           /\ a.opptr < pos /\ a.offset <= o + 1
           /\ p[a.opptr + 1].op = "ANY"
      /\ d.offset # 0 => d.opptr < pos /\ p[d.opptr + 1].op = "DEEP"
  BY DEF Search, Near, Least
<1>3. pos # 0 /\ (a.offset # 0 \/ d.offset # 0)
  BY <1>1, <1>2 DEF RestFrom
<1>4. ASSUME a.offset = 0
      PROVE  ~(a.opptr > d.opptr) /\ Search(p, sub, d.opptr, d.offset, a, NoMark)
  <2>1. a = NoMark /\ RestFrom(p, sub, d)
    BY <1>1, <1>4 DEF RestFrom
  <2>2. d.opptr \in 0..Len(p) - 1 /\ d.offset \in 0..Len(sub) /\ Rest(p, sub, d.opptr, d.offset)
    BY <1>1, <1>2, <2>1 DEF RestFrom
  <2>3. ~(a.opptr > d.opptr)
    BY <1>1, <2>1, NoMarkFacts
  <2> QED
    BY <1>1, <2>1, <2>2, <2>3, NoMarkFacts DEF Search
<1>5. ASSUME a.offset # 0
      PROVE  a.opptr > d.opptr /\ Search(p, sub, a.opptr, a.offset, NoMark, d)
  <2> DEFINE m == a.opptr
             start == a.offset
  <2>1. /\ m \in 0..Len(p) - 1 /\ m < pos /\ start \in 0..Len(sub) /\ start # 0 /\ start <= o + 1
        /\ m \in Nat /\ pos \in Nat /\ o \in Nat /\ start \in Nat /\ Len(sub) \in Nat
    BY <1>1, <1>2, <1>5
  <2>2. a.opptr > d.opptr
    <3>1. a.opptr # 0
      <4>1. p[0 + 1].op # "ANY"
        BY DEF Fit, SingleStars
      <4> QED
        BY <1>2, <1>5, <4>1
    <3>2. d.offset # 0 => d.opptr < a.opptr
      BY <1>5 DEF Search, Least
    <3>3. d.offset = 0 => d.opptr = 0
      BY <1>1, NoMarkFacts
    <3> QED
      BY <1>1, <3>1, <3>2, <3>3
  <2>3. \A i, e \in 0..Len(sub) :
          Takes(p, sub, m + 1, i, pos, e) => e + start = o + i + 1
    BY <1>5 DEF Search, Near
  <2>4. d.offset # 0 =>
          /\ p[d.opptr + 1].op = "DEEP"
          /\ \A e \in 0..Len(sub) :
               Takes(p, sub, d.opptr, d.offset, pos, e) /\ Rest(p, sub, pos, e) =>
                 e >= o \/ Rest(p, sub, pos, o) \/ Rest(p, sub, m, start)
    BY DEF Search, Least, RestFrom
  <2>5. p[m + 1].op = "ANY"
    BY <1>2, <1>5
  <2>6. RestFrom(p, sub, a) => Rest(p, sub, m, start)
    BY DEF RestFrom
  <2> HIDE DEF m, start
  <2>7. ASSUME d.offset # 0, NEW e \in 0..Len(sub),
               Takes(p, sub, d.opptr, d.offset, m, e), Rest(p, sub, m, e)
        PROVE  e >= start \/ Rest(p, sub, m, start)
    <3> SUFFICES ASSUME e < start PROVE Rest(p, sub, m, start)
      BY <2>1
    <3>1. m + 1 \in 0..Len(p) - 1 /\ m + 1 <= pos
      <4>1. m + 1 \in 0..Len(p) - 1
        BY <2>1, <2>5, RestFirst
      <4> QED
        BY <2>1, <4>1
    <3>2. PICK i \in 0..Len(sub) : Accepts(p[m + 1], Bytes(sub), e, i) /\ Rest(p, sub, m + 1, i)
      BY <2>1, <2>5, <2>7, RestFirst
    <3>3. PICK e2 \in 0..Len(sub) : Takes(p, sub, m + 1, i, pos, e2) /\ Rest(p, sub, pos, e2)
      BY <1>1, <3>1, <3>2, RestThrough
    <3>4. e2 + start = o + i + 1
      BY <2>3, <3>3
    <3>5. Takes(p, sub, d.opptr, d.offset, pos, e2)
      <4>1. Takes(p, sub, m, e, m + 1, i)
        BY <1>1, <2>1, <3>2, TakesOne
      <4>2. /\ d.opptr \in Nat /\ m \in Nat /\ m + 1 \in Nat /\ pos \in Nat
            /\ d.opptr <= m /\ m <= m + 1 /\ d.opptr <= m + 1 /\ m + 1 <= pos
        <5>1. d.opptr < m /\ d.opptr \in Nat
          BY <1>1, <2>2 DEF m
        <5>2. m \in Nat /\ pos \in Nat /\ m + 1 <= pos
          BY <2>1, <3>1
        <5> QED
          BY <5>1, <5>2
      <4>3. Takes(p, sub, d.opptr, d.offset, m + 1, i)
        BY <2>7, <4>1, <4>2, TakesJoin
      <4> QED
        BY <3>3, <4>2, <4>3, TakesJoin
    <3>6. e2 >= o \/ Rest(p, sub, m, start)
      BY <2>4, <2>7, <3>3, <3>5
    <3>7. e2 # o
      BY <3>3
    <3>8. CASE e2 > o
      <4>1. start <= i /\ e <= start
        BY <1>1, <2>1, <3>4, <3>8
      <4>2. \A k \in e..i - 1 : Bytes(sub)[k] \notin {Sep, Nul}
        BY <2>5, <3>2 DEF Accepts
      <4>3. \A k \in start..i - 1 : Bytes(sub)[k] \notin {Sep, Nul}
        BY <2>1, <4>1, <4>2
      <4>4. Accepts(p[m + 1], Bytes(sub), start, i)
        BY <2>5, <4>1, <4>3 DEF Accepts
      <4> QED
        BY <2>1, <2>5, <3>2, <4>4, RestFirst
    <3> QED
      BY <2>1, <3>6, <3>7, <3>8
  <2>8. Least(p, sub, m, start, NoMark, d)
    BY <2>2, <2>4, <2>7, NoMarkFacts DEF Least, m
  <2>9. Rest(p, sub, m, start) \/ RestFrom(p, sub, d)
    BY <1>1, <2>6
  <2>10. Search(p, sub, m, start, NoMark, d)
    BY <1>1, <2>1, <2>8, <2>9, NoMarkFacts DEF Search
  <2> QED
    BY <2>2, <2>10 DEF m, start
<1> QED
  BY <1>3, <1>4, <1>5

-----------------------------------------------------------------------------
(* The machine searches.                                                   *)

(* What it reads while it executes.                                        *)
LEMMA ReadsText ==
  ASSUME SInv, subject \in Subjects, PText, pc \in {"test", "retest"}, NEW r, Executing(r)
  PROVE  /\ N \in Nat /\ op.offset \in 0..N /\ op.opptr \in 0..Len(program) - 1
         /\ Len(program) \in Nat
         /\ length \in Nat /\ N <= length /\ op.offset < length
         /\ \A k \in 0..N - 1 : data[k] = Bytes(subject)[k]
         /\ AtNul <=> op.offset = N
         /\ op.offset < N => Str = Bytes(subject)[op.offset]
         /\ r = vm_op /\ state = "CONTINUE"
PROOF
<1>1. /\ N \in Nat /\ op.offset \in Nat /\ length \in Nat /\ TypeOK
      /\ \A i \in 1..N : subject[i] # Nul
  BY PositionFacts, SubjectFacts DEF N
<1>2. op.offset < length /\ r = vm_op /\ call = "match" /\ state = "CONTINUE"
  BY <1>1 DEF Executing, TypeOK
<1>3. op.offset <= N
  BY <1>2 DEF PText, Reach, Active
<1>4. op.opptr \in Nat /\ op.opptr < Len(program) /\ Len(program) \in Nat
  BY <1>1, InstrFacts DEF TypeOK, Frame
<1>5. data[N] = Nul /\ \A i \in 0..N : i < N => data[i] = subject[i + 1]
  BY DEF PText, Loaded, First, Second, Text, N
<1>6. N <= length
  BY <1>1 DEF PText, Loaded, First, Second
<1>7. ASSUME NEW k \in 0..N - 1 PROVE data[k] = Bytes(subject)[k] /\ data[k] # Nul
  <2>1. k \in 0..N /\ k < N /\ k + 1 \in 1..N
    BY <1>1
  <2>2. Bytes(subject)[k] = subject[k + 1]
    BY <2>1 DEF Bytes, N
  <2> QED
    BY <1>1, <1>5, <2>1, <2>2
<1>8. op.offset < N => op.offset \in 0..N - 1
  BY <1>1
<1>9. AtNul <=> op.offset = N
  BY <1>1, <1>2, <1>3, <1>5, <1>7, <1>8 DEF AtNul, Str
<1> QED
  BY <1>1, <1>2, <1>3, <1>4, <1>6, <1>7, <1>8, <1>9 DEF Str

(* An instruction of fixed width matches when it accepts a piece of the    *)
(* subject.                                                                *)
LEMMA SizedOutcome ==
  ASSUME SInv, subject \in Subjects, PText, pc \in {"test", "retest"}, Fit(program, subject),
         NEW r, Executing(r), Instr(op.opptr).op \in Sized \cup {"SEP"}
  PROVE  LET ins  == program[op.opptr + 1]
             behind == op.offset + r.step
         IN /\ r.matched => behind \in 0..N /\ Accepts(ins, Bytes(subject), op.offset, behind)
            /\ ~r.matched => \A j \in 0..N : ~Accepts(ins, Bytes(subject), op.offset, j)
            /\ r.deep = deep
            /\ ins.op # "SEP" \/ ~r.matched =>
                 \/ r.any = any
                 \/ r.any = NoMark /\ ~r.matched /\ ins.op = "FIXED" /\ op.offset + Width(ins) > N
            /\ ins.op = "SEP" /\ r.matched =>
                 r.any = IF any.opptr >= deep.opptr THEN NoMark ELSE any
PROOF
<1> DEFINE ins == program[op.opptr + 1]
           o == op.offset
           behind == o + r.step
<1>1. /\ N \in Nat /\ o \in 0..N /\ length \in Nat /\ N <= length /\ o < length
      /\ \A k \in 0..N - 1 : data[k] = Bytes(subject)[k]
      /\ AtNul <=> o = N
      /\ o < N => Str = Bytes(subject)[o]
      /\ r = vm_op
  BY ReadsText
<1>2. Instr(op.opptr) = ins
  BY DEF Instr
<1>3. Width(ins) \in Nat /\ (ins.op = "CHARS" => Nul \notin ins.set)
  <2>1. op.opptr + 1 \in 1..Len(program)
    BY ReadsText
  <2> QED
    BY <2>1, FitFacts DEF Fit, Proper
<1>4. op.offset = o /\ (ins.op = "FIXED" => Width(ins) = Len(ins.str))
  BY DEF Width
<1>5. r.matched => behind <= N
  <2>1. Instr(op.opptr).op # "END" /\ Proper(program)
    BY DEF Sized, Fit
  <2> QED
    BY <2>1, StaysInText DEF PText
<1> HIDE DEF ins, o, behind
<1>6. CASE ins.op = "FIXED"
  <2> DEFINE len == Len(ins.str)
  <2>1. r = vm_fixed
    BY <1>1, <1>2, <1>6 DEF vm_op
  <2>2. len \in Nat
    BY <1>3, <1>4, <1>6
  <2>3. CASE o + len > length
    <3>1. r = Outcome(FALSE, 0, NoMark, deep)
      BY <1>2, <1>4, <2>1, <2>3 DEF vm_fixed
    <3>2. \A j \in 0..N : ~Accepts(ins, Bytes(subject), o, j)
      <4>1. o + len > N
        BY <1>1, <2>2, <2>3
      <4> QED
        BY <1>1, <1>6, <4>1 DEF Accepts
    <3> QED
      BY <1>1, <1>4, <1>6, <2>2, <2>3, <3>1, <3>2 DEF Outcome, ins, o, behind
  <2>4. CASE ~(o + len > length)
    <3> DEFINE equal == \A k \in 1..len : data[o + k - 1] = ins.str[k]
    <3>1. r = vm_cond(equal, len)
      BY <1>2, <1>4, <2>1, <2>4 DEF vm_fixed
    <3> HIDE DEF equal
    <3>2. /\ r.any = any /\ r.deep = deep /\ r.matched = equal
          /\ equal => r.step = len
      BY <3>1 DEF vm_cond, Outcome
    <3>3. o + len <= N =>
            \A k \in 1..len : data[o + k - 1] = Bytes(subject)[o + k - 1]
      <4> SUFFICES ASSUME o + len <= N, NEW k \in 1..len
                   PROVE  data[o + k - 1] = Bytes(subject)[o + k - 1]
        OBVIOUS
      <4>1. o + k - 1 \in 0..N - 1
        BY <1>1, <2>2
      <4> QED
        BY <1>1, <4>1
    <3>4. ASSUME r.matched
          PROVE  behind \in 0..N /\ Accepts(ins, Bytes(subject), o, behind)
      <4>1. behind = o + len /\ behind <= N /\ behind \in 0..N
        BY <1>1, <1>5, <2>2, <3>2, <3>4 DEF behind
      <4>2. \A k \in 1..len : Bytes(subject)[o + k - 1] = ins.str[k]
        BY <3>2, <3>3, <3>4, <4>1 DEF equal
      <4> QED
        BY <1>6, <4>1, <4>2 DEF Accepts
    <3>5. ASSUME ~r.matched, NEW j \in 0..N, Accepts(ins, Bytes(subject), o, j) PROVE FALSE
      <4>1. j = o + len /\ \A k \in 1..len : Bytes(subject)[o + k - 1] = ins.str[k]
        BY <1>6, <3>5 DEF Accepts
      <4>2. o + len <= N
        BY <4>1
      <4> QED
        BY <3>2, <3>3, <3>5, <4>1, <4>2 DEF equal
    <3> QED
      BY <1>6, <3>2, <3>4, <3>5 DEF ins, o, behind
  <2> QED
    BY <2>3, <2>4
<1>7. CASE ins.op \in {"CHARS", "ONE", "SEP"}
  <2> DEFINE taken == \/ ins.op = "CHARS" /\ Str \in ins.set
                      \/ ins.op = "ONE" /\ Str \notin {Nul, Sep}
                      \/ ins.op = "SEP" /\ Str = Sep
  <2>1. /\ r.matched <=> taken
        /\ r.deep = deep
        /\ taken => r.step = 1
        /\ ins.op # "SEP" \/ ~taken => r.any = any
        /\ ins.op = "SEP" /\ taken => r.any = IF any.opptr >= deep.opptr THEN NoMark ELSE any
    <3>1. CASE ins.op = "CHARS"
      BY <1>1, <1>2, <3>1 DEF vm_op, vm_chars, vm_cond, Outcome
    <3>2. CASE ins.op = "ONE"
      BY <1>1, <1>2, <3>2 DEF vm_op, vm_one, vm_cond, Outcome
    <3>3. CASE ins.op = "SEP"
      BY <1>1, <1>2, <3>3 DEF vm_op, vm_sep, Outcome
    <3> QED
      BY <1>7, <3>1, <3>2, <3>3
  <2>2. taken => o < N
    <3>1. AtNul => Str = Nul
      BY DEF AtNul
    <3> QED
      BY <1>1, <1>3, <3>1, ByteAssumption
  <2>3. \A j \in 0..N :
          Accepts(ins, Bytes(subject), o, j) <=>
            /\ j = o + 1
            /\ \/ ins.op = "CHARS" /\ Bytes(subject)[o] \in ins.set
               \/ ins.op = "ONE" /\ Bytes(subject)[o] \notin {Sep, Nul}
               \/ ins.op = "SEP" /\ Bytes(subject)[o] = Sep
    BY <1>7 DEF Accepts
  <2>4. \A j \in 0..N : j = o + 1 => o < N
    BY <1>1
  <2>5. \A j \in 0..N : Accepts(ins, Bytes(subject), o, j) <=> j = o + 1 /\ taken
    BY <1>1, <2>2, <2>3, <2>4
  <2> HIDE DEF taken
  <2>6. taken => behind = o + 1 /\ behind \in 0..N
    BY <1>1, <2>1, <2>2 DEF behind
  <2> QED
    BY <1>7, <2>1, <2>5, <2>6 DEF ins, o, behind
<1> QED
  BY <1>2, <1>6, <1>7 DEF Sized

LEMMA SearchMatches ==
  ASSUME SInv, subject \in Subjects, PText, pc \in {"test", "retest"}, Fit(program, subject),
         NEW r, Executing(r), r.matched, Instr(op.opptr).op # "END",
         Search(program, subject, op.opptr, op.offset, any, deep)
  PROVE  Search(program, subject, op.opptr + 1, op.offset + r.step, r.any, r.deep)
PROOF
<1> DEFINE ins == program[op.opptr + 1]
           o == op.offset
           behind == o + r.step
<1>1. /\ N \in Nat /\ o \in 0..N /\ op.opptr \in 0..Len(program) - 1
      /\ AtNul <=> o = N
      /\ o < N => Str = Bytes(subject)[o]
      /\ r = vm_op
  BY ReadsText
<1>2. ins = Instr(op.opptr) /\ ins.op \in Opcode /\ ins.op # "END"
  BY <1>1, FitFacts DEF Instr
<1>3. /\ any.opptr \in Nat /\ deep.opptr \in Nat
      /\ any.offset = 0 => any = NoMark
      /\ deep.offset = 0 => deep = NoMark
      /\ any.offset # 0 /\ deep.offset # 0 => deep.opptr < any.opptr
  BY PositionFacts DEF Search, Least
<1>4. CASE ins.op \in Sized \cup {"SEP"}
  <2>1. /\ behind \in 0..N /\ Accepts(ins, Bytes(subject), o, behind)
        /\ r.deep = deep
        /\ ins.op # "SEP" => r.any = any
        /\ ins.op = "SEP" => r.any = IF any.opptr >= deep.opptr THEN NoMark ELSE any
    BY <1>2, <1>4, SizedOutcome
  <2>2. ins.op = "SEP" => r.any = NoMark
    BY <1>3, <2>1, NoMarkFacts
  <2> HIDE DEF behind
  <2>3. /\ ins.op # "SEP" => Search(program, subject, op.opptr + 1, behind, any, deep)
        /\ ins.op = "SEP" => Search(program, subject, op.opptr + 1, behind, NoMark, deep)
    BY <1>4, <2>1, SearchTakes DEF N
  <2> QED
    BY <2>1, <2>2, <2>3 DEF behind
<1>5. CASE ins.op = "ANY"
  <2>1. any = NoMark
    BY <1>5, NoMarkAtStar DEF Star
  <2>2. r = vm_any /\ Marked(any) = [opptr |-> op.opptr, offset |-> o + 1]
    BY <1>1, <1>2, <1>5, <2>1, NoMarkFacts DEF vm_op, Marked
  <2>3. /\ r.step = 0
        /\ o = N => r.any = NoMark /\ r.deep = NoMark
        /\ o < N /\ Bytes(subject)[o] = Sep => r.any = NoMark /\ r.deep = deep
        /\ o < N /\ Bytes(subject)[o] # Sep =>
             r.any = [opptr |-> op.opptr, offset |-> o + 1] /\ r.deep = deep
    BY <1>1, <2>2 DEF vm_any, Outcome
  <2>4. behind = o
    BY <1>1, <2>3
  <2>5. /\ o = N => Search(program, subject, op.opptr + 1, o, NoMark, NoMark)
        /\ o < N /\ Bytes(subject)[o] = Sep => Search(program, subject, op.opptr + 1, o, NoMark, deep)
        /\ o < N /\ Bytes(subject)[o] # Sep =>
             Search(program, subject, op.opptr + 1, o, [opptr |-> op.opptr, offset |-> o + 1], deep)
    BY <1>5, SearchAny DEF N
  <2>6. o = N \/ (o < N /\ Bytes(subject)[o] = Sep) \/ (o < N /\ Bytes(subject)[o] # Sep)
    BY <1>1
  <2> QED
    BY <2>3, <2>4, <2>5, <2>6
<1>6. CASE ins.op = "DEEP"
  <2>1. deep = NoMark
    BY <1>6, NoMarkAtStar DEF Star
  <2>2. r = vm_deep /\ Marked(deep) = [opptr |-> op.opptr, offset |-> o + 1]
    BY <1>1, <1>2, <1>6, <2>1, NoMarkFacts DEF vm_op, Marked
  <2>3. /\ r.step = 0 /\ r.any = any
        /\ o = N => r.deep = NoMark
        /\ o < N => r.deep = [opptr |-> op.opptr, offset |-> o + 1]
    BY <1>1, <2>2 DEF vm_deep, Outcome
  <2>4. behind = o
    BY <1>1, <2>3
  <2>5. /\ o = N => Search(program, subject, op.opptr + 1, o, any, NoMark)
        /\ o < N => Search(program, subject, op.opptr + 1, o, any, [opptr |-> op.opptr, offset |-> o + 1])
    BY <1>6, SearchDeep DEF N
  <2>6. o = N \/ o < N
    BY <1>1
  <2> QED
    BY <2>3, <2>4, <2>5, <2>6
<1> QED
  BY <1>2, <1>4, <1>5, <1>6 DEF Opcode, Sized

LEMMA SearchMismatches ==
  ASSUME SInv, subject \in Subjects, PText, pc \in {"test", "retest"}, Fit(program, subject),
         NEW r, Executing(r), ~r.matched,
         Search(program, subject, op.opptr, op.offset, any, deep)
  PROVE  /\ Search(program, subject, op.opptr, op.offset, r.any, r.deep)
         /\ ~Rest(program, subject, op.opptr, op.offset)
PROOF
<1> DEFINE ins == program[op.opptr + 1]
           o == op.offset
<1>1. /\ N \in Nat /\ o \in 0..N /\ op.opptr \in 0..Len(program) - 1 /\ Len(program) \in Nat
      /\ AtNul <=> o = N
      /\ r = vm_op
  BY ReadsText
<1>2. ins = Instr(op.opptr) /\ ins.op \in Opcode /\ (ins.op = "END" <=> op.opptr = Len(program) - 1)
  BY SMTT(30), <1>1, FitFacts DEF Instr
<1>3. CASE ins.op \in Sized \cup {"SEP"}
  <2>1. /\ \A j \in 0..N : ~Accepts(ins, Bytes(subject), o, j)
        /\ r.deep = deep
        /\ \/ r.any = any
           \/ r.any = NoMark /\ ins.op = "FIXED" /\ o + Width(ins) > N
    BY <1>2, <1>3, SizedOutcome
  <2>2. ~Rest(program, subject, op.opptr, o)
    BY <1>1, <1>3, <2>1, RestFirst DEF N, Sized
  <2>3. ins.op = "FIXED" /\ o + Width(ins) > N => Search(program, subject, op.opptr, o, NoMark, deep)
    BY SearchDrops DEF N
  <2> QED
    BY <2>1, <2>2, <2>3
<1>4. CASE ins.op \in Star
  BY <1>1, <1>2, <1>4 DEF Star, vm_op, vm_any, vm_deep, Outcome
<1>5. CASE ins.op = "END"
  <2>1. r = vm_end
    BY <1>1, <1>2, <1>5 DEF vm_op
  <2>2. ~AtNul /\ r.any = any /\ r.deep = deep
    BY <2>1 DEF vm_end, Outcome
  <2>3. ASSUME Rest(program, subject, op.opptr, o) PROVE FALSE
    <3>1. Takes(program, subject, op.opptr, o, op.opptr, N)
      BY <1>2, <1>5, <2>3 DEF Rest, N
    <3>2. N = o
      BY <1>1, <3>1, TakesNoneEnds
    <3> QED
      BY <1>1, <2>2, <3>2
  <2> QED
    BY <2>2, <2>3
<1> QED
  BY <1>2, <1>3, <1>4, <1>5 DEF Opcode, Sized, Star

(* The machine has a next instruction, ...                                 *)
Live == Active \/ (state = "MATCH" /\ opcode # "END")
Pos  == IF state = "MATCH" THEN op.opptr + 1 ELSE op.opptr

(* ... from which it finds a match of a subject that has one.              *)
Complete ==
  Fit(program, subject) /\ SubjectGlobs =>
    /\ state # "NOMATCH" /\ answer # "FNM_NOMATCH"
    /\ Live => Search(program, subject, Pos, op.offset, any, deep)

LEMMA CompleteInit ==
  ASSUME PatternInit
  PROVE  Complete
PROOF
<1> SUFFICES ASSUME Fit(program, subject), SubjectGlobs PROVE Complete
  BY DEF Complete
<1>1. /\ op = NoMark /\ any = NoMark /\ deep = NoMark
      /\ state = "PUSH" /\ answer = "none"
  BY DEF PatternInit, Init
<1>2. 0 \in 0..Len(program) - 1 /\ 0 \in 0..Len(subject)
  BY FitFacts
<1> DEFINE last == Len(program) - 1
<1>3. PathTo(program, Bytes(subject), last, Len(subject))
  BY DEF SubjectGlobs, Globs, SubjectData, Bytes
<1> HIDE DEF last
<1>6. 0 + 1 = 1
  OBVIOUS
<1>7. Takes(program, subject, 0, 0, last, Len(subject))
  BY <1>3, <1>6 DEF PathTo, Takes
<1>8. Rest(program, subject, 0, 0)
  BY <1>7 DEF Rest, last
<1>4. Search(program, subject, 0, 0, NoMark, NoMark)
  BY <1>2, <1>8, NoMarkFacts DEF Search
<1>5. Search(program, subject, Pos, op.offset, any, deep)
  BY <1>1, <1>4, NoMarkFacts DEF Pos
<1> QED
  BY <1>1, <1>5 DEF Complete

LEMMA CompleteIterate ==
  ASSUME SInv, subject \in Subjects, PText, Fit(program, subject), Iterate,
         Search(program, subject, op.opptr, op.offset, any, deep), state = "CONTINUE"
  PROVE  /\ state' # "NOMATCH"
         /\ Live' => Search(program, subject, Pos', op'.offset, any', deep')
PROOF
<1>1. UNCHANGED <<subject, pc, answer>> /\ Running
  BY DEF Iterate, callVars
<1>2. pc \in {"test", "retest"}
  BY <1>1 DEF PText, InStep, Running, NeedInput, OpMatches, OpRetries, OpFails, Executing
<1>3. op \in Frame /\ op.opptr \in Nat /\ op.offset \in Nat
  BY PositionFacts
<1>4. CASE NeedInput
  <2>1. UNCHANGED <<op, any, deep>> /\ state' = "PUSH"
    BY <1>4 DEF NeedInput, Returning, vmVars
  <2> QED
    BY <2>1 DEF Pos
<1>5. CASE OpMatches
  <2> DEFINE r == vm_op
  <2>1. /\ Executing(r) /\ r.matched /\ opcode' = Instr(op.opptr).op
        /\ \/ state' = "MATCH" /\ op' = [op EXCEPT !.offset = @ + r.step]
           \/ /\ ~AtBoundary(op.offset + r.step)
              /\ state' = "CONTINUE" /\ op' = [opptr |-> op.opptr + 1, offset |-> op.offset + r.step]
        /\ any' = r.any /\ deep' = r.deep
    BY <1>5 DEF OpMatches, Executing, Returning
  <2> HIDE DEF r
  <2>2. CASE Instr(op.opptr).op = "END"
    BY <2>1, <2>2 DEF Live, Active, AtBoundary
  <2>3. CASE Instr(op.opptr).op # "END"
    <3>1. Search(program, subject, op.opptr + 1, op.offset + r.step, any', deep')
      BY <1>2, <2>1, <2>3, SearchMatches
    <3>2. Pos' = op.opptr + 1 /\ op'.offset = op.offset + r.step
      BY <1>3, <2>1 DEF Pos, Frame
    <3> QED
      BY <2>1, <3>1, <3>2
  <2> QED
    BY <2>2, <2>3
<1>6. CASE OpRetries \/ OpFails
  <2> DEFINE r == vm_op
  <2>1. /\ Executing(r) /\ ~r.matched
        /\ \/ ~CanRetry(r.any, r.deep)
           \/ vm_restore(r.any, r.deep) /\ state' = "CONTINUE"
    BY <1>6 DEF OpRetries, OpFails, Returning
  <2> HIDE DEF r
  <2>2. /\ Search(program, subject, op.opptr, op.offset, r.any, r.deep)
        /\ ~Rest(program, subject, op.opptr, op.offset)
    BY <1>2, <2>1, SearchMismatches
  <2>3. /\ op.opptr # 0 /\ (r.any.offset # 0 \/ r.deep.offset # 0)
        /\ r.any.offset # 0 =>
             /\ r.any.opptr > r.deep.opptr
             /\ Search(program, subject, r.any.opptr, r.any.offset, NoMark, r.deep)
        /\ r.any.offset = 0 =>
             /\ ~(r.any.opptr > r.deep.opptr)
             /\ Search(program, subject, r.deep.opptr, r.deep.offset, r.any, NoMark)
    BY <2>2, SearchRetries
  <2>4. vm_restore(r.any, r.deep) /\ state' = "CONTINUE"
    BY <2>1, <2>3 DEF CanRetry
  <2>5. Search(program, subject, op'.opptr, op'.offset, any', deep')
    BY <2>3, <2>4 DEF vm_restore
  <2> QED
    BY <2>4, <2>5 DEF Pos
<1> QED
  BY <1>1, <1>4, <1>5, <1>6 DEF Running

LEMMA CompleteNext ==
  ASSUME PInv, Complete, [PatternNext]_patternVars
  PROVE  Complete'
PROOF
<1>1. SInv /\ subject \in Subjects /\ subject' = subject /\ program' = program
  BY PStreams DEF PInv
<1>2. /\ Fit(program, subject)' <=> Fit(program, subject)
      /\ SubjectGlobs' <=> SubjectGlobs
  BY <1>1 DEF SubjectGlobs, SubjectData, Fit
<1> SUFFICES ASSUME Fit(program, subject), SubjectGlobs
             PROVE  /\ state' # "NOMATCH" /\ answer' # "FNM_NOMATCH"
                    /\ Live' => Search(program, subject, Pos', op'.offset, any', deep')
  BY <1>1, <1>2 DEF Complete
<1>3. PText
  BY DEF PInv, Fit, PText
<1>4. /\ state # "NOMATCH" /\ answer # "FNM_NOMATCH"
      /\ Live => Search(program, subject, Pos, op.offset, any, deep)
  BY DEF Complete
<1>5. /\ op \in Frame /\ op.opptr \in Nat
  BY <1>1, PositionFacts
<1>6. CASE Enter \/ Test \/ Retest \/ Ended \/ UNCHANGED patternVars
  <2>1. UNCHANGED <<op, any, deep, state, opcode>>
    BY <1>6 DEF Enter, Test, Retest, Returned, Ended, vars, patternVars
  <2>2. answer' # "FNM_NOMATCH"
    BY <1>4, <1>6 DEF Enter, Test, Retest, Ended, patternVars, callVars, Goto, Answer
  <2> QED
    BY <1>4, <2>1, <2>2 DEF Live, Active, Pos
<1>7. CASE PushSubject \/ PushTerminator
  <2>1. /\ UNCHANGED <<op, any, deep, answer>> /\ state = "PUSH" /\ state' = "CONTINUE"
    <3>1. state = "PUSH"
      BY <1>3, <1>7 DEF PushSubject, PushTerminator, PText, InStep
    <3> QED
      BY <1>7, <3>1 DEF PushSubject, PushTerminator, Push, Goto
  <2> QED
    BY <1>4, <2>1 DEF Live, Active, Pos
<1>8. CASE CallMatch
  <2>1. /\ UNCHANGED <<any, deep, opcode, answer>> /\ Match
        /\ state \in {"CONTINUE", "MATCH"}
    BY <1>3, <1>8 DEF CallMatch, Match, Goto, PText, InStep
  <2>2. CASE state = "CONTINUE"
    <3>1. state' = "CONTINUE" /\ op' = op
      BY <2>1, <2>2 DEF Match, Returning
    <3> QED
      BY <1>4, <2>1, <2>2, <3>1 DEF Live, Active, Pos
  <2>3. CASE state = "MATCH" /\ opcode = "END"
    BY <1>4, <2>1, <2>3 DEF Match, Returning, Live, Active
  <2>4. CASE state = "MATCH" /\ opcode # "END"
    <3>1. \/ state' = "STOP"
          \/ state' = "CONTINUE" /\ op' = [op EXCEPT !.opptr = @ + 1]
      BY <2>1, <2>4 DEF Match, Returning
    <3>2. state' = "CONTINUE" => op'.opptr = op.opptr + 1 /\ op'.offset = op.offset
      BY <1>5, <3>1 DEF Frame
    <3> QED
      BY <1>4, <2>1, <2>4, <3>1, <3>2 DEF Live, Active, Pos
  <2> QED
    BY <2>1, <2>2, <2>3, <2>4
<1>9. CASE Iterate
  <2>1. state = "CONTINUE"
    BY <1>1, <1>9, PositionFacts DEF Iterate, Running, NeedInput, OpMatches, OpRetries, OpFails,
       Executing, TypeOK
  <2>2. Search(program, subject, op.opptr, op.offset, any, deep)
    BY <1>4, <2>1 DEF Live, Active, Pos
  <2>3. answer' = answer
    BY <1>9 DEF Iterate, callVars
  <2> QED
    BY <1>1, <1>3, <1>4, <1>9, <2>1, <2>2, <2>3, CompleteIterate
<1> QED
  BY <1>6, <1>7, <1>8, <1>9 DEF PatternNext, PatternStep

LEMMA CompleteInvariance == PatternSpec => []Complete
PROOF
<1>1. PatternInit => Complete
  BY CompleteInit
<1>2. PInv /\ Complete /\ [PatternNext]_patternVars => Complete'
  BY CompleteNext
<1> QED
  BY <1>1, <1>2, CallInvariance, PTL DEF PatternSpec

(* fnmatch returns FNM_NOMATCH only for strings that the pattern does not  *)
(* match: with one star in a component and one double star, the two places *)
(* the machine remembers are all it needs, and it never gives up a match.  *)
THEOREM NoMatchAnswersAreRight == PatternSpec => []NoMatchIsNoMatch
PROOF
<1>1. PInv /\ Complete => NoMatchIsNoMatch
  <2> SUFFICES ASSUME PInv, Complete, answer = "FNM_NOMATCH", Proper(program),
                      SingleStars(program), SubjectGlobs
               PROVE  FALSE
    BY DEF NoMatchIsNoMatch
  <2>1. program \in Programs /\ subject \in Strings
    BY PositionFacts, SubjectFacts DEF PInv, TypeOK
  <2>2. Fit(program, subject)
    BY <2>1, ProgramsAssumption, StringsAssumption DEF Fit
  <2> QED
    BY <2>2 DEF Complete
<1> QED
  BY <1>1, CallInvariance, CompleteInvariance, PTL

-----------------------------------------------------------------------------
(* The scanner.                                                            *)

(* What the loop knows of its context.  A context that waits for a push or *)
(* a pop when fnmatch_context_match is called again goes to FNMATCH_STOP:  *)
(* this happens only when a callback declined.                             *)
LoopInv ==
  /\ phase = "loop" /\ next = "NOMATCH" => state = "NOMATCH"
  /\ phase = "loop" /\ next = "CONTINUE" /\ state \in {"PUSH", "POP"} =>
       declined \/ call = "crash"
  /\ phase = "loop" /\ next \in {"STOP", "ERROR"} => declined
  /\ state = "STOP" => declined
  /\ declined \in BOOLEAN

ScanInv == IInv /\ AsksInStep /\ LoopInv /\ EndsOnRequest

-----------------------------------------------------------------------------
(* A scanner drives its context through the context's own steps.           *)
LEMMA StepIsContextStep == [ScannerNext]_allVars => [Next]_vars
PROOF
<1> SUFFICES ASSUME [ScannerNext]_allVars PROVE [Next]_vars
  OBVIOUS
<1>1. CASE Scan
  BY <1>1 DEF Scan
<1>2. CASE AskMatch
  BY <1>2 DEF AskMatch
<1>3. CASE AskPush
  <2>1. ASSUME NEW str \in Strings, Push(str) PROVE Next
    BY <2>1 DEF Next
  <2>2. CASE Push(<<>>)
    BY <2>2, NullAssumption DEF Next
  <2> QED
    BY <1>3, <2>1, <2>2 DEF AskPush
<1>4. CASE AskPop
  BY <1>4 DEF AskPop, Next
<1>5. CASE ReturnError
  BY <1>5 DEF ReturnError
<1>6. CASE EnterMatch
  BY <1>6 DEF EnterMatch, Next
<1>7. CASE IterateMatch
  BY <1>7 DEF IterateMatch, Next
<1>8. CASE MatchReturned
  BY <1>8 DEF MatchReturned
<1>9. CASE ScannerReset
  BY <1>9 DEF ScannerReset, Next
<1>10. CASE UNCHANGED allVars
  BY <1>10 DEF allVars
<1> QED
  BY <1>1, <1>2, <1>3, <1>4, <1>5, <1>6, <1>7, <1>8, <1>9, <1>10
     DEF ScannerNext, ScannerStep

(* The context's invariants also hold under a scanner.                     *)
LEMMA ContextInvStep == IInv /\ [ScannerNext]_allVars => IInv'
PROOF
  BY StepIsContextStep, NextOK

LEMMA ScanInit == ScannerInit => ScanInv
PROOF
<1> SUFFICES ASSUME ScannerInit PROVE ScanInv
  OBVIOUS
<1>1. IInv
  BY InitOK DEF ScannerInit
<1>2. AsksInStep /\ LoopInv /\ EndsOnRequest
  BY DEF ScannerInit, Init, AsksInStep, LoopInv, EndsOnRequest
<1> QED
  BY <1>1, <1>2 DEF ScanInv

(* A callback's answer is FNMATCH_CONTINUE, or the client has declined.    *)
LEMMA AnswerFacts ==
  ASSUME LoopInv, NEW callback, NEW done \in BOOLEAN, Reply(callback, done)
  PROVE  /\ phase' = IF next' = "STOP" THEN "idle" ELSE "loop"
         /\ next' \in {"CONTINUE", "STOP", "ERROR"}
         /\ declined' \in BOOLEAN
         /\ declined => declined'
         /\ ~done \/ next' # "CONTINUE" => declined'
PROOF
<1>1. declined \in BOOLEAN
  BY DEF LoopInv
<1>2. CASE \E a \in Answers : Loop(a) /\ declined' = (declined \/ ~done \/ a # "CONTINUE")
  <2>1. PICK a \in Answers : Loop(a) /\ declined' = (declined \/ ~done \/ a # "CONTINUE")
    BY <1>2
  <2>2. next' = a /\ phase' = IF a = "STOP" THEN "idle" ELSE "loop"
    BY <2>1 DEF Loop
  <2>3. a \in {"CONTINUE", "STOP", "ERROR"}
    BY <2>1, AnswersAssumption
  <2> QED
    BY <1>1, <2>1, <2>2, <2>3
<1>3. CASE done /\ Loop("CONTINUE") /\ UNCHANGED declined
  BY <1>1, <1>3 DEF Loop
<1> QED
  BY <1>2, <1>3 DEF Reply

-----------------------------------------------------------------------------
(* What a call of fnmatch_context_match may answer.                        *)

(* fnmatch_vm_next does not stop the machine behind a partial match.       *)
LEMMA PartialGoesOn == IInv /\ state = "MATCH" /\ opcode # "END" => Instr(op.opptr).op # "END"
PROOF
  BY DEF IInv, MatchAtBoundary

LEMMA MatchStates ==
  ASSUME IInv, Match
  PROVE  /\ state = "PUSH" \/ state = "POP" => state' = "STOP"
         /\ state \in {"STOP", "ERROR"} => state' = state
         /\ state = "NOMATCH" => state' = "POP"
         /\ state = "CONTINUE" => state' = "CONTINUE"
         /\ state = "MATCH" => state' \in {"POP", "CONTINUE"}
PROOF
<1>1. state \in State
  BY DEF IInv, TypeOK
<1>2. CASE state = "MATCH" /\ opcode # "END"
  BY <1>2, PartialGoesOn DEF Match, Returning
<1>3. CASE state # "MATCH" \/ opcode = "END"
  BY <1>1, <1>3 DEF Match, Returning, State
<1> QED
  BY <1>2, <1>3

LEMMA RunningStates == Running => state' \in {"PUSH", "MATCH", "CONTINUE", "NOMATCH"}
PROOF
  BY DEF Running, NeedInput, OpMatches, OpRetries, OpFails, Returning

-----------------------------------------------------------------------------
(* Every step keeps the loop and its context in step.                      *)
LEMMA ScanStep == ScanInv /\ [ScannerNext]_allVars => ScanInv'
PROOF
<1> SUFFICES ASSUME ScanInv, [ScannerNext]_allVars
             PROVE  AsksInStep' /\ LoopInv' /\ EndsOnRequest'
  BY ContextInvStep DEF ScanInv
<1> USE DEF AsksInStep, LoopInv, EndsOnRequest
<1>1. IInv /\ AsksInStep /\ LoopInv /\ EndsOnRequest
  BY DEF ScanInv
<1>2. CASE Scan
  BY <1>1, <1>2 DEF Scan, vars, vmVars
<1>3. CASE AskMatch
  <2>1. Reply("match", TRUE) /\ next = "MATCH" /\ phase = "loop" /\ UNCHANGED <<state, call>>
    BY <1>3 DEF AskMatch, vars, vmVars
  <2> QED
    BY <1>1, <2>1, AnswerFacts
<1>4. CASE AskPush
  <2>1. phase = "loop" /\ next = "PUSH" /\ state = "PUSH"
    BY <1>1, <1>4 DEF AskPush
  <2>2. CASE Reply("push", TRUE) /\ \E str \in Strings : Push(str)
    <3>1. state' = "CONTINUE"
      BY <2>1, <2>2 DEF Push
    <3> QED
      BY <1>1, <2>1, <2>2, <3>1, AnswerFacts
  <2>3. CASE Reply("push", FALSE) /\ UNCHANGED vars
    <3>1. state' = "PUSH"
      BY <2>1, <2>3 DEF vars
    <3> QED
      BY <1>1, <2>1, <2>3, <3>1, AnswerFacts
  <2> QED
    BY <1>4, <2>2, <2>3, NullAssumption DEF AskPush
<1>5. CASE AskPop
  <2>1. phase = "loop" /\ next = "POP" /\ state = "POP"
    BY <1>1, <1>5 DEF AskPop
  <2>2. CASE Reply("pop", TRUE) /\ Pop
    <3>1. state' = "CONTINUE" \/ (state' = "POP" /\ call' = "crash")
      BY <2>1, <2>2 DEF Pop
    <3> QED
      BY <1>1, <2>1, <2>2, <3>1, AnswerFacts
  <2>3. CASE Reply("pop", FALSE) /\ UNCHANGED vars
    <3>1. state' = "POP"
      BY <2>1, <2>3 DEF vars
    <3> QED
      BY <1>1, <2>1, <2>3, <3>1, AnswerFacts
  <2> QED
    BY <1>5, <2>2, <2>3 DEF AskPop
<1>6. CASE ReturnError
  BY <1>1, <1>6 DEF ReturnError, vars, ghosts
<1>7. CASE EnterMatch
  <2>1. /\ phase = "loop" /\ next \in {"NOMATCH", "CONTINUE", "STOP"} /\ Match
        /\ phase' = "match" /\ next' = next /\ declined' = declined
    BY <1>7 DEF EnterMatch, ghosts
  <2>2. call = "idle" /\ state \in State
    BY <1>1, <2>1 DEF Match, IInv, TypeOK
  <2>3. state' = "STOP" => declined
    BY <1>1, <2>1, <2>2, MatchStates DEF State
  <2>4. state' # "ERROR"
    BY <1>1, <2>1, <2>2, MatchStates DEF State
  <2> QED
    BY <1>1, <2>1, <2>3, <2>4
<1>8. CASE IterateMatch
  <2>1. phase = "match" /\ Running /\ phase' = phase /\ declined' = declined
    BY <1>8 DEF IterateMatch, scannerVars, ghosts
  <2> QED
    BY <1>1, <2>1, RunningStates
<1>9. CASE MatchReturned
  <2>1. /\ state' = state /\ call' = call /\ declined' = declined /\ next' = state
        /\ phase' = IF state = "STOP" THEN "idle" ELSE "loop"
    BY <1>9 DEF MatchReturned, Loop, vars, ghosts
  <2> QED
    BY <1>1, <2>1
<1>10. CASE ScannerReset
  BY <1>1, <1>10 DEF ScannerReset, Reset
<1>11. CASE UNCHANGED allVars
  BY <1>1, <1>11 DEF allVars, vars, scannerVars, ghosts
<1> QED
  BY <1>2, <1>3, <1>4, <1>5, <1>6, <1>7, <1>8, <1>9, <1>10, <1>11 DEF ScannerNext, ScannerStep

(* The invariant holds in every behaviour of a scanner.                    *)
THEOREM ScanInvariance == ScannerSpec => []ScanInv
PROOF
  BY ScanInit, ScanStep, PTL DEF ScannerSpec

(* The scanner asks its callbacks only for what the context allows, and a  *)
(* client that does only what it is asked never sees FNMATCH_ERROR from    *)
(* its context.                                                            *)
THEOREM CallbacksAreAskedInStep == ScannerSpec => []AsksInStep
PROOF
<1>1. ScanInv => AsksInStep
  BY DEF ScanInv
<1> QED
  BY <1>1, ScanInvariance, PTL

(* A scan ends only because a callback declined or asked for it.           *)
THEOREM ScansEndOnRequest == ScannerSpec => []EndsOnRequest
PROOF
<1>1. ScanInv => EndsOnRequest
  BY DEF ScanInv
<1> QED
  BY <1>1, ScanInvariance, PTL

-----------------------------------------------------------------------------
(* Full matches.                                                           *)

(* A full match the client has not been told of.                           *)
Pending == AtFullMatch /\ (phase = "match" \/ (phase = "loop" /\ next = "MATCH"))

ReportInv ==
  /\ FullMatchesReported
  /\ reported \in Nat
  /\ repeated \in BOOLEAN

(* Of one iteration: the counter goes up when a full match is reached.     *)
LEMMA RunningCounts ==
  ASSUME IInv, Running
  PROVE  /\ ~AtFullMatch
         /\ nmatch \in Nat
         /\ nmatch' = nmatch + IF AtFullMatch' THEN 1 ELSE 0
PROOF
<1>1. state = "CONTINUE" /\ nmatch \in Nat
  BY DEF IInv, TypeOK, Running, NeedInput, OpMatches, OpRetries, OpFails, Executing
<1>2. CASE NeedInput
  BY <1>1, <1>2 DEF NeedInput, Returning, AtFullMatch
<1>3. CASE OpMatches
  <2>1. /\ nmatch' = IF opcode' = "END" THEN nmatch + 1 ELSE nmatch
        /\ opcode' = "END" => state' = "MATCH"
    BY <1>3 DEF OpMatches, Returning, AtBoundary
  <2> QED
    BY <1>1, <1>3, <2>1 DEF AtFullMatch, OpMatches, Returning
<1>4. CASE OpRetries \/ OpFails
  BY <1>1, <1>4 DEF OpRetries, OpFails, Returning, AtFullMatch
<1> QED
  BY <1>1, <1>2, <1>3, <1>4 DEF Running, AtFullMatch

(* Steps that neither report nor count, and leave no match pending.        *)
LEMMA ReportKept ==
  ASSUME ReportInv, ~Pending, ~Pending', UNCHANGED <<nmatch, reported, repeated>>
  PROVE  ReportInv'
PROOF
  BY DEF ReportInv, FullMatchesReported, Pending

(* Nothing is counted or pending at the start.                             *)
LEMMA ReportStart ==
  ASSUME nmatch = 0, reported = 0, repeated = FALSE, ~Pending
  PROVE  ReportInv
PROOF
<1>1. nmatch = reported + IF Pending THEN 1 ELSE 0
  OBVIOUS
<1> QED
  BY <1>1 DEF ReportInv, FullMatchesReported, Pending

LEMMA ReportStep == ScanInv /\ ReportInv /\ [ScannerNext]_allVars => ReportInv'
PROOF
<1> SUFFICES ASSUME ScanInv, ReportInv, [ScannerNext]_allVars PROVE ReportInv'
  OBVIOUS
<1>1. IInv /\ LoopInv /\ nmatch \in Nat /\ reported \in Nat /\ repeated \in BOOLEAN
  BY DEF ScanInv, IInv, TypeOK, ReportInv
<1>2. ~repeated => nmatch = reported + IF Pending THEN 1 ELSE 0
  BY DEF ReportInv, FullMatchesReported, Pending
<1>3. CASE Scan
  <2>1. /\ phase = "idle" /\ repeated' = (repeated \/ AtFullMatch)
        /\ UNCHANGED <<nmatch, state, opcode, reported>>
    BY <1>3 DEF Scan, vars
  <2>2. ~Pending /\ (~repeated' => ~Pending')
    BY <1>1, <2>1 DEF Pending, AtFullMatch
  <2>3. repeated' \in BOOLEAN /\ (~repeated' => ~repeated)
    BY <1>1, <2>1
  <2> QED
    BY <1>1, <1>2, <2>1, <2>2, <2>3 DEF ReportInv, FullMatchesReported, Pending
<1>4. CASE AskMatch
  <2>1. /\ Reply("match", TRUE) /\ phase = "loop" /\ next = "MATCH"
        /\ reported' = IF AtFullMatch /\ ~repeated THEN reported + 1 ELSE reported
        /\ UNCHANGED <<nmatch, repeated>>
    BY <1>4 DEF AskMatch, vars
  <2>2. next' # "MATCH" /\ phase' # "match"
    BY <1>1, <2>1, AnswerFacts
  <2>3. ~Pending' /\ (Pending <=> AtFullMatch)
    BY <2>1, <2>2 DEF Pending
  <2> QED
    BY <1>1, <1>2, <2>1, <2>3 DEF ReportInv, FullMatchesReported, Pending
<1>5. CASE AskPush \/ AskPop
  <2>1. /\ phase = "loop" /\ next # "MATCH"
        /\ UNCHANGED <<reported, repeated>>
        /\ \E callback \in {"push", "pop"}, done \in BOOLEAN : Reply(callback, done)
    BY <1>5 DEF AskPush, AskPop
  <2>2. UNCHANGED nmatch
    BY <1>5 DEF AskPush, AskPop, Push, Pop, vars
  <2>3. next' # "MATCH" /\ phase' # "match"
    BY <1>1, <2>1, AnswerFacts
  <2>4. ~Pending /\ ~Pending'
    BY <2>1, <2>3 DEF Pending
  <2> QED
    BY <2>1, <2>2, <2>4, ReportKept
<1>6. CASE ReturnError
  <2>1. ~Pending /\ ~Pending' /\ UNCHANGED <<nmatch, reported, repeated>>
    BY <1>6 DEF ReturnError, Pending, vars, ghosts
  <2> QED
    BY <2>1, ReportKept
<1>7. CASE EnterMatch
  <2>1. /\ phase = "loop" /\ next # "MATCH" /\ Match
        /\ UNCHANGED <<reported, repeated>>
    BY <1>7 DEF EnterMatch, ghosts
  <2>2. UNCHANGED nmatch /\ state' # "MATCH"
    BY <2>1 DEF Match, Returning
  <2>3. ~Pending /\ ~Pending'
    BY <2>1, <2>2 DEF Pending, AtFullMatch
  <2> QED
    BY <2>1, <2>2, <2>3, ReportKept
<1>8. CASE IterateMatch
  <2>1. phase = "match" /\ Running /\ UNCHANGED <<phase, next, reported, repeated>>
    BY <1>8 DEF IterateMatch, scannerVars, ghosts
  <2>2. ~AtFullMatch /\ nmatch' = nmatch + IF AtFullMatch' THEN 1 ELSE 0
    BY <1>1, <2>1, RunningCounts
  <2>3. ~Pending /\ (Pending' <=> AtFullMatch')
    BY <2>1, <2>2 DEF Pending
  <2> QED
    BY <1>1, <1>2, <2>1, <2>2, <2>3 DEF ReportInv, FullMatchesReported, Pending
<1>9. CASE MatchReturned
  <2>1. /\ phase = "match" /\ next' = state
        /\ phase' = IF state = "STOP" THEN "idle" ELSE "loop"
        /\ UNCHANGED <<state, opcode, nmatch, reported, repeated>>
    BY <1>9 DEF MatchReturned, Loop, vars, ghosts
  <2>2. Pending' <=> Pending
    BY <2>1 DEF Pending, AtFullMatch
  <2> QED
    BY <1>1, <1>2, <2>1, <2>2 DEF ReportInv, FullMatchesReported, Pending
<1>10. CASE ScannerReset
  <2>1. phase = "idle" /\ phase' = phase /\ nmatch' = 0 /\ reported' = 0 /\ repeated' = FALSE
    BY <1>10 DEF ScannerReset, Reset
  <2>2. ~Pending'
    BY <2>1 DEF Pending
  <2>3. nmatch' = reported' + IF Pending' THEN 1 ELSE 0
    BY <2>1, <2>2
  <2> QED
    BY <2>1, <2>3 DEF ReportInv, FullMatchesReported, Pending
<1>11. CASE UNCHANGED allVars
  <2>1. UNCHANGED <<phase, next, state, opcode, nmatch, reported, repeated>>
    BY <1>11 DEF allVars, vars, scannerVars, ghosts
  <2> QED
    BY <1>1, <1>2, <2>1 DEF ReportInv, FullMatchesReported, AtFullMatch, Pending
<1> QED
  BY <1>3, <1>4, <1>5, <1>6, <1>7, <1>8, <1>9, <1>10, <1>11 DEF ScannerNext, ScannerStep

(* Every full match is reported to the match callback, and once only       *)
(* unless the scanner is started again at it.                              *)
THEOREM MatchesAreReported == ScannerSpec => []FullMatchesReported
PROOF
<1>1. ScannerInit => ReportInv
  <2> SUFFICES ASSUME ScannerInit PROVE ReportInv
    OBVIOUS
  <2>1. nmatch = 0 /\ reported = 0 /\ repeated = FALSE /\ ~Pending
    BY DEF ScannerInit, Init, AtFullMatch, Pending
  <2> QED
    BY <2>1, ReportStart
<1>2. ScanInv /\ ReportInv /\ [ScannerNext]_allVars => ReportInv'
  BY ReportStep
<1>3. ReportInv => FullMatchesReported
  BY DEF ReportInv
<1> QED
  BY <1>1, <1>2, <1>3, ScanInvariance, PTL DEF ScannerSpec

=============================================================================
