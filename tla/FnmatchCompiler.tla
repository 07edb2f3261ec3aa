--------------------------- MODULE FnmatchCompiler ---------------------------
(***************************************************************************)
(* fnmatch_compile of src/compiler.c: one action per iteration of its      *)
(* loop, which appends one instruction to the program.  Characters are     *)
(* ASCII codes and the program is the bytes the code writes, with          *)
(* fnmatch_vm_next, fnmatch_vm_prev and fnmatch__vm_chars of src/vm.c to   *)
(* read them.  Offsets count from 0, as in C.                              *)
(***************************************************************************)
EXTENDS Integers, FiniteSets, SequencesExt

CONSTANTS
  Exprs,   \* the patterns to compile, without their terminators
  Byte,    \* the values of a char
  ArgMax   \* SCHAR_MAX, and the bytes read for an argument: 127

VARIABLES
  expr,     \* the pattern
  at,       \* how far it has been read
  program,  \* the bytes of the program
  stats,    \* mchars, groups and parts
  pc        \* "loop", "done", or "abort" after a failed assertion

compilerVars == <<expr, at, program, stats, pc>>

FNMATCH_ESCAPE       == 92
FNMATCH_CHARS_START  == 91
FNMATCH_CHARS_END    == 93
FNMATCH_CHARS_NEGATE == 33
FNMATCH_ONE          == 63
FNMATCH_ANY          == 42
FNMATCH_DEEP         == FNMATCH_ANY
FNMATCH_SEP          == 47
Minus                == 45
Nul                  == 0

ASSUME ExprsAssumption == Byte \subseteq Nat /\ Exprs \subseteq Seq(Byte \ {Nul})
ASSUME ArgMaxAssumption == ArgMax \in Nat \ {0}

(* FNMATCH_OP_FIXED is 0, and so on.                                       *)
OpNames == <<"FIXED", "CHARS", "ONE", "ANY", "DEEP", "SEP", "END">>
Op(name) == (CHOOSE i \in DOMAIN OpNames : OpNames[i] = name) - 1

Char(s, i) == IF i < Len(s) THEN s[i + 1] ELSE Nul

(* What is stored when a size_t is cast to a signed char.                  *)
AsChar(n) == ((n + ArgMax + 1) % (2 * (ArgMax + 1))) - (ArgMax + 1)

-----------------------------------------------------------------------------
(* Reading arguments.                                                      *)

(* Fault: a backslash does not escape a backslash.                         *)
Escapes_not_itself(s, i, esc) ==
  Char(s, i) = FNMATCH_ESCAPE /\ Char(s, i + 1) \in esc \ {FNMATCH_ESCAPE}

Escapes(s, i, esc) == Char(s, i) = FNMATCH_ESCAPE /\ Char(s, i + 1) \in esc

(* buffer_read_escaped from offset start, over len bytes or up to one of   *)
(* delim: the bytes it reads and the bytes it writes.                      *)
buffer_read_escaped(s, start, len, delim, esc) ==
  LET scan[i \in 0..len + 1] ==
        IF i >= len \/ Char(s, start + i) \in delim
          THEN [read |-> i, text |-> <<>>]
        ELSE IF Escapes(s, start + i, esc)
          THEN [scan[i + 2] EXCEPT !.text = <<Char(s, start + i + 1)>> \o @]
        ELSE [scan[i + 1] EXCEPT !.text = <<Char(s, start + i)>> \o @]
  IN scan[0]

CharsDelimiters == {FNMATCH_CHARS_END, Nul}
CharsEscaped    == {FNMATCH_CHARS_START, FNMATCH_CHARS_END, FNMATCH_ESCAPE}
FixedDelimiters == {FNMATCH_ONE, FNMATCH_ANY, FNMATCH_SEP, FNMATCH_CHARS_START, Nul}
FixedEscaped    == {FNMATCH_ONE, FNMATCH_ANY, FNMATCH_SEP, FNMATCH_CHARS_START, FNMATCH_ESCAPE}

compiler_opcode(p, name) == p \o <<Op(name), 0>>

(* Fault: the length is not repeated behind the argument.                  *)
compiler_oparg_once(p, text) ==
  IF text = <<>> THEN p ELSE [p EXCEPT ![Len(p)] = AsChar(Len(text))] \o text

(* The length of an argument stands before and behind it; without one      *)
(* nothing follows the 0.                                                  *)
compiler_oparg(p, text) ==
  IF text = <<>> THEN p
  ELSE [p EXCEPT ![Len(p)] = AsChar(Len(text))] \o text \o <<AsChar(Len(text))>>

-----------------------------------------------------------------------------
(* The loop.                                                               *)

CompilerInit ==
  /\ expr \in Exprs
  /\ at = 0
  /\ program = <<>>
  /\ stats = [mchars |-> 0, groups |-> 0, parts |-> 0]
  /\ pc = "loop"

(* An iteration that reads n bytes and makes p of the program.             *)
Iteration(n, p, mchars, groups, parts) ==
  /\ at' = at + n
  /\ program' = p
  /\ stats' = [mchars |-> stats.mchars + mchars, groups |-> stats.groups + groups,
               parts |-> stats.parts + parts]
  /\ UNCHANGED expr

At(c) == pc = "loop" /\ Char(expr, at) = c

CompileSep ==
  At(FNMATCH_SEP) /\ Iteration(1, compiler_opcode(program, "SEP"), 1, 0, 1) /\ UNCHANGED pc

(* Fault: the case of ONE does not fall through to that of ANY.            *)
CompileOne_apart ==
  At(FNMATCH_ONE) /\ Iteration(1, compiler_opcode(program, "ONE"), 1, 0, 0) /\ UNCHANGED pc

CompileOne ==
  At(FNMATCH_ONE) /\ Iteration(1, compiler_opcode(program, "ONE"), 1, 1, 0) /\ UNCHANGED pc

(* Fault: a second star is not looked for.                                 *)
IsDeep_never == FALSE

IsDeep == Char(expr, at + 1) = FNMATCH_DEEP

CompileAny ==
  /\ At(FNMATCH_ANY)
  /\ IF IsDeep THEN Iteration(2, compiler_opcode(program, "DEEP"), 0, 1, 0)
               ELSE Iteration(1, compiler_opcode(program, "ANY"), 0, 1, 0)
  /\ UNCHANGED pc

(* Fault: the byte before is looked at.                                    *)
CharsClosed_before(read) == Char(expr, at + read) = FNMATCH_CHARS_END

CharsClosed(read) == Char(expr, at + 1 + read) = FNMATCH_CHARS_END

(* The assertion that a bracket expression is closed follows its reading.  *)
CompileChars ==
  LET arg == buffer_read_escaped(expr, at + 1, ArgMax, CharsDelimiters, CharsEscaped)
  IN /\ At(FNMATCH_CHARS_START)
     /\ IF CharsClosed(arg.read)
        THEN /\ Iteration(arg.read + 2,
                          compiler_oparg(compiler_opcode(program, "CHARS"), arg.text), 1, 1, 0)
             /\ UNCHANGED pc
        ELSE pc' = "abort" /\ UNCHANGED <<expr, at, program, stats>>

(* Fault: one byte too many is read for an argument.                       *)
FixedMax_past == ArgMax + 1

FixedMax == ArgMax

(* Fault: an escape ends a literal.                                        *)
CompileFixed_to_escape ==
  LET arg == buffer_read_escaped(expr, at, FixedMax, FixedDelimiters \cup {FNMATCH_ESCAPE}, {})
  IN /\ pc = "loop" /\ Char(expr, at) \notin FixedDelimiters
     /\ Iteration(arg.read, compiler_oparg(compiler_opcode(program, "FIXED"), arg.text),
                  arg.read, 0, 0)
     /\ UNCHANGED pc

CompileFixed ==
  LET arg == buffer_read_escaped(expr, at, FixedMax, FixedDelimiters, FixedEscaped)
  IN /\ pc = "loop" /\ Char(expr, at) \notin FixedDelimiters
     /\ Iteration(arg.read, compiler_oparg(compiler_opcode(program, "FIXED"), arg.text),
                  arg.read, 0, 0)
     /\ UNCHANGED pc

CompileEnd ==
  At(Nul) /\ Iteration(0, compiler_opcode(program, "END"), 0, 0, 0) /\ pc' = "done"

(* fnmatch_compile has returned, or an assertion has ended the process.    *)
Compiled == pc # "loop" /\ UNCHANGED compilerVars

CompilerNext ==
  CompileSep \/ CompileOne \/ CompileAny \/ CompileChars \/ CompileFixed \/ CompileEnd
    \/ Compiled

CompilerSpec == CompilerInit /\ [][CompilerNext]_compilerVars

-----------------------------------------------------------------------------
(* Reading the program.                                                    *)

OPCODE(o) == IF Char(program, o) \in 0..6 THEN OpNames[Char(program, o) + 1] ELSE "?"
OPLEN(o)  == Char(program, o + 1)
OPRLEN(o) == Char(program, o - 1)

vm_next(o) == IF OPLEN(o) # 0 THEN o + OPLEN(o) + 3 ELSE o + 2
vm_prev(o) == IF OPRLEN(o) # 0 THEN o - (OPRLEN(o) + 3) ELSE o - 2

(* Whether the bracket expression arg accepts c.  An escape is skipped a   *)
(* second time here, and the ends of a range are compared as bytes of the  *)
(* set.                                                                    *)
vm_chars(arg, c) ==
  LET neg == arg # <<>> /\ arg[1] = FNMATCH_CHARS_NEGATE
      accepts[i \in 0..Len(arg) + 1] ==
        IF i >= Len(arg) THEN neg
        ELSE IF i < Len(arg) - 1 /\ arg[i + 1] = FNMATCH_ESCAPE
          THEN IF c = arg[i + 2] THEN ~neg ELSE accepts[i + 2]
        ELSE IF i < Len(arg) - 1 /\ arg[i + 1] = Minus /\ i > 0
                  /\ c > arg[i] /\ c < arg[i + 2]
          THEN ~neg
        ELSE IF c = arg[i + 1] THEN ~neg ELSE accepts[i + 1]
  IN accepts[IF neg THEN 1 ELSE 0]

(* The instruction at o, as FnmatchProgram has it.                         *)
Instruction(o) ==
  LET arg == SubSeq(program, o + 3, o + 2 + OPLEN(o))
  IN [op  |-> OPCODE(o),
      str |-> IF OPCODE(o) = "FIXED" THEN arg ELSE <<>>,
      set |-> IF OPCODE(o) = "CHARS" THEN {c \in Byte : vm_chars(arg, c)} ELSE {}]

(* The offsets fnmatch_vm_next comes by, from the start of the program.    *)
Offsets ==
  LET from[o \in 0..Len(program)] ==
        IF OPCODE(o) # "END" /\ vm_next(o) \in o + 1..Len(program) - 1
        THEN <<o>> \o from[vm_next(o)] ELSE <<o>>
  IN from[0]

Instructions == [k \in DOMAIN Offsets |-> Instruction(Offsets[k])]

-----------------------------------------------------------------------------
(* What a pattern says, character by character and without regard to how   *)
(* many are read at a time.                                                *)

(* Whether the bracket at i is closed at j: the backslashes in front of j  *)
(* escape each other.                                                      *)
Closes(s, i, j) ==
  /\ Char(s, j) = FNMATCH_CHARS_END
  /\ \E n \in {m \in 0..j - i - 1 : m % 2 = 0} :
       /\ \A k \in j - n..j - 1 : Char(s, k) = FNMATCH_ESCAPE
       /\ n = j - i - 1 \/ Char(s, j - n - 1) # FNMATCH_ESCAPE

IsClosed(s, i) == \E j \in i + 1..Len(s) : Closes(s, i, j)
Closing(s, i) ==
  CHOOSE j \in i + 1..Len(s) : Closes(s, i, j) /\ \A k \in i + 1..j - 1 : ~Closes(s, i, k)

(* The bytes between the brackets, without the escapes.                    *)
Content(s, i, j) ==
  LET from[k \in i + 1..j + 1] ==
        IF k >= j THEN <<>>
        ELSE IF Char(s, k) = FNMATCH_ESCAPE /\ Char(s, k + 1) \in CharsEscaped
          THEN <<Char(s, k + 1)>> \o from[k + 2]
        ELSE <<Char(s, k)>> \o from[k + 1]
  IN from[i + 1]

(* A byte is in the set that is listed, or lies in a range.  A minus that  *)
(* makes a range is listed too: [a-c] accepts it.                          *)
Listed(content) ==
  {c \in Byte : \/ \E k \in DOMAIN content : c = content[k]
                \/ \E k \in 2..Len(content) - 1 :
                     content[k] = Minus /\ content[k - 1] <= c /\ c <= content[k + 1]}
BracketSet(content) ==
  IF content # <<>> /\ Head(content) = FNMATCH_CHARS_NEGATE
  THEN Byte \ Listed(Tail(content)) ELSE Listed(content)

(* A backslash in the set is skipped a second time by fnmatch__vm_chars,   *)
(* which also lets a range begin at the negation.                          *)
Plain(content) ==
  /\ FNMATCH_ESCAPE \notin {content[k] : k \in DOMAIN content}
  /\ ~IsPrefix(<<FNMATCH_CHARS_NEGATE, Minus>>, content)

Element(op, str, set) == [op |-> op, str |-> str, set |-> set]
Literal(c) == Element("FIXED", <<c>>, {})

Bracket(s, i) == Content(s, i, Closing(s, i))

(* el, and what follows it; known says whether the compiler is made for    *)
(* all of it.                                                              *)
Then(el, rest, known) ==
  [says |-> <<el>> \o rest.says, known |-> known /\ rest.known]

(* What s says from each of its bytes on, as src/README.md:22 has it: a    *)
(* backslash stands for the character behind it, whichever that is, and    *)
(* one that ends the pattern matches nothing.  The compiler knows only the *)
(* escapes of FixedEscaped.  It takes [] and [!] for bracket expressions,  *)
(* where POSIX has the ] stand for itself: these are not known either.  An *)
(* open bracket is taken for a literal, which no program will be.          *)
Meaning(s) ==
  LET from[i \in 0..Len(s)] ==
        LET c    == Char(s, i)
            next == Char(s, i + 1)
        IN IF i = Len(s) THEN [says |-> <<Element("END", <<>>, {})>>, known |-> TRUE]
           ELSE IF c = FNMATCH_SEP THEN Then(Element("SEP", <<>>, {}), from[i + 1], TRUE)
           ELSE IF c = FNMATCH_ONE THEN Then(Element("ONE", <<>>, {}), from[i + 1], TRUE)
           ELSE IF c = FNMATCH_ANY /\ next = FNMATCH_DEEP
             THEN Then(Element("DEEP", <<>>, {}), from[i + 2], TRUE)
           ELSE IF c = FNMATCH_ANY THEN Then(Element("ANY", <<>>, {}), from[i + 1], TRUE)
           ELSE IF c = FNMATCH_CHARS_START /\ IsClosed(s, i)
             THEN Then(Element("CHARS", <<>>,
                         IF Plain(Bracket(s, i)) THEN BracketSet(Bracket(s, i)) ELSE {}),
                       from[Closing(s, i) + 1],
                       Bracket(s, i) \notin {<<>>, <<FNMATCH_CHARS_NEGATE>>})
           ELSE IF c = FNMATCH_ESCAPE /\ i + 1 < Len(s)
             THEN Then(Literal(next), from[i + 2], next \in FixedEscaped)
           ELSE IF c = FNMATCH_ESCAPE THEN Then(Element("CHARS", <<>>, {}), from[i + 1], FALSE)
           ELSE Then(Literal(c), from[i + 1], TRUE)
  IN from

PatternElements == Meaning(expr)[0].says

(* The elements of the program: those of a literal apart, and the set of a *)
(* bracket expression that is not plain left out.                          *)
ProgramElements ==
  LET Arg(o) == SubSeq(program, o + 3, o + 2 + OPLEN(o))
      Split(k) ==
        IF Instructions[k].op = "FIXED"
        THEN [m \in DOMAIN Instructions[k].str |-> Literal(Instructions[k].str[m])]
        ELSE IF Instructions[k].op = "CHARS" /\ ~Plain(Arg(Offsets[k]))
        THEN <<Element("CHARS", <<>>, {})>>
        ELSE <<Instructions[k]>>
  IN FlattenSeq([k \in DOMAIN Instructions |-> Split(k)])

-----------------------------------------------------------------------------
(* However a literal is cut into arguments and its escapes removed, the    *)
(* program spells out what the pattern is documented to say, and each of   *)
(* its bracket expressions accepts the bytes the pattern lists, in every   *)
(* pattern of which the compiler knows all escapes.                        *)
ProgramMeansPattern ==
  pc = "done" /\ Meaning(expr)[0].known => ProgramElements = PatternElements

(* src/README.md:22: "a <backslash> character in pattern followed by any   *)
(* other character shall match that second character in string" and a      *)
(* pattern that ends with one does not match.  buffer_read_escaped keeps a *)
(* backslash in front of any other byte as a literal.                      *)
EscapesAsDocumented == pc = "done" => ProgramElements = PatternElements

(* Walking back over the program, which fnmatch_vm_rewind does by the      *)
(* length behind an argument, finds the instructions that walking forth    *)
(* does, and walking forth ends with the program.  A length is stored in a *)
(* signed char and read as a size_t: no argument is too long for that,     *)
(* however its last bytes are escaped.                                     *)
PrevUndoesNext ==
  pc = "done" =>
    /\ \A k \in DOMAIN Offsets : OPLEN(Offsets[k]) \in 0..ArgMax
    /\ \A k \in 2..Len(Offsets) : vm_prev(Offsets[k]) = Offsets[k - 1]
    /\ Offsets[Len(Offsets)] + 2 = Len(program)

(* Only a bracket expression that is not closed, or longer than ArgMax,    *)
(* ends the process in the assertion of fnmatch__compiler_chars.           *)
AbortsOnlyOpenBracket ==
  pc = "abort" =>
    /\ Char(expr, at) = FNMATCH_CHARS_START
    /\ \A j \in at + 1..at + 1 + ArgMax : ~Closes(expr, at, j)

(* What the matching machine assumes of a program (FnmatchProgram).        *)
Programs == INSTANCE FnmatchProgram WITH Sep <- FNMATCH_SEP, Programs <- {}
ProgramWellFormed == pc = "done" => Programs!WellFormed(Instructions)

(* mchars is the least number of bytes the pattern matches, unless it has  *)
(* escapes, which are counted too.                                         *)
Count(ops) == Cardinality({k \in DOMAIN ProgramElements : ProgramElements[k].op \in ops})
StatsCount ==
  pc = "done" =>
    /\ stats.mchars >= Count({"FIXED", "CHARS", "ONE", "SEP"})
    /\ FNMATCH_ESCAPE \notin {expr[k] : k \in DOMAIN expr} =>
         stats.mchars = Count({"FIXED", "CHARS", "ONE", "SEP"})
    /\ stats.groups = Count({"CHARS", "ONE", "ANY", "DEEP"})
    /\ stats.parts = Count({"SEP"})

(* Each iteration reads something, or the loop would append for ever.      *)
EveryIterationReads == [][pc' = "loop" => at' > at]_compilerVars

=============================================================================
