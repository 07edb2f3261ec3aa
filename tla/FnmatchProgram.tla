--------------------------- MODULE FnmatchProgram ---------------------------
(***************************************************************************)
(* Compiled programs: the data that fnmatch_compile (src/compiler.c)       *)
(* produces and the matching machine (src/vm.c) executes.                  *)
(*                                                                         *)
(* Two abstractions.  Bytes are members of a set in which only the         *)
(* separator and the terminator are told apart.  A program is the sequence *)
(* of its instructions instead of the bytes of their encoding, and an      *)
(* instruction has its argument decoded.                                   *)
(***************************************************************************)
EXTENDS Naturals, Sequences

CONSTANTS
  Byte,      \* the values of a char
  Sep,       \* FNMATCH_SEP
  Nul,       \* '\0'
  Programs   \* the compiled programs a context may be created for

ASSUME ByteAssumption == {Sep, Nul} \subseteq Byte /\ Sep # Nul

Opcode == {"FIXED", "CHARS", "ONE", "ANY", "DEEP", "SEP", "END"}

(* An instruction is an opcode with its argument: the bytes of a FIXED, or *)
(* the set of bytes a CHARS accepts.                                       *)
Instruction == [op : Opcode, str : Seq(Byte), set : SUBSET Byte]

(* What fnmatch_compile produces: FIXED arguments hold at least one byte   *)
(* and never the terminator of the pattern, END is the last instruction    *)
(* and only that, and a star that is followed by another one has been      *)
(* compiled to a DEEP.                                                     *)
WellFormed(p) ==
  /\ p \in Seq(Instruction)
  /\ Len(p) > 0
  /\ \A i \in 1..Len(p) :
       /\ p[i].op = "END" <=> i = Len(p)
       /\ p[i].op = "FIXED" => Len(p[i].str) > 0 /\ \A k \in 1..Len(p[i].str) : p[i].str[k] # Nul
       /\ p[i].op = "ANY" => p[i + 1].op \notin {"ANY", "DEEP"}

ASSUME ProgramsAssumption == \A p \in Programs : WellFormed(p)

=============================================================================
