--------------------------- MODULE FnmatchPattern ---------------------------
(***************************************************************************)
(* The one-shot API: fnmatch of src/posix.c and fnmatch_pattern_match of   *)
(* src/pattern.c, a client of the context that pushes the whole string,    *)
(* asks for a match until the machine wants more, and then pushes the      *)
(* terminator and asks once more.                                          *)
(***************************************************************************)
EXTENDS FnmatchStream

CONSTANTS
  Subjects,  \* the strings to match, as sequences of bytes
  FlagSets   \* the sets of flags fnmatch is called with

VARIABLES
  flags,    \* the flags argument
  subject,  \* the str argument
  pc,       \* where the call is; "abort" after a failed assertion
  answer    \* what fnmatch returns

callVars == <<flags, subject, pc, answer>>
patternVars == <<vars, callVars>>

ASSUME SubjectsAssumption == Subjects \cup {<<>>} \subseteq Strings

(* The program is the one fnmatch_pattern_compile makes, which never       *)
(* fails; fnmatch_context_init is the context's Init.                      *)
PatternInit ==
  /\ Init
  /\ flags \in FlagSets
  /\ subject \in Subjects
  /\ pc = "enter"
  /\ answer = "none"

Goto(label) == pc' = label /\ UNCHANGED <<flags, subject, answer>>

Supported == "PATHNAME" \in flags /\ flags \cap {"PERIOD", "NOESCAPE"} = {}

Enter ==
  /\ pc = "enter"
  /\ \/ Supported /\ Goto("push")
     \/ /\ ~Supported
        /\ pc' = "return" /\ answer' = "FNM_NOSYS"
        /\ UNCHANGED <<flags, subject>>
  /\ UNCHANGED vars

PushSubject == pc = "push" /\ Push(subject) /\ Goto("match")

CallMatch ==
  \/ pc = "match"   /\ Match /\ Goto("test")
  \/ pc = "rematch" /\ Match /\ Goto("retest")

(* An iteration of the loop inside fnmatch_context_match.                  *)
Iterate == Running /\ UNCHANGED callVars

Returned == call = "idle" /\ UNCHANGED vars

(* fnmatch_pattern_match returns, and fnmatch with it.                     *)
Answer ==
  /\ pc' = "return"
  /\ answer' = IF state = "MATCH" THEN "0" ELSE "FNM_NOMATCH"
  /\ UNCHANGED <<flags, subject>>

(* Fault: no loop, a partial match counts as a match.                      *)
Test_once ==
  /\ pc = "test" /\ Returned
  /\ \/ state = "PUSH"               /\ Goto("terminate")
     \/ state \in {"MATCH", "NOMATCH"} /\ Answer
     \/ state \notin {"MATCH", "PUSH", "NOMATCH"} /\ Goto("abort")

(* The do-while loop and the assertion after it.                           *)
Test ==
  /\ pc = "test" /\ Returned
  /\ \/ state = "MATCH"   /\ Goto("match")
     \/ state = "PUSH"    /\ Goto("terminate")
     \/ state = "NOMATCH" /\ Answer
     \/ state \notin {"MATCH", "PUSH", "NOMATCH"} /\ Goto("abort")

(* Fault: the terminator is not pushed.                                    *)
PushTerminator_skipped == pc = "terminate" /\ UNCHANGED vars /\ Goto("rematch")

PushTerminator == pc = "terminate" /\ Push(<<>>) /\ Goto("rematch")

Retest ==
  /\ pc = "retest" /\ Returned
  /\ \/ state \in {"MATCH", "NOMATCH"}    /\ Answer
     \/ state \notin {"MATCH", "NOMATCH"} /\ Goto("abort")

(* fnmatch has returned, or an assertion has ended the process.            *)
Ended == pc \in {"return", "abort"} /\ UNCHANGED patternVars

PatternStep == Enter \/ PushSubject \/ CallMatch \/ Iterate \/ Test \/ PushTerminator \/ Retest

PatternNext == PatternStep \/ Ended

PatternSpec ==
  PatternInit /\ [][PatternNext]_patternVars /\ WF_patternVars(PatternStep)

-----------------------------------------------------------------------------
(* The patterns for which fnmatch decides what the README says.            *)

Codes(p) == {p[i].op : i \in 1..Len(p)}

(* Bracket expressions that match neither a separator nor the terminator,  *)
(* and literals without an escaped separator.                              *)
Proper(p) ==
  \A i \in 1..Len(p) :
    /\ p[i].op = "CHARS" => {Sep, Nul} \cap p[i].set = {}
    /\ \A k \in 1..Len(p[i].str) : p[i].str[k] # Sep

(* No star is first in the pattern, and of two stars the first is either   *)
(* single and in an earlier component, or double and the other one single. *)
SingleStars(p) ==
  /\ p[1].op # "ANY"
  /\ \A i, j \in 1..Len(p) :
       i < j /\ {p[i].op, p[j].op} \subseteq {"ANY", "DEEP"} =>
         \/ p[i].op = "DEEP" /\ p[j].op = "ANY"
         \/ p[i].op = "ANY" /\ \E k \in i..j : p[k].op = "SEP"

SubjectData == [i \in 0..Len(subject) - 1 |-> subject[i + 1]]
SubjectGlobs == Globs(program, SubjectData, Len(subject))

(* fnmatch returns 0 only for a string the pattern matches.                *)
ZeroIsMatch ==
  answer = "0" /\ Proper(program) /\ "DEEP" \notin Codes(program) => SubjectGlobs

(* fnmatch returns FNM_NOMATCH only for a string the pattern does not      *)
(* match.                                                                  *)
NoMatchIsNoMatch ==
  answer = "FNM_NOMATCH" /\ Proper(program) /\ SingleStars(program) => ~SubjectGlobs

(* The assertions of fnmatch_pattern_match hold.                           *)
AssertionsHold == Proper(program) /\ subject # <<>> => pc # "abort"

(* fnmatch returns, whatever it has to backtrack over, unless the pattern  *)
(* starts with a star.                                                     *)
Returns == program[1].op # "ANY" => <>(pc \in {"return", "abort"})

-----------------------------------------------------------------------------
(* "shall return": src/README.md:35 says that fnmatch always answers.      *)
AlwaysReturns == <>(pc \in {"return", "abort"})

=============================================================================
