--------------------------- MODULE FnmatchScanner ---------------------------
(***************************************************************************)
(* The callback driven API of src/scanner.c: a loop that turns the states  *)
(* of a context into calls of its client.  The client walks a finite tree: *)
(* it has a number of strings to push, and when it is asked for another    *)
(* one it does nothing.  A callback that is asked for something does it or *)
(* declines, and answers with one of Answers.                              *)
(***************************************************************************)
EXTENDS FnmatchContext

CONSTANTS
  Answers,    \* what callbacks answer
  TreeSize    \* number of strings the client has to push

VARIABLES
  callbacks,  \* the callbacks the client has set; the others are NULL
  phase,      \* "idle" outside fnmatch_scanner_match, "loop" at its switch,
              \* "match" in its call of fnmatch_context_match
  next,       \* the local state of fnmatch_scanner_match, then its result
  left,       \* the strings the client has not pushed yet
  declined,   \* a callback did not do what it was asked, or did not answer
              \* FNMATCH_CONTINUE
  repeated,   \* the loop was entered at a match the client has been told of
  reported    \* full matches reported to the client before that

ghosts      == <<declined, reported, repeated>>
scannerVars == <<callbacks, phase, next, left, ghosts>>
allVars     == <<vars, scannerVars>>

(* Other answers would be taken for a state the context is not in.         *)
ASSUME AnswersAssumption == Answers \subseteq {"CONTINUE", "STOP", "ERROR"}
ASSUME TreeAssumption == TreeSize \in Nat
ASSUME NullAssumption == <<>> \in Strings

(* fnmatch_scanner_init.                                                   *)
ScannerInit ==
  /\ Init
  /\ callbacks \in SUBSET {"push", "pop", "match"}
  /\ phase = "idle"
  /\ next = "PUSH"
  /\ left = TreeSize
  /\ declined = FALSE /\ repeated = FALSE
  /\ reported = 0

-----------------------------------------------------------------------------
AtFullMatch == state = "MATCH" /\ opcode = "END"

(* fnmatch_scanner_match starts with the state the context is in.          *)
Scan ==
  /\ phase = "idle" /\ call = "idle"
  /\ next' = state /\ phase' = "loop"
  /\ repeated' = (repeated \/ AtFullMatch)
  /\ UNCHANGED <<vars, callbacks, left, declined, reported>>

(* Fault: the loop also ends at a failed match.                            *)
Loop_ends_at_nomatch(s) ==
  next' = s /\ phase' = IF s \in {"STOP", "NOMATCH"} THEN "idle" ELSE "loop"

(* Fault: the loop ends at FNMATCH_ERROR only.                             *)
Loop_until_error(s) == next' = s /\ phase' = IF s = "ERROR" THEN "idle" ELSE "loop"

(* The end of an iteration: do ... while( state != FNMATCH_STOP ).         *)
Loop(s) == next' = s /\ phase' = IF s = "STOP" THEN "idle" ELSE "loop"

(* A callback answers; one that is NULL has the scanner answer for it.     *)
Reply(callback, done) ==
  \/ callback \in callbacks /\ \E a \in Answers :
       Loop(a) /\ declined' = (declined \/ ~done \/ a # "CONTINUE")
  \/ callback \notin callbacks /\ done /\ Loop("CONTINUE") /\ UNCHANGED declined

AskMatch ==
  /\ phase = "loop" /\ next = "MATCH"
  /\ Reply("match", TRUE)
  /\ reported' = IF AtFullMatch /\ ~repeated THEN reported + 1 ELSE reported
  /\ UNCHANGED <<vars, callbacks, left, repeated>>

(* Without a callback the terminator is pushed, always.                    *)
AskPush ==
  /\ phase = "loop" /\ next = "PUSH" /\ call = "idle"
  /\ \/ "push" \in callbacks /\ left > 0
        /\ \E str \in Strings : Push(str)
        /\ left' = left - 1 /\ Reply("push", TRUE)
     \/ "push" \in callbacks
        /\ UNCHANGED <<vars, left>> /\ Reply("push", FALSE)
     \/ "push" \notin callbacks
        /\ Push(<<>>) /\ UNCHANGED left /\ Reply("push", TRUE)
  /\ UNCHANGED <<callbacks, reported, repeated>>

(* Fault: the case of FNMATCH_NOMATCH joins the one of FNMATCH_POP.        *)
AskPop_at_nomatch ==
  /\ phase = "loop" /\ next \in {"POP", "NOMATCH"} /\ call = "idle"
  /\ \/ Pop /\ Reply("pop", TRUE)
     \/ UNCHANGED vars /\ Reply("pop", FALSE)
  /\ UNCHANGED <<callbacks, left, reported, repeated>>

AskPop ==
  /\ phase = "loop" /\ next = "POP" /\ call = "idle"
  /\ \/ Pop /\ Reply("pop", TRUE)
     \/ UNCHANGED vars /\ Reply("pop", FALSE)
  /\ UNCHANGED <<callbacks, left, reported, repeated>>

(* FNMATCH_ERROR is returned at once.                                      *)
ReturnError ==
  /\ phase = "loop" /\ next = "ERROR"
  /\ phase' = "idle"
  /\ UNCHANGED <<vars, callbacks, next, left, ghosts>>

(* Fault: a match is not reported.                                         *)
EnterMatch_at_match ==
  /\ phase = "loop" /\ next \in {"MATCH", "NOMATCH", "CONTINUE", "STOP"}
  /\ Match
  /\ phase' = "match"
  /\ UNCHANGED <<callbacks, next, left, ghosts>>

EnterMatch ==
  /\ phase = "loop" /\ next \in {"NOMATCH", "CONTINUE", "STOP"}
  /\ Match
  /\ phase' = "match"
  /\ UNCHANGED <<callbacks, next, left, ghosts>>

IterateMatch == phase = "match" /\ Running /\ UNCHANGED scannerVars

MatchReturned ==
  /\ phase = "match" /\ call = "idle"
  /\ Loop(state)
  /\ UNCHANGED <<vars, callbacks, left, ghosts>>

(* fnmatch_scanner_reset; the client starts over with a new tree.          *)
ScannerReset ==
  /\ phase = "idle"
  /\ Reset
  /\ next' = "PUSH"
  /\ left' = TreeSize
  /\ declined' = FALSE /\ reported' = 0 /\ repeated' = FALSE
  /\ UNCHANGED <<callbacks, phase>>

ScannerStep ==
  AskMatch \/ AskPush \/ AskPop \/ ReturnError \/ EnterMatch \/ IterateMatch \/ MatchReturned

ScannerNext == Scan \/ ScannerStep \/ ScannerReset

(* A call of fnmatch_scanner_match runs.                                   *)
ScannerSpec == ScannerInit /\ [][ScannerNext]_allVars /\ WF_allVars(ScannerStep)

-----------------------------------------------------------------------------
(* A callback is asked for something only in the state in which the        *)
(* context allows it, so that a client which does only what it is asked    *)
(* never drives its context into FNMATCH_ERROR.                            *)
AsksInStep ==
  /\ phase = "loop" /\ next \in {"MATCH", "PUSH", "POP"} => state = next
  /\ state # "ERROR"

(* A full match that was counted has been reported to the client, or is    *)
(* about to be, and once only unless the client starts the scanner again   *)
(* at the match it was stopped at.                                         *)
FullMatchesReported ==
  LET pending == AtFullMatch /\ (phase = "match" \/ (phase = "loop" /\ next = "MATCH"))
  IN ~repeated => nmatch = reported + IF pending THEN 1 ELSE 0

(* The scan ends only because a callback ended it: no combination of       *)
(* partial and failed matches, pushes and pops stops it early.             *)
EndsOnRequest == phase = "idle" /\ next # "PUSH" => declined

(* The scan of a finite tree ends, unless its pattern starts with a star   *)
(* or a pop reads outside of the buffer.                                   *)
ScanEnds ==
  "push" \in callbacks /\ program[1].op # "ANY" /\ phase # "idle"
    ~> phase = "idle" \/ call = "crash"

=============================================================================
