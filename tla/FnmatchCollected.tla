--------------------------- MODULE FnmatchCollected ---------------------------
(***************************************************************************)
(* The implementations of fnmatch that the repository collects, each asked *)
(* for one pattern, string and set of flags, beside the POSIX reference.   *)
(***************************************************************************)
EXTENDS FnmatchNetBSD, FnmatchGNU, FnmatchMusl, FnmatchOpenBSD

CONSTANTS
  Patterns,
  Strings,
  FlagSets

ASSUME CollectedAssumption == Patterns \subseteq Text /\ Strings \subseteq Text

VARIABLES
  pattern, string,
  answer   \* who was asked, with which flags, and whether it matched

asked == <<pattern, string, answer>>

Answer(by, f, match) ==
  /\ answer = <<>>
  /\ answer' = <<[by |-> by, flags |-> f, match |-> match]>>
  /\ UNCHANGED <<pattern, string>>

Asked(f) == Call(pattern, string, f)
AskNetBSD  == \E f \in FlagSets : Answer("netbsd", f, netbsd(Asked(f)))
AskGNU     == \E f \in FlagSets : GNUDefined(Asked(f)) /\ Answer("gnu", f, gnu(Asked(f)))
AskCVS     == \E f \in FlagSets : CVSDefined(Asked(f)) /\ Answer("cvs", f, cvs(Asked(f)))
AskMusl    == \E f \in FlagSets : "CASEFOLD" \notin f /\ Answer("musl", f, musl(Asked(f)))
AskOpenBSD == \E f \in FlagSets : Answer("openbsd", f, openbsd(Asked(f)))

AskInit == pattern \in Patterns /\ string \in Strings /\ answer = <<>>
AskNext == AskNetBSD \/ AskGNU \/ AskCVS \/ AskMusl \/ AskOpenBSD
AskSpec == AskInit /\ [][AskNext]_asked

-----------------------------------------------------------------------------
(* Where an implementation is known to answer as POSIX does.               *)
Follows(by, a) ==
  CASE by = "netbsd" -> NetBSDFollows(a)
    [] by \in {"gnu", "cvs"} -> GNUFollows(a)
    [] by = "musl" -> MuslFollows(a)
    [] by = "openbsd" -> OpenBSDFollows(a)

(* Outside of what is named above, every implementation gives the answer   *)
(* that POSIX defines (src/src/alt_impl.c:78, 572 and 1108,                *)
(* src/src/inspiration.c:144 and 1555): recursion over every place for a   *)
(* star, one search a component, and counting from the end agree.          *)
AgreesWithPosix ==
  \A i \in DOMAIN answer :
    LET a == Asked(answer[i].flags)
    IN Follows(answer[i].by, a) => answer[i].match = Matches(a)

=============================================================================
