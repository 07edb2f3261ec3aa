------------------------------- MODULE CvsWalk -------------------------------
(***************************************************************************)
(* OpenBSD cvs walking a working directory, from src/src/inspiration.c: a  *)
(* caller of fnmatch that keeps three lists of patterns, one of which      *)
(* belongs to the directory it stands in.  A directory is read first, then *)
(* its files are processed, and its subdirectories are walked last.        *)
(*                                                                         *)
(* The tree is constant, names and patterns are tuples of ASCII codes, and *)
(* a list is the set of what it holds: nothing asks for its order.         *)
(* Commands that read the repository as well are left out.                 *)
(***************************************************************************)
EXTENDS FnmatchOpenBSD

CONSTANTS
  Dirs, Root,
  Content,        \* what the disk has in a directory: names, and what they are
  Tracked,        \* what CVS/Entries has, for the directories with a CVS/
  Lines,          \* the lines of .cvsignore in a directory
  cvs_ign_std,    \* the standard patterns
  HomeLines,      \* the lines of ~/.cvsignore
  NameMax,        \* the size of a pattern's buffer
  File, Other     \* what a name is that is no directory

ASSUME WalkAssumption ==
  /\ NameMax \in Nat \ {0, 1}
  /\ cvs_ign_std \subseteq Text /\ HomeLines \subseteq Text
  /\ Root \in Dirs /\ File \notin Dirs \cup {Other} /\ Other \notin Dirs
  /\ \A d \in DOMAIN Tracked : \A e \in Tracked[d] :
       e.name \in Text /\ e.is \in Dirs \cup {File}
  /\ \A d \in Dirs :
       /\ Lines[d] \subseteq Text
       /\ \A e \in Content[d] : e.name \in Text /\ e.is \in Dirs \cup {File, Other}

VARIABLES
  cvs_nocase, cvs_cmdop,     \* the command's options
  cvs_ign_pats, dir_ign_pats,
  at,      \* <<>>, or the directory that is read: its names yet unread, its lists
  todo,    \* the lists still to walk, the innermost first
  seen,    \* what was read: directory, name and whether it was ignored
  done,    \* the files fileproc has been given
  skipped, \* what has been passed over
  stopped  \* fatal

options == <<cvs_nocase, cvs_cmdop>>
vars == <<options, cvs_ign_pats, dir_ign_pats, at, todo, seen, done, skipped, stopped>>

Meta   == {Star, Question, Open}
Hidden == {<<46>>, <<46, 46>>, <<67, 86, 83>>}      \* . .. CVS

Lowered(s) == [i \in DOMAIN s |-> tolower(s[i])]

(* The list entry of a pattern; one without a character of a glob is       *)
(* compared, not matched.                                                  *)
IgnPat(line) == [pat |-> line, static |-> \A i \in DOMAIN line : line[i] \notin Meta]

Fits(lines) == \A line \in lines : Len(line) < NameMax
cvs_file_ignore(lines, list) == list \cup {IgnPat(line) : line \in lines}

(* A line of the home directory's file is read through a buffer.           *)
Pieces(line) ==
  {SubSeq(line, i + 1, IF i + NameMax - 1 < Len(line) THEN i + NameMax - 1 ELSE Len(line)) :
     i \in {j \in 0..Len(line) - 1 : j % (NameMax - 1) = 0}}
HomePieces == UNION {Pieces(line) : line \in HomeLines}

cvs_file_cmpname(a, b) == IF cvs_nocase THEN Lowered(a) = Lowered(b) ELSE a = b

flags == {"PERIOD"} \cup (IF cvs_nocase THEN {"CASEFOLD"} ELSE {})

cvs_file_chkign(name) ==
  \E ip \in cvs_ign_pats \cup dir_ign_pats :
    IF ip.static THEN cvs_file_cmpname(name, ip.pat) ELSE openbsd(Call(ip.pat, name, flags))

-----------------------------------------------------------------------------
cvs_file_init ==
  /\ cvs_ign_pats = cvs_file_ignore(cvs_ign_std \cup HomePieces, {})
  /\ dir_ign_pats = {}

(* An element of a list: its directory, its name there and what it is.     *)
Path(d, e) == [dir |-> d, name |-> e.name, is |-> e.is]
Here == [name |-> <<46>>, is |-> Root]

Init ==
  /\ cvs_file_init
  /\ cvs_nocase \in BOOLEAN
  /\ cvs_cmdop \in {"RLOG", "IMPORT", "UPDATE"}
  /\ at = <<>> /\ todo = <<{Path(Root, Here)}>>
  /\ seen = {} /\ done = {} /\ skipped = {} /\ stopped = FALSE

Walking == at = <<>> /\ todo # <<>> /\ ~stopped
Rest(l) == <<Head(todo) \ {l}>> \o Tail(todo)

(* An element is passed over when its directory has gone; a directory also *)
(* when fileproc says so or cvs does not administer it, before its         *)
(* .cvsignore is read (src/src/inspiration.c:3402, 3509, 3530).            *)
SkipElement ==
  /\ Walking
  /\ \E l \in Head(todo) :
       /\ todo' = Rest(l)
       /\ skipped' = skipped \cup {l}
       /\ UNCHANGED <<options, cvs_ign_pats, dir_ign_pats, at, seen, done, stopped>>

ProcessFile ==
  /\ Walking
  /\ \E l \in Head(todo) :
       /\ l.is = File
       /\ todo' = Rest(l)
       /\ done' = done \cup {l}
       /\ UNCHANGED <<options, cvs_ign_pats, dir_ign_pats, at, seen, skipped, stopped>>

EnterDir ==
  /\ Walking
  /\ \E l \in Head(todo) :
       LET d == l.is
       IN /\ d # File
          /\ d \in DOMAIN Tracked \/ cvs_cmdop = "IMPORT"
          /\ todo' = Rest(l)
          /\ IF Fits(Lines[d])
             THEN /\ dir_ign_pats' = cvs_file_ignore(Lines[d], dir_ign_pats)
                  /\ at' = <<[dir |-> d, unread |-> Content[d], fl |-> {}, dl |-> {}]>>
                  /\ UNCHANGED stopped
             ELSE stopped' = TRUE /\ UNCHANGED <<dir_ign_pats, at>>
          /\ UNCHANGED <<options, cvs_ign_pats, seen, done, skipped>>

(* The next name of the directory.                                         *)
ReadName ==
  /\ at # <<>> /\ ~stopped
  /\ \E e \in at[1].unread, ignored \in BOOLEAN :
       LET hidden == e.name \in Hidden
           entry  == Path(at[1].dir, e)
           left   == [at[1] EXCEPT !.unread = @ \ {e}]
       IN /\ ignored <=> cvs_file_chkign(e.name) /\ cvs_cmdop # "RLOG"
          /\ at' = <<IF hidden \/ ignored \/ e.is = Other THEN left
                     ELSE IF e.is = File THEN [left EXCEPT !.fl = @ \cup {entry}]
                     ELSE [left EXCEPT !.dl = @ \cup {entry}]>>
          /\ seen' = IF hidden THEN seen
                     ELSE seen \cup {[dir |-> at[1].dir, name |-> e.name, ignored |-> ignored]}
          /\ UNCHANGED <<options, cvs_ign_pats, dir_ign_pats, todo, done, skipped, stopped>>

(* The directory's patterns are freed.  Fault: they stay.                  *)
Freed_none(list) == list
Freed(list) == {}

(* What CVS/Entries has.  Fault: the patterns apply to it too.             *)
Known_unignored(d) ==
  IF d \in DOMAIN Tracked THEN {k \in Tracked[d] : ~cvs_file_chkign(k.name)} ELSE {}
Known(d) == IF d \in DOMAIN Tracked THEN Tracked[d] ELSE {}

(* All is read: the directory's patterns go, what CVS/Entries has joins    *)
(* the lists, and that of the files is walked before that of the           *)
(* directories.                                                            *)
LeaveDir ==
  /\ at # <<>> /\ at[1].unread = {} /\ ~stopped
  /\ LET d     == at[1].dir
         files == at[1].fl \cup {Path(d, e) : e \in {k \in Known(d) : k.is = File}}
         dirs  == at[1].dl \cup {Path(d, e) : e \in {k \in Known(d) : k.is # File}}
     IN todo' = <<files, dirs>> \o todo
  /\ dir_ign_pats' = Freed(dir_ign_pats)
  /\ at' = <<>>
  /\ UNCHANGED <<options, cvs_ign_pats, seen, done, skipped, stopped>>

LeaveList ==
  /\ Walking /\ Head(todo) = {}
  /\ todo' = Tail(todo)
  /\ UNCHANGED <<options, cvs_ign_pats, dir_ign_pats, at, seen, done, skipped, stopped>>

(* A signal, seen before the next element of a list, file or directory.    *)
Quit ==
  /\ Walking /\ Head(todo) # {}
  /\ stopped' = TRUE
  /\ UNCHANGED <<options, cvs_ign_pats, dir_ign_pats, at, todo, seen, done, skipped>>

Next == SkipElement \/ ProcessFile \/ EnterDir \/ ReadName \/ LeaveDir \/ LeaveList \/ Quit
Spec == Init /\ [][Next]_vars

-----------------------------------------------------------------------------
(* The lines that are to speak of a directory's names, and whether         *)
(* OpenBSD's fnmatch reads them as POSIX does.  Lines with a backslash are *)
(* compared with a name too, when they have no character of a glob.        *)
OwnLines(d) == cvs_ign_std \cup HomePieces \cup Lines[d]
ReadAsPosix(d, name) ==
  \A l \in OwnLines(d) :
    ~Has(Call(l, name, flags), Backslash) /\ OpenBSDFollows(Call(l, name, flags))
ToIgnore(d, name) ==
  cvs_cmdop # "RLOG" /\ \E l \in OwnLines(d) : Matches(Call(l, name, flags))

(* A name is ignored exactly for a line of the standard list, of the       *)
(* user's file or of its own directory's file that matches it as POSIX     *)
(* defines (src/src/inspiration.c:3241, 3538-3552, 3660): no directory's   *)
(* patterns reach another one, and comparing plain patterns changes        *)
(* nothing.                                                                *)
IgnoresByOwnLines ==
  \A s \in seen :
    ReadAsPosix(s.dir, s.name) => (s.ignored <=> ToIgnore(s.dir, s.name))

(* Once a directory has been read, the files that fileproc has been given, *)
(* that were passed over or that still wait in a list are those CVS/Entries*)
(* has, ignored or not, and those on disk that no line of its own ignores  *)
(* (src/src/inspiration.c:3584-3591, 3642, 3665-3678, 3700): whatever is   *)
(* walked, skipped or stopped in between, no file gets lost, none is added.*)
Accounted == done \cup skipped \cup UNION {todo[k] : k \in DOMAIN todo}
Owed(d, name) ==
  \/ d \in DOMAIN Tracked /\ \E k \in Tracked[d] : k.is = File /\ k.name = name
  \/ /\ \E e \in Content[d] : e.is = File /\ e.name = name
     /\ name \notin Hidden /\ ~ToIgnore(d, name)
Names ==
  {e.name : e \in UNION {Content[d] : d \in Dirs}} \cup
  {e.name : e \in UNION {Tracked[d] : d \in DOMAIN Tracked}}
FilesAreAccounted ==
  \A d \in {s.dir : s \in seen} :
    at = <<>> \/ at[1].dir # d =>
      \A name \in Names :
        ReadAsPosix(d, name) =>
          ([dir |-> d, name |-> name, is |-> File] \in Accounted <=> Owed(d, name))

=============================================================================
