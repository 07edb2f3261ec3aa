---------------------------- MODULE FnmatchOpenBSD ----------------------------
(***************************************************************************)
(* OpenBSD's fnmatch, the third of src/alt_impl.c: an iterative matcher    *)
(* that takes the string a segment at a time, and after a star counts the  *)
(* fixed characters that must follow.                                      *)
(***************************************************************************)
EXTENDS FnmatchPosix

None == 0 - 1
Colon == 58
Upper == <<117, 112, 112, 101, 114>>
Lower == <<108, 111, 119, 101, 114>>

escape(a) == "NOESCAPE" \notin a.flags
slash(a)  == "PATHNAME" \in a.flags

(* A slash of the pattern that ends a segment, escaped or not.  Fault: an  *)
(* escaped one does not.                                                   *)
AtSlash_plain(a, p) == slash(a) /\ P(a, p) = Slash
AtSlash(a, p) ==
  slash(a) /\ (P(a, p) = Slash \/ (escape(a) /\ P(a, p) = Backslash /\ P(a, p + 1) = Slash))

(* The class [:name:] at p: the offset behind it, p when there is none,    *)
(* and whether it has the byte.                                            *)
classmatch(a, p, test) ==
  LET colons == {k \in p + 2..Len(a.pattern) - 1 : P(a, k) = Colon}
      k      == CHOOSE k \in colons : \A j \in colons : k <= j
      text   == SubSeq(a.pattern, p + 3, k)
      name   == IF "CASEFOLD" \in a.flags /\ text = Upper THEN Lower ELSE text
  IN IF P(a, p) = Open /\ P(a, p + 1) = Colon /\ colons # {} /\ P(a, k + 1) = Close
          /\ \E class \in Classes : class.name = name
     THEN [end |-> k + 2, has |-> \E class \in Classes : class.name = name /\ test \in class.bytes]
     ELSE [end |-> p, has |-> FALSE]

InRange(a, lo, c, hi) == \/ lo <= c /\ c <= hi
                         \/ Fold(a, lo) <= Fold(a, c) /\ Fold(a, c) <= Fold(a, hi)

(* A bracket expression from p on: the offset behind it, None when it is   *)
(* not balanced, and whether it lists c.  lead: a ] at p is a member.  L   *)
(* says it of the rest.                                                    *)
ListFrom(L, a, c, p, lead) ==
  LET q     == IF ~lead /\ escape(a) /\ P(a, p) = Backslash THEN p + 1 ELSE p
      class == classmatch(a, q, c)
      range == P(a, q + 1) = Minus /\ P(a, q + 2) # Close
      r     == IF escape(a) /\ P(a, q + 2) = Backslash THEN q + 3 ELSE q + 2
      Ends(x) == P(a, x) = EOS \/ (slash(a) /\ P(a, x) = Slash)
      Or(hit, rest) == [rest EXCEPT !.hit = hit \/ @]
  IN IF ~lead /\ P(a, p) = Close THEN [end |-> p + 1, hit |-> FALSE]
     ELSE IF ~lead /\ Ends(q) THEN [end |-> None, hit |-> FALSE]
     ELSE IF ~lead /\ class.end # q THEN Or(class.has, L[class.end])
     ELSE IF range /\ Ends(r) THEN [end |-> None, hit |-> FALSE]
     ELSE IF range THEN Or(InRange(a, P(a, q), c, P(a, r)), L[r + 1])
     ELSE Or(Fold(a, c) = Fold(a, P(a, q)), L[q + 1])
RangeList(a, c, p) ==
  LET L[q \in PatternOffsets(a)] == ListFrom(L, a, c, q, FALSE)
  IN ListFrom(L, a, c, p, P(a, p) = Close)

(* One character of the pattern at p and the byte c: whether they match,   *)
(* the pattern offset afterwards and the bytes taken of the string.  It    *)
(* does not move over an end, nor over a slash that PATHNAME protects.     *)
fnmatch_ch(a, p, c) ==
  LET negate == P(a, p + 1) \in Negations
      q      == IF Escape(a, p) THEN p + 1 ELSE p
      held   == {EOS} \cup (IF slash(a) THEN {Slash} ELSE {})
      stays  == c \in held \/ P(a, q) \in held
      other  == IF P(a, p) = Question
                THEN IF c \in held THEN [ok |-> FALSE, p |-> p, taken |-> 0]
                                   ELSE [ok |-> TRUE, p |-> p + 1, taken |-> 1]
                ELSE [ok    |-> Fold(a, c) = Fold(a, P(a, q)),
                      p     |-> IF stays THEN q ELSE q + 1,
                      taken |-> IF stays THEN 0 ELSE 1]
      Bracket(list) == IF list.end = None THEN other
                       ELSE [ok |-> list.hit # negate, p |-> list.end, taken |-> 1]
  IN IF P(a, p) = Open THEN Bracket(RangeList(a, c, IF negate THEN p + 2 ELSE p + 1)) ELSE other

(* The offset behind the stars and question marks at p.                    *)
AfterWild(a, p) ==
  CHOOSE q \in p..Len(a.pattern) : /\ P(a, q) \notin {Star, Question}
                                   /\ \A r \in p..q - 1 : P(a, r) \in {Star, Question}

(* The characters to the next star, or (last) to the end of the segment.   *)
FixedFrom(F, a, p) ==
  IF P(a, p) = EOS \/ AtSlash(a, p) THEN [len |-> 0, last |-> TRUE]
  ELSE IF P(a, p) = Star THEN [len |-> 0, last |-> FALSE]
  ELSE [F[IF Escape(a, p) THEN p + 2 ELSE IF P(a, p) = Open THEN fnmatch_ch(a, p, 32).p ELSE p + 1]
          EXCEPT !.len = @ + 1]
Fixed(a, p) == LET F[q \in PatternOffsets(a)] == FixedFrom(F, a, q) IN F[p]

Failed == [ok |-> FALSE, p |-> 0, n |-> 0]

(* The pattern from p on against the string from n on, up to a star, a     *)
(* slash, the end or a mismatch.  C says it of what is behind ch.          *)
Behind(C, n, ch) == IF ch.ok THEN C[<<ch.p, n + ch.taken>>] ELSE Failed
CompareFrom(C, a, end, p, n) ==
  IF P(a, p) \in {EOS, Star} \/ n >= end \/ (slash(a) /\ S(a, n) = Slash) \/ AtSlash(a, p)
  THEN [ok |-> TRUE, p |-> p, n |-> n]
  ELSE Behind(C, n, fnmatch_ch(a, p, S(a, n)))
Compare(a, end, p, n) ==
  LET C[i \in PatternOffsets(a) \X StringOffsets(a)] == CompareFrom(C, a, end, i[1], i[2])
  IN C[<<p, n>>]

(* After a star a mismatch starts over one byte further on.                *)
CompareWild(a, end, p, n, len) ==
  LET starts == {s \in n..end - len : Compare(a, end, p, s).ok}
  IN IF starts = {} THEN Failed
     ELSE Compare(a, end, p, CHOOSE s \in starts : \A r \in starts : s <= r)

(* What stands behind a run of stars and question marks that may end at m: *)
(* behind the last star of the segment there is one place only.            *)
CompareBehind(a, end, q, m, wild, fixed) ==
  CASE wild /\ fixed.last -> Compare(a, end, q, end - fixed.len)
    [] wild /\ ~fixed.last -> CompareWild(a, end, q, m, fixed.len)
    [] OTHER -> Compare(a, end, q, m)

(* The pattern from p on against the segment from n to end.  M says it of  *)
(* what follows.                                                           *)
Resume(M, run) == IF run.ok THEN M[<<run.p, run.n>>] ELSE Failed
SegmentFrom(M, a, end, p, n) ==
  LET q     == AfterWild(a, p)
      marks == {r \in p..q - 1 : P(a, r) = Question}
      m     == n + Cardinality(marks)
      wild  == \E r \in p..q - 1 : P(a, r) = Star
      fixed == Fixed(a, q)
  IN IF P(a, p) = EOS \/ n > end \/ (n = end /\ P(a, p) # Star) \/ AtSlash(a, p)
     THEN [ok |-> TRUE, p |-> p, n |-> n]
     ELSE IF m > end \/ (wild /\ m + fixed.len > end) THEN Failed
     ELSE Resume(M, CompareBehind(a, end, q, m, wild, fixed))
MatchSegment(a, p, n, end) ==
  LET M[i \in PatternOffsets(a) \X (n..end)] == SegmentFrom(M, a, end, i[1], i[2])
  IN M[<<p, n>>]

(* A segment: a leading period, then up to a slash of the string.  O says  *)
(* of what follows that it matches.                                        *)
SegmentDone(O, a, r) ==
  /\ r.ok
  /\ S(a, r.n) = EOS \/ (S(a, r.n) = Slash /\ (slash(a) \/ "LEADING_DIR" \in a.flags))
  /\ P(a, r.p) = EOS \/ AtSlash(a, r.p)
  /\ \/ "LEADING_DIR" \in a.flags /\ P(a, r.p) = EOS /\ S(a, r.n) = Slash
     \/ O[<<r.p, r.n>>]
FirstSegment(O, a, p, n) ==
  LET dot   == "PERIOD" \in a.flags /\ S(a, n) = Period
      plain == P(a, p) = Period
      p1    == IF ~dot THEN p ELSE IF plain THEN p + 1 ELSE p + 2
      n1    == IF dot THEN n + 1 ELSE n
      end   == IF slash(a) THEN SegmentEnd(a, n1) ELSE Len(a.string)
  IN /\ dot => plain \/ (escape(a) /\ P(a, p) = Backslash /\ P(a, p + 1) = Period)
     /\ SegmentDone(O, a, MatchSegment(a, p1, n1, end))

OpenBSDFrom(O, a, p, n) ==
  LET q    == IF AtSlash(a, p) /\ P(a, p) = Backslash THEN p + 1 ELSE p
      over == IF slash(a) /\ P(a, q) = Slash /\ S(a, n) = Slash THEN 1 ELSE 0
  IN IF P(a, p) = EOS \/ S(a, n) = EOS THEN P(a, p) = EOS /\ S(a, n) = EOS
     ELSE FirstSegment(O, a, q + over, n + over)

openbsd(a) ==
  LET O[i \in PatternOffsets(a) \X StringOffsets(a)] == OpenBSDFrom(O, a, i[1], i[2])
  IN IF P(a, 0) = Star THEN FirstSegment(O, a, 0, 0) ELSE O[<<0, 0>>]

(* OpenBSD's empty pattern never matches a leading directory, without      *)
(* PATHNAME the characters after a star must end the whole string, and     *)
(* CASEFOLD tries the ends of a range as they are, too.                    *)
OpenBSDFollows(a) ==
  /\ PlainBrackets(a)
  /\ "LEADING_DIR" \in a.flags => a.pattern # <<>> /\ ("PATHNAME" \in a.flags \/ ~Has(a, Star))
  /\ "CASEFOLD" \in a.flags => \A q \in Ranges(a) : P(a, q - 1) > 90 \/ P(a, q + 1) <= 90

=============================================================================
