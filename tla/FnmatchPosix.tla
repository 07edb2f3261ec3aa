---------------------------- MODULE FnmatchPosix ----------------------------
(***************************************************************************)
(* fnmatch as POSIX defines it, the reference for the implementations that *)
(* src/alt_impl.c and src/inspiration.c collect.  Characters are ASCII     *)
(* codes and offsets count from 0.  The arguments of a call are a record:  *)
(* the pattern and the string, sequences of codes, and a set of flags.     *)
(***************************************************************************)
EXTENDS Integers, Sequences, FiniteSets

CONSTANT Classes   \* character classes: the name and the bytes of each

EOS       == 0
Slash     == 47
Period    == 46
Star      == 42
Question  == 63
Backslash == 92
Open      == 91
Close     == 93
Minus     == 45
Negations == {33, 94}   \* ! and ^

Text == Seq(1..127)
Call(pattern, string, flags) == [pattern |-> pattern, string |-> string, flags |-> flags]

(* Offsets into the arguments, and what stands there.                      *)
PatternOffsets(a) == 0..Len(a.pattern)
StringOffsets(a)  == 0..Len(a.string)
P(a, p) == IF p \in 0..Len(a.pattern) - 1 THEN a.pattern[p + 1] ELSE EOS
S(a, n) == IF n \in 0..Len(a.string) - 1 THEN a.string[n + 1] ELSE EOS

tolower(c) == IF c \in 65..90 THEN c + 32 ELSE c
Fold(a, c) == IF "CASEFOLD" \in a.flags THEN tolower(c) ELSE c

(* The end of the path segment that n is in.                               *)
SegmentEnd(a, n) ==
  CHOOSE e \in n..Len(a.string) :
    S(a, e) \in {Slash, EOS} /\ \A m \in n..e - 1 : S(a, m) # Slash

(* A period that PERIOD protects.                                          *)
LeadingPeriod(a, n) ==
  /\ "PERIOD" \in a.flags /\ S(a, n) = Period
  /\ n = 0 \/ ("PATHNAME" \in a.flags /\ S(a, n - 1) = Slash)

Escape(a, p) == P(a, p) = Backslash /\ P(a, p + 1) # EOS /\ "NOESCAPE" \notin a.flags

-----------------------------------------------------------------------------
(* The reference.                                                          *)

(* A bracket expression at p that ends at e.  Its list is what stands from *)
(* lo to hi: bytes, and ranges around a minus that is neither first nor    *)
(* last.                                                                   *)
BracketAt(a, p, e) ==
  /\ P(a, p) = Open /\ e > p + 1 /\ P(a, e) = Close
  /\ \A q \in p + 1..e - 1 : P(a, q) # Close
RangeAt(a, lo, hi, q) == lo < q /\ q < hi /\ P(a, q) = Minus
Lists(a, lo, hi, c) ==
  \E q \in lo..hi :
    IF RangeAt(a, lo, hi, q) THEN Fold(a, P(a, q - 1)) <= c /\ c <= Fold(a, P(a, q + 1))
                             ELSE Fold(a, P(a, q)) = c
Accepts(a, p, e, c) ==
  IF P(a, p + 1) \in Negations THEN ~Lists(a, p + 2, e - 1, Fold(a, c))
                               ELSE Lists(a, p + 1, e - 1, Fold(a, c))

(* A byte that a star, a question mark or a bracket expression may match.  *)
Wild(a, n) ==
  /\ S(a, n) # EOS
  /\ ~("PATHNAME" \in a.flags /\ S(a, n) = Slash)
  /\ ~LeadingPeriod(a, n)

(* What stands in the pattern from p up to q takes the byte at n.          *)
OneTakes(a, p, q, n) == P(a, p) = Question /\ q = p + 1 /\ Wild(a, n)
BracketTakes(a, p, q, n) ==
  BracketAt(a, p, q - 1) /\ Wild(a, n) /\ Accepts(a, p, q - 1, S(a, n))
LiteralTakes(a, p, q, n) ==
  LET l == IF Escape(a, p) THEN p + 1 ELSE p
  IN /\ q = l + 1 /\ P(a, p) \notin {EOS, Star, Question, Open}
     /\ S(a, n) # EOS /\ Fold(a, P(a, l)) = Fold(a, S(a, n))
TokenTakes(a, p, q, n) ==
  OneTakes(a, p, q, n) \/ BracketTakes(a, p, q, n) \/ LiteralTakes(a, p, q, n)

(* The pattern from p on matches the string from n on, when M says it of   *)
(* what follows.  A star does not even stand in front of a leading period. *)
Matching(M, a, p, n) ==
  \/ P(a, p) = EOS /\ (S(a, n) = EOS \/ ("LEADING_DIR" \in a.flags /\ S(a, n) = Slash))
  \/ P(a, p) = Star /\ ~LeadingPeriod(a, n)
       /\ (M[<<p + 1, n>>] \/ (Wild(a, n) /\ M[<<p, n + 1>>]))
  \/ \E q \in PatternOffsets(a) : TokenTakes(a, p, q, n) /\ M[<<q, n + 1>>]

Match(a) ==
  LET M[i \in PatternOffsets(a) \X StringOffsets(a)] == Matching(M, a, i[1], i[2]) IN M
Matches(a) == Match(a)[<<0, 0>>]

-----------------------------------------------------------------------------
(* Patterns that the implementations read alike.                           *)

Has(a, c) == \E p \in 0..Len(a.pattern) - 1 : P(a, p) = c

(* The minuses of bracket expressions that are ranges.                     *)
ListStart(a, p) == IF P(a, p + 1) \in Negations THEN p + 2 ELSE p + 1
Ranges(a) ==
  {q \in PatternOffsets(a) :
     \E p, e \in PatternOffsets(a) : BracketAt(a, p, e) /\ RangeAt(a, ListStart(a, p), e - 1, q)}

(* Every [ opens a plain bracket expression; what an implementation makes  *)
(* of escapes, slashes and brackets inside one is its own affair, and so   *)
(* are a range that shares its ends, and one from a later byte to an       *)
(* earlier one.                                                            *)
PlainBrackets(a) ==
  /\ \A p \in PatternOffsets(a) : P(a, p) = Open =>
       \E e \in PatternOffsets(a) :
         /\ BracketAt(a, p, e) /\ e > ListStart(a, p)
         /\ \A q \in p + 1..e - 1 : P(a, q) \notin {Backslash, Slash, Open}
         /\ \A q, r \in ListStart(a, p)..e - 1 :
              P(a, q) = Minus /\ P(a, r) = Minus /\ q < r => q + 2 < r
  /\ \A q \in Ranges(a) : Fold(a, P(a, q - 1)) <= Fold(a, P(a, q + 1))

=============================================================================
