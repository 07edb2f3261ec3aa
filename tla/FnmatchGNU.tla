----------------------------- MODULE FnmatchGNU -----------------------------
(***************************************************************************)
(* The GNU fnmatch of libiberty and cvs, collected in src/inspiration.c.   *)
(* It reads behind a pattern that ends in a backslash and behind the       *)
(* string for two stars in a row, so it is asked neither (GNUDefined).     *)
(***************************************************************************)
EXTENDS FnmatchPosix

NoBracket == 0 - 1

GNUDefined(a) ==
  /\ "NOESCAPE" \in a.flags \/ P(a, Len(a.pattern) - 1) # Backslash
  /\ \A i, j \in 0..Len(a.pattern) - 1 :
       i < j /\ P(a, i) = Star /\ P(a, j) = Star => \E k \in i + 1..j - 1 : P(a, k) # Question

Quoted(a, p) == P(a, p) = Backslash /\ "NOESCAPE" \notin a.flags

(* The rest of a bracket expression that has matched, from p on; a byte    *)
(* that is skipped because it is quoted may be a ].                        *)
SkipFrom(K, a, p) ==
  CASE P(a, p) = Close -> p + 1
    [] P(a, p) = EOS   -> NoBracket
    [] OTHER           -> K[IF Quoted(a, p) THEN p + 2 ELSE p + 1]
SkipBracket(a, p) ==
  LET K[q \in 0..Len(a.pattern) + 1] == SkipFrom(K, a, q)
  IN IF P(a, p) \in {Close, EOS} THEN K[p] ELSE K[p + 1]

(* The items of a bracket expression from p on, tested for a byte; the     *)
(* offset behind the expression for the outcome.  B says it of the rest.   *)
ItemsFrom(B, a, test, negate, p) ==
  LET q      == IF Quoted(a, p) THEN p + 2 ELSE p + 1
      cstart == Fold(a, P(a, q - 1))
      range  == P(a, q) = Minus /\ P(a, q + 1) # Close
      r      == IF Quoted(a, q + 1) THEN q + 2 ELSE q + 1
      cend   == IF range THEN Fold(a, P(a, r)) ELSE cstart
      next   == IF range THEN r + 1 ELSE q
  IN CASE P(a, p) = EOS \/ ("PATHNAME" \in a.flags /\ P(a, q) = Slash)
            \/ (range /\ P(a, r) = EOS) -> NoBracket
       [] OTHER ->
            CASE cstart <= test /\ test <= cend ->
                   IF negate THEN NoBracket ELSE SkipBracket(a, next)
              [] OTHER ->
                   IF P(a, next) = Close THEN IF negate THEN next + 1 ELSE NoBracket
                                         ELSE B[next]
MatchBracket(a, p, test, negate) ==
  LET B[q \in 0..Len(a.pattern) + 1] == ItemsFrom(B, a, test, negate, q) IN B[p]

(* A star, and what follows it: more of them, each of which takes a byte,  *)
(* and question marks.  The rest is tried at each place that can begin     *)
(* with the byte after it, beyond slashes too.                             *)
GNUStar(G, a, p, n) ==
  LET q  == CHOOSE q \in p..Len(a.pattern) :
              P(a, q) \notin {Question, Star} /\ \A r \in p..q - 1 : P(a, r) \in {Question, Star}
      c1 == Fold(a, IF Quoted(a, q) THEN P(a, q + 1) ELSE P(a, q))
  IN /\ \A r \in p + 1..q - 1 :
          /\ ~("PATHNAME" \in a.flags /\ S(a, n + (r - p) - 1) = Slash)
          /\ P(a, r) = Question => S(a, n + (r - p) - 1) # EOS
     /\ \/ P(a, q) = EOS
        \/ \E m \in n + (q - p) - 1..Len(a.string) - 1 :
             /\ P(a, q) = Open \/ Fold(a, S(a, m)) = c1
             /\ G[<<q, m, FALSE>>]

(* A call from p and n on; the ones that a star makes have lost PERIOD.    *)
GNUFrom(G, a, p, n, period) ==
  LET c      == IF Quoted(a, p) THEN p + 1 ELSE p
      leads  == period /\ LeadingPeriod(a, n)
      negate == P(a, p + 1) \in Negations
      r      == MatchBracket(a, IF negate THEN p + 2 ELSE p + 1, Fold(a, S(a, n)), negate)
  IN CASE P(a, p) = EOS -> S(a, n) = EOS \/ ("LEADING_DIR" \in a.flags /\ S(a, n) = Slash)
       [] P(a, p) = Question ->
            /\ S(a, n) # EOS /\ ~("PATHNAME" \in a.flags /\ S(a, n) = Slash)
            /\ ~leads /\ G[<<p + 1, n + 1, period>>]
       [] P(a, p) = Star -> ~leads /\ GNUStar(G, a, p, n)
       [] P(a, p) = Open ->
            S(a, n) # EOS /\ ~leads /\ r # NoBracket /\ G[<<r, n + 1, period>>]
       [] OTHER -> Fold(a, S(a, n)) = Fold(a, P(a, c)) /\ G[<<c + 1, n + 1, period>>]

gnu(a) ==
  LET G[i \in PatternOffsets(a) \X StringOffsets(a) \X BOOLEAN] ==
        GNUFrom(G, a, i[1], i[2], i[3])
  IN G[<<0, 0, TRUE>>]

(* cvs knows three flags and fails on others.                              *)
CVSDefined(a) == GNUDefined(a) /\ a.flags \subseteq {"PATHNAME", "NOESCAPE", "PERIOD"}
cvs(a) == gnu(a)

(* GNU's stars and bracket expressions match slashes.                      *)
GNUFollows(a) ==
  PlainBrackets(a) /\ ("PATHNAME" \in a.flags => ~Has(a, Star) /\ ~Has(a, Open))

=============================================================================
