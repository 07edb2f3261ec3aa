---------------------------- MODULE FnmatchNetBSD ----------------------------
(***************************************************************************)
(* NetBSD's fnmatch, the first of src/alt_impl.c: a star is tried at each  *)
(* place by recursion.  Without a match the end of a range is NULL.        *)
(***************************************************************************)
EXTENDS FnmatchPosix

NULL == 0 - 1

(* The list of a bracket expression from p on: whether it has the byte     *)
(* test, and the offset behind it.  R says it of the rest.                 *)
RangeFrom(R, a, test, p) ==
  LET quoted(q) == P(a, q) = Backslash /\ "NOESCAPE" \notin a.flags
      q  == IF quoted(p) THEN p + 1 ELSE p
      c  == Fold(a, P(a, q))
      c2 == P(a, q + 2)
      r  == IF quoted(q + 2) THEN q + 3 ELSE q + 2
      Or(here, rest) == [rest EXCEPT !.ok = here \/ @]
  IN CASE P(a, p) = Close -> [end |-> p + 1, ok |-> FALSE]
       [] P(a, p) # Close /\ c = EOS -> [end |-> NULL, ok |-> FALSE]
       [] P(a, p) # Close /\ c # EOS /\ P(a, q + 1) = Minus /\ c2 # EOS /\ c2 # Close ->
            IF P(a, r) = EOS THEN [end |-> NULL, ok |-> FALSE]
            ELSE Or(c <= test /\ test <= Fold(a, P(a, r)), R[r + 1])
       [] OTHER -> Or(c = test, R[q + 1])

rangematch(a, p, test) ==
  LET R[q \in PatternOffsets(a)] == RangeFrom(R, a, test, q)
      negate == P(a, p) \in Negations
      range  == R[IF negate THEN p + 1 ELSE p]
  IN IF range.ok = negate THEN NULL ELSE range.end

(* A call from p and n on; the ones that a star makes have lost PERIOD.  N *)
(* says it of what follows.                                                *)
NetBSDFrom(N, a, p, n, period) ==
  LET q == CHOOSE q \in p..Len(a.pattern) : P(a, q) # Star /\ \A r \in p..q - 1 : P(a, r) = Star
      e == SegmentEnd(a, n)
      path   == "PATHNAME" \in a.flags
      barred == S(a, n) = EOS \/ (S(a, n) = Slash /\ path)
      leads  == period /\ LeadingPeriod(a, n)
      c      == IF Escape(a, p) THEN p + 1 ELSE p
      range  == rangematch(a, p + 1, Fold(a, S(a, n)))
  IN CASE P(a, p) = EOS -> S(a, n) = EOS \/ ("LEADING_DIR" \in a.flags /\ S(a, n) = Slash)
       [] P(a, p) = Question -> ~barred /\ ~leads /\ N[<<p + 1, n + 1, period>>]
       [] P(a, p) = Star ->
            /\ ~leads
            /\ IF P(a, q) = EOS
               THEN path => "LEADING_DIR" \in a.flags \/ S(a, e) = EOS
               ELSE IF P(a, q) = Slash /\ path
               THEN S(a, e) = Slash /\ N[<<q, e, period>>]
               ELSE \E m \in n..Len(a.string) - 1 : (path => m <= e) /\ N[<<q, m, FALSE>>]
       [] P(a, p) = Open -> ~barred /\ range # NULL /\ N[<<range, n + 1, period>>]
       [] OTHER ->
            /\ S(a, n) # EOS /\ Fold(a, P(a, c)) = Fold(a, S(a, n))
            /\ N[<<c + 1, n + 1, period>>]

netbsd(a) ==
  LET N[i \in PatternOffsets(a) \X StringOffsets(a) \X BOOLEAN] ==
        NetBSDFrom(N, a, i[1], i[2], i[3])
  IN N[<<0, 0, TRUE>>]

(* NetBSD's bracket expressions match a leading period, and after a star   *)
(* its recursion has forgotten PERIOD.                                     *)
NetBSDFollows(a) ==
  /\ PlainBrackets(a)
  /\ "PERIOD" \in a.flags =>
       ~Has(a, Open) /\ ("PATHNAME" \in a.flags => ~(Has(a, Star) /\ Has(a, Slash)))

=============================================================================
