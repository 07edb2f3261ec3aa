----------------------- MODULE FnmatchCollectedProofs -----------------------
(***************************************************************************)
(* Proofs about the other collected implementations of fnmatch, about what *)
(* all of them answer, and about cvs, which calls one of them, for every   *)
(* pattern, string, set of flags and directory tree.                       *)
(***************************************************************************)
EXTENDS FnmatchCollected, CvsWalk, FnmatchOpenBSDProofs

-----------------------------------------------------------------------------
(* How far a star goes.                                                    *)
LEMMA SpanTo ==
  ASSUME NEW a, IsCall(a), NEW n \in StringOffsets(a), NEW m \in StringOffsets(a), n <= m
  PROVE  Span(a, n, m) <=> ("PATHNAME" \in a.flags => m <= SegmentEnd(a, n))
PROOF
<1> DEFINE e == SegmentEnd(a, n)
<1>1. n \in Nat /\ m \in Nat /\ StringEnd(a) \in Nat /\ m <= StringEnd(a)
  BY Bytes
<1>2. /\ e \in n..StringEnd(a) /\ S(a, e) \in {Slash, EOS}
      /\ \A k \in n..e - 1 : S(a, k) \notin {Slash, EOS}
  BY SegmentEnds
<1> HIDE DEF e
<1>3. ASSUME "PATHNAME" \in a.flags => m <= e, NEW k \in n..m - 1
      PROVE  Inside(a, k)
  <2>1. k \in 0..StringEnd(a) - 1 /\ k \in Int
    BY <1>1
  <2>2. S(a, k) # EOS
    BY <2>1, Bytes
  <2>3. "PATHNAME" \in a.flags => k \in n..e - 1
    BY <1>1, <1>2, <1>3
  <2> QED
    BY <1>2, <2>2, <2>3 DEF Inside
<1>4. ASSUME Span(a, n, m), "PATHNAME" \in a.flags, ~(m <= e)
      PROVE  FALSE
  <2>1. e \in n..m - 1
    BY <1>1, <1>2, <1>4
  <2> QED
    BY <1>2, <1>4, <2>1 DEF Span, Inside
<1> QED
  BY <1>3, <1>4 DEF Span, e

(* The rest of a pattern behind the stars at p.                            *)
AfterStars(a, p) ==
  CHOOSE q \in p..PatternEnd(a) : P(a, q) # Star /\ \A r \in p..q - 1 : P(a, r) = Star

(* Where a run of stars ends.                                              *)
LEMMA Stars ==
  ASSUME NEW a, IsCall(a), NEW p \in PatternOffsets(a), P(a, p) = Star
  PROVE  /\ AfterStars(a, p) \in PatternOffsets(a) /\ p < AfterStars(a, p)
         /\ P(a, AfterStars(a, p)) # Star
         /\ \A r \in p..AfterStars(a, p) - 1 : P(a, r) = Star
PROOF
<1> DEFINE Q == {q \in p..PatternEnd(a) : P(a, q) # Star}
           W(q) == P(a, q) # Star /\ \A r \in p..q - 1 : P(a, r) = Star
<1>1. p \in Nat /\ PatternEnd(a) \in Nat /\ p <= PatternEnd(a) /\ PatternOffsets(a) = 0..PatternEnd(a)
  BY Bytes
<1>2. PatternEnd(a) \in Q
  <2>1. P(a, PatternEnd(a)) = EOS
    BY <1>1, Bytes
  <2> QED
    BY <1>1, <2>1 DEF EOS, Star
<1>3. Q \subseteq Nat /\ Q # {}
  BY <1>1, <1>2
<1>4. PICK q \in Q : \A x \in Q : q <= x
  <2> HIDE DEF Q
  <2> QED
    BY <1>3, LeastNumber
<1>5. q \in p..PatternEnd(a) /\ W(q)
  <2>1. ASSUME NEW r \in p..q - 1 PROVE P(a, r) = Star
    BY <1>1, <1>4
  <2> QED
    BY <1>4, <2>1
<1>6. AfterStars(a, p) \in p..PatternEnd(a) /\ W(AfterStars(a, p))
  <2>1. AfterStars(a, p) = CHOOSE x \in p..PatternEnd(a) : W(x)
    BY DEF AfterStars
  <2> HIDE DEF W
  <2> QED
    BY <1>5, <2>1
<1> QED
  BY <1>1, <1>6

(* A run of stars skips bytes up to a place from which the rest matches.   *)
StarOn(a, p, n, m) == n <= m /\ Span(a, n, m) /\ Match(a)[<<AfterStars(a, p), m>>]

(* A run of stars matches what one star does.                              *)
LEMMA StarsMean ==
  ASSUME NEW a, IsCall(a), PlainBrackets(a),
         NEW p \in PatternOffsets(a), P(a, p) = Star, NEW n \in StringOffsets(a)
  PROVE  Match(a)[<<p, n>>] <=> ~LeadingPeriod(a, n) /\ \E m \in StringOffsets(a) : StarOn(a, p, n, m)
PROOF
<1> DEFINE q == AfterStars(a, p)
<1>1. q \in PatternOffsets(a) /\ p < q /\ \A r \in p..q - 1 : P(a, r) = Star
  BY Stars
<1>2. p \in Nat /\ q \in Nat /\ n \in Nat /\ StringOffsets(a) \subseteq Nat
  BY <1>1, Bytes
<1> HIDE DEF q
<1>3. Wilds(a, p, q)
  BY <1>1, <1>2 DEF Wilds
<1>4. Starred(a, p, q) /\ Cardinality(Marks(a, p, q)) = 0
  <2>1. p \in p..q - 1
    BY <1>1, <1>2
  <2>2. Marks(a, p, q) = {}
    BY <1>1 DEF Marks, Star, Question
  <2>3. Starred(a, p, q)
    BY <1>1, <2>1 DEF Starred
  <2> QED
    BY <2>2, <2>3, FS_EmptySet
<1>5. ~LeadingPeriod(a, n) => (Match(a)[<<p, n>>] <=> WildOn(a, p, q, n))
  BY <1>1, <1>3, WildRun
<1>6. Match(a)[<<p, n>>] => ~LeadingPeriod(a, n)
  BY Steps DEF Star, EOS
<1>7. ASSUME NEW m \in StringOffsets(a)
      PROVE  WildTo(a, p, q, n, m) <=> n <= m /\ Span(a, n, m)
  BY <1>2, <1>4 DEF WildTo
<1>8. WildOn(a, p, q, n) <=> \E m \in StringOffsets(a) : StarOn(a, p, n, m)
  BY <1>7 DEF WildOn, StarOn, q
<1> QED
  BY <1>5, <1>6, <1>8

(* A list is walked item by item from its end.                             *)
IsRange(a, q)  == P(a, q + 1) = Minus /\ P(a, q + 2) # Close
ItemNext(a, q) == IF IsRange(a, q) THEN q + 3 ELSE q + 1

(* What holds at the end of a list, and at an item when at the next one,   *)
(* holds at the first.                                                     *)
LEMMA ItemByItem ==
  ASSUME NEW a, IsCall(a), PlainBrackets(a), NEW p \in PatternOffsets(a), P(a, p) = Open,
         NEW T, BracketEnd(a, p) \in T,
         \A q : ItemAt(a, p, q) /\ q # BracketEnd(a, p) /\ ItemNext(a, q) \in T => q \in T
  PROVE  ListStart(a, p) \in T
PROOF
<1> DEFINE e == BracketEnd(a, p)
           U == {q \in 0..e : ItemAt(a, p, q) => q \in T}
<1>1. e \in Nat /\ ListStart(a, p) \in 0..e
  <2>1. p \in Nat /\ e \in Nat
    BY PlainBracket, Bytes
  <2> QED
    BY <2>1, PlainBracket
<1>2. ASSUME NEW q \in 0..e, \A r \in q + 1..e : r \in U
      PROVE  q \in U
  <2> SUFFICES ASSUME ItemAt(a, p, q), q # e PROVE q \in T
    OBVIOUS
  <2>1. /\ q \in Nat
        /\ P(a, q + 1) = Minus /\ P(a, q + 2) # Close => ItemAt(a, p, q + 3)
        /\ ~(P(a, q + 1) = Minus /\ P(a, q + 2) # Close) => ItemAt(a, p, q + 1)
    <3>1. 0 \in Int
      OBVIOUS
    <3> QED
      BY <3>1, NextItem
  <2>2. ItemAt(a, p, ItemNext(a, q)) /\ ItemNext(a, q) \in {q + 1, q + 3}
    BY <2>1 DEF ItemNext, IsRange
  <2>3. ItemNext(a, q) \in q + 1..e
    BY <1>1, <2>1, <2>2 DEF ItemAt
  <2>4. ItemNext(a, q) \in T
    BY <1>2, <2>2, <2>3
  <2> QED
    BY <2>4
<1> HIDE DEF U
<1>3. ListStart(a, p) \in U
  BY <1>1, <1>2, AllDownward
<1> QED
  BY <1>3, FirstItem DEF U

(* The rest of a list for NetBSD.                                          *)
RangeOf(a, test) ==
  CHOOSE R : R = [q \in PatternOffsets(a) |-> RangeFrom(R, a, test, q)]

(* NetBSD's list is read from the items further on.                        *)
LEMMA RangeExists ==
  ASSUME NEW a, IsCall(a), NEW test
  PROVE  \A q \in PatternOffsets(a) : RangeOf(a, test)[q] = RangeFrom(RangeOf(a, test), a, test, q)
PROOF
<1> DEFINE L == PatternEnd(a)
           D == PatternOffsets(a)
           V == [end : Int, ok : BOOLEAN]
           place == [q \in D |-> q]
           B == [f \in [D -> V] |-> [q \in D |-> RangeFrom(f, a, test, q)]]
<1>1. L \in Nat /\ D = 0..L
  BY Bytes
<1> HIDE DEF L
<1>2. ASSUME NEW p \in D
      PROVE  \/ \E v \in V : \A g : RangeFrom(g, a, test, p) = v
             \/ \E r \in D : /\ r > p
                             /\ \E ok \in BOOLEAN : \A g :
                                  RangeFrom(g, a, test, p) = [g[r] EXCEPT !.ok = ok \/ @]
  <2> DEFINE quoted(x) == P(a, x) = Backslash /\ "NOESCAPE" \notin a.flags
             q  == IF quoted(p) THEN p + 1 ELSE p
             c  == Fold(a, P(a, q))
             c2 == P(a, q + 2)
             r  == IF quoted(q + 2) THEN q + 3 ELSE q + 2
             range == P(a, q + 1) = Minus /\ c2 # EOS /\ c2 # Close
             within == c <= test /\ test <= Fold(a, P(a, r))
  <2>1. \A g : RangeFrom(g, a, test, p) =
          IF P(a, p) = Close THEN [end |-> p + 1, ok |-> FALSE]
          ELSE IF c = EOS THEN [end |-> NULL, ok |-> FALSE]
          ELSE IF range /\ P(a, r) = EOS THEN [end |-> NULL, ok |-> FALSE]
          ELSE IF range THEN [g[r + 1] EXCEPT !.ok = within \/ @]
          ELSE [g[q + 1] EXCEPT !.ok = (c = test) \/ @]
    BY DEF RangeFrom
  <2>2. q \in {p, p + 1} /\ r \in {q + 2, q + 3} /\ p \in Nat /\ q \in Nat /\ r \in Nat
    BY <1>1
  <2>3. \A x \in Nat : P(a, x) # EOS => x + 1 \in D
    BY <1>1, Bytes DEF L
  <2>4. c # EOS => P(a, q) # EOS
    <3> HIDE DEF q
    <3>1. q \in Int
      BY <2>2
    <3>2. P(a, q) \in 0..127
      BY <3>1, Bytes
    <3> QED
      BY <3>2, Folded
  <2>5. c # EOS => q + 1 \in D /\ q + 1 > p
    BY <2>2, <2>3, <2>4
  <2>6. P(a, r) # EOS => r + 1 \in D /\ r + 1 > p
    BY <2>2, <2>3
  <2>7. within \in BOOLEAN /\ (c = test) \in BOOLEAN
    OBVIOUS
  <2>8. NULL \in Int /\ p + 1 \in Int
    BY <2>2 DEF NULL
  <2> HIDE DEF q, c, c2, r, range, within, V
  <2>9. [end |-> p + 1, ok |-> FALSE] \in V /\ [end |-> NULL, ok |-> FALSE] \in V
    BY <2>8 DEF V
  <2>10. CASE P(a, p) = Close \/ c = EOS
    BY <2>1, <2>9, <2>10
  <2>11. CASE P(a, p) # Close /\ c # EOS /\ range /\ P(a, r) = EOS
    BY <2>1, <2>9, <2>11
  <2>12. CASE P(a, p) # Close /\ c # EOS /\ range /\ P(a, r) # EOS
    BY <2>1, <2>6, <2>7, <2>12
  <2>13. CASE P(a, p) # Close /\ c # EOS /\ ~range
    BY <2>1, <2>5, <2>7, <2>13
  <2> QED
    BY <2>10, <2>11, <2>12, <2>13
<1>3. \A r \in V, ok \in BOOLEAN : [r EXCEPT !.ok = ok \/ @] \in V
  OBVIOUS
<1>4. V # {}
  <2>1. [end |-> 0, ok |-> FALSE] \in V
    OBVIOUS
  <2> QED
    BY <2>1
<1> HIDE DEF V
<1>5. \A f \in [D -> V] : \A p \in D : RangeFrom(f, a, test, p) \in V
  <2> SUFFICES ASSUME NEW f \in [D -> V], NEW p \in D PROVE RangeFrom(f, a, test, p) \in V
    OBVIOUS
  <2>1. CASE \E v \in V : \A g : RangeFrom(g, a, test, p) = v
    BY <2>1
  <2>2. ASSUME NEW r \in D, NEW ok \in BOOLEAN,
               \A g : RangeFrom(g, a, test, p) = [g[r] EXCEPT !.ok = ok \/ @]
        PROVE  RangeFrom(f, a, test, p) \in V
    <3>1. f[r] \in V
      OBVIOUS
    <3>2. RangeFrom(f, a, test, p) = [f[r] EXCEPT !.ok = ok \/ @]
      BY <2>2
    <3> QED
      BY <1>3, <3>1, <3>2
  <2> QED
    BY <1>2, <2>1, <2>2
<1>6. B \in [[D -> V] -> [D -> V]]
  BY <1>5
<1>7. \A f \in [D -> V] : /\ B[f] = [q \in D |-> RangeFrom(f, a, test, q)]
                          /\ \A q \in D : B[f][q] = RangeFrom(f, a, test, q)
  OBVIOUS
<1>8. place \in [D -> 0..L] /\ \A q \in D : place[q] = q
  BY <1>1
<1> HIDE DEF B, place
<1>9. \A f, g \in [D -> V] : \A p \in D :
        (\A r \in D : place[r] > place[p] => f[r] = g[r]) => B[f][p] = B[g][p]
  <2> SUFFICES ASSUME NEW f \in [D -> V], NEW g \in [D -> V], NEW p \in D,
                      \A r \in D : place[r] > place[p] => f[r] = g[r]
               PROVE  B[f][p] = B[g][p]
    OBVIOUS
  <2>0. B[f][p] = RangeFrom(f, a, test, p) /\ B[g][p] = RangeFrom(g, a, test, p)
    BY <1>7
  <2>1. \A r \in D : r > p => f[r] = g[r]
    BY <1>8
  <2>2. CASE \E v \in V : \A h : RangeFrom(h, a, test, p) = v
    BY <2>0, <2>2
  <2>3. ASSUME NEW r \in D, NEW ok \in BOOLEAN, r > p,
               \A h : RangeFrom(h, a, test, p) = [h[r] EXCEPT !.ok = ok \/ @]
        PROVE  B[f][p] = B[g][p]
    <3>1. f[r] = g[r]
      BY <2>1, <2>3
    <3>2. RangeFrom(f, a, test, p) = RangeFrom(g, a, test, p)
      BY <2>3, <3>1
    <3> QED
      BY <2>0, <3>2
  <2> QED
    BY <1>2, <2>2, <2>3
<1>10. PICK f \in [D -> V] : f = B[f]
  <2>1. L \in Nat /\ place \in [D -> 0..L]
    BY <1>1, <1>8
  <2> HIDE DEF D
  <2>2. Onward(B, D, V, L, place)
    BY <1>4, <1>6, <1>9, <2>1 DEF Onward
  <2> QED
    BY <2>2, RecursionOnward
<1>11. f = [q \in D |-> RangeFrom(f, a, test, q)]
  BY <1>7, <1>10
<1>12. RangeOf(a, test) = [q \in D |-> RangeFrom(RangeOf(a, test), a, test, q)]
  BY <1>11 DEF RangeOf
<1> HIDE DEF D
<1> DEFINE R == RangeOf(a, test)
<1> HIDE DEF R
<1>13. R = [q \in D |-> RangeFrom(R, a, test, q)]
  BY <1>12 DEF R
<1>14. \A q \in D : R[q] = RangeFrom(R, a, test, q)
  BY <1>13
<1> QED
  BY <1>14 DEF R, D

(* NetBSD reads a plain list as the reference does.                        *)
LEMMA RangeMeans ==
  ASSUME NEW a, IsCall(a), PlainBrackets(a), NEW p \in PatternOffsets(a), P(a, p) = Open,
         NEW c \in Int
  PROVE  RangeOf(a, c)[ListStart(a, p)] =
           [end |-> BracketEnd(a, p) + 1, ok |-> Lists(a, ListStart(a, p), BracketEnd(a, p) - 1, c)]
PROOF
<1> DEFINE lo == ListStart(a, p)
           e  == BracketEnd(a, p)
           R  == RangeOf(a, c)
           Right(q) == R[q] = [end |-> e + 1, ok |-> ListsFrom(a, p, c, q)]
           T  == {q \in PatternOffsets(a) : Right(q)}
<1>1. e \in PatternOffsets(a) /\ P(a, e) = Close /\ e \in Nat
  <2>1. e \in PatternOffsets(a) /\ BracketAt(a, p, e)
    BY PlainBracket
  <2> QED
    BY <2>1, Bytes DEF BracketAt
<1>2. \A q \in PatternOffsets(a) : R[q] = RangeFrom(R, a, c, q)
  BY RangeExists
<1>3. \A q : ListsFrom(a, p, c, q) \in BOOLEAN
  BY DEF ListsFrom
<1> HIDE DEF R
<1>4. e \in T
  <2>1. RangeFrom(R, a, c, e) = [end |-> e + 1, ok |-> FALSE]
    BY <1>1 DEF RangeFrom
  <2>2. ~ListsFrom(a, p, c, e)
    BY FirstItem
  <2>3. ListsFrom(a, p, c, e) = FALSE
    BY <1>3, <2>2
  <2> QED
    BY <1>1, <1>2, <2>1, <2>3
<1>5. ASSUME NEW q, ItemAt(a, p, q), q # e, ItemNext(a, q) \in T
      PROVE  q \in T
  <2>1. /\ q \in Nat /\ q < e /\ P(a, q) \notin {Close, Backslash, Slash, Open, EOS}
        /\ IsRange(a, q) =>
             /\ P(a, q + 2) \notin {Backslash, Slash, Open, EOS}
             /\ ListsFrom(a, p, c, q) <=>
                  (Fold(a, P(a, q)) <= c /\ c <= Fold(a, P(a, q + 2))) \/ ListsFrom(a, p, c, q + 3)
        /\ ~IsRange(a, q) =>
             (ListsFrom(a, p, c, q) <=> Fold(a, P(a, q)) = c \/ ListsFrom(a, p, c, q + 1))
    BY <1>5, NextItem DEF IsRange
  <2>2. q \in PatternOffsets(a) /\ (q + 2) + 1 = q + 3 /\ q \in Int
    BY <1>1, <2>1, Bytes
  <2>3. Fold(a, P(a, q)) # EOS
    <3>1. P(a, q) \in 0..127
      BY <2>2, Bytes
    <3> QED
      BY <2>1, <3>1, Folded
  <2>4. RangeFrom(R, a, c, q) =
          IF IsRange(a, q)
          THEN [R[q + 3] EXCEPT !.ok = (Fold(a, P(a, q)) <= c /\ c <= Fold(a, P(a, q + 2))) \/ @]
          ELSE [R[q + 1] EXCEPT !.ok = (Fold(a, P(a, q)) = c) \/ @]
    BY <2>1, <2>2, <2>3 DEF RangeFrom, IsRange
  <2>5. CASE IsRange(a, q)
    <3>1. R[q + 3] = [end |-> e + 1, ok |-> ListsFrom(a, p, c, q + 3)]
      BY <1>5, <2>5 DEF ItemNext
    <3>2. ((Fold(a, P(a, q)) <= c /\ c <= Fold(a, P(a, q + 2))) \/ ListsFrom(a, p, c, q + 3))
            = ListsFrom(a, p, c, q)
      BY <1>3, <2>1, <2>5
    <3>3. R[q] = [R[q + 3] EXCEPT !.ok = (Fold(a, P(a, q)) <= c /\ c <= Fold(a, P(a, q + 2))) \/ @]
      BY <1>2, <2>2, <2>4, <2>5
    <3>4. Right(q)
      BY <3>1, <3>2, <3>3
    <3> QED
      BY <2>2, <3>4
  <2>6. CASE ~IsRange(a, q)
    <3>1. R[q + 1] = [end |-> e + 1, ok |-> ListsFrom(a, p, c, q + 1)]
      BY <1>5, <2>6 DEF ItemNext
    <3>2. ((Fold(a, P(a, q)) = c) \/ ListsFrom(a, p, c, q + 1)) = ListsFrom(a, p, c, q)
      BY <1>3, <2>1, <2>6
    <3>3. R[q] = [R[q + 1] EXCEPT !.ok = (Fold(a, P(a, q)) = c) \/ @]
      BY <1>2, <2>2, <2>4, <2>6
    <3>4. Right(q)
      BY <3>1, <3>2, <3>3
    <3> QED
      BY <2>2, <3>4
  <2> QED
    BY <2>5, <2>6
<1>6. lo \in T
  <2> HIDE DEF T
  <2> QED
    BY <1>4, <1>5, ItemByItem
<1>7. Lists(a, lo, e - 1, c) = ListsFrom(a, p, c, lo)
  <2>1. Lists(a, lo, e - 1, c) <=> ListsFrom(a, p, c, lo)
    BY FirstItem
  <2> QED
    BY <1>3, <2>1 DEF Lists
<1> QED
  BY <1>6, <1>7 DEF R

(* NetBSD's rangematch accepts what the reference does, and stops behind   *)
(* the bracket expression.                                                 *)
LEMMA RangeMatches ==
  ASSUME NEW a, IsCall(a), PlainBrackets(a), NEW p \in PatternOffsets(a), P(a, p) = Open,
         NEW c \in 0..127
  PROVE  rangematch(a, p + 1, Fold(a, c)) =
           IF Accepts(a, p, BracketEnd(a, p), c) THEN TokenEnd(a, p) ELSE NULL
PROOF
<1> DEFINE hit == Lists(a, ListStart(a, p), BracketEnd(a, p) - 1, Fold(a, c))
           negate == P(a, p + 1) \in Negations
           range == RangeOf(a, Fold(a, c))[ListStart(a, p)]
<1>1. range = [end |-> BracketEnd(a, p) + 1, ok |-> hit]
  <2>1. Fold(a, c) \in Int
    BY FoldedInt
  <2> QED
    BY <2>1, RangeMeans
<1>2. range.end = TokenEnd(a, p) /\ range.ok = hit
  BY <1>1 DEF TokenEnd
<1>3. ListStart(a, p) = IF negate THEN (p + 1) + 1 ELSE p + 1
  <2>1. (p + 1) + 1 = p + 2
    BY Bytes
  <2> QED
    BY <2>1 DEF ListStart
<1>4. rangematch(a, p + 1, Fold(a, c)) = IF range.ok = negate THEN NULL ELSE range.end
  BY <1>3 DEF rangematch, RangeOf
<1>5. hit \in BOOLEAN /\ negate \in BOOLEAN
  BY DEF Lists
<1>6. Accepts(a, p, BracketEnd(a, p), c) <=> (hit # negate)
  <2>1. CASE negate
    <3>1. Accepts(a, p, BracketEnd(a, p), c) <=> ~hit
      BY <2>1 DEF Accepts, ListStart
    <3> QED
      BY <1>5, <2>1, <3>1
  <2>2. CASE ~negate
    <3>1. Accepts(a, p, BracketEnd(a, p), c) <=> hit
      BY <2>2 DEF Accepts, ListStart
    <3> QED
      BY <1>5, <2>2, <3>1
  <2> QED
    BY <2>1, <2>2
<1> HIDE DEF hit, negate, range
<1> QED
  BY <1>2, <1>4, <1>5, <1>6

(* A call of NetBSD's fnmatch, case by case.                               *)
NetBSDCases(N, a, p, n, period) ==
  LET q      == AfterStars(a, p)
      e      == SegmentEnd(a, n)
      path   == "PATHNAME" \in a.flags
      leads  == period /\ LeadingPeriod(a, n)
      c      == IF Escape(a, p) THEN p + 1 ELSE p
      range  == rangematch(a, p + 1, Fold(a, S(a, n)))
      F      == NetBSDFrom(N, a, p, n, period)
  IN /\ F \in BOOLEAN
     /\ P(a, p) = EOS => (F <=> S(a, n) = EOS \/ ("LEADING_DIR" \in a.flags /\ S(a, n) = Slash))
     /\ P(a, p) = Question => (F <=> Inside(a, n) /\ ~leads /\ N[<<p + 1, n + 1, period>>])
     /\ P(a, p) = Star /\ P(a, q) = EOS =>
          (F <=> ~leads /\ (path => "LEADING_DIR" \in a.flags \/ S(a, e) = EOS))
     /\ P(a, p) = Star /\ P(a, q) = Slash /\ path =>
          (F <=> ~leads /\ S(a, e) = Slash /\ N[<<q, e, period>>])
     /\ P(a, p) = Star /\ P(a, q) # EOS /\ ~(P(a, q) = Slash /\ path) =>
          (F <=> ~leads /\ \E m \in n..StringEnd(a) - 1 : (path => m <= e) /\ N[<<q, m, FALSE>>])
     /\ P(a, p) = Open => (F <=> Inside(a, n) /\ range # NULL /\ N[<<range, n + 1, period>>])
     /\ P(a, p) \notin {EOS, Question, Star, Open} =>
          (F <=> S(a, n) # EOS /\ Fold(a, P(a, c)) = Fold(a, S(a, n)) /\ N[<<c + 1, n + 1, period>>])

(* A call of NetBSD's fnmatch, its cases.                                  *)
LEMMA NetBSDIs ==
  ASSUME NEW N, NEW a, NEW p, NEW n, NEW period \in BOOLEAN
  PROVE  NetBSDCases(N, a, p, n, period)
PROOF
<1> DEFINE q      == AfterStars(a, p)
           e      == SegmentEnd(a, n)
           path   == "PATHNAME" \in a.flags
           leads  == period /\ LeadingPeriod(a, n)
           c      == IF Escape(a, p) THEN p + 1 ELSE p
           range  == rangematch(a, p + 1, Fold(a, S(a, n)))
           F      == NetBSDFrom(N, a, p, n, period)
           barred == S(a, n) = EOS \/ (S(a, n) = Slash /\ path)
           end    == S(a, n) = EOS \/ ("LEADING_DIR" \in a.flags /\ S(a, n) = Slash)
           mark   == ~barred /\ ~leads /\ N[<<p + 1, n + 1, period>>]
           star   == /\ ~leads
                     /\ IF P(a, q) = EOS
                        THEN path => "LEADING_DIR" \in a.flags \/ S(a, e) = EOS
                        ELSE IF P(a, q) = Slash /\ path
                        THEN S(a, e) = Slash /\ N[<<q, e, period>>]
                        ELSE \E m \in n..StringEnd(a) - 1 : (path => m <= e) /\ N[<<q, m, FALSE>>]
           open   == ~barred /\ range # NULL /\ N[<<range, n + 1, period>>]
           other  == /\ S(a, n) # EOS /\ Fold(a, P(a, c)) = Fold(a, S(a, n))
                     /\ N[<<c + 1, n + 1, period>>]
<1>1. F = CASE P(a, p) = EOS -> end
            [] P(a, p) = Question -> mark
            [] P(a, p) = Star -> star
            [] P(a, p) = Open -> open
            [] OTHER -> other
  BY DEF NetBSDFrom, AfterStars, PatternEnd, StringEnd
<1>2. end \in BOOLEAN /\ mark \in BOOLEAN /\ star \in BOOLEAN /\ open \in BOOLEAN /\ other \in BOOLEAN
  OBVIOUS
<1>3. barred <=> ~Inside(a, n)
  BY DEF Inside
<1> HIDE DEF F, c, range, q, e, leads
<1>4. mark <=> Inside(a, n) /\ ~leads /\ N[<<p + 1, n + 1, period>>]
  BY <1>3
<1>5. open <=> Inside(a, n) /\ range # NULL /\ N[<<range, n + 1, period>>]
  BY <1>3
<1> DEFINE later == \E m \in n..StringEnd(a) - 1 : (path => m <= e) /\ N[<<q, m, FALSE>>]
           tail  == path => "LEADING_DIR" \in a.flags \/ S(a, e) = EOS
           next  == S(a, e) = Slash /\ N[<<q, e, period>>]
<1>6. star <=> /\ ~leads
               /\ IF P(a, q) = EOS THEN tail ELSE IF P(a, q) = Slash /\ path THEN next ELSE later
  OBVIOUS
<1> HIDE DEF end, mark, star, open, other, barred, later, tail, next, path
<1>7. Slash # EOS
  BY DEF Slash, EOS
<1>8. /\ P(a, q) = EOS => (star <=> ~leads /\ tail)
      /\ P(a, q) = Slash /\ path => (star <=> ~leads /\ next)
      /\ P(a, q) # EOS /\ ~(P(a, q) = Slash /\ path) => (star <=> ~leads /\ later)
  BY <1>6, <1>7
<1>9. /\ P(a, p) = EOS => F = end
      /\ P(a, p) = Question => F = mark
      /\ P(a, p) = Star => F = star
      /\ P(a, p) = Open => F = open
      /\ P(a, p) \notin {EOS, Question, Star, Open} => F = other
  BY <1>1 DEF EOS, Question, Star, Open
<1>10. F \in BOOLEAN
  BY <1>2, <1>9
<1>11. P(a, p) = EOS => (F <=> end)
  BY <1>9
<1>12. P(a, p) = Question => (F <=> Inside(a, n) /\ ~leads /\ N[<<p + 1, n + 1, period>>])
  BY <1>4, <1>9
<1>13. P(a, p) = Open => (F <=> Inside(a, n) /\ range # NULL /\ N[<<range, n + 1, period>>])
  BY <1>5, <1>9
<1>14. P(a, p) \notin {EOS, Question, Star, Open} => (F <=> other)
  BY <1>9
<1>15. P(a, p) = Star /\ P(a, q) = EOS => (F <=> ~leads /\ tail)
  BY <1>8, <1>9
<1>16. P(a, p) = Star /\ P(a, q) = Slash /\ path => (F <=> ~leads /\ next)
  BY <1>8, <1>9
<1>17. P(a, p) = Star /\ P(a, q) # EOS /\ ~(P(a, q) = Slash /\ path) => (F <=> ~leads /\ later)
  BY <1>8, <1>9
<1> QED
  BY <1>10, <1>11, <1>12, <1>13, <1>14, <1>15, <1>16, <1>17
  DEF NetBSDCases, F, q, e, path, leads, c, range, end, other, tail, next, later

(* What a call takes of the string, token by token.                        *)
NetBSDTakes(a, p, n, period) ==
  IF P(a, p) = Question THEN Inside(a, n) /\ ~(period /\ LeadingPeriod(a, n))
  ELSE IF P(a, p) = Open THEN Inside(a, n) /\ Accepts(a, p, BracketEnd(a, p), S(a, n))
  ELSE Takes1(a, p, n)

(* Any character but a star takes a byte, and the rest is asked about.     *)
LEMMA NetBSDTokens ==
  ASSUME NEW a, IsCall(a), PlainBrackets(a), NEW p \in PatternOffsets(a), P(a, p) \notin {EOS, Star},
         NEW n \in StringOffsets(a), NEW period \in BOOLEAN, NEW N
  PROVE  NetBSDFrom(N, a, p, n, period) <=>
           NetBSDTakes(a, p, n, period) /\ N[<<TokenEnd(a, p), n + 1, period>>]
PROOF
<1> DEFINE leads == period /\ LeadingPeriod(a, n)
           c     == IF Escape(a, p) THEN p + 1 ELSE p
           range == rangematch(a, p + 1, Fold(a, S(a, n)))
           F     == NetBSDFrom(N, a, p, n, period)
<1>1. NetBSDCases(N, a, p, n, period)
  BY NetBSDIs
<1>2. p \in Nat /\ n \in Int /\ S(a, n) \in 0..127
  BY Bytes
<1> HIDE DEF F
<1>3. CASE P(a, p) = Question
  <2>1. F <=> Inside(a, n) /\ ~leads /\ N[<<p + 1, n + 1, period>>]
    BY <1>1, <1>3 DEF NetBSDCases, F
  <2>2. TokenEnd(a, p) = p + 1
    BY <1>3 DEF TokenEnd, Escape, Question, Open, Backslash
  <2> QED
    BY <1>3, <2>1, <2>2 DEF F, NetBSDTakes
<1>4. CASE P(a, p) = Open
  <2>1. F <=> Inside(a, n) /\ range # NULL /\ N[<<range, n + 1, period>>]
    BY <1>1, <1>4 DEF NetBSDCases, F
  <2>2. range = IF Accepts(a, p, BracketEnd(a, p), S(a, n)) THEN TokenEnd(a, p) ELSE NULL
    BY <1>2, <1>4, RangeMatches
  <2>3. TokenEnd(a, p) # NULL
    <3>1. TokenEnd(a, p) \in PatternOffsets(a)
      BY TokenEnds
    <3> QED
      BY <3>1, Bytes DEF NULL
  <2> HIDE DEF range
  <2>4. NetBSDTakes(a, p, n, period) <=>
          Inside(a, n) /\ Accepts(a, p, BracketEnd(a, p), S(a, n))
    BY <1>4 DEF NetBSDTakes, Open, Question
  <2> QED
    BY <2>1, <2>2, <2>3, <2>4 DEF F
<1>5. CASE P(a, p) \notin {Question, Open}
  <2>1. F <=> S(a, n) # EOS /\ Fold(a, P(a, c)) = Fold(a, S(a, n)) /\ N[<<c + 1, n + 1, period>>]
    BY <1>1, <1>5 DEF NetBSDCases, F
  <2>2. TokenEnd(a, p) = c + 1
    BY <1>2, <1>5 DEF TokenEnd
  <2>3. Takes1(a, p, n) <=> S(a, n) # EOS /\ Fold(a, P(a, c)) = Fold(a, S(a, n))
    BY <1>5, TakesCases
  <2> HIDE DEF c
  <2>4. NetBSDTakes(a, p, n, period) <=> Takes1(a, p, n)
    BY <1>5 DEF NetBSDTakes
  <2> QED
    BY <2>1, <2>2, <2>3, <2>4 DEF F
<1> QED
  BY <1>3, <1>4, <1>5

NetBSDOf(a) ==
  CHOOSE N : N = [i \in PatternOffsets(a) \X StringOffsets(a) \X BOOLEAN |->
                    NetBSDFrom(N, a, i[1], i[2], i[3])]

(* A call asks only about what stands further on.                          *)
SameOnward(f, g, a, p) ==
  \A q \in PatternOffsets(a), m \in StringOffsets(a), b \in BOOLEAN :
    q > p => f[<<q, m, b>>] = g[<<q, m, b>>]

(* A call of NetBSD's fnmatch depends on what stands further on only.      *)
LEMMA NetBSDOnward ==
  ASSUME NEW a, IsCall(a), PlainBrackets(a), NEW p \in PatternOffsets(a),
         NEW n \in StringOffsets(a), NEW period \in BOOLEAN,
         NEW f, NEW g, SameOnward(f, g, a, p)
  PROVE  NetBSDFrom(f, a, p, n, period) = NetBSDFrom(g, a, p, n, period)
PROOF
<1> DEFINE F == NetBSDFrom(f, a, p, n, period)
           G == NetBSDFrom(g, a, p, n, period)
           q == AfterStars(a, p)
           e == SegmentEnd(a, n)
<1>1. NetBSDCases(f, a, p, n, period) /\ NetBSDCases(g, a, p, n, period)
  BY NetBSDIs
<1>2. F \in BOOLEAN /\ G \in BOOLEAN
  BY <1>1 DEF NetBSDCases
<1>3. CASE P(a, p) = EOS
  BY <1>1, <1>2, <1>3 DEF NetBSDCases
<1>4. CASE P(a, p) = Star
  <2>1. q \in PatternOffsets(a) /\ q > p
    <3>1. p \in Nat /\ PatternOffsets(a) \subseteq Nat
      BY Bytes
    <3> QED
      BY <1>4, <3>1, Stars
  <2>2. e \in StringOffsets(a) /\ n..StringEnd(a) - 1 \subseteq StringOffsets(a)
    <3>1. n \in Nat /\ StringEnd(a) \in Nat /\ StringOffsets(a) = 0..StringEnd(a)
      BY Bytes
    <3>2. e \in n..StringEnd(a)
      BY SegmentEnds
    <3> HIDE DEF e
    <3> QED
      BY <3>1, <3>2
  <2> HIDE DEF q, e
  <2>3. \A m \in StringOffsets(a), b \in BOOLEAN : f[<<q, m, b>>] = g[<<q, m, b>>]
    BY <2>1 DEF SameOnward
  <2>4. CASE P(a, q) = EOS
    BY <1>1, <1>2, <1>4, <2>4 DEF NetBSDCases, q, e
  <2>5. CASE P(a, q) = Slash /\ "PATHNAME" \in a.flags
    <3>1. /\ F <=> ~(period /\ LeadingPeriod(a, n)) /\ S(a, e) = Slash /\ f[<<q, e, period>>]
          /\ G <=> ~(period /\ LeadingPeriod(a, n)) /\ S(a, e) = Slash /\ g[<<q, e, period>>]
      BY <1>1, <1>4, <2>5 DEF NetBSDCases, q, e
    <3>2. f[<<q, e, period>>] = g[<<q, e, period>>]
      BY <2>2, <2>3
    <3> QED
      BY <1>2, <3>1, <3>2
  <2>6. CASE P(a, q) # EOS /\ ~(P(a, q) = Slash /\ "PATHNAME" \in a.flags)
    <3>1. /\ F <=> ~(period /\ LeadingPeriod(a, n)) /\ \E m \in n..StringEnd(a) - 1 :
                     ("PATHNAME" \in a.flags => m <= e) /\ f[<<q, m, FALSE>>]
          /\ G <=> ~(period /\ LeadingPeriod(a, n)) /\ \E m \in n..StringEnd(a) - 1 :
                     ("PATHNAME" \in a.flags => m <= e) /\ g[<<q, m, FALSE>>]
      BY <1>1, <1>4, <2>6 DEF NetBSDCases, q, e
    <3>2. \A m \in n..StringEnd(a) - 1 : f[<<q, m, FALSE>>] = g[<<q, m, FALSE>>]
      BY <2>2, <2>3
    <3> HIDE DEF F, G
    <3>3. F <=> G
      BY <3>1, <3>2
    <3>4. F = G
      BY <1>2, <3>3
    <3> QED
      BY <3>4 DEF F, G
  <2> QED
    BY <2>4, <2>5, <2>6
<1>5. CASE P(a, p) \notin {EOS, Star}
  <2> DEFINE takes == NetBSDTakes(a, p, n, period)
             i == <<TokenEnd(a, p), n + 1, period>>
  <2>1. (F <=> takes /\ f[i]) /\ (G <=> takes /\ g[i])
    BY <1>5, NetBSDTokens
  <2>2. takes => S(a, n) # EOS
    BY <1>5, TakesCases DEF NetBSDTakes, Inside
  <2>3. takes => f[i] = g[i]
    <3>1. takes => n + 1 \in StringOffsets(a)
      BY <2>2, InsideBound
    <3>2. TokenEnd(a, p) \in PatternOffsets(a) /\ TokenEnd(a, p) > p
      BY <1>5, TokenEnds
    <3> HIDE DEF takes
    <3> QED
      BY <3>1, <3>2 DEF SameOnward
  <2> HIDE DEF F, G, takes, i
  <2>4. F = G
    BY <1>2, <2>1, <2>3
  <2> QED
    BY <2>4 DEF F, G
<1> QED
  BY <1>3, <1>4, <1>5

(* NetBSD's recursion comes to an end.                                     *)
LEMMA NetBSDExists ==
  ASSUME NEW a, IsCall(a), PlainBrackets(a)
  PROVE  \A p \in PatternOffsets(a), n \in StringOffsets(a), b \in BOOLEAN :
           NetBSDOf(a)[<<p, n, b>>] = NetBSDFrom(NetBSDOf(a), a, p, n, b)
PROOF
<1> DEFINE L == PatternEnd(a)
           D == PatternOffsets(a) \X StringOffsets(a) \X BOOLEAN
           V == BOOLEAN
           place == [i \in D |-> i[1]]
           B == [f \in [D -> V] |-> [i \in D |-> NetBSDFrom(f, a, i[1], i[2], i[3])]]
<1>1. L \in Nat /\ PatternOffsets(a) = 0..L
  BY Bytes
<1> HIDE DEF L
<1>2. ASSUME NEW i \in D
      PROVE  /\ i[1] \in PatternOffsets(a) /\ i[2] \in StringOffsets(a) /\ i[3] \in BOOLEAN
             /\ place[i] = i[1] /\ i[1] \in 0..L
  BY <1>1
<1>3. ASSUME NEW p \in PatternOffsets(a), NEW n \in StringOffsets(a), NEW b \in BOOLEAN
      PROVE  <<p, n, b>> \in D /\ place[<<p, n, b>>] = p
  OBVIOUS
<1>4. \A f : \A i \in D : NetBSDFrom(f, a, i[1], i[2], i[3]) \in BOOLEAN
  <2> SUFFICES ASSUME NEW f, NEW i \in D PROVE NetBSDFrom(f, a, i[1], i[2], i[3]) \in BOOLEAN
    OBVIOUS
  <2>1. NetBSDCases(f, a, i[1], i[2], i[3])
    BY <1>2, NetBSDIs
  <2> QED
    BY <2>1 DEF NetBSDCases
<1>5. B \in [[D -> V] -> [D -> V]]
  BY <1>4
<1>6. \A f \in [D -> V] : /\ B[f] = [i \in D |-> NetBSDFrom(f, a, i[1], i[2], i[3])]
                          /\ \A i \in D : B[f][i] = NetBSDFrom(f, a, i[1], i[2], i[3])
  OBVIOUS
<1>7. place \in [D -> 0..L]
  <2>1. \A i \in D : i[1] \in 0..L
    BY <1>1
  <2> QED
    BY <2>1
<1> HIDE DEF B, place, D
<1>8. \A f, g \in [D -> V] : \A i \in D :
        (\A j \in D : place[j] > place[i] => f[j] = g[j]) => B[f][i] = B[g][i]
  <2> SUFFICES ASSUME NEW f \in [D -> V], NEW g \in [D -> V], NEW i \in D,
                      \A j \in D : place[j] > place[i] => f[j] = g[j]
               PROVE  B[f][i] = B[g][i]
    OBVIOUS
  <2>1. ASSUME NEW q \in PatternOffsets(a), NEW m \in StringOffsets(a), NEW b \in BOOLEAN, q > i[1]
        PROVE  f[<<q, m, b>>] = g[<<q, m, b>>]
    <3>1. <<q, m, b>> \in D /\ place[<<q, m, b>>] = q /\ place[i] = i[1]
      BY <1>2, <1>3
    <3> QED
      BY <2>1, <3>1
  <2>2. SameOnward(f, g, a, i[1])
    BY <2>1 DEF SameOnward
  <2>3. NetBSDFrom(f, a, i[1], i[2], i[3]) = NetBSDFrom(g, a, i[1], i[2], i[3])
    BY <1>2, <2>2, NetBSDOnward
  <2>4. B[f][i] = NetBSDFrom(f, a, i[1], i[2], i[3])
    BY <1>6
  <2>5. B[g][i] = NetBSDFrom(g, a, i[1], i[2], i[3])
    BY <1>6
  <2> QED
    BY <2>3, <2>4, <2>5
<1>9. PICK f \in [D -> V] : f = B[f]
  <2>1. Onward(B, D, V, L, place)
    BY <1>1, <1>5, <1>7, <1>8 DEF Onward
  <2> QED
    BY <2>1, RecursionOnward
<1>10. f = [i \in D |-> NetBSDFrom(f, a, i[1], i[2], i[3])]
  BY <1>6, <1>9
<1>11. NetBSDOf(a) = [i \in D |-> NetBSDFrom(NetBSDOf(a), a, i[1], i[2], i[3])]
  BY <1>10 DEF NetBSDOf, D
<1> DEFINE N == NetBSDOf(a)
<1> HIDE DEF N
<1>12. N = [i \in D |-> NetBSDFrom(N, a, i[1], i[2], i[3])]
  BY <1>11 DEF N
<1>13. ASSUME NEW p \in PatternOffsets(a), NEW n \in StringOffsets(a), NEW b \in BOOLEAN
       PROVE  N[<<p, n, b>>] = NetBSDFrom(N, a, p, n, b)
  <2>1. <<p, n, b>> \in D
    BY <1>3
  <2> QED
    BY <1>12, <2>1
<1> QED
  BY <1>13 DEF N

(* A call that has lost PERIOD must not come upon a leading period again.  *)
NetBSDKnows(a, n, period) ==
  "PERIOD" \in a.flags =>
    period \/ (~LeadingPeriod(a, n) /\ ("PATHNAME" \in a.flags => ~Has(a, Slash)))

(* What stands in a pattern, it has.                                       *)
LEMMA HasIt ==
  ASSUME NEW a, IsCall(a), NEW p \in Int, P(a, p) # EOS
  PROVE  Has(a, P(a, p))
PROOF
<1>1. p \in 0..Len(a.pattern) - 1
  BY Bytes DEF PatternEnd
<1> QED
  BY <1>1 DEF Has

(* A character of NetBSD's takes what the reference takes.                 *)
LEMMA NetBSDToken ==
  ASSUME NEW a, IsCall(a), NetBSDFollows(a), NEW p \in PatternOffsets(a), P(a, p) \notin {EOS, Star},
         NEW n \in StringOffsets(a), NEW period \in BOOLEAN, NetBSDKnows(a, n, period)
  PROVE  /\ NetBSDTakes(a, p, n, period) <=> Takes1(a, p, n)
         /\ Takes1(a, p, n) => NetBSDKnows(a, n + 1, period)
PROOF
<1>1. PlainBrackets(a) /\ p \in Int /\ n \in Nat /\ n + 1 \in Nat /\ n + 1 > 0
  BY Bytes DEF NetBSDFollows
<1>2. LeadingPeriod(a, n) => "PERIOD" \in a.flags
  BY DEF LeadingPeriod
<1>3. period /\ LeadingPeriod(a, n) <=> LeadingPeriod(a, n)
  BY <1>2 DEF NetBSDKnows
<1>4. NetBSDTakes(a, p, n, period) <=> Takes1(a, p, n)
  <2>1. CASE P(a, p) = Question
    <3>1. Takes1(a, p, n) <=> Inside(a, n) /\ ~LeadingPeriod(a, n)
      BY <1>1, <2>1, TakesCases, WildInside
    <3> QED
      BY <1>3, <2>1, <3>1 DEF NetBSDTakes
  <2>2. CASE P(a, p) = Open
    <3>1. Has(a, Open)
      BY <1>1, <2>2, HasIt
    <3>2. ~LeadingPeriod(a, n)
      BY <1>2, <3>1 DEF NetBSDFollows
    <3>3. Takes1(a, p, n) <=> Wild(a, n) /\ Accepts(a, p, BracketEnd(a, p), S(a, n))
      BY <1>1, <2>2, TakesCases
    <3>4. NetBSDTakes(a, p, n, period) <=> Inside(a, n) /\ Accepts(a, p, BracketEnd(a, p), S(a, n))
      BY <2>2 DEF NetBSDTakes, Open, Question
    <3> QED
      BY <3>2, <3>3, <3>4, WildInside
  <2>3. CASE P(a, p) \notin {Question, Open}
    BY <2>3 DEF NetBSDTakes
  <2> QED
    BY <2>1, <2>2, <2>3
<1>5. ASSUME Takes1(a, p, n), "PERIOD" \in a.flags, ~period
      PROVE  ~LeadingPeriod(a, n + 1) /\ ("PATHNAME" \in a.flags => ~Has(a, Slash))
  <2>1. "PATHNAME" \in a.flags => ~Has(a, Slash)
    BY <1>5 DEF NetBSDKnows
  <2>2. CASE "PATHNAME" \notin a.flags
    BY <1>1, <2>1, <2>2, Leading
  <2>3. CASE "PATHNAME" \in a.flags
    <3>1. ~AtSlash(a, p)
      <4>1. P(a, p) # Slash
        BY <1>1, <2>1, <2>3, HasIt DEF Slash, EOS
      <4>2. P(a, p + 1) # Slash
        BY <1>1, <2>1, <2>3, HasIt DEF Slash, EOS
      <4> QED
        BY <4>1, <4>2 DEF AtSlash
    <3>2. ~Stops(a, p)
      BY <3>1 DEF Stops
    <3>3. Inside(a, n)
      BY <1>1, <1>5, <3>2, TakesInside
    <3> QED
      BY <2>1, <3>3, InsideNext
  <2> QED
    BY <2>2, <2>3
<1> QED
  BY <1>4, <1>5 DEF NetBSDKnows

(* Where a star goes on.                                                   *)
LEMMA NetBSDStar ==
  ASSUME NEW a, IsCall(a), NetBSDFollows(a), NEW p \in PatternOffsets(a), P(a, p) = Star,
         NEW n \in StringOffsets(a), NEW period \in BOOLEAN, NetBSDKnows(a, n, period), NEW N,
         \A q \in PatternOffsets(a), m \in StringOffsets(a), b \in BOOLEAN :
           q > p /\ NetBSDKnows(a, m, b) => (N[<<q, m, b>>] <=> Match(a)[<<q, m>>])
  PROVE  NetBSDFrom(N, a, p, n, period) <=> Match(a)[<<p, n>>]
PROOF
<1> DEFINE M == Match(a)
           q == AfterStars(a, p)
           e == SegmentEnd(a, n)
           path == "PATHNAME" \in a.flags
           F == NetBSDFrom(N, a, p, n, period)
           On(m) == n <= m /\ (path => m <= e) /\ M[<<q, m>>]
<1>1. PlainBrackets(a) /\ p \in Int /\ n \in Nat /\ StringEnd(a) \in Nat
      /\ StringOffsets(a) = 0..StringEnd(a) /\ PatternOffsets(a) \subseteq Nat
  BY Bytes DEF NetBSDFollows
<1>2. q \in PatternOffsets(a) /\ q > p /\ P(a, q) # Star /\ q \in Nat
  BY <1>1, Stars
<1>3. /\ e \in n..StringEnd(a) /\ S(a, e) \in {Slash, EOS}
      /\ \A m \in n..e - 1 : S(a, m) \notin {Slash, EOS}
  BY SegmentEnds
<1>4. e \in StringOffsets(a) /\ e \in Nat /\ StringEnd(a) \in StringOffsets(a)
  BY <1>1, <1>3
<1>5. NetBSDCases(N, a, p, n, period)
  BY NetBSDIs
<1>6. M[<<p, n>>] <=> ~LeadingPeriod(a, n) /\ \E m \in StringOffsets(a) : On(m)
  <2>1. M[<<p, n>>] <=> ~LeadingPeriod(a, n) /\ \E m \in StringOffsets(a) : StarOn(a, p, n, m)
    BY <1>1, StarsMean
  <2>2. \A m \in StringOffsets(a) : StarOn(a, p, n, m) <=> On(m)
    BY SpanTo DEF StarOn
  <2> QED
    BY <2>1, <2>2
<1>7. period /\ LeadingPeriod(a, n) <=> LeadingPeriod(a, n)
  BY DEF NetBSDKnows, LeadingPeriod
<1> HIDE DEF q, e, F, M
<1>8. ASSUME LeadingPeriod(a, n) PROVE ~F
  BY <1>5, <1>7, <1>8 DEF NetBSDCases, F
<1>9. CASE P(a, q) = EOS
  <2>1. F <=> ~LeadingPeriod(a, n) /\ (path => "LEADING_DIR" \in a.flags \/ S(a, e) = EOS)
    BY <1>5, <1>7, <1>9 DEF NetBSDCases, F, q, e
  <2>2. \A m \in StringOffsets(a) :
          M[<<q, m>>] <=> S(a, m) = EOS \/ ("LEADING_DIR" \in a.flags /\ S(a, m) = Slash)
    BY <1>1, <1>2, <1>9, Steps DEF M
  <2>3. S(a, StringEnd(a)) = EOS
    BY <1>1, Bytes
  <2>4. ASSUME ~path PROVE On(StringEnd(a))
    BY <1>1, <1>4, <2>2, <2>3, <2>4
  <2>5. ASSUME path, "LEADING_DIR" \in a.flags \/ S(a, e) = EOS PROVE On(e)
    BY <1>1, <1>3, <1>4, <2>2, <2>5
  <2>6. ASSUME NEW m \in StringOffsets(a), On(m), path, "LEADING_DIR" \notin a.flags
        PROVE  S(a, e) = EOS
    <3>1. S(a, m) = EOS /\ n <= m /\ m <= e
      BY <2>2, <2>6
    <3>2. m = e
      <4>1. m \in Nat
        BY <1>1
      <4>2. m < e => m \in n..e - 1
        BY <1>1, <1>4, <3>1, <4>1
      <4> QED
        BY <1>3, <1>4, <3>1, <4>1, <4>2
    <3> QED
      BY <3>1, <3>2
  <2> HIDE DEF path, On
  <2> QED
    BY <1>4, <1>6, <2>1, <2>4, <2>5, <2>6 DEF F, M
<1>10. CASE P(a, q) = Slash /\ path
  <2>1. F <=> ~LeadingPeriod(a, n) /\ S(a, e) = Slash /\ N[<<q, e, period>>]
    BY <1>5, <1>7, <1>10 DEF NetBSDCases, F, q, e
  <2>2. NetBSDKnows(a, e, period)
    <3>1. Has(a, Slash)
      BY <1>2, <1>10, HasIt DEF Slash, EOS
    <3> QED
      BY <1>10, <3>1 DEF NetBSDKnows
  <2>3. N[<<q, e, period>>] <=> M[<<q, e>>]
    BY <1>2, <1>4, <2>2 DEF M
  <2>4. ASSUME NEW m \in StringOffsets(a), On(m) PROVE m = e /\ S(a, e) = Slash
    <3>1. P(a, q) \notin {EOS, Star, Question, Open} /\ ~Escape(a, q)
      BY <1>10 DEF Slash, EOS, Star, Question, Open, Escape, Backslash
    <3>2. Takes1(a, q, m)
      BY <1>1, <1>2, <2>4, <3>1, Steps DEF M
    <3>3. S(a, m) # EOS /\ Fold(a, P(a, q)) = Fold(a, S(a, m))
      BY <1>1, <1>2, <3>1, <3>2, TakesCases
    <3>4. m \in Nat /\ S(a, m) \in 0..127 /\ P(a, q) \in 0..127
      BY <1>1, <1>2, Bytes
    <3>5. S(a, m) = Slash
      BY <1>10, <3>3, <3>4, Folded
    <3>6. n <= m /\ m <= e
      BY <1>10, <2>4
    <3>7. m = e
      <4>1. m < e => m \in n..e - 1
        BY <1>1, <1>4, <3>4, <3>6
      <4> QED
        BY <1>3, <1>4, <3>4, <3>5, <3>6, <4>1
    <3> QED
      BY <3>5, <3>7
  <2>5. M[<<q, e>>] => On(e)
    BY <1>1, <1>3, <1>4
  <2>6. On(e) => M[<<q, e>>]
    OBVIOUS
  <2> HIDE DEF path, On
  <2> QED
    BY <1>4, <1>6, <2>1, <2>3, <2>4, <2>5, <2>6 DEF F, M
<1>11. CASE P(a, q) # EOS /\ ~(P(a, q) = Slash /\ path)
  <2>1. F <=> ~LeadingPeriod(a, n) /\
                \E m \in n..StringEnd(a) - 1 : (path => m <= e) /\ N[<<q, m, FALSE>>]
    BY <1>5, <1>7, <1>11 DEF NetBSDCases, F, q, e
  <2>2. ASSUME ~LeadingPeriod(a, n), NEW m \in n..StringEnd(a) - 1, path => m <= e
        PROVE  /\ m \in StringOffsets(a) /\ n <= m
               /\ N[<<q, m, FALSE>>] <=> M[<<q, m>>]
    <3>1. m \in StringOffsets(a) /\ n <= m
      BY <1>1, <2>2
    <3>2. Span(a, n, m)
      BY <2>2, <3>1, SpanTo DEF e
    <3>3. ~LeadingPeriod(a, m)
      BY <2>2, <3>1, <3>2, SpanNext
    <3>4. Has(a, Star)
      BY <1>1, HasIt DEF Star, EOS
    <3>5. NetBSDKnows(a, m, FALSE)
      BY <3>3, <3>4 DEF NetBSDKnows, NetBSDFollows
    <3>6. N[<<q, m, FALSE>>] <=> M[<<q, m>>]
      BY <1>2, <3>1, <3>5 DEF M
    <3> QED
      BY <3>1, <3>6
  <2>3. ASSUME NEW m \in StringOffsets(a), On(m)
        PROVE  m \in n..StringEnd(a) - 1
    <3>1. Takes1(a, q, m)
      BY <1>1, <1>2, <1>11, <2>3, Steps DEF M
    <3>2. S(a, m) # EOS
      BY <1>1, <1>2, <1>11, <3>1, TakesCases
    <3>3. m < StringEnd(a) /\ m \in Nat
      BY <3>2, InsideBound
    <3> QED
      BY <1>1, <2>3, <3>3
  <2>4. ASSUME ~LeadingPeriod(a, n), NEW m \in n..StringEnd(a) - 1, path => m <= e, N[<<q, m, FALSE>>]
        PROVE  m \in StringOffsets(a) /\ On(m)
    BY <2>2, <2>4
  <2>5. ASSUME ~LeadingPeriod(a, n), NEW m \in StringOffsets(a), On(m)
        PROVE  m \in n..StringEnd(a) - 1 /\ (path => m <= e) /\ N[<<q, m, FALSE>>]
    <3>1. m \in n..StringEnd(a) - 1 /\ (path => m <= e)
      BY <2>3, <2>5
    <3> QED
      BY <2>2, <2>5, <3>1
  <2> HIDE DEF path, On
  <2> QED
    BY <1>6, <2>1, <2>4, <2>5 DEF F, M
<1> QED
  BY <1>9, <1>10, <1>11

(* Where NetBSD's fnmatch is asked for what it reads as POSIX does, it     *)
(* answers as POSIX does.                                                  *)
THEOREM NetBSDMeans ==
  ASSUME NEW a, IsCall(a), NetBSDFollows(a)
  PROVE  netbsd(a) <=> Matches(a)
PROOF
<1> DEFINE N == NetBSDOf(a)
           M == Match(a)
           L == PatternEnd(a)
           Agree(p) == \A n \in StringOffsets(a), b \in BOOLEAN :
                         NetBSDKnows(a, n, b) => (N[<<p, n, b>>] <=> M[<<p, n>>])
           T == {p \in 0..L : Agree(p)}
<1>1. PlainBrackets(a) /\ L \in Nat /\ PatternOffsets(a) = 0..L /\ 0 \in StringOffsets(a)
  BY Bytes DEF NetBSDFollows
<1>2. \A p \in PatternOffsets(a), n \in StringOffsets(a), b \in BOOLEAN :
        N[<<p, n, b>>] = NetBSDFrom(N, a, p, n, b)
  BY <1>1, NetBSDExists
<1> HIDE DEF N, L
<1>3. ASSUME NEW p \in 0..L, \A q \in p + 1..L : q \in T
      PROVE  p \in T
  <2> SUFFICES ASSUME NEW n \in StringOffsets(a), NEW b \in BOOLEAN, NetBSDKnows(a, n, b)
               PROVE  NetBSDFrom(N, a, p, n, b) <=> M[<<p, n>>]
    BY <1>1, <1>2
  <2>1. \A q \in PatternOffsets(a), m \in StringOffsets(a), c \in BOOLEAN :
          q > p /\ NetBSDKnows(a, m, c) => (N[<<q, m, c>>] <=> M[<<q, m>>])
    <3> SUFFICES ASSUME NEW q \in PatternOffsets(a), NEW m \in StringOffsets(a), NEW c \in BOOLEAN,
                        q > p, NetBSDKnows(a, m, c)
                 PROVE  N[<<q, m, c>>] <=> M[<<q, m>>]
      OBVIOUS
    <3>1. q \in p + 1..L
      BY <1>1
    <3>2. q \in T
      BY <1>3, <3>1
    <3> QED
      BY <3>2
  <2>2. p \in PatternOffsets(a)
    BY <1>1
  <2> HIDE DEF T
  <2>3. CASE P(a, p) = EOS
    <3>1. NetBSDCases(N, a, p, n, b)
      BY NetBSDIs
    <3> QED
      BY <1>1, <2>2, <2>3, <3>1, Steps DEF NetBSDCases
  <2>4. CASE P(a, p) = Star
    BY <2>1, <2>2, <2>4, NetBSDStar
  <2>5. CASE P(a, p) \notin {EOS, Star}
    <3> DEFINE t == TokenEnd(a, p)
    <3>1. NetBSDFrom(N, a, p, n, b) <=> NetBSDTakes(a, p, n, b) /\ N[<<t, n + 1, b>>]
      BY <1>1, <2>2, <2>5, NetBSDTokens
    <3>2. M[<<p, n>>] <=> Takes1(a, p, n) /\ M[<<t, n + 1>>]
      BY <1>1, <2>2, <2>5, Steps
    <3>3. /\ NetBSDTakes(a, p, n, b) <=> Takes1(a, p, n)
          /\ Takes1(a, p, n) => NetBSDKnows(a, n + 1, b)
      BY <2>2, <2>5, NetBSDToken
    <3>4. t \in PatternOffsets(a) /\ t > p
      BY <1>1, <2>2, <2>5, TokenEnds
    <3>5. Takes1(a, p, n) => n + 1 \in StringOffsets(a)
      BY <1>1, <2>2, <2>5, TakesCases, InsideBound
    <3> HIDE DEF t, M
    <3>6. Takes1(a, p, n) => (N[<<t, n + 1, b>>] <=> M[<<t, n + 1>>])
      BY <2>1, <3>3, <3>4, <3>5
    <3> QED
      BY <3>1, <3>2, <3>3, <3>6
  <2> QED
    BY <2>3, <2>4, <2>5
<1> HIDE DEF T
<1>4. 0 \in T
  <2>1. 0..L \subseteq T
    BY <1>1, <1>3, AllDownward
  <2> QED
    BY <1>1, <2>1
<1>5. N[<<0, 0, TRUE>>] <=> M[<<0, 0>>]
  BY <1>1, <1>4 DEF T, NetBSDKnows
<1>6. netbsd(a) = N[<<0, 0, TRUE>>]
  BY DEF netbsd, N, NetBSDOf
<1> QED
  BY <1>5, <1>6 DEF Matches
-----------------------------------------------------------------------------
(* GNU's bracket expressions.                                              *)
SkipOf(a) == CHOOSE K : K = [q \in 0..Len(a.pattern) + 1 |-> SkipFrom(K, a, q)]
ItemsOf(a, test, negate) ==
  CHOOSE B : B = [q \in 0..Len(a.pattern) + 1 |-> ItemsFrom(B, a, test, negate, q)]

(* GNU's search for the end of a bracket expression comes to an end.       *)
LEMMA SkipExists ==
  ASSUME NEW a, IsCall(a)
  PROVE  \A q \in 0..PatternEnd(a) + 1 :
           SkipOf(a)[q] = SkipFrom(SkipOf(a), a, q) /\ SkipOf(a)[q] \in Int
PROOF
<1> DEFINE L == PatternEnd(a)
           D == 0..L + 1
           V == Int
           place == [q \in D |-> q]
           T == {q \in D : P(a, q) \in {Close, EOS}}
           K == [q \in D |-> IF P(a, q) = Close THEN q + 1 ELSE NoBracket]
           J == [q \in D |-> IF q \in T THEN q ELSE IF Quoted(a, q) THEN q + 2 ELSE q + 1]
           C == SkipOf(a)
<1>1. L \in Nat /\ D \subseteq Int
  BY Bytes
<1>2. \A q \in D : q \notin T => q \in 0..L - 1
  BY <1>1, Bytes
<1> HIDE DEF L, T
<1>3. K \in [D -> V]
  BY <1>1 DEF NoBracket
<1>4. J \in [D -> D] /\ \A q \in D : q \notin T => place[J[q]] > place[q]
  BY <1>1, <1>2
<1>5. place \in [D -> 0..L + 1] /\ L + 1 \in Nat
  BY <1>1
<1>6. \A g : \A q \in D : SkipFrom(g, a, q) = IF q \in T THEN K[q] ELSE g[J[q]]
  BY DEF SkipFrom, T, Close, EOS
<1>7. Linked(D, V, T, K, J)
  <2> HIDE DEF place, D, K, J
  <2>1. Chain(D, V, L + 1, place, T, K, J)
    BY <1>3, <1>4, <1>5 DEF Chain
  <2> QED
    BY <2>1, Chained
<1> HIDE DEF D, V, K, J
<1>8. \A g : [q \in D |-> SkipFrom(g, a, q)] = Follow(g, D, T, K, J)
  BY <1>6 DEF Follow
<1>9. \E f : f = [q \in D |-> SkipFrom(f, a, q)]
  BY <1>7, <1>8 DEF Linked
<1>10. C = [q \in D |-> SkipFrom(C, a, q)]
  BY <1>9 DEF SkipOf, D, L, PatternEnd
<1> HIDE DEF C
<1>11. C \in [D -> V]
  <2>1. C = Follow(C, D, T, K, J)
    BY <1>8, <1>10
  <2> QED
    BY <1>7, <2>1 DEF Linked
<1>12. ASSUME NEW q \in D PROVE C[q] = SkipFrom(C, a, q) /\ C[q] \in Int
  <2>1. C[q] \in Int
    BY <1>11 DEF V
  <2> QED
    BY <1>10, <2>1
<1> QED
  BY <1>12 DEF C, D, L

(* It finds an offset, or none.                                            *)
LEMMA SkipInt ==
  ASSUME NEW a, IsCall(a), NEW p \in 0..PatternEnd(a) + 1
  PROVE  SkipBracket(a, p) \in Int
PROOF
<1>1. SkipBracket(a, p) = IF P(a, p) \in {Close, EOS} THEN SkipOf(a)[p] ELSE SkipOf(a)[p + 1]
  BY DEF SkipBracket, SkipOf
<1>2. p \in Int /\ PatternEnd(a) \in Nat /\ p + 1 \in Int
  BY Bytes
<1>3. P(a, p) \notin {Close, EOS} => p + 1 \in 0..PatternEnd(a) + 1
  BY <1>2, Bytes
<1> QED
  BY <1>1, <1>3, SkipExists

(* The rest of a plain list is skipped up to its end.                      *)
LEMMA SkipMeans ==
  ASSUME NEW a, IsCall(a), PlainBrackets(a), NEW p \in PatternOffsets(a), P(a, p) = Open,
         NEW q \in p + 1..BracketEnd(a, p)
  PROVE  SkipBracket(a, q) = BracketEnd(a, p) + 1
PROOF
<1> DEFINE e == BracketEnd(a, p)
           C == SkipOf(a)
           T == {x \in 0..e : x > p => C[x] = e + 1}
<1>1. /\ p \in Nat /\ e \in Nat /\ e < PatternEnd(a) /\ PatternEnd(a) \in Nat
      /\ P(a, e) = Close
      /\ \A x \in p + 1..e - 1 : P(a, x) \notin {Close, Backslash, EOS}
  <2>1. p \in Nat /\ PatternEnd(a) \in Nat /\ PatternOffsets(a) \subseteq Nat
    BY Bytes
  <2> QED
    BY <2>1, PlainBracket DEF BracketAt
<1> HIDE DEF e
<1>2. \A x \in 0..e : C[x] = SkipFrom(C, a, x)
  BY <1>1, SkipExists
<1> HIDE DEF C
<1>3. ASSUME NEW x \in 0..e, \A y \in x + 1..e : y \in T
      PROVE  x \in T
  <2> SUFFICES ASSUME x > p PROVE C[x] = e + 1
    OBVIOUS
  <2>1. CASE x = e
    <3>1. P(a, x) = Close
      BY <1>1, <2>1
    <3>2. SkipFrom(C, a, x) = x + 1
      BY <3>1 DEF SkipFrom, Close, EOS
    <3> QED
      BY <1>2, <2>1, <3>2
  <2>2. CASE x # e
    <3>1. P(a, x) \notin {Close, Backslash, EOS} /\ x + 1 \in x + 1..e
      BY <1>1, <2>2
    <3>2. C[x] = C[x + 1]
      BY <1>2, <3>1 DEF SkipFrom, Quoted
    <3>3. x + 1 \in T
      BY <1>3, <3>1
    <3> QED
      BY <1>1, <3>2, <3>3
  <2> QED
    BY <2>1, <2>2
<1> HIDE DEF T
<1>4. 0..e \subseteq T
  BY <1>1, <1>3, AllDownward
<1>5. \A x \in p + 1..e : C[x] = e + 1
  BY <1>1, <1>4 DEF T
<1>6. SkipBracket(a, q) = IF P(a, q) \in {Close, EOS} THEN C[q] ELSE C[q + 1]
  BY DEF SkipBracket, C, SkipOf
<1>7. q \in Nat /\ p < q /\ q <= e
  BY <1>1 DEF e
<1>8. P(a, q) \notin {Close, EOS} => q + 1 \in p + 1..e
  BY <1>1, <1>7
<1>9. q \in p + 1..e
  BY <1>7, <1>1
<1> QED
  BY <1>5, <1>6, <1>8, <1>9 DEF e

(* One item: where its test ends, and whether it goes on.                  *)
ItemEnds(a, test, negate, p, v) == \A g : ItemsFrom(g, a, test, negate, p) = v
ItemGoes(a, test, negate, p, r) == \A g : ItemsFrom(g, a, test, negate, p) = g[r]

(* An item of GNU's list decides at once, or the next one does.            *)
LEMMA ItemEither ==
  ASSUME NEW a, IsCall(a), NEW test, NEW negate \in BOOLEAN, NEW p \in 0..PatternEnd(a) + 1
  PROVE  \/ \E v \in Int : ItemEnds(a, test, negate, p, v)
         \/ \E r \in 0..PatternEnd(a) + 1 : r > p /\ ItemGoes(a, test, negate, p, r)
PROOF
<1> DEFINE L      == PatternEnd(a)
           q      == IF Quoted(a, p) THEN p + 2 ELSE p + 1
           cstart == Fold(a, P(a, q - 1))
           range  == P(a, q) = Minus /\ P(a, q + 1) # Close
           r      == IF Quoted(a, q + 1) THEN q + 2 ELSE q + 1
           cend   == IF range THEN Fold(a, P(a, r)) ELSE cstart
           next   == IF range THEN r + 1 ELSE q
           none   == P(a, p) = EOS \/ ("PATHNAME" \in a.flags /\ P(a, q) = Slash)
                       \/ (range /\ P(a, r) = EOS)
           hit    == cstart <= test /\ test <= cend
<1>1. \A g : ItemsFrom(g, a, test, negate, p) =
        IF none THEN NoBracket
        ELSE IF hit THEN IF negate THEN NoBracket ELSE SkipBracket(a, next)
        ELSE IF P(a, next) = Close THEN IF negate THEN next + 1 ELSE NoBracket
        ELSE g[next]
  BY DEF ItemsFrom
<1>2. L \in Nat /\ p \in Nat /\ q \in {p + 1, p + 2} /\ r \in {q + 1, q + 2} /\ r \in Nat /\ q \in Nat
  BY Bytes
<1>3. ~none => next \in 0..L + 1 /\ next > p
  <2>1. P(a, p) # EOS => p < L
    BY <1>2, Bytes
  <2>2. P(a, r) # EOS => r < L
    <3> HIDE DEF r
    <3>1. r \in Int
      BY <1>2
    <3> QED
      BY <1>2, <3>1, Bytes
  <2> HIDE DEF q, r, range, L
  <2> QED
    BY <1>2, <2>1, <2>2
<1>4. ~none => SkipBracket(a, next) \in Int
  BY <1>3, SkipInt
<1>5. NoBracket \in Int /\ (~none => next + 1 \in Int)
  BY <1>2, <1>3 DEF NoBracket
<1> HIDE DEF none, hit, next, q, r, cstart, cend, range, L
<1>6. CASE none
  BY <1>1, <1>5, <1>6 DEF ItemEnds
<1>7. CASE ~none /\ hit
  BY <1>1, <1>4, <1>5, <1>7 DEF ItemEnds
<1>8. CASE ~none /\ ~hit /\ P(a, next) = Close
  BY <1>1, <1>5, <1>8 DEF ItemEnds
<1>9. CASE ~none /\ ~hit /\ P(a, next) # Close
  <2>1. ItemGoes(a, test, negate, p, next)
    BY <1>1, <1>9 DEF ItemGoes
  <2> QED
    BY <1>3, <1>9, <2>1 DEF L
<1> QED
  BY <1>6, <1>7, <1>8, <1>9

(* GNU's list is read item by item.                                        *)
LEMMA ItemsExist ==
  ASSUME NEW a, IsCall(a), NEW test, NEW negate \in BOOLEAN
  PROVE  \A q \in 0..PatternEnd(a) + 1 :
           ItemsOf(a, test, negate)[q] = ItemsFrom(ItemsOf(a, test, negate), a, test, negate, q)
PROOF
<1> DEFINE L == PatternEnd(a)
           D == 0..L + 1
           V == Int
           place == [q \in D |-> q]
           T == {q \in D : \E v \in Int : ItemEnds(a, test, negate, q, v)}
           K == [q \in D |-> IF q \in T THEN CHOOSE v \in Int : ItemEnds(a, test, negate, q, v)
                             ELSE NoBracket]
           J == [q \in D |-> IF q \in T THEN q
                             ELSE CHOOSE r \in D : r > q /\ ItemGoes(a, test, negate, q, r)]
           C == ItemsOf(a, test, negate)
<1>1. L \in Nat
  BY Bytes
<1>2. \A q \in D : q \in T => K[q] \in Int /\ ItemEnds(a, test, negate, q, K[q])
  OBVIOUS
<1>3. \A q \in D : q \notin T => J[q] \in D /\ J[q] > q /\ ItemGoes(a, test, negate, q, J[q])
  <2> SUFFICES ASSUME NEW q \in D, q \notin T
               PROVE  J[q] \in D /\ J[q] > q /\ ItemGoes(a, test, negate, q, J[q])
    OBVIOUS
  <2>1. \E r \in D : r > q /\ ItemGoes(a, test, negate, q, r)
    BY ItemEither
  <2>2. J[q] = CHOOSE r \in D : r > q /\ ItemGoes(a, test, negate, q, r)
    OBVIOUS
  <2> HIDE DEF J, T, D
  <2> QED
    BY <2>1, <2>2
<1>4. K \in [D -> V]
  <2>1. \A q \in D : K[q] \in V
    BY <1>2 DEF NoBracket
  <2> QED
    BY <2>1
<1>5. J \in [D -> D]
  <2>1. \A q \in D : J[q] \in D
    BY <1>3
  <2> QED
    BY <2>1
<1> HIDE DEF T, K, J, L
<1>6. place \in [D -> 0..L + 1] /\ L + 1 \in Nat /\ \A q \in D : q \notin T => place[J[q]] > place[q]
  BY <1>1, <1>3
<1>7. \A g : \A q \in D : ItemsFrom(g, a, test, negate, q) = IF q \in T THEN K[q] ELSE g[J[q]]
  BY <1>2, <1>3 DEF ItemEnds, ItemGoes
<1>8. Linked(D, V, T, K, J)
  <2> HIDE DEF place, D
  <2>1. V # {}
    OBVIOUS
  <2> HIDE DEF V
  <2>2. Chain(D, V, L + 1, place, T, K, J)
    BY <1>4, <1>5, <1>6, <2>1 DEF Chain
  <2> QED
    BY <2>2, Chained
<1> HIDE DEF D, V
<1>9. \A g : [q \in D |-> ItemsFrom(g, a, test, negate, q)] = Follow(g, D, T, K, J)
  BY <1>7 DEF Follow
<1>10. \E f : f = [q \in D |-> ItemsFrom(f, a, test, negate, q)]
  BY <1>8, <1>9 DEF Linked
<1>11. C = [q \in D |-> ItemsFrom(C, a, test, negate, q)]
  BY <1>10 DEF ItemsOf, D, L, PatternEnd
<1> HIDE DEF C
<1>12. \A q \in D : C[q] = ItemsFrom(C, a, test, negate, q)
  BY <1>11
<1> QED
  BY <1>12 DEF C, D, L

(* GNU reads a plain bracket expression as the reference does.             *)
GNUOutcome(a, p, c, negate, q) ==
  IF ListsFrom(a, p, c, q) # negate THEN BracketEnd(a, p) + 1 ELSE NoBracket

(* GNU's list has the byte that the reference's list has.                  *)
LEMMA ItemsMean ==
  ASSUME NEW a, IsCall(a), PlainBrackets(a), NEW p \in PatternOffsets(a), P(a, p) = Open,
         NEW c \in Int, NEW negate \in BOOLEAN
  PROVE  ItemsOf(a, c, negate)[ListStart(a, p)] = GNUOutcome(a, p, c, negate, ListStart(a, p))
PROOF
<1> DEFINE lo == ListStart(a, p)
           e  == BracketEnd(a, p)
           B  == ItemsOf(a, c, negate)
           Right(q) == B[q] = GNUOutcome(a, p, c, negate, q)
           T  == {q \in 0..PatternEnd(a) + 1 : q = e \/ Right(q)}
<1>1. /\ e \in PatternOffsets(a) /\ P(a, e) = Close /\ e \in Nat /\ e < PatternEnd(a)
      /\ p \in Nat /\ PatternEnd(a) \in Nat /\ lo \in {p + 1, p + 2} /\ e > lo
      /\ \A x \in p + 1..e - 1 : P(a, x) # Slash
  <2>1. e \in PatternOffsets(a) /\ BracketAt(a, p, e)
    BY PlainBracket
  <2> QED
    BY <2>1, PlainBracket, Bytes DEF BracketAt
<1>2. \A q \in 0..PatternEnd(a) + 1 : B[q] = ItemsFrom(B, a, c, negate, q)
  BY ItemsExist
<1>3. \A q : ListsFrom(a, p, c, q) \in BOOLEAN
  BY DEF ListsFrom
<1> HIDE DEF B
<1>4. e \in T
  BY <1>1
<1>5. ASSUME NEW q, ItemAt(a, p, q), q # e, ItemNext(a, q) \in T
      PROVE  q \in T
  <2> DEFINE hit == IF IsRange(a, q) THEN Fold(a, P(a, q)) <= c /\ c <= Fold(a, P(a, q + 2))
                    ELSE Fold(a, P(a, q)) = c
             next == ItemNext(a, q)
  <2>1. /\ q \in Nat /\ q < e /\ P(a, q) \notin {Close, Backslash, Slash, Open, EOS}
        /\ IsRange(a, q) =>
             /\ P(a, q + 2) \notin {Backslash, Slash, Open, EOS} /\ ItemAt(a, p, q + 3)
             /\ ListsFrom(a, p, c, q) <=>
                  (Fold(a, P(a, q)) <= c /\ c <= Fold(a, P(a, q + 2))) \/ ListsFrom(a, p, c, q + 3)
        /\ ~IsRange(a, q) =>
             /\ ItemAt(a, p, q + 1)
             /\ (ListsFrom(a, p, c, q) <=> Fold(a, P(a, q)) = c \/ ListsFrom(a, p, c, q + 1))
    BY <1>5, NextItem DEF IsRange
  <2>2. q + 1 \in p + 1..e /\ (q + 1) + 1 = q + 2 /\ (q + 1) - 1 = q /\ (q + 2) + 1 = q + 3
        /\ q \in 0..PatternEnd(a) + 1
    <3>1. q \in lo..e
      BY <1>5 DEF ItemAt
    <3> QED
      BY <1>1, <2>1, <3>1
  <2>3. P(a, q + 1) # Slash
    BY <1>1, <2>2 DEF Close, Slash
  <2>4. ItemAt(a, p, next) /\ next \in p + 1..e
    <3>1. ItemAt(a, p, next)
      BY <2>1 DEF ItemNext
    <3>2. next \in lo..e
      BY <3>1 DEF ItemAt
    <3> QED
      BY <1>1, <3>1, <3>2
  <2>5. ListsFrom(a, p, c, q) <=> hit \/ ListsFrom(a, p, c, next)
    BY <2>1 DEF ItemNext
  <2>6. P(a, next) = Close <=> next = e
    <3>1. next # e => P(a, next) # Close
      BY <2>4, NextItem
    <3> QED
      BY <1>1, <3>1
  <2>7. SkipBracket(a, next) = e + 1
    BY <2>4, SkipMeans
  <2>8. ItemsFrom(B, a, c, negate, q) =
          IF hit THEN IF negate THEN NoBracket ELSE SkipBracket(a, next)
          ELSE IF P(a, next) = Close THEN IF negate THEN next + 1 ELSE NoBracket
          ELSE B[next]
    <3>1. ~Quoted(a, q)
      BY <2>1 DEF Quoted
    <3>2. IsRange(a, q) => ~Quoted(a, (q + 1) + 1)
      BY <2>1, <2>2 DEF Quoted
    <3>3. Fold(a, P(a, q)) \in Int
      <4>1. q \in Int
        BY <2>1
      <4>2. P(a, q) \in 0..127
        BY <4>1, Bytes
      <4> QED
        BY <4>2, FoldedInt
    <3>4. CASE IsRange(a, q)
      <4>1. P(a, q + 1) = Minus /\ P(a, (q + 1) + 1) # Close
        BY <2>2, <3>4 DEF IsRange
      <4>2. next = ((q + 1) + 1) + 1
        BY <2>2, <3>4 DEF ItemNext
      <4>3. P(a, q) # EOS /\ P(a, (q + 1) + 1) # EOS
        BY <2>1, <2>2, <3>4
      <4>4. hit <=> Fold(a, P(a, (q + 1) - 1)) <= c /\ c <= Fold(a, P(a, (q + 1) + 1))
        BY <2>2, <3>4
      <4> HIDE DEF hit, next
      <4> QED
        BY <2>3, <3>1, <3>2, <3>4, <4>1, <4>2, <4>3, <4>4 DEF ItemsFrom
    <3>5. CASE ~IsRange(a, q)
      <4>1. ~(P(a, q + 1) = Minus /\ P(a, (q + 1) + 1) # Close)
        BY <2>2, <3>5 DEF IsRange
      <4>2. next = q + 1
        BY <3>5 DEF ItemNext
      <4>3. P(a, q) # EOS
        BY <2>1
      <4>4. hit <=> Fold(a, P(a, (q + 1) - 1)) <= c /\ c <= Fold(a, P(a, (q + 1) - 1))
        BY <2>2, <3>3, <3>5
      <4> HIDE DEF hit, next
      <4> QED
        BY <2>3, <3>1, <4>1, <4>2, <4>3, <4>4 DEF ItemsFrom
    <3> QED
      BY <3>4, <3>5
  <2>9. next # e => B[next] = GNUOutcome(a, p, c, negate, next)
    BY <1>5
  <2>10. B[q] = ItemsFrom(B, a, c, negate, q)
    BY <1>2, <2>2
  <2>11. ~ListsFrom(a, p, c, e)
    BY FirstItem
  <2>12. hit \in BOOLEAN
    OBVIOUS
  <2> HIDE DEF hit, next
  <2>13. CASE hit
    <3>1. ListsFrom(a, p, c, q) = TRUE
      BY <1>3, <2>5, <2>13
    <3> QED
      BY <2>2, <2>7, <2>8, <2>10, <2>13, <3>1 DEF GNUOutcome
  <2>14. CASE ~hit /\ next = e
    <3>1. ListsFrom(a, p, c, q) = FALSE
      BY <1>3, <2>5, <2>11, <2>14
    <3> QED
      BY <2>2, <2>6, <2>8, <2>10, <2>14, <3>1 DEF GNUOutcome
  <2>15. CASE ~hit /\ next # e
    <3>1. ListsFrom(a, p, c, q) = ListsFrom(a, p, c, next)
      BY <1>3, <2>5, <2>15
    <3> QED
      BY <2>2, <2>6, <2>8, <2>9, <2>10, <2>15, <3>1 DEF GNUOutcome
  <2> QED
    BY <2>13, <2>14, <2>15
<1>6. lo \in T
  <2> HIDE DEF T
  <2> QED
    BY <1>4, <1>5, ItemByItem
<1>7. lo # e
  BY <1>1
<1> QED
  BY <1>6, <1>7 DEF B

(* GNU's bracket expression accepts what the reference accepts.            *)
LEMMA MatchesBracket ==
  ASSUME NEW a, IsCall(a), PlainBrackets(a), NEW p \in PatternOffsets(a), P(a, p) = Open,
         NEW c \in 0..127
  PROVE  MatchBracket(a, ListStart(a, p), Fold(a, c), P(a, p + 1) \in Negations) =
           IF Accepts(a, p, BracketEnd(a, p), c) THEN TokenEnd(a, p) ELSE NoBracket
PROOF
<1> DEFINE negate == P(a, p + 1) \in Negations
           hit == ListsFrom(a, p, Fold(a, c), ListStart(a, p))
<1>1. MatchBracket(a, ListStart(a, p), Fold(a, c), negate) =
        IF hit # negate THEN BracketEnd(a, p) + 1 ELSE NoBracket
  <2>1. Fold(a, c) \in Int
    BY FoldedInt
  <2>2. ItemsOf(a, Fold(a, c), negate)[ListStart(a, p)] =
          GNUOutcome(a, p, Fold(a, c), negate, ListStart(a, p))
    <3>1. negate \in BOOLEAN
      OBVIOUS
    <3> HIDE DEF negate
    <3> QED
      BY <2>1, <3>1, ItemsMean
  <2> QED
    BY <2>2 DEF MatchBracket, ItemsOf, GNUOutcome
<1>2. hit \in BOOLEAN /\ negate \in BOOLEAN
  BY DEF ListsFrom
<1>3. Accepts(a, p, BracketEnd(a, p), c) <=> (hit # negate)
  <2>1. Lists(a, ListStart(a, p), BracketEnd(a, p) - 1, Fold(a, c)) <=> hit
    BY FirstItem
  <2>2. CASE negate
    <3>1. Accepts(a, p, BracketEnd(a, p), c) <=> ~hit
      BY <2>1, <2>2 DEF Accepts, ListStart
    <3> QED
      BY <1>2, <2>2, <3>1
  <2>3. CASE ~negate
    <3>1. Accepts(a, p, BracketEnd(a, p), c) <=> hit
      BY <2>1, <2>3 DEF Accepts, ListStart
    <3> QED
      BY <1>2, <2>3, <3>1
  <2> QED
    BY <2>2, <2>3
<1>4. TokenEnd(a, p) = BracketEnd(a, p) + 1
  BY DEF TokenEnd
<1> HIDE DEF hit, negate
<1>5. MatchBracket(a, ListStart(a, p), Fold(a, c), negate) =
        IF Accepts(a, p, BracketEnd(a, p), c) THEN TokenEnd(a, p) ELSE NoBracket
  BY <1>1, <1>3, <1>4
<1> QED
  BY <1>5 DEF negate

(* What a call of GNU's takes of the string, token by token.               *)
GNUTakes(a, p, n, period) ==
  IF P(a, p) = Question THEN Inside(a, n) /\ ~(period /\ LeadingPeriod(a, n))
  ELSE IF P(a, p) = Open
  THEN /\ S(a, n) # EOS /\ ~(period /\ LeadingPeriod(a, n))
       /\ Accepts(a, p, BracketEnd(a, p), S(a, n))
  ELSE Takes1(a, p, n)

(* Where the stars and question marks at p end.                            *)
WildEnd(a, p) ==
  CHOOSE q \in p..Len(a.pattern) :
    P(a, q) \notin {Question, Star} /\ \A r \in p..q - 1 : P(a, r) \in {Question, Star}

GNUStarTo(a, p, n) ==
  LET q == WildEnd(a, p)
  IN \A r \in p + 1..q - 1 :
       /\ ~("PATHNAME" \in a.flags /\ S(a, n + (r - p) - 1) = Slash)
       /\ P(a, r) = Question => S(a, n + (r - p) - 1) # EOS
First(a, q) == Fold(a, IF Quoted(a, q) THEN P(a, q + 1) ELSE P(a, q))
GNUStarOn(G, a, p, n) ==
  LET q == WildEnd(a, p)
  IN \E m \in n + (q - p) - 1..StringEnd(a) - 1 :
       (P(a, q) = Open \/ Fold(a, S(a, m)) = First(a, q)) /\ G[<<q, m, FALSE>>]

(* A call, case by case.                                                   *)
GNUCases(G, a, p, n, period) ==
  LET c     == IF Quoted(a, p) THEN p + 1 ELSE p
      leads == period /\ LeadingPeriod(a, n)
      r     == MatchBracket(a, ListStart(a, p), Fold(a, S(a, n)), P(a, p + 1) \in Negations)
      F     == GNUFrom(G, a, p, n, period)
  IN /\ F \in BOOLEAN
     /\ P(a, p) = EOS => (F <=> S(a, n) = EOS \/ ("LEADING_DIR" \in a.flags /\ S(a, n) = Slash))
     /\ P(a, p) = Question => (F <=> Inside(a, n) /\ ~leads /\ G[<<p + 1, n + 1, period>>])
     /\ P(a, p) = Star =>
          (F <=> /\ ~leads /\ GNUStarTo(a, p, n)
                 /\ P(a, WildEnd(a, p)) = EOS \/ GNUStarOn(G, a, p, n))
     /\ P(a, p) = Open =>
          (F <=> S(a, n) # EOS /\ ~leads /\ r # NoBracket /\ G[<<r, n + 1, period>>])
     /\ P(a, p) \notin {EOS, Question, Star, Open} =>
          (F <=> Fold(a, S(a, n)) = Fold(a, P(a, c)) /\ G[<<c + 1, n + 1, period>>])

(* A call of GNU's fnmatch, its cases.                                     *)
LEMMA GNUIs ==
  ASSUME NEW G, NEW a, NEW p, NEW n, NEW period \in BOOLEAN
  PROVE  GNUCases(G, a, p, n, period)
PROOF
<1> DEFINE c     == IF Quoted(a, p) THEN p + 1 ELSE p
           leads == period /\ LeadingPeriod(a, n)
           r     == MatchBracket(a, ListStart(a, p), Fold(a, S(a, n)), P(a, p + 1) \in Negations)
           F     == GNUFrom(G, a, p, n, period)
           end   == S(a, n) = EOS \/ ("LEADING_DIR" \in a.flags /\ S(a, n) = Slash)
           mark  == /\ S(a, n) # EOS /\ ~("PATHNAME" \in a.flags /\ S(a, n) = Slash)
                    /\ ~leads /\ G[<<p + 1, n + 1, period>>]
           star  == ~leads /\ GNUStar(G, a, p, n)
           open  == S(a, n) # EOS /\ ~leads /\ r # NoBracket /\ G[<<r, n + 1, period>>]
           other == Fold(a, S(a, n)) = Fold(a, P(a, c)) /\ G[<<c + 1, n + 1, period>>]
<1>1. F = CASE P(a, p) = EOS -> end
            [] P(a, p) = Question -> mark
            [] P(a, p) = Star -> star
            [] P(a, p) = Open -> open
            [] OTHER -> other
  BY DEF GNUFrom, ListStart
<1>2. end \in BOOLEAN /\ mark \in BOOLEAN /\ star \in BOOLEAN /\ open \in BOOLEAN /\ other \in BOOLEAN
  OBVIOUS
<1>3. mark <=> Inside(a, n) /\ ~leads /\ G[<<p + 1, n + 1, period>>]
  BY DEF Inside
<1>4. star <=> /\ ~leads /\ GNUStarTo(a, p, n)
               /\ P(a, WildEnd(a, p)) = EOS \/ GNUStarOn(G, a, p, n)
  BY DEF GNUStar, GNUStarTo, GNUStarOn, WildEnd, First, StringEnd
<1> HIDE DEF F, end, mark, star, open, other, c, r, leads
<1>5. /\ P(a, p) = EOS => F = end
      /\ P(a, p) = Question => F = mark
      /\ P(a, p) = Star => F = star
      /\ P(a, p) = Open => F = open
      /\ P(a, p) \notin {EOS, Question, Star, Open} => F = other
  BY <1>1 DEF EOS, Question, Star, Open
<1>6. F \in BOOLEAN
  BY <1>2, <1>5
<1>7. P(a, p) = EOS => (F <=> end)
  BY <1>5
<1>8. P(a, p) = Question => (F <=> Inside(a, n) /\ ~leads /\ G[<<p + 1, n + 1, period>>])
  BY <1>3, <1>5
<1>9. P(a, p) = Star =>
        (F <=> /\ ~leads /\ GNUStarTo(a, p, n)
               /\ P(a, WildEnd(a, p)) = EOS \/ GNUStarOn(G, a, p, n))
  BY <1>4, <1>5
<1>10. P(a, p) = Open => (F <=> open)
  BY <1>5
<1>11. P(a, p) \notin {EOS, Question, Star, Open} => (F <=> other)
  BY <1>5
<1> QED
  BY <1>6, <1>7, <1>8, <1>9, <1>10, <1>11 DEF GNUCases, F, leads, c, r, end, open, other

(* A backslash that quotes has something behind it.                        *)
LEMMA QuotedIs ==
  ASSUME NEW a, IsCall(a), GNUDefined(a), NEW p \in PatternOffsets(a)
  PROVE  Quoted(a, p) <=> Escape(a, p)
PROOF
<1>1. p \in Nat /\ p + 1 \in Int /\ PatternEnd(a) \in Nat /\ p <= PatternEnd(a)
  BY Bytes
<1>2. ASSUME Quoted(a, p) PROVE P(a, p + 1) # EOS
  <2>1. P(a, p) = Backslash
    BY <1>2 DEF Quoted
  <2>2. p \in 0..PatternEnd(a) - 1
    BY <1>1, <2>1, Bytes DEF Backslash, EOS
  <2>3. p # PatternEnd(a) - 1
    BY <1>2, <2>1 DEF GNUDefined, PatternEnd, Quoted
  <2>4. p + 1 \in 0..PatternEnd(a) - 1
    BY <1>1, <2>2, <2>3
  <2> QED
    BY <1>1, <2>4, Bytes
<1> QED
  BY <1>2 DEF Quoted, Escape

(* Any character but a star takes a byte, and the rest is asked about.     *)
LEMMA GNUTokens ==
  ASSUME NEW a, IsCall(a), PlainBrackets(a), GNUDefined(a),
         NEW p \in PatternOffsets(a), P(a, p) \notin {EOS, Star},
         NEW n \in StringOffsets(a), NEW period \in BOOLEAN, NEW G
  PROVE  GNUFrom(G, a, p, n, period) <=>
           GNUTakes(a, p, n, period) /\ G[<<TokenEnd(a, p), n + 1, period>>]
PROOF
<1> DEFINE leads == period /\ LeadingPeriod(a, n)
           c     == IF Quoted(a, p) THEN p + 1 ELSE p
           r     == MatchBracket(a, ListStart(a, p), Fold(a, S(a, n)), P(a, p + 1) \in Negations)
           F     == GNUFrom(G, a, p, n, period)
<1>1. GNUCases(G, a, p, n, period)
  BY GNUIs
<1>2. p \in Nat /\ n \in Int /\ S(a, n) \in 0..127 /\ P(a, p) \in 0..127 /\ P(a, p + 1) \in 0..127
  <2>1. p \in Nat /\ p + 1 \in Int /\ n \in Int
    BY Bytes
  <2> QED
    BY <2>1, Bytes
<1> HIDE DEF F
<1>3. CASE P(a, p) = Question
  <2>1. F <=> Inside(a, n) /\ ~leads /\ G[<<p + 1, n + 1, period>>]
    BY <1>1, <1>3 DEF GNUCases, F
  <2>2. TokenEnd(a, p) = p + 1
    BY <1>3 DEF TokenEnd, Escape, Question, Open, Backslash
  <2> QED
    BY <1>3, <2>1, <2>2 DEF F, GNUTakes
<1>4. CASE P(a, p) = Open
  <2>1. F <=> S(a, n) # EOS /\ ~leads /\ r # NoBracket /\ G[<<r, n + 1, period>>]
    BY <1>1, <1>4 DEF GNUCases, F
  <2>2. r = IF Accepts(a, p, BracketEnd(a, p), S(a, n)) THEN TokenEnd(a, p) ELSE NoBracket
    BY <1>2, <1>4, MatchesBracket
  <2>3. TokenEnd(a, p) # NoBracket
    <3>1. TokenEnd(a, p) \in PatternOffsets(a)
      BY TokenEnds
    <3> QED
      BY <3>1, Bytes DEF NoBracket
  <2> HIDE DEF r
  <2>4. GNUTakes(a, p, n, period) <=>
          S(a, n) # EOS /\ ~leads /\ Accepts(a, p, BracketEnd(a, p), S(a, n))
    BY <1>4 DEF GNUTakes, Open, Question
  <2> QED
    BY <2>1, <2>2, <2>3, <2>4 DEF F
<1>5. CASE P(a, p) \notin {Question, Open}
  <2>1. F <=> Fold(a, S(a, n)) = Fold(a, P(a, c)) /\ G[<<c + 1, n + 1, period>>]
    BY <1>1, <1>5 DEF GNUCases, F
  <2>2. c = IF Escape(a, p) THEN p + 1 ELSE p
    BY QuotedIs
  <2>3. TokenEnd(a, p) = c + 1
    BY <1>2, <1>5, <2>2 DEF TokenEnd
  <2>4. Takes1(a, p, n) <=> S(a, n) # EOS /\ Fold(a, P(a, c)) = Fold(a, S(a, n))
    BY <1>5, <2>2, TakesCases
  <2>5. P(a, c) # EOS /\ P(a, c) \in 0..127
    BY <1>2, <2>2 DEF Escape
  <2> HIDE DEF c
  <2>6. Fold(a, S(a, n)) = Fold(a, P(a, c)) => S(a, n) # EOS
    BY <1>2, <2>5, Folded
  <2>7. GNUTakes(a, p, n, period) <=> Takes1(a, p, n)
    BY <1>5 DEF GNUTakes
  <2> QED
    BY <2>1, <2>3, <2>4, <2>6, <2>7 DEF F
<1> QED
  BY <1>3, <1>4, <1>5

(* Where a run of stars and question marks ends.                           *)
LEMMA WildEnds ==
  ASSUME NEW a, IsCall(a), NEW p \in PatternOffsets(a)
  PROVE  /\ WildEnd(a, p) \in PatternOffsets(a) /\ p <= WildEnd(a, p)
         /\ P(a, WildEnd(a, p)) \notin {Question, Star}
         /\ \A r \in p..WildEnd(a, p) - 1 : P(a, r) \in {Question, Star}
PROOF
<1> DEFINE q == AfterWild(a, p)
           L == PatternEnd(a)
           W(x) == P(a, x) \notin {Question, Star} /\ \A r \in p..x - 1 : P(a, r) \in {Question, Star}
<1>1. p \in Nat /\ L \in Nat /\ PatternOffsets(a) = 0..L
  BY Bytes
<1>2. q \in PatternOffsets(a) /\ q \in Nat /\ p <= q /\ W(q)
  BY AfterWilds
<1> HIDE DEF q, L, W
<1>3. \E x \in p..L : W(x)
  BY <1>1, <1>2
<1>4. WildEnd(a, p) \in p..L /\ W(WildEnd(a, p))
  <2>1. WildEnd(a, p) = CHOOSE x \in p..L : W(x)
    BY DEF WildEnd, W, L, PatternEnd
  <2> QED
    BY <1>3, <2>1
<1> QED
  BY <1>1, <1>4 DEF W

GNUOf(a) ==
  CHOOSE G : G = [i \in PatternOffsets(a) \X StringOffsets(a) \X BOOLEAN |->
                    GNUFrom(G, a, i[1], i[2], i[3])]

(* A call of GNU's fnmatch depends on what stands further on only.         *)
LEMMA GNUOnward ==
  ASSUME NEW a, IsCall(a), PlainBrackets(a), GNUDefined(a), NEW p \in PatternOffsets(a),
         NEW n \in StringOffsets(a), NEW period \in BOOLEAN,
         NEW f, NEW g, SameOnward(f, g, a, p)
  PROVE  GNUFrom(f, a, p, n, period) = GNUFrom(g, a, p, n, period)
PROOF
<1> DEFINE F == GNUFrom(f, a, p, n, period)
           G == GNUFrom(g, a, p, n, period)
           q == WildEnd(a, p)
<1>1. GNUCases(f, a, p, n, period) /\ GNUCases(g, a, p, n, period)
  BY GNUIs
<1>2. F \in BOOLEAN /\ G \in BOOLEAN
  BY <1>1 DEF GNUCases
<1>3. CASE P(a, p) = EOS
  BY <1>1, <1>2, <1>3 DEF GNUCases
<1>4. CASE P(a, p) = Star
  <2>1. p \in Nat /\ n \in Nat /\ StringEnd(a) \in Nat /\ StringOffsets(a) = 0..StringEnd(a)
    BY Bytes
  <2>2. q \in PatternOffsets(a) /\ q > p /\ q \in Nat
    <3>1. q \in PatternOffsets(a) /\ p <= q /\ P(a, q) # Star
      BY WildEnds
    <3>2. q \in Nat /\ q # p
      BY <1>4, <3>1, Bytes
    <3> QED
      BY <2>1, <3>1, <3>2
  <2> HIDE DEF q
  <2>3. \A m \in n + (q - p) - 1..StringEnd(a) - 1 : f[<<q, m, FALSE>>] = g[<<q, m, FALSE>>]
    <3>1. \A m \in n + (q - p) - 1..StringEnd(a) - 1 : m \in StringOffsets(a)
      BY <2>1, <2>2
    <3> QED
      BY <2>2, <3>1 DEF SameOnward
  <2>4. GNUStarOn(f, a, p, n) <=> GNUStarOn(g, a, p, n)
    BY <2>3 DEF GNUStarOn, q
  <2>5. F <=> G
    BY <1>1, <1>4, <2>4 DEF GNUCases
  <2> HIDE DEF F, G
  <2>6. F = G
    BY <1>2, <2>5
  <2> QED
    BY <2>6 DEF F, G
<1>5. CASE P(a, p) \notin {EOS, Star}
  <2> DEFINE takes == GNUTakes(a, p, n, period)
             i == <<TokenEnd(a, p), n + 1, period>>
  <2>1. (F <=> takes /\ f[i]) /\ (G <=> takes /\ g[i])
    BY <1>5, GNUTokens
  <2>2. takes => S(a, n) # EOS
    BY <1>5, TakesCases DEF GNUTakes, Inside
  <2>3. takes => f[i] = g[i]
    <3>1. takes => n + 1 \in StringOffsets(a)
      BY <2>2, InsideBound
    <3>2. TokenEnd(a, p) \in PatternOffsets(a) /\ TokenEnd(a, p) > p
      BY <1>5, TokenEnds
    <3> HIDE DEF takes
    <3> QED
      BY <3>1, <3>2 DEF SameOnward
  <2> HIDE DEF F, G, takes, i
  <2>4. F = G
    BY <1>2, <2>1, <2>3
  <2> QED
    BY <2>4 DEF F, G
<1> QED
  BY <1>3, <1>4, <1>5

(* GNU's recursion comes to an end.                                        *)
LEMMA GNUExists ==
  ASSUME NEW a, IsCall(a), PlainBrackets(a), GNUDefined(a)
  PROVE  \A p \in PatternOffsets(a), n \in StringOffsets(a), b \in BOOLEAN :
           GNUOf(a)[<<p, n, b>>] = GNUFrom(GNUOf(a), a, p, n, b)
PROOF
<1> DEFINE L == PatternEnd(a)
           D == PatternOffsets(a) \X StringOffsets(a) \X BOOLEAN
           V == BOOLEAN
           place == [i \in D |-> i[1]]
           B == [f \in [D -> V] |-> [i \in D |-> GNUFrom(f, a, i[1], i[2], i[3])]]
<1>1. L \in Nat /\ PatternOffsets(a) = 0..L
  BY Bytes
<1> HIDE DEF L
<1>2. ASSUME NEW i \in D
      PROVE  /\ i[1] \in PatternOffsets(a) /\ i[2] \in StringOffsets(a) /\ i[3] \in BOOLEAN
             /\ place[i] = i[1] /\ i[1] \in 0..L
  BY <1>1
<1>3. ASSUME NEW p \in PatternOffsets(a), NEW n \in StringOffsets(a), NEW b \in BOOLEAN
      PROVE  <<p, n, b>> \in D /\ place[<<p, n, b>>] = p
  OBVIOUS
<1>4. \A f : \A i \in D : GNUFrom(f, a, i[1], i[2], i[3]) \in BOOLEAN
  <2> SUFFICES ASSUME NEW f, NEW i \in D PROVE GNUFrom(f, a, i[1], i[2], i[3]) \in BOOLEAN
    OBVIOUS
  <2>1. GNUCases(f, a, i[1], i[2], i[3])
    BY <1>2, GNUIs
  <2> QED
    BY <2>1 DEF GNUCases
<1>5. B \in [[D -> V] -> [D -> V]]
  BY <1>4
<1>6. \A f \in [D -> V] : /\ B[f] = [i \in D |-> GNUFrom(f, a, i[1], i[2], i[3])]
                          /\ \A i \in D : B[f][i] = GNUFrom(f, a, i[1], i[2], i[3])
  OBVIOUS
<1>7. place \in [D -> 0..L]
  <2>1. \A i \in D : i[1] \in 0..L
    BY <1>1
  <2> QED
    BY <2>1
<1> HIDE DEF B, place, D
<1>8. \A f, g \in [D -> V] : \A i \in D :
        (\A j \in D : place[j] > place[i] => f[j] = g[j]) => B[f][i] = B[g][i]
  <2> SUFFICES ASSUME NEW f \in [D -> V], NEW g \in [D -> V], NEW i \in D,
                      \A j \in D : place[j] > place[i] => f[j] = g[j]
               PROVE  B[f][i] = B[g][i]
    OBVIOUS
  <2>1. ASSUME NEW q \in PatternOffsets(a), NEW m \in StringOffsets(a), NEW b \in BOOLEAN, q > i[1]
        PROVE  f[<<q, m, b>>] = g[<<q, m, b>>]
    <3>1. <<q, m, b>> \in D /\ place[<<q, m, b>>] = q /\ place[i] = i[1]
      BY <1>2, <1>3
    <3> QED
      BY <2>1, <3>1
  <2>2. SameOnward(f, g, a, i[1])
    BY <2>1 DEF SameOnward
  <2>3. GNUFrom(f, a, i[1], i[2], i[3]) = GNUFrom(g, a, i[1], i[2], i[3])
    BY <1>2, <2>2, GNUOnward
  <2>4. B[f][i] = GNUFrom(f, a, i[1], i[2], i[3])
    BY <1>6
  <2>5. B[g][i] = GNUFrom(g, a, i[1], i[2], i[3])
    BY <1>6
  <2> QED
    BY <2>3, <2>4, <2>5
<1>9. PICK f \in [D -> V] : f = B[f]
  <2>1. Onward(B, D, V, L, place)
    BY <1>1, <1>5, <1>7, <1>8 DEF Onward
  <2> QED
    BY <2>1, RecursionOnward
<1>10. f = [i \in D |-> GNUFrom(f, a, i[1], i[2], i[3])]
  BY <1>6, <1>9
<1>11. GNUOf(a) = [i \in D |-> GNUFrom(GNUOf(a), a, i[1], i[2], i[3])]
  BY <1>10 DEF GNUOf, D
<1> DEFINE G == GNUOf(a)
<1> HIDE DEF G
<1>12. G = [i \in D |-> GNUFrom(G, a, i[1], i[2], i[3])]
  BY <1>11 DEF G
<1>13. ASSUME NEW p \in PatternOffsets(a), NEW n \in StringOffsets(a), NEW b \in BOOLEAN
       PROVE  G[<<p, n, b>>] = GNUFrom(G, a, p, n, b)
  <2>1. <<p, n, b>> \in D
    BY <1>3
  <2> QED
    BY <1>12, <2>1
<1> QED
  BY <1>13 DEF G

(* A call that has lost PERIOD is one that a star has made, which stands   *)
(* in no pattern for a PATHNAME.                                           *)
GNUKnows(a, n, period) == period \/ (~LeadingPeriod(a, n) /\ "PATHNAME" \notin a.flags)

(* A character of GNU's takes what the reference takes.                    *)
LEMMA GNUToken ==
  ASSUME NEW a, IsCall(a), GNUFollows(a), NEW p \in PatternOffsets(a), P(a, p) \notin {EOS, Star},
         NEW n \in StringOffsets(a), NEW period \in BOOLEAN, GNUKnows(a, n, period)
  PROVE  /\ GNUTakes(a, p, n, period) <=> Takes1(a, p, n)
         /\ Takes1(a, p, n) => GNUKnows(a, n + 1, period)
PROOF
<1>1. PlainBrackets(a) /\ p \in Int /\ n \in Nat /\ n + 1 \in Nat /\ n + 1 > 0
  BY Bytes DEF GNUFollows
<1>2. period /\ LeadingPeriod(a, n) <=> LeadingPeriod(a, n)
  BY DEF GNUKnows
<1>3. GNUTakes(a, p, n, period) <=> Takes1(a, p, n)
  <2>1. CASE P(a, p) = Question
    <3>1. Takes1(a, p, n) <=> Inside(a, n) /\ ~LeadingPeriod(a, n)
      BY <1>1, <2>1, TakesCases, WildInside
    <3> QED
      BY <1>2, <2>1, <3>1 DEF GNUTakes
  <2>2. CASE P(a, p) = Open
    <3>1. "PATHNAME" \notin a.flags
      <4>1. Has(a, Open)
        BY <1>1, <2>2, HasIt
      <4> QED
        BY <4>1 DEF GNUFollows
    <3>2. Takes1(a, p, n) <=> Wild(a, n) /\ Accepts(a, p, BracketEnd(a, p), S(a, n))
      BY <1>1, <2>2, TakesCases
    <3>3. GNUTakes(a, p, n, period) <=>
            S(a, n) # EOS /\ ~LeadingPeriod(a, n) /\ Accepts(a, p, BracketEnd(a, p), S(a, n))
      BY <1>2, <2>2 DEF GNUTakes, Open, Question
    <3> QED
      BY <3>1, <3>2, <3>3 DEF Wild
  <2>3. CASE P(a, p) \notin {Question, Open}
    BY <2>3 DEF GNUTakes
  <2> QED
    BY <2>1, <2>2, <2>3
<1>4. "PATHNAME" \notin a.flags => ~LeadingPeriod(a, n + 1)
  BY <1>1, Leading
<1> QED
  BY <1>3, <1>4 DEF GNUKnows

(* Where a star goes on.                                                   *)
LEMMA GNUStarMeans ==
  ASSUME NEW a, IsCall(a), GNUFollows(a), GNUDefined(a), NEW p \in PatternOffsets(a), P(a, p) = Star,
         NEW n \in StringOffsets(a), NEW period \in BOOLEAN, GNUKnows(a, n, period), NEW G,
         \A q \in PatternOffsets(a), m \in StringOffsets(a), b \in BOOLEAN :
           q > p /\ GNUKnows(a, m, b) => (G[<<q, m, b>>] <=> Match(a)[<<q, m>>])
  PROVE  GNUFrom(G, a, p, n, period) <=> Match(a)[<<p, n>>]
PROOF
<1> DEFINE M == Match(a)
           q == WildEnd(a, p)
           lo == n + (q - p) - 1
           F == GNUFrom(G, a, p, n, period)
<1>1. PlainBrackets(a) /\ p \in Int /\ n \in Nat /\ StringEnd(a) \in Nat
      /\ StringOffsets(a) = 0..StringEnd(a) /\ PatternOffsets(a) \subseteq Nat
  BY Bytes DEF GNUFollows
<1>2. "PATHNAME" \notin a.flags
  <2>1. Has(a, Star)
    BY <1>1, HasIt DEF Star, EOS
  <2> QED
    BY <2>1 DEF GNUFollows
<1>3. q \in PatternOffsets(a) /\ q > p /\ q \in Nat /\ P(a, q) \notin {Question, Star}
      /\ \A r \in p..q - 1 : P(a, r) \in {Question, Star}
  <2>1. q \in PatternOffsets(a) /\ p <= q /\ P(a, q) \notin {Question, Star}
        /\ \A r \in p..q - 1 : P(a, r) \in {Question, Star}
    BY WildEnds
  <2> HIDE DEF q
  <2>2. q \in Nat /\ q # p
    BY <1>1, <2>1
  <2> QED
    BY <1>1, <2>1, <2>2
<1> HIDE DEF q, F, M
<1>4. ASSUME NEW r \in p + 1..q - 1 PROVE P(a, r) = Question
  <2> DEFINE T == {x \in p + 1..q - 1 : P(a, x) # Question}
  <2> SUFFICES ASSUME T # {} PROVE FALSE
    OBVIOUS
  <2>1. T \subseteq Nat
    BY <1>1, <1>3
  <2> HIDE DEF T
  <2>2. PICK x \in T : \A y \in T : x <= y
    BY <2>1, LeastNumber
  <2>3. x \in p + 1..q - 1 /\ P(a, x) = Star /\ \A y \in p + 1..x - 1 : P(a, y) = Question
    BY <1>1, <1>3, <2>2 DEF T
  <2>4. p \in 0..Len(a.pattern) - 1 /\ x \in 0..Len(a.pattern) - 1 /\ p < x
    <3>1. x \in Int /\ p < x
      BY <1>1, <1>3, <2>3
    <3>2. P(a, x) # EOS /\ P(a, p) # EOS
      BY <2>3 DEF Star, EOS
    <3> QED
      BY <1>1, <3>1, <3>2, Bytes DEF PatternEnd
  <2> QED
    BY <2>3, <2>4 DEF GNUDefined
<1>5. Cardinality(Marks(a, p, q)) = q - p - 1 /\ Starred(a, p, q) /\ Wilds(a, p, q)
  <2>1. Marks(a, p, q) = p + 1..q - 1
    BY <1>1, <1>3, <1>4 DEF Marks, Star, Question
  <2>2. Cardinality(p + 1..q - 1) = q - p - 1
    <3>1. p + 1 \in Int /\ q - 1 \in Int
      BY <1>1, <1>3
    <3>2. Cardinality(p + 1..q - 1) = IF p + 1 > q - 1 THEN 0 ELSE (q - 1) - (p + 1) + 1
      BY <3>1, FS_Interval
    <3> QED
      BY <1>1, <1>3, <3>2
  <2>3. p \in p..q - 1
    BY <1>1, <1>3
  <2> QED
    BY <1>1, <1>3, <2>1, <2>2, <2>3 DEF Starred, Wilds
<1>6. lo \in Nat /\ lo >= n /\ n + (q - p - 1) = lo
  BY <1>1, <1>3
<1>7. M[<<p, n>>] <=> ~LeadingPeriod(a, n) /\ \E m \in StringOffsets(a) : lo <= m /\ M[<<q, m>>]
  <2>1. LeadingPeriod(a, n) => ~M[<<p, n>>]
    BY <1>1, Steps DEF M
  <2>2. ASSUME ~LeadingPeriod(a, n)
        PROVE  M[<<p, n>>] <=> \E m \in StringOffsets(a) : lo <= m /\ M[<<q, m>>]
    <3>1. M[<<p, n>>] <=> WildOn(a, p, q, n)
      BY <1>1, <1>3, <1>5, <2>2, WildRun DEF M
    <3>2. \A m \in StringOffsets(a) : WildTo(a, p, q, n, m) <=> lo <= m
      <4> SUFFICES ASSUME NEW m \in StringOffsets(a) PROVE WildTo(a, p, q, n, m) <=> lo <= m
        OBVIOUS
      <4>1. m \in Nat
        BY <1>1
      <4>2. WildTo(a, p, q, n, m) <=> lo <= m /\ Span(a, n, m)
        BY <1>5, <1>6 DEF WildTo
      <4>3. lo <= m => Span(a, n, m)
        BY <1>1, <1>2, <1>6, <4>1, SpanTo
      <4> QED
        BY <4>2, <4>3
    <3> QED
      BY <3>1, <3>2 DEF WildOn, M
  <2> QED
    BY <2>1, <2>2
<1>8. period /\ LeadingPeriod(a, n) <=> LeadingPeriod(a, n)
  BY DEF GNUKnows
<1>9. F <=> /\ ~LeadingPeriod(a, n) /\ GNUStarTo(a, p, n)
            /\ P(a, q) = EOS \/ GNUStarOn(G, a, p, n)
  <2>1. GNUCases(G, a, p, n, period)
    BY GNUIs
  <2> QED
    BY <1>8, <2>1 DEF GNUCases, F, q
<1>10. GNUStarTo(a, p, n) <=> lo <= StringEnd(a)
  <2>1. GNUStarTo(a, p, n) <=> \A r \in p + 1..q - 1 : S(a, n + (r - p) - 1) # EOS
    BY <1>2, <1>4 DEF GNUStarTo, q
  <2>2. ASSUME lo <= StringEnd(a), NEW r \in p + 1..q - 1
        PROVE  S(a, n + (r - p) - 1) # EOS
    <3>1. n + (r - p) - 1 \in 0..StringEnd(a) - 1 /\ n + (r - p) - 1 \in Int
      BY <1>1, <1>3, <2>2
    <3> QED
      BY <3>1, Bytes
  <2>3. ASSUME lo > StringEnd(a), \A r \in p + 1..q - 1 : S(a, n + (r - p) - 1) # EOS
        PROVE  FALSE
    <3>1. q - 1 \in p + 1..q - 1
      BY <1>1, <1>3, <2>3
    <3>2. S(a, n + ((q - 1) - p) - 1) # EOS
      BY <2>3, <3>1
    <3>3. n + ((q - 1) - p) - 1 \in Int /\ n + ((q - 1) - p) - 1 >= StringEnd(a)
      BY <1>1, <1>3, <2>3
    <3>4. n + ((q - 1) - p) - 1 \in 0..StringEnd(a) - 1
      BY <3>2, <3>3, Bytes
    <3> QED
      BY <1>1, <3>3, <3>4
  <2>4. lo <= StringEnd(a) \/ lo > StringEnd(a)
    BY <1>1, <1>6
  <2> HIDE DEF lo
  <2> QED
    BY <2>1, <2>2, <2>3, <2>4
<1>11. CASE P(a, q) = EOS
  <2>1. M[<<q, StringEnd(a)>>]
    <3>1. StringEnd(a) \in StringOffsets(a) /\ S(a, StringEnd(a)) = EOS
      BY <1>1, Bytes
    <3> QED
      BY <1>1, <1>3, <1>11, <3>1, Steps DEF M
  <2>2. ASSUME NEW m \in StringOffsets(a), lo <= m PROVE lo <= StringEnd(a)
    <3>1. m \in Nat /\ m <= StringEnd(a)
      BY <1>1
    <3> QED
      BY <1>1, <1>6, <2>2, <3>1
  <2>3. StringEnd(a) \in StringOffsets(a)
    BY <1>1
  <2> QED
    BY <1>7, <1>9, <1>10, <1>11, <2>1, <2>2, <2>3 DEF F, M
<1>12. CASE P(a, q) # EOS
  <2>1. GNUStarOn(G, a, p, n) <=>
          \E m \in lo..StringEnd(a) - 1 :
            (P(a, q) = Open \/ Fold(a, S(a, m)) = First(a, q)) /\ G[<<q, m, FALSE>>]
    BY DEF GNUStarOn, q
  <2>2. ASSUME ~LeadingPeriod(a, n), NEW m \in lo..StringEnd(a) - 1
        PROVE  m \in StringOffsets(a) /\ lo <= m /\ (G[<<q, m, FALSE>>] <=> M[<<q, m>>])
    <3>1. m \in StringOffsets(a) /\ lo <= m /\ m \in Nat /\ n <= m
      BY <1>1, <1>6
    <3>2. ~LeadingPeriod(a, m)
      BY <1>1, <1>2, <2>2, <3>1, Leading
    <3>3. G[<<q, m, FALSE>>] <=> M[<<q, m>>]
      BY <1>2, <1>3, <3>1, <3>2 DEF GNUKnows, M
    <3> QED
      BY <3>1, <3>3
  <2>3. ASSUME NEW m \in StringOffsets(a), lo <= m, M[<<q, m>>]
        PROVE  m \in lo..StringEnd(a) - 1 /\ (P(a, q) = Open \/ Fold(a, S(a, m)) = First(a, q))
    <3>1. Takes1(a, q, m)
      BY <1>1, <1>3, <1>12, <2>3, Steps DEF M
    <3>2. S(a, m) # EOS
      BY <1>1, <1>3, <1>12, <3>1, TakesCases
    <3>3. m < StringEnd(a) /\ m \in Nat
      BY <3>2, InsideBound
    <3>4. m \in lo..StringEnd(a) - 1
      BY <1>1, <1>6, <2>3, <3>3
    <3>5. P(a, q) # Open => Fold(a, P(a, IF Escape(a, q) THEN q + 1 ELSE q)) = Fold(a, S(a, m))
      BY <1>1, <1>3, <1>12, <3>1, TakesCases
    <3>6. First(a, q) = Fold(a, P(a, IF Escape(a, q) THEN q + 1 ELSE q))
      BY <1>3, QuotedIs DEF First
    <3> QED
      BY <3>4, <3>5, <3>6
  <2>4. ASSUME ~LeadingPeriod(a, n), GNUStarOn(G, a, p, n)
        PROVE  \E m \in StringOffsets(a) : lo <= m /\ M[<<q, m>>]
    BY <2>1, <2>2, <2>4
  <2>5. ASSUME ~LeadingPeriod(a, n), NEW m \in StringOffsets(a), lo <= m, M[<<q, m>>]
        PROVE  GNUStarOn(G, a, p, n) /\ lo <= StringEnd(a)
    <3>1. m \in lo..StringEnd(a) - 1 /\ (P(a, q) = Open \/ Fold(a, S(a, m)) = First(a, q))
      BY <2>3, <2>5
    <3>2. G[<<q, m, FALSE>>]
      BY <2>2, <2>5, <3>1
    <3>3. m \in Nat /\ m <= StringEnd(a)
      BY <1>1
    <3>4. lo <= StringEnd(a)
      BY <1>1, <1>6, <2>5, <3>3
    <3> QED
      BY <2>1, <3>1, <3>2, <3>4
  <2> HIDE DEF lo
  <2> QED
    BY <1>7, <1>9, <1>10, <1>12, <2>4, <2>5 DEF F, M
<1> QED
  BY <1>11, <1>12

(* Where GNU's fnmatch is asked for what it reads as POSIX does, it        *)
(* answers as POSIX does.                                                  *)
THEOREM GNUMeans ==
  ASSUME NEW a, IsCall(a), GNUFollows(a), GNUDefined(a)
  PROVE  gnu(a) <=> Matches(a)
PROOF
<1> DEFINE G == GNUOf(a)
           M == Match(a)
           L == PatternEnd(a)
           Agree(p) == \A n \in StringOffsets(a), b \in BOOLEAN :
                         GNUKnows(a, n, b) => (G[<<p, n, b>>] <=> M[<<p, n>>])
           T == {p \in 0..L : Agree(p)}
<1>1. PlainBrackets(a) /\ L \in Nat /\ PatternOffsets(a) = 0..L /\ 0 \in StringOffsets(a)
  BY Bytes DEF GNUFollows
<1>2. \A p \in PatternOffsets(a), n \in StringOffsets(a), b \in BOOLEAN :
        G[<<p, n, b>>] = GNUFrom(G, a, p, n, b)
  BY <1>1, GNUExists
<1> HIDE DEF G, L
<1>3. ASSUME NEW p \in 0..L, \A q \in p + 1..L : q \in T
      PROVE  p \in T
  <2> SUFFICES ASSUME NEW n \in StringOffsets(a), NEW b \in BOOLEAN, GNUKnows(a, n, b)
               PROVE  GNUFrom(G, a, p, n, b) <=> M[<<p, n>>]
    BY <1>1, <1>2
  <2>1. \A q \in PatternOffsets(a), m \in StringOffsets(a), c \in BOOLEAN :
          q > p /\ GNUKnows(a, m, c) => (G[<<q, m, c>>] <=> M[<<q, m>>])
    <3> SUFFICES ASSUME NEW q \in PatternOffsets(a), NEW m \in StringOffsets(a), NEW c \in BOOLEAN,
                        q > p, GNUKnows(a, m, c)
                 PROVE  G[<<q, m, c>>] <=> M[<<q, m>>]
      OBVIOUS
    <3>1. q \in p + 1..L
      BY <1>1
    <3>2. q \in T
      BY <1>3, <3>1
    <3> QED
      BY <3>2
  <2>2. p \in PatternOffsets(a)
    BY <1>1
  <2> HIDE DEF T
  <2>3. CASE P(a, p) = EOS
    <3>1. GNUCases(G, a, p, n, b)
      BY GNUIs
    <3> QED
      BY <1>1, <2>2, <2>3, <3>1, Steps DEF GNUCases
  <2>4. CASE P(a, p) = Star
    BY <2>1, <2>2, <2>4, GNUStarMeans
  <2>5. CASE P(a, p) \notin {EOS, Star}
    <3> DEFINE t == TokenEnd(a, p)
    <3>1. GNUFrom(G, a, p, n, b) <=> GNUTakes(a, p, n, b) /\ G[<<t, n + 1, b>>]
      BY <1>1, <2>2, <2>5, GNUTokens
    <3>2. M[<<p, n>>] <=> Takes1(a, p, n) /\ M[<<t, n + 1>>]
      BY <1>1, <2>2, <2>5, Steps
    <3>3. /\ GNUTakes(a, p, n, b) <=> Takes1(a, p, n)
          /\ Takes1(a, p, n) => GNUKnows(a, n + 1, b)
      BY <2>2, <2>5, GNUToken
    <3>4. t \in PatternOffsets(a) /\ t > p
      BY <1>1, <2>2, <2>5, TokenEnds
    <3>5. Takes1(a, p, n) => n + 1 \in StringOffsets(a)
      BY <1>1, <2>2, <2>5, TakesCases, InsideBound
    <3> HIDE DEF t, M
    <3>6. Takes1(a, p, n) => (G[<<t, n + 1, b>>] <=> M[<<t, n + 1>>])
      BY <2>1, <3>3, <3>4, <3>5
    <3> QED
      BY <3>1, <3>2, <3>3, <3>6
  <2> QED
    BY <2>3, <2>4, <2>5
<1> HIDE DEF T
<1>4. 0 \in T
  <2>1. 0..L \subseteq T
    BY <1>1, <1>3, AllDownward
  <2> QED
    BY <1>1, <2>1
<1>5. G[<<0, 0, TRUE>>] <=> M[<<0, 0>>]
  BY <1>1, <1>4 DEF T, GNUKnows
<1>6. gnu(a) = G[<<0, 0, TRUE>>]
  BY DEF gnu, G, GNUOf
<1> QED
  BY <1>5, <1>6 DEF Matches
-----------------------------------------------------------------------------
(* musl: the characters of a pattern.                                      *)

(* An item [:name:] ends behind its start.                                 *)
LEMMA ItemEndIs ==
  ASSUME NEW a, IsCall(a), NEW k \in Nat
  PROVE  ItemEnd(a, k) = PatternEnd(a) \/ ItemEnd(a, k) \in k + 3..PatternEnd(a) - 1
PROOF
<1> DEFINE m == Len(a.pattern)
           ends == {j \in k + 3..m - 1 : P(a, j - 1) = P(a, k + 1) /\ P(a, j) = Close}
<1>1. ItemEnd(a, k) = IF ends = {} THEN m ELSE CHOOSE j \in ends : \A i \in ends : j <= i
  BY DEF ItemEnd
<1>2. m = PatternEnd(a) /\ m \in Nat
  BY Bytes DEF PatternEnd
<1>3. ends \subseteq Nat /\ ends \subseteq k + 3..m - 1
  BY <1>2
<1> HIDE DEF ends, m
<1>4. CASE ends = {}
  BY <1>1, <1>2, <1>4
<1>5. CASE ends # {}
  <2>1. \E j \in ends : \A i \in ends : j <= i
    BY <1>3, <1>5, LeastNumber
  <2>2. ItemEnd(a, k) \in ends
    BY <1>1, <1>5, <2>1
  <2> QED
    BY <1>2, <1>3, <2>2
<1> QED
  BY <1>4, <1>5

(* The end of a list is what is said of it.                                *)
ListEndOf(a) == CHOOSE L : L = [k \in PatternOffsets(a) |-> ListEndFrom(L, a, k)]

(* musl's search for the end of a list comes to an end.                    *)
LEMMA ListEndExists ==
  ASSUME NEW a, IsCall(a)
  PROVE  \A k \in PatternOffsets(a) :
           /\ ListEnd(a, k) = ListEndOf(a)[k]
           /\ ListEndOf(a)[k] = ListEndFrom(ListEndOf(a), a, k)
PROOF
<1> DEFINE D == PatternOffsets(a)
           place == [k \in D |-> k]
           stop(k) == \/ P(a, k) \in {EOS, Close}
                      \/ IsItem(a, k) /\ ItemEnd(a, k) = PatternEnd(a)
           T == {k \in D : stop(k)}
           K == [k \in D |-> IF P(a, k) \in {EOS, Close} THEN k ELSE PatternEnd(a)]
           J == [k \in D |-> IF stop(k) THEN k ELSE IF IsItem(a, k) THEN ItemEnd(a, k) + 1 ELSE k + 1]
           L == ListEndOf(a)
<1>1. PatternEnd(a) \in Nat /\ D = 0..PatternEnd(a)
  BY Bytes
<1>2. ASSUME NEW k \in D
      PROVE  /\ k \in T <=> stop(k)
             /\ J[k] \in D /\ (k \notin T => place[J[k]] > place[k])
             /\ \A g : ListEndFrom(g, a, k) = IF k \in T THEN K[k] ELSE g[J[k]]
  <2>1. k \in Nat
    BY <1>1
  <2>5. ItemEnd(a, k) = PatternEnd(a) \/ ItemEnd(a, k) \in k + 3..PatternEnd(a) - 1
    BY <2>1, ItemEndIs
  <2>2. CASE P(a, k) \in {EOS, Close}
    <3>1. \A g : ListEndFrom(g, a, k) = k
      BY <2>2 DEF ListEndFrom, IsItem, EOS, Close, Open
    <3> QED
      BY <2>2, <3>1
  <2>3. CASE P(a, k) \notin {EOS, Close} /\ IsItem(a, k)
    <3>1. \A g : ListEndFrom(g, a, k) =
            IF ItemEnd(a, k) = PatternEnd(a) THEN PatternEnd(a) ELSE g[ItemEnd(a, k) + 1]
      BY <2>3 DEF ListEndFrom, PatternEnd
    <3> DEFINE e == ItemEnd(a, k)
    <3> HIDE DEF e
    <3>3. e # PatternEnd(a) => e + 1 \in D /\ e + 1 > k
      BY <1>1, <2>1, <2>5 DEF e
    <3> QED
      BY <2>3, <3>1, <3>3 DEF e
  <2>4. CASE P(a, k) \notin {EOS, Close} /\ ~IsItem(a, k)
    <3>1. \A g : ListEndFrom(g, a, k) = g[k + 1]
      BY <2>4 DEF ListEndFrom
    <3>2. k + 1 \in D /\ k + 1 > k
      BY <1>1, <2>4, Bytes
    <3> QED
      BY <2>4, <3>1, <3>2
  <2> QED
    BY <2>2, <2>3, <2>4
<1>3. PatternEnd(a) \in D /\ place \in [D -> 0..PatternEnd(a)] /\ K \in [D -> D] /\ T \subseteq D
  BY <1>1
<1>4. J \in [D -> D]
  BY <1>2
<1> HIDE DEF J, K, T, place
<1>5. \A k \in D : k \notin T => place[J[k]] > place[k]
  BY <1>2
<1>6. \A g : Follow(g, D, T, K, J) = [k \in D |-> ListEndFrom(g, a, k)]
  BY <1>2 DEF Follow
<1>7. Chain(D, D, PatternEnd(a), place, T, K, J)
  <2>1. D # {} /\ PatternEnd(a) \in Nat
    BY <1>1, <1>3
  <2> HIDE DEF D
  <2> QED
    BY <1>3, <1>4, <1>5, <2>1 DEF Chain
<1> HIDE DEF D
<1>8. PICK f : f = Follow(f, D, T, K, J)
  BY <1>7, Chained DEF Linked
<1>9. f = [k \in D |-> ListEndFrom(f, a, k)]
  BY <1>6, <1>8
<1>10. L = [k \in D |-> ListEndFrom(L, a, k)]
  BY <1>9 DEF ListEndOf, D
<1>11. ASSUME NEW k PROVE ListEnd(a, k) = L[k]
  BY DEF ListEnd, ListEndOf
<1> HIDE DEF L
<1>12. \A k \in D : L[k] = ListEndFrom(L, a, k)
  BY <1>10
<1> QED
  BY <1>11, <1>12 DEF L, D

(* The list of a plain bracket expression ends where the expression does.  *)
LEMMA ListEndPlain ==
  ASSUME NEW a, IsCall(a), PlainBrackets(a), NEW p \in PatternOffsets(a), P(a, p) = Open
  PROVE  ListEnd(a, ListStart(a, p)) = BracketEnd(a, p)
PROOF
<1> DEFINE e == BracketEnd(a, p)
           lo == ListStart(a, p)
           T == {k \in 0..e : k >= lo => ListEnd(a, k) = e}
<1>1. /\ e \in PatternOffsets(a) /\ e > lo /\ lo \in {p + 1, p + 2} /\ BracketAt(a, p, e)
      /\ \A q \in p + 1..e - 1 : P(a, q) \notin {Close, Backslash, Slash, Open, EOS}
  BY PlainBracket
<1>2. p \in Nat /\ lo \in Nat /\ e \in Nat /\ P(a, e) = Close /\ \A k \in 0..e : k \in PatternOffsets(a)
  BY <1>1, Bytes DEF BracketAt
<1> HIDE DEF e, lo
<1>3. ASSUME NEW k \in 0..e, \A j \in k + 1..e : j \in T
      PROVE  k \in T
  <2> SUFFICES ASSUME k >= lo PROVE ListEnd(a, k) = e
    OBVIOUS
  <2>1. ListEnd(a, k) = ListEndFrom(ListEndOf(a), a, k)
    BY <1>2, ListEndExists
  <2>2. CASE k = e
    BY <1>2, <2>1, <2>2 DEF ListEndFrom, IsItem, Close, Open
  <2>3. CASE k # e
    <3>1. k \in p + 1..e - 1 /\ k + 1 \in k + 1..e /\ k + 1 \in 0..e /\ k + 1 >= lo
      BY <1>1, <1>2, <2>3
    <3>2. P(a, k) \notin {EOS, Close, Open}
      BY <1>1, <3>1
    <3>3. ListEnd(a, k) = ListEndOf(a)[k + 1]
      BY <2>1, <3>2 DEF ListEndFrom, IsItem
    <3>4. ListEnd(a, k + 1) = e
      BY <1>3, <3>1
    <3> QED
      BY <1>2, <3>1, <3>3, <3>4, ListEndExists
  <2> QED
    BY <2>2, <2>3
<1> HIDE DEF T
<1>4. 0..e \subseteq T
  BY <1>2, <1>3, AllDownward
<1>5. lo \in T /\ lo >= lo
  BY <1>1, <1>2, <1>4
<1> QED
  BY <1>5 DEF T, e, lo

(* What pat_next returns ends where the character does.                    *)
LEMMA NextIs ==
  ASSUME NEW a, IsCall(a), PlainBrackets(a), NEW p \in PatternOffsets(a), P(a, p) # EOS
  PROVE  /\ p + pat_next(a, p).step = TokenEnd(a, p)
         /\ pat_next(a, p).c \in Int
         /\ pat_next(a, p).c = STAR <=> P(a, p) = Star
         /\ P(a, p) = Open => pat_next(a, p).c = BRACKET
         /\ P(a, p) = Question => pat_next(a, p).c = QUESTION
         /\ P(a, p) \notin {Star, Open, Question} =>
              pat_next(a, p).c = P(a, IF Escape(a, p) THEN p + 1 ELSE p)
PROOF
<1> DEFINE k0 == IF P(a, p + 1) \in Negations THEN p + 2 ELSE p + 1
           k  == ListEnd(a, IF P(a, k0) = Close THEN k0 + 1 ELSE k0)
           t  == pat_next(a, p)
<1>1. t = CASE Escape(a, p) -> [c |-> P(a, p + 1), step |-> 2]
            [] P(a, p) = Open /\ P(a, k) # EOS -> [c |-> BRACKET, step |-> k + 1 - p]
            [] P(a, p) = Star -> [c |-> STAR, step |-> 1]
            [] P(a, p) = Question -> [c |-> QUESTION, step |-> 1]
            [] OTHER -> [c |-> P(a, p), step |-> 1]
  BY DEF pat_next
<1>0. p \in Int /\ p + 1 \in Int /\ p \in Nat
  BY Bytes
<1>2. p \in Nat /\ P(a, p) \in 0..127 /\ P(a, p + 1) \in 0..127
  BY <1>0, Bytes
<1> HIDE DEF t
<1>3. CASE P(a, p) = Open
  <2>1. k0 = ListStart(a, p)
    BY DEF ListStart
  <2>2. P(a, k0) # Close
    <3>1. k0 \in {p + 1, p + 2} /\ BracketEnd(a, p) > k0 /\ BracketEnd(a, p) \in Nat
      BY <1>3, <2>1, PlainBracket, Bytes
    <3>2. k0 \in p + 1..BracketEnd(a, p) - 1
      BY <1>2, <3>1
    <3> QED
      BY <1>3, <3>2, PlainBracket
  <2>3. k = BracketEnd(a, p)
    BY <1>3, <2>1, <2>2, ListEndPlain
  <2>4. k \in Nat /\ P(a, k) = Close
    BY <1>3, <2>3, PlainBracket, Bytes DEF BracketAt
  <2> HIDE DEF k
  <2>5. ~Escape(a, p) /\ P(a, k) # EOS
    BY <1>3, <2>4 DEF Escape, Open, Backslash, Close, EOS
  <2>6. t = [c |-> BRACKET, step |-> k + 1 - p]
    BY <1>1, <1>3, <2>5 DEF Open, Star, Question
  <2>7. TokenEnd(a, p) = k + 1
    BY <1>3, <2>3 DEF TokenEnd
  <2>8. t.c = BRACKET /\ t.step = k + 1 - p
    BY <2>6
  <2> QED
    BY <1>2, <1>3, <2>4, <2>7, <2>8 DEF t, BRACKET, STAR, Open, Star, Question
<1>4. CASE P(a, p) # Open
  <2>1. TokenEnd(a, p) = IF Escape(a, p) THEN p + 2 ELSE p + 1
    BY <1>4 DEF TokenEnd
  <2>2. CASE Escape(a, p)
    <3>1. t.c = P(a, p + 1) /\ t.step = 2
      BY <1>1, <2>2 DEF Escape, Open, Star, Question, Backslash
    <3> QED
      BY <1>2, <2>1, <2>2, <3>1 DEF t, Escape, Star, Open, Question, Backslash, STAR
  <2>3. CASE ~Escape(a, p)
    <3>1. /\ t.step = 1
          /\ t.c = IF P(a, p) = Star THEN STAR ELSE IF P(a, p) = Question THEN QUESTION ELSE P(a, p)
      BY <1>1, <1>4, <2>3 DEF Open, Star, Question
    <3> QED
      BY <1>2, <1>4, <2>1, <2>3, <3>1 DEF t, Star, Open, Question, STAR, QUESTION
  <2> QED
    BY <2>2, <2>3
<1> QED
  BY <1>3, <1>4
(* What musl says of the rest of a list.                                   *)
InListOf(a, k) ==
  CHOOSE L : L = [i \in PatternOffsets(a) \X (0..127) |-> InListFrom(L, a, k, i[1], i[2])]

(* musl's list is read from what stands further on.                        *)
LEMMA InListExists ==
  ASSUME NEW a, IsCall(a), NEW k
  PROVE  \A q \in PatternOffsets(a), wc \in 0..127 :
           InListOf(a, k)[<<q, wc>>] = InListFrom(InListOf(a, k), a, k, q, wc)
PROOF
<1> DEFINE L == PatternEnd(a)
           D == PatternOffsets(a) \X (0..127)
           V == BOOLEAN
           place == [i \in D |-> i[1]]
           B == [f \in [D -> V] |-> [i \in D |-> InListFrom(f, a, k, i[1], i[2])]]
<1>1. L \in Nat /\ PatternOffsets(a) = 0..L
  BY Bytes
<1>2. ASSUME NEW q \in 0..L, NEW wc \in 0..127
      PROVE  \/ \E v \in BOOLEAN : \A g \in [D -> V] : InListFrom(g, a, k, q, wc) = v
             \/ \E r \in 0..L, w \in 0..127, b \in BOOLEAN :
                  r > q /\ \A g \in [D -> V] : InListFrom(g, a, k, q, wc) = (b \/ g[<<r, w>>])
  <2>0. q \in Int /\ q + 1 \in Int
    OBVIOUS
  <2>1. q \in Nat /\ P(a, q) \in 0..127 /\ P(a, q + 1) \in 0..127
    BY <2>0, Bytes
  <2>2. P(a, q) # EOS => q + 1 \in 0..L
    BY <1>1, <2>1, Bytes
  <2>3. CASE P(a, q) \in {EOS, Close}
    <3>1. \A g : InListFrom(g, a, k, q, wc) = FALSE
      BY <2>3 DEF InListFrom, IsItem, EOS, Close, Minus, Open
    <3> QED
      BY <3>1
  <2>4. CASE P(a, q) = Minus /\ P(a, q + 1) \notin {EOS, Close}
    <3> DEFINE b == wc <= k /\ k <= P(a, q + 1)
    <3>1. \A g : InListFrom(g, a, k, q, wc) = (b \/ g[<<q + 1, wc>>])
      BY <2>4 DEF InListFrom, IsItem, EOS, Close, Minus, Open
    <3>2. b \in BOOLEAN /\ q + 1 \in 0..L /\ q + 1 > q
      BY <2>2, <2>4 DEF EOS, Minus
    <3> QED
      BY ZenonT(30), <3>1, <3>2
  <2>5. CASE IsItem(a, q)
    <3> DEFINE e == ItemEnd(a, q)
               b == /\ P(a, q + 1) = 58
                    /\ \E class \in Classes : class.name = SubSeq(a.pattern, q + 3, e - 1)
                                                /\ k \in class.bytes
    <3>0. P(a, q) = Open /\ L = Len(a.pattern)
      BY <2>5 DEF IsItem, PatternEnd
    <3>1. \A g : InListFrom(g, a, k, q, wc) = (b \/ (e < L /\ g[<<e + 1, wc>>]))
      <4>1. \A g : InListFrom(g, a, k, q, wc) =
              LET i == ItemEnd(a, q)
              IN \/ /\ P(a, q + 1) = 58
                    /\ \E class \in Classes : class.name = SubSeq(a.pattern, q + 3, i - 1)
                                                /\ k \in class.bytes
                 \/ i < Len(a.pattern) /\ g[<<i + 1, wc>>]
        <5>1. P(a, q) \notin {EOS, Close, Minus}
          BY <3>0 DEF EOS, Close, Minus, Open
        <5> QED
          BY <2>5, <5>1 DEF InListFrom
      <4> HIDE DEF L
      <4> QED
        BY <3>0, <4>1
    <3>2. b \in BOOLEAN
      OBVIOUS
    <3>3. e = L \/ e \in q + 3..L - 1
      BY <2>1, ItemEndIs
    <3> HIDE DEF b, e
    <3>4. CASE e = L
      <4>1. ~(e < L)
        BY <1>1, <3>4
      <4>2. \A g \in [D -> V] : InListFrom(g, a, k, q, wc) = b
        BY <3>1, <3>2, <4>1
      <4> QED
        BY <3>2, <4>2
    <3>5. CASE e \in q + 3..L - 1
      <4>1. e < L /\ e + 1 \in 0..L /\ e + 1 > q
        BY <1>1, <2>1, <3>5
      <4>2. ASSUME NEW g \in [D -> V] PROVE InListFrom(g, a, k, q, wc) = (b \/ g[<<e + 1, wc>>])
        <5>1. <<e + 1, wc>> \in D
          BY <1>1, <4>1
        <5>2. g[<<e + 1, wc>>] \in BOOLEAN
          BY <5>1
        <5> QED
          BY <3>1, <4>1, <5>2
      <4> QED
        BY ZenonT(30), <3>2, <4>1, <4>2
    <3> QED
      BY <3>3, <3>4, <3>5
  <2>6. CASE P(a, q) \notin {EOS, Close} /\ ~(P(a, q) = Minus /\ P(a, q + 1) \notin {EOS, Close}) /\ ~IsItem(a, q)
    <3> DEFINE b == P(a, q) = k
    <3>1. \A g : InListFrom(g, a, k, q, wc) = (b \/ g[<<q + 1, P(a, q)>>])
      BY <2>6 DEF InListFrom
    <3>2. b \in BOOLEAN /\ q + 1 \in 0..L /\ q + 1 > q
      BY <2>2, <2>6
    <3> HIDE DEF b
    <3> QED
      BY ZenonT(30), <2>1, <3>1, <3>2
  <2> QED
    BY <2>3, <2>4, <2>5, <2>6
<1>3. ASSUME NEW i \in D
      PROVE  i[1] \in 0..L /\ i[2] \in 0..127 /\ i = <<i[1], i[2]>>
  BY <1>1
<1>4. \A r \in 0..L, w \in 0..127 : <<r, w>> \in D
  BY <1>1
<1>5. place \in [D -> 0..L] /\ \A r \in 0..L, w \in 0..127 : place[<<r, w>>] = r
  BY <1>1
<1> HIDE DEF D, L
<1>6. ASSUME NEW f \in [D -> V], NEW i \in D
      PROVE  InListFrom(f, a, k, i[1], i[2]) \in BOOLEAN
  <2>1. CASE \E v \in BOOLEAN : \A g \in [D -> V] : InListFrom(g, a, k, i[1], i[2]) = v
    BY <2>1
  <2>2. ASSUME NEW r \in 0..L, NEW w \in 0..127, NEW b \in BOOLEAN,
               \A g \in [D -> V] : InListFrom(g, a, k, i[1], i[2]) = (b \/ g[<<r, w>>])
        PROVE  InListFrom(f, a, k, i[1], i[2]) \in BOOLEAN
    BY <1>4, <2>2
  <2>3. i[1] \in 0..L /\ i[2] \in 0..127
    BY <1>3
  <2> QED
    BY ZenonT(30), <1>2, <2>1, <2>2, <2>3
<1>7. B \in [[D -> V] -> [D -> V]]
  BY <1>6
<1>8. \A f \in [D -> V] : /\ B[f] = [i \in D |-> InListFrom(f, a, k, i[1], i[2])]
                          /\ \A i \in D : B[f][i] = InListFrom(f, a, k, i[1], i[2])
  OBVIOUS
<1>9. \A i \in D : place[i] = i[1]
  OBVIOUS
<1> HIDE DEF B, place
<1>10. ASSUME NEW f \in [D -> V], NEW g \in [D -> V], NEW i \in D,
              \A j \in D : place[j] > place[i] => f[j] = g[j]
       PROVE  B[f][i] = B[g][i]
  <2>0. B[f][i] = InListFrom(f, a, k, i[1], i[2]) /\ B[g][i] = InListFrom(g, a, k, i[1], i[2])
    BY <1>8
  <2>1. CASE \E v \in BOOLEAN : \A h \in [D -> V] : InListFrom(h, a, k, i[1], i[2]) = v
    BY <2>0, <2>1
  <2>2. ASSUME NEW r \in 0..L, NEW w \in 0..127, NEW b \in BOOLEAN, r > i[1],
               \A h \in [D -> V] : InListFrom(h, a, k, i[1], i[2]) = (b \/ h[<<r, w>>])
        PROVE  B[f][i] = B[g][i]
    <3>1. <<r, w>> \in D /\ place[<<r, w>>] > place[i]
      BY <1>4, <1>5, <1>9, <2>2
    <3>2. f[<<r, w>>] = g[<<r, w>>]
      BY <1>10, <3>1
    <3> QED
      BY <2>0, <2>2, <3>2
  <2>3. i[1] \in 0..L /\ i[2] \in 0..127
    BY <1>3
  <2>4. \/ \E v \in BOOLEAN : \A h \in [D -> V] : InListFrom(h, a, k, i[1], i[2]) = v
        \/ \E r \in 0..L, w \in 0..127, b \in BOOLEAN :
             r > i[1] /\ \A h \in [D -> V] : InListFrom(h, a, k, i[1], i[2]) = (b \/ h[<<r, w>>])
    BY <1>2, <2>3
  <2> QED
    BY <2>1, <2>2, <2>4
<1>11. PICK f \in [D -> V] : f = B[f]
  <2>1. L \in Nat /\ V # {} /\ place \in [D -> 0..L]
    BY <1>1, <1>5
  <2> HIDE DEF V
  <2>2. Onward(B, D, V, L, place)
    BY <1>7, <1>10, <2>1 DEF Onward
  <2> QED
    BY <2>2, RecursionOnward
<1>12. f = [i \in D |-> InListFrom(f, a, k, i[1], i[2])]
  BY <1>8, <1>11
<1> DEFINE R == InListOf(a, k)
<1>13. R = [i \in D |-> InListFrom(R, a, k, i[1], i[2])]
  BY <1>12 DEF InListOf, D
<1> HIDE DEF R
<1>14. \A i \in D : R[i] = InListFrom(R, a, k, i[1], i[2])
  BY <1>13
<1>15. ASSUME NEW q \in PatternOffsets(a), NEW wc \in 0..127
       PROVE  R[<<q, wc>>] = InListFrom(R, a, k, q, wc)
  <2>1. <<q, wc>> \in D
    BY <1>1, <1>4
  <2> QED
    BY <1>14, <2>1
<1> QED
  BY <1>15 DEF R

(* musl reads a plain list byte by byte and says of it what the reference  *)
(* says.                                                                   *)
LEMMA InListMeans ==
  ASSUME NEW a, IsCall(a), PlainBrackets(a), "CASEFOLD" \notin a.flags,
         NEW p \in PatternOffsets(a), P(a, p) = Open, NEW k \in 0..127
  PROVE  \A q \in ListStart(a, p)..BracketEnd(a, p), wc \in 0..127 :
           (P(a, q) = Minus => q > ListStart(a, p) /\ wc = P(a, q - 1)) =>
             (InListOf(a, k)[<<q, wc>>] <=> ListsFrom(a, p, k, q))
PROOF
<1> DEFINE e == BracketEnd(a, p)
           lo == ListStart(a, p)
           R == InListOf(a, k)
           Fits1(q, wc) == P(a, q) = Minus => q > lo /\ wc = P(a, q - 1)
           Right(q) == \A wc \in 0..127 : Fits1(q, wc) => (R[<<q, wc>>] <=> ListsFrom(a, p, k, q))
           T == {q \in 0..e : q >= lo => Right(q)}
<1>1. /\ e \in PatternOffsets(a) /\ e > lo /\ lo \in {p + 1, p + 2} /\ BracketAt(a, p, e)
      /\ \A q \in p + 1..e - 1 : P(a, q) \notin {Close, Backslash, Slash, Open, EOS}
      /\ \A q, r \in lo..e - 1 : P(a, q) = Minus /\ P(a, r) = Minus /\ q < r => q + 2 < r
  BY PlainBracket
<1>2. p \in Nat /\ lo \in Nat /\ e \in Nat /\ P(a, e) = Close /\ \A q \in 0..e : q \in PatternOffsets(a)
  BY <1>1, Bytes DEF BracketAt
<1>3. \A q \in PatternOffsets(a), wc \in 0..127 : R[<<q, wc>>] = InListFrom(R, a, k, q, wc)
  BY InListExists
<1>4. ~ListsFrom(a, p, k, e)
  BY FirstItem
<1>5. \A q : ListsFrom(a, p, k, q) <=> \E y \in q..e - 1 : Item(a, lo, e - 1, y, k)
  BY DEF ListsFrom
<1>6. \A q : Item(a, lo, e - 1, q, k) <=>
               IF lo < q /\ q < e - 1 /\ P(a, q) = Minus THEN P(a, q - 1) <= k /\ k <= P(a, q + 1)
               ELSE P(a, q) = k
  BY DEF Item, RangeAt, Fold
<1> HIDE DEF e, lo, R
<1>7. ASSUME NEW q \in 0..e, \A r \in q + 1..e : r \in T
      PROVE  q \in T
  <2> SUFFICES ASSUME q >= lo, NEW wc \in 0..127, Fits1(q, wc)
               PROVE  R[<<q, wc>>] <=> ListsFrom(a, p, k, q)
    OBVIOUS
  <2>1. R[<<q, wc>>] = InListFrom(R, a, k, q, wc)
    BY <1>2, <1>3
  <2>2. CASE q = e
    <3>1. InListFrom(R, a, k, q, wc) = FALSE
      BY <1>2, <2>2 DEF InListFrom, Close, Minus, IsItem, Open
    <3> QED
      BY <1>4, <2>1, <2>2, <3>1
  <2>3. CASE q # e
    <3>1. /\ q \in p + 1..e - 1 /\ q \in lo..e - 1 /\ q + 1 \in q + 1..e /\ q + 1 \in 0..e /\ q + 1 >= lo
          /\ q + 1 > lo /\ (q + 1) - 1 = q /\ q \in Nat
      BY <1>1, <1>2, <2>3
    <3>2. P(a, q) \notin {Close, Open, EOS} /\ P(a, q) \in 0..127
      BY <1>1, <3>1, Bytes
    <3>3. Right(q + 1)
      BY <1>7, <3>1
    <3>4. ListsFrom(a, p, k, q) <=> Item(a, lo, e - 1, q, k) \/ ListsFrom(a, p, k, q + 1)
      <4>1. \A y : y \in q..e - 1 <=> y = q \/ y \in q + 1..e - 1
        BY <1>2, <3>1
      <4> QED
        BY <1>5, <4>1
    <3>5. P(a, q + 1) # EOS
      <4>1. q + 1 = e \/ q + 1 \in p + 1..e - 1
        BY <1>1, <1>2, <3>1
      <4> QED
        BY <1>1, <1>2, <4>1 DEF Close, EOS
    <3>6. CASE P(a, q) = Minus /\ P(a, q + 1) # Close
      <4>1. q + 1 \in lo..e - 1 /\ q < e - 1
        BY <1>2, <3>1, <3>6
      <4>2. P(a, q + 1) # Minus
        BY <1>1, <3>1, <3>6, <4>1
      <4>3. R[<<q + 1, wc>>] <=> ListsFrom(a, p, k, q + 1)
        BY <3>3, <4>2
      <4>4. InListFrom(R, a, k, q, wc) <=> (wc <= k /\ k <= P(a, q + 1)) \/ R[<<q + 1, wc>>]
        BY <3>2, <3>5, <3>6 DEF InListFrom, IsItem
      <4>5. lo < q /\ wc = P(a, q - 1)
        BY <3>6
      <4>6. Item(a, lo, e - 1, q, k) <=> wc <= k /\ k <= P(a, q + 1)
        BY <1>6, <3>6, <4>1, <4>5
      <4> QED
        BY <2>1, <3>4, <4>3, <4>4, <4>6
    <3>7. CASE ~(P(a, q) = Minus /\ P(a, q + 1) # Close)
      <4>1. InListFrom(R, a, k, q, wc) <=> P(a, q) = k \/ R[<<q + 1, P(a, q)>>]
        BY <3>2, <3>7 DEF InListFrom, IsItem
      <4>2. Fits1(q + 1, P(a, q))
        BY <3>1
      <4>3. R[<<q + 1, P(a, q)>>] <=> ListsFrom(a, p, k, q + 1)
        BY <3>2, <3>3, <4>2
      <4>4. Item(a, lo, e - 1, q, k) <=> P(a, q) = k
        <5>1. q < e - 1 => P(a, q + 1) # Close
          <6>1. q < e - 1 => q + 1 \in p + 1..e - 1
            BY <1>2, <3>1
          <6> QED
            BY <1>1, <6>1
        <5> QED
          BY <1>6, <3>7, <5>1
      <4> QED
        BY <2>1, <3>4, <4>1, <4>3, <4>4
    <3> QED
      BY <3>6, <3>7
  <2> QED
    BY <2>2, <2>3
<1> HIDE DEF T
<1>8. 0..e \subseteq T
  BY <1>2, <1>7, AllDownward
<1>9. ASSUME NEW q \in lo..e PROVE Right(q)
  <2>1. q \in T /\ q >= lo
    BY <1>2, <1>8
  <2> QED
    BY <2>1 DEF T
<1> QED
  BY <1>9 DEF e, lo, R

(* musl's match_bracket accepts what the reference accepts.                *)
LEMMA BracketMatches ==
  ASSUME NEW a, IsCall(a), PlainBrackets(a), "CASEFOLD" \notin a.flags,
         NEW p \in PatternOffsets(a), P(a, p) = Open, NEW k \in 0..127
  PROVE  match_bracket(a, p, k) <=> Accepts(a, p, BracketEnd(a, p), k)
PROOF
<1> DEFINE inv == P(a, p + 1) \in Negations
           q == ListStart(a, p)
           e == BracketEnd(a, p)
           R == InListOf(a, k)
           has == IF P(a, q) \in {Close, Minus} THEN P(a, q) = k \/ R[<<q + 1, P(a, q)>>]
                                                ELSE R[<<q, P(a, q - 1)>>]
<1>1. /\ e > q /\ q \in {p + 1, p + 2} /\ e \in PatternOffsets(a) /\ BracketAt(a, p, e)
      /\ \A x \in p + 1..e - 1 : P(a, x) \notin {Close, Backslash, Slash, Open, EOS}
      /\ \A x, y \in q..e - 1 : P(a, x) = Minus /\ P(a, y) = Minus /\ x < y => x + 2 < y
  BY PlainBracket
<1>2. match_bracket(a, p, k) <=> inv # has
  BY DEF match_bracket, InListOf, ListStart
<1>3. Accepts(a, p, e, k) <=> (IF inv THEN ~ListsFrom(a, p, k, q) ELSE ListsFrom(a, p, k, q))
  <2>1. Lists(a, q, e - 1, k) <=> ListsFrom(a, p, k, q)
    BY FirstItem
  <2>2. Fold(a, k) = k
    BY DEF Fold
  <2> QED
    BY <2>1, <2>2 DEF Accepts, ListStart
<1>4. \A x \in q..e, wc \in 0..127 :
        (P(a, x) = Minus => x > q /\ wc = P(a, x - 1)) => (R[<<x, wc>>] <=> ListsFrom(a, p, k, x))
  BY InListMeans
<1>5. p \in Nat /\ q \in Nat /\ e \in Nat
  BY <1>1, Bytes
<1>6. /\ \A y : ListsFrom(a, p, k, y) <=> \E x \in y..e - 1 : Item(a, q, e - 1, x, k)
      /\ Item(a, q, e - 1, q, k) <=> P(a, q) = k
  <2>1. ~RangeAt(a, q, e - 1, q)
    BY <1>5 DEF RangeAt
  <2> QED
    BY <2>1 DEF ListsFrom, Item, Fold
<1> HIDE DEF q, e, R
<1>7. P(a, q) # Close /\ q \in q..e /\ q + 1 \in q..e /\ q + 1 > q /\ (q + 1) - 1 = q
  <2>1. q \in p + 1..e - 1
    BY <1>1, <1>5
  <2> QED
    BY <1>1, <1>5, <2>1
<1>8. P(a, q) \in 0..127 /\ P(a, q - 1) \in 0..127
  <2>1. q \in Int /\ q - 1 \in Int
    BY <1>5
  <2> QED
    BY <2>1, Bytes
<1>9. has <=> ListsFrom(a, p, k, q)
  <2>1. CASE P(a, q) = Minus
    <3>1. R[<<q + 1, P(a, q)>>] <=> ListsFrom(a, p, k, q + 1)
      BY <1>4, <1>7, <1>8
    <3>2. \A x : x \in q..e - 1 <=> x = q \/ x \in q + 1..e - 1
      BY <1>1, <1>5
    <3>3. ListsFrom(a, p, k, q) <=> P(a, q) = k \/ ListsFrom(a, p, k, q + 1)
      BY <1>6, <3>2
    <3> QED
      BY <2>1, <3>1, <3>3
  <2>2. CASE P(a, q) # Minus
    BY <1>4, <1>7, <1>8, <2>2
  <2> QED
    BY <2>1, <2>2
<1>10. inv \in BOOLEAN /\ has \in BOOLEAN
  <2>1. inv \in BOOLEAN
    OBVIOUS
  <2>2. P(a, q) = Minus => has \in BOOLEAN
    OBVIOUS
  <2>3. P(a, q) # Minus => has \in BOOLEAN
    <3>1. R[<<q, P(a, q - 1)>>] = InListFrom(R, a, k, q, P(a, q - 1))
      <4>1. q \in PatternOffsets(a)
        BY <1>1, <1>5, Bytes
      <4> QED
        BY <1>8, <4>1, InListExists DEF R
    <3>2. P(a, q) \notin {Close, Open, EOS, Minus} => InListFrom(R, a, k, q, P(a, q - 1)) \in BOOLEAN
      BY DEF InListFrom, IsItem
    <3>3. P(a, q) \notin {Close, Open, EOS}
      <4>1. q \in p + 1..e - 1
        BY <1>1, <1>5
      <4> QED
        BY <1>1, <4>1
    <3> QED
      BY <1>7, <3>1, <3>2, <3>3
  <2> QED
    BY <2>1, <2>2, <2>3
<1> HIDE DEF inv, has
<1>11. (inv # has) <=> (IF inv THEN ~has ELSE has)
  BY <1>10
<1> QED
  BY <1>2, <1>3, <1>9, <1>11 DEF e
(* All characters of a pattern, from one offset on.                        *)
Chars == [c : Int, at : Nat]
CharsOf(a) == CHOOSE C : C = [p \in PatternOffsets(a) |-> CharsFrom(C, a, p)]

(* The characters of a pattern, one before those that follow it.           *)
LEMMA CharsExist ==
  ASSUME NEW a, IsCall(a), PlainBrackets(a)
  PROVE  \A p \in PatternOffsets(a) :
           /\ CharsOf(a)[p] \in Seq(Chars)
           /\ P(a, p) = EOS => CharsOf(a)[p] = <<>>
           /\ P(a, p) # EOS =>
                CharsOf(a)[p] = <<[c |-> pat_next(a, p).c, at |-> p]>> \o CharsOf(a)[TokenEnd(a, p)]
PROOF
<1> DEFINE L == PatternEnd(a)
           D == PatternOffsets(a)
           V == Seq(Chars)
           place == [p \in D |-> p]
           B == [f \in [D -> V] |-> [p \in D |-> CharsFrom(f, a, p)]]
           here(p) == <<[c |-> pat_next(a, p).c, at |-> p]>>
<1>1. L \in Nat /\ D = 0..L
  BY Bytes
<1>2. ASSUME NEW p \in D
      PROVE  /\ P(a, p) = EOS => \A g : CharsFrom(g, a, p) = <<>>
             /\ P(a, p) # EOS => /\ \A g : CharsFrom(g, a, p) = here(p) \o g[TokenEnd(a, p)]
                                 /\ TokenEnd(a, p) \in D /\ TokenEnd(a, p) > p
                                 /\ here(p) \in V
  <2>1. ASSUME P(a, p) # EOS
        PROVE  /\ p + pat_next(a, p).step = TokenEnd(a, p) /\ pat_next(a, p).c \in Int
               /\ TokenEnd(a, p) \in D /\ TokenEnd(a, p) > p
    BY <2>1, NextIs, TokenEnds
  <2>2. p \in Nat
    BY <1>1
  <2>3. P(a, p) # EOS => [c |-> pat_next(a, p).c, at |-> p] \in Chars
    BY <2>1, <2>2 DEF Chars
  <2>4. P(a, p) # EOS => here(p) \in V
    BY <2>3
  <2>5. P(a, p) # EOS => \A g : CharsFrom(g, a, p) = here(p) \o g[p + pat_next(a, p).step]
    BY DEF CharsFrom
  <2>6. P(a, p) = EOS => \A g : CharsFrom(g, a, p) = <<>>
    BY DEF CharsFrom
  <2> HIDE DEF here
  <2> QED
    BY <2>1, <2>4, <2>5, <2>6
<1> HIDE DEF here
<1>3. <<>> \in V /\ \A s, t \in V : s \o t \in V
  OBVIOUS
<1> HIDE DEF V
<1>4. \A f \in [D -> V] : \A p \in D : CharsFrom(f, a, p) \in V
  <2> SUFFICES ASSUME NEW f \in [D -> V], NEW p \in D PROVE CharsFrom(f, a, p) \in V
    OBVIOUS
  <2>1. CASE P(a, p) = EOS
    BY <1>2, <1>3, <2>1
  <2>2. CASE P(a, p) # EOS
    <3>1. here(p) \in V /\ f[TokenEnd(a, p)] \in V
      BY <1>2, <2>2
    <3>2. CharsFrom(f, a, p) = here(p) \o f[TokenEnd(a, p)]
      BY <1>2, <2>2
    <3> QED
      BY <1>3, <3>1, <3>2
  <2> QED
    BY <2>1, <2>2
<1>5. B \in [[D -> V] -> [D -> V]]
  BY <1>4
<1>6. \A f \in [D -> V] : /\ B[f] = [p \in D |-> CharsFrom(f, a, p)]
                          /\ \A p \in D : B[f][p] = CharsFrom(f, a, p)
  OBVIOUS
<1>7. place \in [D -> 0..L] /\ \A p \in D : place[p] = p
  BY <1>1
<1> HIDE DEF B, place
<1>8. ASSUME NEW f \in [D -> V], NEW g \in [D -> V], NEW p \in D,
             \A q \in D : place[q] > place[p] => f[q] = g[q]
      PROVE  B[f][p] = B[g][p]
  <2>1. B[f][p] = CharsFrom(f, a, p) /\ B[g][p] = CharsFrom(g, a, p)
    BY <1>6
  <2>2. CASE P(a, p) = EOS
    BY <1>2, <2>1, <2>2
  <2>3. CASE P(a, p) # EOS
    <3>1. f[TokenEnd(a, p)] = g[TokenEnd(a, p)]
      BY <1>2, <1>7, <1>8, <2>3
    <3>2. CharsFrom(f, a, p) = here(p) \o f[TokenEnd(a, p)] /\ CharsFrom(g, a, p) = here(p) \o g[TokenEnd(a, p)]
      BY <1>2, <2>3
    <3> QED
      BY <2>1, <3>1, <3>2
  <2> QED
    BY <2>2, <2>3
<1>9. PICK f \in [D -> V] : f = B[f]
  <2>1. L \in Nat /\ V # {} /\ place \in [D -> 0..L]
    BY <1>1, <1>3, <1>7
  <2> HIDE DEF D
  <2>2. Onward(B, D, V, L, place)
    BY <1>5, <1>8, <2>1 DEF Onward
  <2> QED
    BY <2>2, RecursionOnward
<1>10. f = [p \in D |-> CharsFrom(f, a, p)]
  BY <1>6, <1>9
<1> DEFINE C == CharsOf(a)
<1>11. C = [p \in D |-> CharsFrom(C, a, p)]
  BY <1>10 DEF CharsOf
<1> HIDE DEF C
<1>12. \A p \in D : C[p] = CharsFrom(C, a, p)
  BY <1>11
<1>13. \A p \in 0..L : C[p] \in V
  <2> DEFINE T == {p \in 0..L : C[p] \in V}
  <2>1. ASSUME NEW p \in 0..L, \A q \in p + 1..L : q \in T
        PROVE  p \in T
    <3>1. p \in D
      BY <1>1
    <3>2. CASE P(a, p) = EOS
      BY <1>2, <1>3, <1>12, <3>1, <3>2
    <3>3. CASE P(a, p) # EOS
      <4>1. TokenEnd(a, p) \in p + 1..L
        BY <1>1, <1>2, <3>1, <3>3
      <4>2. C[TokenEnd(a, p)] \in V
        BY <2>1, <4>1
      <4>3. C[p] = here(p) \o C[TokenEnd(a, p)] /\ here(p) \in V
        BY <1>2, <1>12, <3>1, <3>3
      <4>4. C[p] \in V
        BY <1>3, <4>2, <4>3
      <4> QED
        BY <4>4
    <3> QED
      BY <3>2, <3>3
  <2> HIDE DEF T
  <2>2. 0..L \subseteq T
    BY <1>1, <2>1, AllDownward
  <2> QED
    BY <2>2 DEF T
<1> QED
  BY <1>1, <1>2, <1>12, <1>13 DEF C, V, here

(* Where the character x of those in s stands.                             *)
Spot(a, s, x) == IF x <= Len(s) THEN s[x].at ELSE PatternEnd(a)
Reads(a, p, s) ==
  /\ s \in Seq(Chars) /\ Spot(a, s, 1) = p
  /\ \A x \in 1..Len(s) :
       /\ s[x].at \in PatternOffsets(a) /\ P(a, s[x].at) # EOS
       /\ s[x].c = pat_next(a, s[x].at).c
       /\ Spot(a, s, x + 1) = TokenEnd(a, s[x].at)

(* The characters stand one behind the other.                              *)
LEMMA CharsRead ==
  ASSUME NEW a, IsCall(a), PlainBrackets(a)
  PROVE  \A p \in PatternOffsets(a) : Reads(a, p, CharsOf(a)[p])
PROOF
<1> DEFINE L == PatternEnd(a)
           C == CharsOf(a)
           T == {p \in 0..L : Reads(a, p, C[p])}
<1>1. L \in Nat /\ PatternOffsets(a) = 0..L
  BY Bytes
<1>2. \A p \in 0..L :
        /\ C[p] \in Seq(Chars)
        /\ P(a, p) = EOS => C[p] = <<>>
        /\ P(a, p) # EOS => C[p] = <<[c |-> pat_next(a, p).c, at |-> p]>> \o C[TokenEnd(a, p)]
  BY <1>1, CharsExist
<1> HIDE DEF C
<1>3. ASSUME NEW p \in 0..L, \A q \in p + 1..L : q \in T
      PROVE  p \in T
  <2>1. CASE P(a, p) = EOS
    <3>0. p = L
      <4>1. p \in Int /\ ~(p \in 0..L - 1)
        BY <1>1, <2>1, Bytes
      <4> QED
        BY <1>1, <4>1
    <3>1. C[p] = <<>> /\ Len(C[p]) = 0
      <4>1. C[p] = <<>>
        BY <1>2, <2>1
      <4> QED
        BY <4>1
    <3>2. Spot(a, C[p], 1) = p
      BY <3>0, <3>1 DEF Spot
    <3>3. Reads(a, p, C[p])
      BY <1>2, <3>1, <3>2 DEF Reads
    <3> QED
      BY <3>3
  <2>2. CASE P(a, p) # EOS
    <3> DEFINE q == TokenEnd(a, p)
               s == C[q]
               r == [c |-> pat_next(a, p).c, at |-> p]
               t == C[p]
    <3>1. q \in p + 1..L /\ q \in 0..L
      BY <1>1, <2>2, TokenEnds
    <3>2. Reads(a, q, s)
      BY <1>3, <3>1
    <3>3. t = <<r>> \o s /\ s \in Seq(Chars) /\ t \in Seq(Chars)
      BY <1>2, <2>2, <3>1
    <3>4. r.c = pat_next(a, p).c /\ r.at = p
      OBVIOUS
    <3> HIDE DEF r, s, t, q
    <3>5. /\ Len(s) \in Nat /\ Len(t) = Len(s) + 1 /\ t[1] = r
          /\ \A x \in 1..Len(s) : t[x + 1] = s[x]
      BY <3>3
    <3>6. \A x \in Nat \ {0} : Spot(a, t, x + 1) = Spot(a, s, x)
      BY <3>5 DEF Spot
    <3>7. Spot(a, t, 1) = p
      BY <3>4, <3>5 DEF Spot
    <3>8. ASSUME NEW x \in 1..Len(t)
          PROVE  /\ t[x].at \in PatternOffsets(a) /\ P(a, t[x].at) # EOS
                 /\ t[x].c = pat_next(a, t[x].at).c
                 /\ Spot(a, t, x + 1) = TokenEnd(a, t[x].at)
      <4>1. CASE x = 1
        <5>1. Spot(a, t, 1 + 1) = Spot(a, s, 1) /\ Spot(a, s, 1) = q
          BY <3>2, <3>6 DEF Reads
        <5> QED
          BY <1>1, <2>2, <3>4, <3>5, <4>1, <5>1 DEF q
      <4>2. CASE x # 1
        <5> DEFINE y == x - 1
        <5>1. y \in 1..Len(s) /\ x = y + 1 /\ y \in Nat \ {0}
          BY <3>5, <4>2
        <5> HIDE DEF y
        <5>2. t[x] = s[y] /\ Spot(a, t, x + 1) = Spot(a, s, y + 1)
          <6>1. t[y + 1] = s[y]
            BY <3>5, <5>1
          <6>2. y + 1 \in Nat \ {0}
            BY <5>1
          <6> QED
            BY <3>6, <5>1, <6>1, <6>2
        <5> QED
          BY <3>2, <5>1, <5>2 DEF Reads
      <4> QED
        BY <4>1, <4>2
    <3>9. Reads(a, p, t)
      BY <3>3, <3>7, <3>8 DEF Reads
    <3> QED
      BY <3>9 DEF t
  <2> QED
    BY <2>1, <2>2
<1> HIDE DEF T
<1>4. 0..L \subseteq T
  BY <1>1, <1>3, AllDownward
<1> QED
  BY <1>1, <1>4 DEF T, C

(* Where what follows the first x characters stands.                       *)
At(a, x) == Spot(a, PatternChars(a), x + 1)
Size(a)  == Len(PatternChars(a))

(* Each character stands where the one before it ends.                     *)
LEMMA CharsAre ==
  ASSUME NEW a, IsCall(a), PlainBrackets(a)
  PROVE  /\ Size(a) \in Nat /\ At(a, 0) = 0 /\ At(a, Size(a)) = PatternEnd(a)
         /\ \A x \in 0..Size(a) : At(a, x) \in PatternOffsets(a)
         /\ \A x \in 0..Size(a) - 1 :
              /\ PatternChars(a)[x + 1].at = At(a, x) /\ P(a, At(a, x)) # EOS
              /\ PatternChars(a)[x + 1].c = pat_next(a, At(a, x)).c
              /\ At(a, x + 1) = TokenEnd(a, At(a, x))
PROOF
<1> DEFINE s == PatternChars(a)
<1>1. 0 \in PatternOffsets(a) /\ PatternEnd(a) \in PatternOffsets(a)
  BY Bytes
<1>2. s = CharsOf(a)[0]
  BY DEF PatternChars, CharsOf
<1>3. Reads(a, 0, s)
  BY <1>1, <1>2, CharsRead
<1> HIDE DEF s
<1>4. Len(s) \in Nat /\ Size(a) = Len(s) /\ \A x : At(a, x) = Spot(a, s, x + 1)
  BY <1>3 DEF Reads, Size, At, s
<1>5. At(a, 0) = 0
  BY <1>3, <1>4 DEF Reads
<1>6. At(a, Size(a)) = PatternEnd(a)
  <2>1. ~(Len(s) + 1 <= Len(s))
    BY <1>4
  <2> QED
    BY <1>4, <2>1 DEF Spot
<1>7. ASSUME NEW x \in 0..Size(a) - 1
      PROVE  /\ s[x + 1].at = At(a, x) /\ P(a, At(a, x)) # EOS
             /\ s[x + 1].c = pat_next(a, At(a, x)).c
             /\ At(a, x + 1) = TokenEnd(a, At(a, x)) /\ At(a, x) \in PatternOffsets(a)
  <2> DEFINE y == x + 1
  <2>1. y \in 1..Len(s) /\ y <= Len(s)
    BY <1>4
  <2> HIDE DEF y
  <2>2. At(a, x) = s[y].at
    BY <1>4, <2>1 DEF Spot, y
  <2>3. At(a, x + 1) = Spot(a, s, y + 1)
    BY <1>4 DEF y
  <2> QED
    BY <1>3, <2>1, <2>2, <2>3 DEF Reads, y
<1>8. ASSUME NEW x \in 0..Size(a) PROVE At(a, x) \in PatternOffsets(a)
  <2>1. x = Size(a) \/ x \in 0..Size(a) - 1
    BY <1>4
  <2> QED
    BY <1>1, <1>6, <1>7, <2>1
<1> QED
  BY <1>4, <1>5, <1>6, <1>7, <1>8 DEF s
(* What musl's answers are proved for.                                     *)
MuslCall(a) == IsCall(a) /\ MuslFollows(a) /\ "CASEFOLD" \notin a.flags
Char(a, x)  == PatternChars(a)[x + 1]

(* A character takes the bytes that what stands in the pattern takes; a    *)
(* leading period is taken by a period alone.                              *)
LEMMA CharTakes ==
  ASSUME NEW a, MuslCall(a), NEW x \in 0..Size(a) - 1, NEW n \in StringOffsets(a)
  PROVE  /\ Char(a, x).at = At(a, x) /\ At(a, x) \in PatternOffsets(a) /\ P(a, At(a, x)) # EOS
         /\ At(a, x + 1) = TokenEnd(a, At(a, x))
         /\ Char(a, x).c = STAR <=> P(a, At(a, x)) = Star
         /\ Char(a, x).c # STAR =>
              /\ Inside(a, n) /\ (LeadingPeriod(a, n) => P(a, At(a, x)) = Period) =>
                   (Takes(a, Char(a, x), S(a, n)) <=> Takes1(a, At(a, x), n))
              /\ LeadingPeriod(a, n) /\ Takes1(a, At(a, x), n) => P(a, At(a, x)) = Period
              /\ Takes1(a, At(a, x), n) => n < StringEnd(a)
              /\ "PATHNAME" \in a.flags /\ Char(a, x).c = Slash =>
                   (Takes1(a, At(a, x), n) <=> S(a, n) = Slash)
              /\ ~("PATHNAME" \in a.flags /\ Char(a, x).c = Slash) /\ Takes1(a, At(a, x), n) =>
                   Inside(a, n)
         /\ Char(a, x).c = STAR => Char(a, x).c # Slash
PROOF
<1> DEFINE p == At(a, x)
           t == Char(a, x)
           l == IF Escape(a, p) THEN p + 1 ELSE p
<1>1. IsCall(a) /\ PlainBrackets(a) /\ "CASEFOLD" \notin a.flags
  BY DEF MuslCall, MuslFollows
<1>2. x \in 0..Size(a)
  BY <1>1, CharsAre
<1>3. /\ p \in PatternOffsets(a) /\ P(a, p) # EOS /\ t.at = p /\ t.c = pat_next(a, p).c
      /\ At(a, x + 1) = TokenEnd(a, p)
  BY <1>1, <1>2, CharsAre DEF Char
<1> HIDE DEF p, t
<1>4. /\ t.c \in Int /\ (t.c = STAR <=> P(a, p) = Star)
      /\ P(a, p) = Open => t.c = BRACKET
      /\ P(a, p) = Question => t.c = QUESTION
      /\ P(a, p) \notin {Star, Open, Question} => t.c = P(a, l)
  BY <1>1, <1>3, NextIs
<1>5. p \in Int /\ l \in Int /\ n \in Int /\ n \in Nat
  BY <1>1, <1>3, Bytes
<1>6. P(a, p) \in 0..127 /\ P(a, l) \in 0..127 /\ S(a, n) \in 0..127
  <2> HIDE DEF l
  <2> QED
    BY <1>1, <1>5, Bytes
<1>7. ASSUME t.c # STAR
      PROVE  /\ P(a, p) = Question => (Takes1(a, p, n) <=> Wild(a, n))
             /\ P(a, p) = Open => (Takes1(a, p, n) <=> Wild(a, n) /\ Accepts(a, p, BracketEnd(a, p), S(a, n)))
             /\ P(a, p) \notin {Question, Open} => (Takes1(a, p, n) <=> S(a, n) # EOS /\ P(a, l) = S(a, n))
             /\ Takes1(a, p, n) => S(a, n) # EOS
  <2>1. P(a, p) \notin {EOS, Star}
    BY <1>3, <1>4, <1>7
  <2>2. Fold(a, P(a, l)) = P(a, l) /\ Fold(a, S(a, n)) = S(a, n)
    BY <1>1 DEF Fold
  <2> QED
    BY <1>1, <1>3, <2>1, <2>2, TakesCases
<1>8. Wild(a, n) <=> Inside(a, n) /\ ~LeadingPeriod(a, n)
  BY WildInside
<1>9. ASSUME t.c # STAR, Inside(a, n), LeadingPeriod(a, n) => P(a, p) = Period
      PROVE  Takes(a, t, S(a, n)) <=> Takes1(a, p, n)
  <2>1. CASE P(a, p) = Open
    <3>1. Takes(a, t, S(a, n)) <=> match_bracket(a, p, S(a, n))
      BY <1>3, <1>4, <2>1 DEF Takes
    <3>2. match_bracket(a, p, S(a, n)) <=> Accepts(a, p, BracketEnd(a, p), S(a, n))
      BY <1>1, <1>3, <1>6, <2>1, BracketMatches
    <3>3. Wild(a, n)
      BY <1>8, <1>9, <2>1 DEF Open, Period
    <3> QED
      BY <1>7, <1>9, <2>1, <3>1, <3>2, <3>3
  <2>2. CASE P(a, p) = Question
    <3>1. Takes(a, t, S(a, n))
      BY <1>4, <2>2 DEF Takes, BRACKET, QUESTION
    <3>2. Wild(a, n)
      BY <1>8, <1>9, <2>2 DEF Question, Period
    <3> QED
      BY <1>7, <1>9, <2>2, <3>1, <3>2
  <2>3. CASE P(a, p) \notin {Open, Question}
    <3>1. t.c = P(a, l) /\ t.c \in 0..127
      BY <1>4, <1>6, <1>9, <2>3
    <3> HIDE DEF l
    <3>2. Takes(a, t, S(a, n)) <=> P(a, l) = S(a, n)
      BY <3>1 DEF Takes, BRACKET, QUESTION
    <3>3. S(a, n) # EOS
      BY <1>9 DEF Inside
    <3> QED
      BY <1>7, <1>9, <2>3, <3>2, <3>3
  <2> QED
    BY <2>1, <2>2, <2>3
<1>10. ASSUME t.c # STAR, LeadingPeriod(a, n), Takes1(a, p, n)
       PROVE  P(a, p) = Period
  <2>1. P(a, p) \notin {Question, Open}
    BY <1>7, <1>8, <1>10
  <2>2. S(a, n) = Period /\ "PERIOD" \in a.flags
    BY <1>10 DEF LeadingPeriod
  <2>3. P(a, l) = Period
    BY <1>7, <1>10, <2>1, <2>2
  <2>4. ~Escape(a, p)
    <3> SUFFICES ASSUME Escape(a, p) PROVE FALSE
      OBVIOUS
    <3>1. P(a, p) = Backslash /\ P(a, p + 1) = Period
      BY <2>3 DEF Escape
    <3>2. p \in 0..Len(a.pattern) - 1
      BY <1>1, <1>3, <1>5, Bytes DEF PatternEnd
    <3> QED
      BY <2>2, <3>1, <3>2 DEF MuslCall, MuslFollows
  <2> QED
    BY <2>3, <2>4
<1>11. ASSUME t.c # STAR, Takes1(a, p, n) PROVE n < StringEnd(a)
  BY <1>1, <1>5, <1>7, <1>11, Bytes
<1>12. ASSUME t.c # STAR, "PATHNAME" \in a.flags, t.c = Slash
       PROVE  Takes1(a, p, n) <=> S(a, n) = Slash
  <2>1. P(a, p) \notin {Question, Open}
    BY <1>4, <1>12 DEF Slash, BRACKET, QUESTION
  <2>2. P(a, l) = Slash
    BY <1>4, <1>12, <2>1
  <2> QED
    BY <1>7, <1>12, <2>1, <2>2 DEF Slash, EOS
<1>13. ASSUME t.c # STAR, ~("PATHNAME" \in a.flags /\ t.c = Slash), Takes1(a, p, n)
       PROVE  Inside(a, n)
  <2>1. CASE P(a, p) \in {Question, Open}
    BY <1>7, <1>8, <1>13, <2>1
  <2>2. CASE P(a, p) \notin {Question, Open}
    <3>1. S(a, n) # EOS /\ t.c = S(a, n)
      BY <1>4, <1>7, <1>13, <2>2
    <3> QED
      BY <1>13, <3>1 DEF Inside
  <2> QED
    BY <2>1, <2>2
<1>14. t.c = STAR => t.c # Slash
  BY DEF STAR, Slash
<1> QED
  BY <1>3, <1>4, <1>9, <1>10, <1>11, <1>12, <1>13, <1>14 DEF p, t
-----------------------------------------------------------------------------
(* musl: the characters i + 1 to j match the bytes from n to e.            *)
ExactFrom(E, a, j, e, x, n) ==
  IF x = j THEN n = e
  ELSE IF Char(a, x).c = STAR THEN ~LeadingPeriod(a, n) /\ \E m \in n..e : E[<<x + 1, m>>]
  ELSE n < e /\ Takes1(a, At(a, x), n) /\ E[<<x + 1, n + 1>>]
Exact(a, j, e) == CHOOSE E : E = [i \in (0..j) \X (0..e) |-> ExactFrom(E, a, j, e, i[1], i[2])]

(* Exact is computed from what stands further on.                          *)
LEMMA ExactExists ==
  ASSUME NEW a, NEW j \in Nat, NEW e \in Nat
  PROVE  \A x \in 0..j, n \in 0..e :
           Exact(a, j, e)[<<x, n>>] = ExactFrom(Exact(a, j, e), a, j, e, x, n)
PROOF
<1> DEFINE D == (0..j) \X (0..e)
           V == BOOLEAN
           place == [i \in D |-> i[1]]
           B == [f \in [D -> V] |-> [i \in D |-> ExactFrom(f, a, j, e, i[1], i[2])]]
<1>1. \A x \in 0..j, n \in 0..e : <<x, n>> \in D
  OBVIOUS
<1>2. \A i \in D : i[1] \in 0..j /\ i[2] \in 0..e /\ i = <<i[1], i[2]>>
  OBVIOUS
<1>3. place \in [D -> 0..j] /\ (\A i \in D : place[i] = i[1])
      /\ \A x \in 0..j, n \in 0..e : place[<<x, n>>] = x
  OBVIOUS
<1>4. ASSUME NEW x \in 0..j, NEW n \in 0..e, NEW f \in [D -> V], NEW g \in [D -> V],
             \A y \in x + 1..j, m \in 0..e : f[<<y, m>>] = g[<<y, m>>]
      PROVE  ExactFrom(f, a, j, e, x, n) = ExactFrom(g, a, j, e, x, n)
  <2>1. CASE x = j
    BY <2>1 DEF ExactFrom
  <2>2. CASE x # j
    <3>1. x + 1 \in x + 1..j
      BY <2>2
    <3>2. \A m \in n..e : f[<<x + 1, m>>] = g[<<x + 1, m>>]
      BY <1>4, <3>1
    <3>3. n < e => f[<<x + 1, n + 1>>] = g[<<x + 1, n + 1>>]
      BY <3>2
    <3> QED
      BY <2>2, <3>2, <3>3 DEF ExactFrom
  <2> QED
    BY <2>1, <2>2
<1> HIDE DEF D
<1>5. \A f, x, n : ExactFrom(f, a, j, e, x, n) \in BOOLEAN
  BY DEF ExactFrom
<1>6. B \in [[D -> V] -> [D -> V]]
  BY <1>5
<1>7. \A f \in [D -> V] : /\ B[f] = [i \in D |-> ExactFrom(f, a, j, e, i[1], i[2])]
                          /\ \A i \in D : B[f][i] = ExactFrom(f, a, j, e, i[1], i[2])
  OBVIOUS
<1> HIDE DEF B, place
<1>8. ASSUME NEW f \in [D -> V], NEW g \in [D -> V], NEW i \in D,
             \A k \in D : place[k] > place[i] => f[k] = g[k]
      PROVE  B[f][i] = B[g][i]
  <2>1. B[f][i] = ExactFrom(f, a, j, e, i[1], i[2]) /\ B[g][i] = ExactFrom(g, a, j, e, i[1], i[2])
    BY <1>7
  <2>2. i[1] \in 0..j /\ i[2] \in 0..e
    BY <1>2
  <2>3. ASSUME NEW y \in i[1] + 1..j, NEW m \in 0..e PROVE f[<<y, m>>] = g[<<y, m>>]
    <3>1. y \in 0..j /\ y > i[1]
      BY <2>2
    <3>2. <<y, m>> \in D /\ place[<<y, m>>] > place[i]
      BY <1>1, <1>3, <3>1
    <3> QED
      BY <1>8, <3>2
  <2>4. ExactFrom(f, a, j, e, i[1], i[2]) = ExactFrom(g, a, j, e, i[1], i[2])
    BY <1>4, <2>2, <2>3
  <2> QED
    BY <2>1, <2>4
<1>9. PICK f \in [D -> V] : f = B[f]
  <2>1. j \in Nat /\ V # {} /\ place \in [D -> 0..j]
    BY <1>3
  <2> HIDE DEF V
  <2>2. Onward(B, D, V, j, place)
    BY <1>6, <1>8, <2>1 DEF Onward
  <2> QED
    BY <2>2, RecursionOnward
<1>10. f = [i \in D |-> ExactFrom(f, a, j, e, i[1], i[2])]
  BY <1>7, <1>9
<1> DEFINE E == Exact(a, j, e)
<1>11. E = [i \in D |-> ExactFrom(E, a, j, e, i[1], i[2])]
  BY <1>10 DEF Exact, D
<1> HIDE DEF E
<1>12. \A i \in D : E[i] = ExactFrom(E, a, j, e, i[1], i[2])
  BY <1>11
<1>13. ASSUME NEW x \in 0..j, NEW n \in 0..e
       PROVE  E[<<x, n>>] = ExactFrom(E, a, j, e, x, n)
  <2>1. <<x, n>> \in D
    BY <1>1
  <2> QED
    BY <1>12, <2>1
<1> QED
  BY <1>13 DEF E

(* One character at a time.                                                *)
LEMMA ExactEnd ==
  ASSUME NEW a, NEW j \in Nat, NEW e \in Nat, NEW n \in 0..e
  PROVE  Exact(a, j, e)[<<j, n>>] <=> n = e
PROOF
<1>1. j \in 0..j
  OBVIOUS
<1>2. Exact(a, j, e)[<<j, n>>] = ExactFrom(Exact(a, j, e), a, j, e, j, n)
  BY <1>1, ExactExists
<1> QED
  BY <1>2 DEF ExactFrom

(* A star takes any number of bytes, and does not stand before a leading   *)
(* period.                                                                 *)
LEMMA ExactStar ==
  ASSUME NEW a, NEW j \in Nat, NEW e \in Nat, NEW x \in 0..j - 1, NEW n \in 0..e,
         Char(a, x).c = STAR
  PROVE  Exact(a, j, e)[<<x, n>>] <=>
           ~LeadingPeriod(a, n) /\ \E m \in n..e : Exact(a, j, e)[<<x + 1, m>>]
PROOF
<1>1. x \in 0..j /\ x # j
  OBVIOUS
<1>2. Exact(a, j, e)[<<x, n>>] = ExactFrom(Exact(a, j, e), a, j, e, x, n)
  BY <1>1, ExactExists
<1> QED
  BY <1>1, <1>2 DEF ExactFrom

(* Any other character takes one byte.                                     *)
LEMMA ExactChar ==
  ASSUME NEW a, NEW j \in Nat, NEW e \in Nat, NEW x \in 0..j - 1, NEW n \in 0..e,
         Char(a, x).c # STAR
  PROVE  Exact(a, j, e)[<<x, n>>] <=>
           n < e /\ Takes1(a, At(a, x), n) /\ Exact(a, j, e)[<<x + 1, n + 1>>]
PROOF
<1>1. x \in 0..j /\ x # j
  OBVIOUS
<1>2. Exact(a, j, e)[<<x, n>>] = ExactFrom(Exact(a, j, e), a, j, e, x, n)
  BY <1>1, ExactExists
<1> QED
  BY <1>1, <1>2 DEF ExactFrom

(* No slash that ends a segment is among the characters i + 1 to j.        *)
NoSlash(a, i, j) ==
  "PATHNAME" \in a.flags => \A x \in i..j - 1 : Char(a, x).c # Slash

(* The reference matches what stands from character i + 1 on exactly when  *)
(* the characters up to j match up to some place where the rest matches.   *)
LEMMA ExactEnds ==
  ASSUME NEW a, MuslCall(a), NEW j \in 0..Size(a), NEW i \in 0..j, NoSlash(a, i, j)
  PROVE  \A n \in StringOffsets(a) :
           Match(a)[<<At(a, i), n>>] <=>
             \E e \in StringOffsets(a) :
               /\ n <= e /\ Span(a, n, e)
               /\ Exact(a, j, e)[<<i, n>>] /\ Match(a)[<<At(a, j), e>>]
PROOF
<1> DEFINE N == StringEnd(a)
           M == Match(a)
           E(e) == Exact(a, j, e)
           Ends(x, n) == \E e \in 0..N : /\ n <= e /\ Span(a, n, e)
                                         /\ E(e)[<<x, n>>] /\ M[<<At(a, j), e>>]
           T == {x \in 0..j : x >= i => \A n \in 0..N : M[<<At(a, x), n>>] <=> Ends(x, n)}
<1>1. IsCall(a) /\ PlainBrackets(a)
  BY DEF MuslCall, MuslFollows
<1>2. N \in Nat /\ StringOffsets(a) = 0..N
  BY <1>1, Bytes
<1>3. Size(a) \in Nat /\ j \in Nat /\ i \in Nat
  BY <1>1, CharsAre
<1>4. \A n \in 0..N : Span(a, n, n)
  BY DEF Span
<1>5. \A n, m, e \in 0..N : n <= m /\ m <= e => (Span(a, n, e) <=> Span(a, n, m) /\ Span(a, m, e))
  <2> SUFFICES ASSUME NEW n \in 0..N, NEW m \in 0..N, NEW e \in 0..N, n <= m, m <= e
               PROVE  Span(a, n, e) <=> Span(a, n, m) /\ Span(a, m, e)
    OBVIOUS
  <2>1. \A k : k \in n..e - 1 <=> k \in n..m - 1 \/ k \in m..e - 1
    BY <1>2
  <2> QED
    BY <2>1 DEF Span
<1>6. ASSUME NEW n \in 0..N, NEW e \in 0..N, NEW x \in 0..j, n <= e
      PROVE  /\ x = j => (E(e)[<<x, n>>] <=> n = e)
             /\ x < j /\ Char(a, x).c = STAR =>
                  (E(e)[<<x, n>>] <=> ~LeadingPeriod(a, n) /\ \E m \in n..e : E(e)[<<x + 1, m>>])
             /\ x < j /\ Char(a, x).c # STAR =>
                  (E(e)[<<x, n>>] <=> n < e /\ Takes1(a, At(a, x), n) /\ E(e)[<<x + 1, n + 1>>])
  <2>1. e \in Nat /\ n \in 0..e /\ j \in Nat
    BY <1>2, <1>3, <1>6
  <2> HIDE DEF N, M, T
  <2>2. ASSUME x = j PROVE Exact(a, j, e)[<<x, n>>] <=> n = e
    <3>1. Exact(a, j, e)[<<j, n>>] <=> n = e
      BY <2>1, ExactEnd
    <3> QED
      BY <2>2, <3>1
  <2>3. ASSUME x < j, Char(a, x).c = STAR
        PROVE  Exact(a, j, e)[<<x, n>>] <=>
                 ~LeadingPeriod(a, n) /\ \E m \in n..e : Exact(a, j, e)[<<x + 1, m>>]
    <3>1. x \in 0..j - 1
      BY <2>1, <2>3
    <3> QED
      BY <2>1, <2>3, <3>1, ExactStar
  <2>4. ASSUME x < j, Char(a, x).c # STAR
        PROVE  Exact(a, j, e)[<<x, n>>] <=>
                 n < e /\ Takes1(a, At(a, x), n) /\ Exact(a, j, e)[<<x + 1, n + 1>>]
    <3>1. x \in 0..j - 1
      BY <2>1, <2>4
    <3> QED
      BY <2>1, <2>4, <3>1, ExactChar
  <2> QED
    BY <2>2, <2>3, <2>4
<1> HIDE DEF N, E
<1>7. ASSUME NEW x \in 0..j, \A y \in x + 1..j : y \in T
      PROVE  x \in T
  <2> SUFFICES ASSUME x >= i, NEW n \in 0..N
               PROVE  M[<<At(a, x), n>>] <=> Ends(x, n)
    OBVIOUS
  <2>1. CASE x = j
    <3>1. M[<<At(a, x), n>>] => Ends(x, n)
      <4>1. n <= n
        BY <1>2
      <4>2. E(n)[<<x, n>>]
        BY <1>6, <2>1, <4>1
      <4> QED
        BY <1>4, <2>1, <4>1, <4>2
    <3>2. Ends(x, n) => M[<<At(a, x), n>>]
      BY <1>6, <2>1
    <3> QED
      BY <3>1, <3>2
  <2>2. CASE x # j
    <3>1. x < j /\ x + 1 \in x + 1..j /\ x + 1 \in 0..j /\ x + 1 >= i /\ x \in 0..Size(a) - 1
      BY <1>3, <2>2
    <3>2. \A m \in 0..N : M[<<At(a, x + 1), m>>] <=> Ends(x + 1, m)
      BY <1>7, <3>1
    <3>3. At(a, x) \in PatternOffsets(a) /\ P(a, At(a, x)) # EOS /\ At(a, x + 1) = TokenEnd(a, At(a, x))
      BY <1>2, <3>1, CharTakes
    <3>4. Char(a, x).c = STAR <=> P(a, At(a, x)) = Star
      BY <1>2, <3>1, CharTakes
    <3>5. CASE Char(a, x).c = STAR
      <4>1. At(a, x + 1) = At(a, x) + 1
        BY <3>3, <3>4, <3>5 DEF TokenEnd, Escape, Star, Open, Backslash
      <4>2. M[<<At(a, x), n>>] <=>
              ~LeadingPeriod(a, n) /\ \E m \in 0..N : n <= m /\ Span(a, n, m) /\ Ends(x + 1, m)
        <5>1. M[<<At(a, x), n>>] <=>
                /\ ~LeadingPeriod(a, n)
                /\ \E m \in 0..N : n <= m /\ Span(a, n, m) /\ M[<<At(a, x + 1), m>>]
          BY <1>1, <1>2, <3>3, <3>4, <3>5, <4>1, StarMeans
        <5> QED
          BY <3>2, <5>1
      <4>3. ASSUME NEW m \in 0..N, n <= m, Span(a, n, m), Ends(x + 1, m), ~LeadingPeriod(a, n)
            PROVE  Ends(x, n)
        <5>1. PICK e \in 0..N : m <= e /\ Span(a, m, e) /\ E(e)[<<x + 1, m>>] /\ M[<<At(a, j), e>>]
          BY <4>3
        <5>2. n <= e /\ m \in n..e
          BY <1>2, <4>3, <5>1
        <5>3. Span(a, n, e)
          BY <1>5, <4>3, <5>1
        <5>4. E(e)[<<x, n>>]
          BY <1>6, <3>1, <3>5, <4>3, <5>1, <5>2
        <5> QED
          BY <5>1, <5>2, <5>3, <5>4
      <4>4. ASSUME Ends(x, n)
            PROVE  ~LeadingPeriod(a, n) /\ \E m \in 0..N : n <= m /\ Span(a, n, m) /\ Ends(x + 1, m)
        <5>1. PICK e \in 0..N : n <= e /\ Span(a, n, e) /\ E(e)[<<x, n>>] /\ M[<<At(a, j), e>>]
          BY <4>4
        <5>2. ~LeadingPeriod(a, n) /\ \E m \in n..e : E(e)[<<x + 1, m>>]
          BY <1>6, <3>1, <3>5, <5>1
        <5>3. PICK m \in n..e : E(e)[<<x + 1, m>>]
          BY <5>2
        <5>4. m \in 0..N /\ n <= m /\ m <= e
          BY <1>2
        <5>5. Span(a, n, m) /\ Span(a, m, e)
          BY <1>5, <5>1, <5>4
        <5>6. Ends(x + 1, m)
          BY <5>1, <5>3, <5>4, <5>5
        <5> QED
          BY <5>2, <5>4, <5>5, <5>6
      <4> QED
        BY <4>2, <4>3, <4>4
    <3>6. CASE Char(a, x).c # STAR
      <4>1. M[<<At(a, x), n>>] <=> Takes1(a, At(a, x), n) /\ M[<<At(a, x + 1), n + 1>>]
        BY <1>1, <1>2, <3>3, <3>4, <3>6, Steps
      <4>2. Takes1(a, At(a, x), n) => n < N /\ Inside(a, n)
        <5>1. ~("PATHNAME" \in a.flags /\ Char(a, x).c = Slash)
          <6>1. x \in i..j - 1
            BY <1>3, <3>1
          <6> QED
            BY <6>1 DEF NoSlash
        <5> QED
          BY <1>2, <3>1, <3>6, <5>1, CharTakes DEF N
      <4>3. ASSUME Takes1(a, At(a, x), n), M[<<At(a, x + 1), n + 1>>]
            PROVE  Ends(x, n)
        <5>1. n + 1 \in 0..N /\ n < N /\ n <= n + 1
          BY <1>2, <4>2, <4>3
        <5>2. Ends(x + 1, n + 1)
          BY <3>2, <4>3, <5>1
        <5>3. PICK e \in 0..N : n + 1 <= e /\ Span(a, n + 1, e) /\ E(e)[<<x + 1, n + 1>>] /\ M[<<At(a, j), e>>]
          BY <5>2
        <5>4. n <= e /\ n < e
          BY <1>2, <5>3
        <5>5. Span(a, n, n + 1)
          <6>1. \A k \in n..(n + 1) - 1 : k = n
            BY <1>2
          <6> QED
            BY <4>2, <4>3, <6>1 DEF Span
        <5>6. Span(a, n, e)
          BY <1>5, <5>1, <5>3, <5>5
        <5>7. E(e)[<<x, n>>]
          BY <1>6, <3>1, <3>6, <4>3, <5>3, <5>4
        <5> QED
          BY <5>3, <5>4, <5>6, <5>7
      <4>4. ASSUME Ends(x, n)
            PROVE  Takes1(a, At(a, x), n) /\ M[<<At(a, x + 1), n + 1>>]
        <5>1. PICK e \in 0..N : n <= e /\ Span(a, n, e) /\ E(e)[<<x, n>>] /\ M[<<At(a, j), e>>]
          BY <4>4
        <5>2. n < e /\ Takes1(a, At(a, x), n) /\ E(e)[<<x + 1, n + 1>>]
          BY <1>6, <3>1, <3>6, <5>1
        <5>3. n + 1 \in 0..N /\ n + 1 <= e /\ n <= n + 1
          BY <1>2, <5>2
        <5>4. Span(a, n + 1, e)
          BY <1>5, <5>1, <5>3
        <5>5. Ends(x + 1, n + 1)
          BY <5>1, <5>2, <5>3, <5>4
        <5> QED
          BY <3>2, <5>2, <5>3, <5>5
      <4> QED
        BY <4>1, <4>3, <4>4
    <3> QED
      BY <3>5, <3>6
  <2> QED
    BY <2>1, <2>2
<1> HIDE DEF T
<1>8. i \in T /\ i >= i
  <2>1. 0..j \subseteq T
    BY <1>3, <1>7, AllDownward
  <2> QED
    BY <1>3, <2>1
<1> QED
  BY <1>2, <1>8 DEF T, E, N
-----------------------------------------------------------------------------
(* A part of a string that stars and question marks may match, and one     *)
(* where no period is a leading one.                                       *)
Stretch(a, n, e) ==
  n \in StringOffsets(a) /\ e \in StringOffsets(a) /\ n <= e /\ Span(a, n, e)
Free(a, n, e) == Stretch(a, n, e) /\ ~LeadingPeriod(a, n)

(* The d characters from i on take the d bytes from n on.                  *)
Taken(a, i, n, d) == \A z \in 0..d - 1 : Takes(a, Char(a, i + z), S(a, n + z))

(* TakeAll counts characters from 1, Taken from 0.                         *)
LEMMA TakeAllIs ==
  ASSUME NEW a, NEW i \in Nat, NEW j \in Nat, NEW n \in Int
  PROVE  TakeAll(a, PatternChars(a), i, j, n) <=> Taken(a, i, n, j - i)
PROOF
<1>1. ASSUME TakeAll(a, PatternChars(a), i, j, n), NEW z \in 0..(j - i) - 1
      PROVE  Takes(a, Char(a, i + z), S(a, n + z))
  <2> DEFINE x == i + z + 1
  <2>1. x \in i + 1..j /\ n + (x - i) - 1 = n + z /\ (i + z) + 1 = x
    OBVIOUS
  <2> HIDE DEF x
  <2>2. Takes(a, PatternChars(a)[x], S(a, n + (x - i) - 1))
    BY <1>1, <2>1 DEF TakeAll
  <2> QED
    BY <2>1, <2>2 DEF Char
<1>2. ASSUME Taken(a, i, n, j - i), NEW x \in i + 1..j
      PROVE  Takes(a, PatternChars(a)[x], S(a, n + (x - i) - 1))
  <2> DEFINE z == x - i - 1
  <2>1. z \in 0..(j - i) - 1 /\ n + (x - i) - 1 = n + z /\ (i + z) + 1 = x
    OBVIOUS
  <2> HIDE DEF z
  <2>2. Takes(a, Char(a, i + z), S(a, n + z))
    BY <1>2, <2>1 DEF Taken
  <2> QED
    BY <2>1, <2>2 DEF Char
<1> QED
  BY <1>1, <1>2 DEF TakeAll, Taken

(* Behind the start of a stretch no period is a leading one.               *)
LEMMA NoneLeads ==
  ASSUME NEW a, IsCall(a), NEW n, NEW e, Stretch(a, n, e)
  PROVE  /\ n \in Nat /\ e \in Nat /\ n <= e /\ e <= StringEnd(a) /\ StringEnd(a) \in Nat
         /\ \A m \in n + 1..e : ~LeadingPeriod(a, m)
         /\ \A m \in n..e - 1 : Inside(a, m) /\ m \in StringOffsets(a)
         /\ Free(a, n, e) => \A m \in n..e : Free(a, m, e)
PROOF
<1>1. n \in Nat /\ e \in Nat /\ n <= e /\ e <= StringEnd(a) /\ StringEnd(a) \in Nat
      /\ StringOffsets(a) = 0..StringEnd(a)
  BY Bytes DEF Stretch
<1>2. \A m \in n..e - 1 : Inside(a, m) /\ m \in StringOffsets(a)
  BY <1>1 DEF Stretch, Span
<1>3. ASSUME NEW m \in n + 1..e PROVE ~LeadingPeriod(a, m)
  <2>1. m - 1 \in n..e - 1 /\ (m - 1) + 1 = m
    BY <1>1
  <2>2. Inside(a, m - 1) /\ m - 1 \in StringOffsets(a)
    BY <1>2, <2>1
  <2>3. ~LeadingPeriod(a, (m - 1) + 1)
    BY <2>2, InsideNext
  <2> QED
    BY <2>1, <2>3
<1>4. ASSUME Free(a, n, e), NEW m \in n..e PROVE Free(a, m, e)
  <2>1. m = n \/ m \in n + 1..e
    BY <1>1
  <2>2. ~LeadingPeriod(a, m)
    BY <1>3, <1>4, <2>1 DEF Free
  <2>3. Span(a, m, e)
    <3>1. \A k \in m..e - 1 : k \in n..e - 1
      BY <1>1
    <3> QED
      BY <1>2, <3>1 DEF Span
  <2>4. m \in StringOffsets(a) /\ e \in StringOffsets(a) /\ m <= e
    BY <1>1
  <2> QED
    BY <2>2, <2>3, <2>4 DEF Free, Stretch
<1> QED
  BY <1>1, <1>2, <1>3, <1>4

(* Characters that are no stars take one byte each.                        *)
LEMMA RunMeans ==
  ASSUME NEW a, MuslCall(a), NEW j \in 0..Size(a), NEW i \in 0..j, NEW n, NEW e, Stretch(a, n, e),
         LeadingPeriod(a, n) => P(a, At(a, i)) = Period,
         NEW d \in 0..j - i, \A z \in 0..d - 1 : Char(a, i + z).c # STAR
  PROVE  Exact(a, j, e)[<<i, n>>] <=>
           n + d <= e /\ Taken(a, i, n, d) /\ Exact(a, j, e)[<<i + d, n + d>>]
PROOF
<1> DEFINE E == Exact(a, j, e)
           Claim(k) == E[<<i, n>>] <=> n + k <= e /\ Taken(a, i, n, k) /\ E[<<i + k, n + k>>]
           T == {k \in Nat : k <= d => Claim(k)}
<1>1. IsCall(a) /\ PlainBrackets(a)
  BY DEF MuslCall, MuslFollows
<1>2. Size(a) \in Nat /\ j \in Nat /\ i \in Nat /\ d \in Nat /\ i + d <= j
  BY <1>1, CharsAre
<1>3. /\ n \in Nat /\ e \in Nat /\ n <= e
      /\ \A m \in n + 1..e : ~LeadingPeriod(a, m)
      /\ \A m \in n..e - 1 : Inside(a, m) /\ m \in StringOffsets(a)
  BY <1>1, NoneLeads
<1>4. 0 \in T
  <2>1. n + 0 = n /\ i + 0 = i /\ n <= e
    BY <1>2, <1>3
  <2>2. Taken(a, i, n, 0)
    BY DEF Taken
  <2> HIDE DEF E
  <2>3. Claim(0)
    BY <2>1, <2>2
  <2> QED
    BY <2>3
<1>5. ASSUME NEW k \in Nat, k \in T, k + 1 <= d
      PROVE  Claim(k + 1)
  <2> DEFINE x == i + k
             m == n + k
  <2>1. x \in 0..j - 1 /\ x \in 0..Size(a) - 1 /\ x + 1 = i + (k + 1) /\ m + 1 = n + (k + 1)
        /\ m \in Nat /\ k \in 0..d - 1 /\ (m < e <=> m + 1 <= e) /\ m >= n
    BY <1>2, <1>3, <1>5
  <2>2. Char(a, x).c # STAR
    BY <2>1
  <2>3. Claim(k)
    BY <1>2, <1>5
  <2>4. Taken(a, i, n, k + 1) <=> Taken(a, i, n, k) /\ Takes(a, Char(a, x), S(a, m))
    <3>1. \A z : z \in 0..(k + 1) - 1 <=> z \in 0..k - 1 \/ z = k
      BY <1>5
    <3> QED
      BY <3>1 DEF Taken
  <2>5. ASSUME m < e
        PROVE  /\ Takes(a, Char(a, x), S(a, m)) <=> Takes1(a, At(a, x), m)
               /\ E[<<x, m>>] <=> Takes1(a, At(a, x), m) /\ E[<<x + 1, m + 1>>]
    <3>1. m \in n..e - 1 /\ m \in 0..e
      BY <1>3, <2>1, <2>5
    <3>2. Inside(a, m) /\ m \in StringOffsets(a)
      BY <1>3, <3>1
    <3>3. LeadingPeriod(a, m) => P(a, At(a, x)) = Period
      <4>1. m = n \/ m \in n + 1..e
        BY <1>3, <3>1
      <4>2. m = n => x = i
        BY <1>2, <1>3
      <4> QED
        BY <1>3, <4>1, <4>2
    <3> HIDE DEF x, m
    <3>4. Takes(a, Char(a, x), S(a, m)) <=> Takes1(a, At(a, x), m)
      BY <2>1, <2>2, <3>2, <3>3, CharTakes
    <3>5. E[<<x, m>>] <=> m < e /\ Takes1(a, At(a, x), m) /\ E[<<x + 1, m + 1>>]
      BY <1>2, <1>3, <2>1, <2>2, <3>1, ExactChar
    <3> QED
      BY <2>5, <3>4, <3>5
  <2>6. ASSUME ~(m < e), m <= e
        PROVE  ~E[<<x, m>>]
    <3>1. m \in 0..e
      BY <2>1, <2>6
    <3> HIDE DEF x, m
    <3>2. E[<<x, m>>] <=> m < e /\ Takes1(a, At(a, x), m) /\ E[<<x + 1, m + 1>>]
      BY <1>2, <1>3, <2>1, <2>2, <3>1, ExactChar
    <3> QED
      BY <2>6, <3>2
  <2>7. m < e => m <= e
    BY <1>3, <2>1
  <2>8. Claim(k) <=> (E[<<i, n>>] <=> m <= e /\ Taken(a, i, n, k) /\ E[<<x, m>>])
    OBVIOUS
  <2>9. Claim(k + 1) <=> (E[<<i, n>>] <=> m + 1 <= e /\ Taken(a, i, n, k + 1) /\ E[<<x + 1, m + 1>>])
    BY <2>1
  <2> HIDE DEF E, Claim, x, m
  <2> QED
    BY <2>1, <2>3, <2>4, <2>5, <2>6, <2>7, <2>8, <2>9
<1> HIDE DEF Claim
<1>6. ASSUME NEW k \in Nat, k \in T PROVE k + 1 \in T
  BY <1>5, <1>6
<1> HIDE DEF T
<1>7. \A k \in Nat : k \in T
  BY <1>4, <1>6, AllNumbers
<1> QED
  BY <1>2, <1>7 DEF T, Claim
-----------------------------------------------------------------------------
(* From some place on, what follows the first i characters matches.        *)
Later(a, j, e, i, n) == \E m \in n..e : Exact(a, j, e)[<<i, m>>]

(* A star stands for any place from here on.                               *)
LEMMA LaterStar ==
  ASSUME NEW a, MuslCall(a), NEW j \in 0..Size(a), NEW i \in 1..j, Char(a, i - 1).c = STAR,
         NEW n, NEW e, Free(a, n, e)
  PROVE  Exact(a, j, e)[<<i - 1, n>>] <=> Later(a, j, e, i, n)
PROOF
<1>1. IsCall(a) /\ PlainBrackets(a)
  BY DEF MuslCall, MuslFollows
<1>2. Size(a) \in Nat /\ j \in Nat /\ i \in Nat /\ i - 1 \in 0..j - 1 /\ (i - 1) + 1 = i
  BY <1>1, CharsAre
<1>3. n \in Nat /\ e \in Nat /\ n \in 0..e
  BY <1>1, NoneLeads DEF Free
<1>4. ~LeadingPeriod(a, n)
  BY DEF Free
<1>5. Exact(a, j, e)[<<i - 1, n>>] <=>
        ~LeadingPeriod(a, n) /\ \E m \in n..e : Exact(a, j, e)[<<(i - 1) + 1, m>>]
  <2> DEFINE x == i - 1
  <2>1. x \in 0..j - 1 /\ Char(a, x).c = STAR
    BY <1>2
  <2> HIDE DEF x
  <2>2. Exact(a, j, e)[<<x, n>>] <=>
          ~LeadingPeriod(a, n) /\ \E m \in n..e : Exact(a, j, e)[<<x + 1, m>>]
    BY <1>2, <1>3, <2>1, ExactStar
  <2> QED
    BY <2>2 DEF x
<1> QED
  BY <1>2, <1>4, <1>5 DEF Later

(* Characters with no star to the end of the part stand at the string's    *)
(* end.                                                                    *)
LEMMA LaterTail ==
  ASSUME NEW a, MuslCall(a), NEW j \in 0..Size(a), NEW i \in 0..j,
         \A x \in i..j - 1 : Char(a, x).c # STAR, NEW n, NEW e, Free(a, n, e)
  PROVE  Later(a, j, e, i, n) <=> n <= e - (j - i) /\ Taken(a, i, e - (j - i), j - i)
PROOF
<1> DEFINE d == j - i
           E == Exact(a, j, e)
<1>1. IsCall(a) /\ PlainBrackets(a)
  BY DEF MuslCall, MuslFollows
<1>2. Size(a) \in Nat /\ j \in Nat /\ i \in Nat /\ d \in 0..j - i /\ i + d = j /\ d \in Nat
  BY <1>1, CharsAre
<1>3. n \in Nat /\ e \in Nat /\ n <= e /\ \A m \in n..e : Free(a, m, e)
  BY <1>1, NoneLeads DEF Free
<1>4. \A z \in 0..d - 1 : Char(a, i + z).c # STAR
  BY <1>2
<1>5. ASSUME NEW m \in n..e
      PROVE  E[<<i, m>>] <=> m = e - d /\ Taken(a, i, m, d)
  <2>1. Stretch(a, m, e) /\ ~LeadingPeriod(a, m)
    BY <1>3 DEF Free
  <2> HIDE DEF d
  <2>2. E[<<i, m>>] <=> m + d <= e /\ Taken(a, i, m, d) /\ E[<<i + d, m + d>>]
    BY <1>2, <1>4, <2>1, RunMeans
  <2>3. ASSUME m + d <= e PROVE E[<<i + d, m + d>>] <=> m + d = e
    <3> DEFINE k == m + d
    <3>1. k \in 0..e
      BY <1>2, <1>3, <2>3
    <3> HIDE DEF k, E
    <3>2. E[<<j, k>>] <=> k = e
      BY <1>2, <1>3, <3>1, ExactEnd DEF E
    <3> QED
      BY <1>2, <3>2 DEF k
  <2>4. m + d <= e /\ m + d = e <=> m = e - d
    BY <1>2, <1>3
  <2> HIDE DEF E
  <2> QED
    BY <2>2, <2>3, <2>4
<1>6. n <= e - d <=> e - d \in n..e
  BY <1>2, <1>3
<1> HIDE DEF d
<1>7. Later(a, j, e, i, n) <=> \E m \in n..e : m = e - d /\ Taken(a, i, m, d)
  BY <1>5 DEF Later
<1> HIDE DEF E
<1>8. Later(a, j, e, i, n) <=> n <= e - d /\ Taken(a, i, e - d, d)
  BY <1>6, <1>7
<1> QED
  BY <1>8 DEF d

(* Up to the next star, at a place, and what follows from there on.        *)
LEMMA LaterRun ==
  ASSUME NEW a, MuslCall(a), NEW j \in 0..Size(a), NEW i \in 0..j, NEW k \in i + 1..j,
         \A x \in i..k - 2 : Char(a, x).c # STAR, Char(a, k - 1).c = STAR,
         NEW n, NEW e, Free(a, n, e)
  PROVE  Exact(a, j, e)[<<i, n>>] <=>
           /\ n + (k - i - 1) <= e /\ Taken(a, i, n, k - i - 1)
           /\ Later(a, j, e, k, n + (k - i - 1))
PROOF
<1> DEFINE d == k - i - 1
           E == Exact(a, j, e)
<1>1. IsCall(a) /\ PlainBrackets(a)
  BY DEF MuslCall, MuslFollows
<1>2. Size(a) \in Nat /\ j \in Nat /\ i \in Nat /\ d \in 0..j - i /\ i + d = k - 1 /\ d \in Nat
      /\ k \in 1..j
  BY <1>1, CharsAre
<1>3. n \in Nat /\ e \in Nat /\ n <= e /\ \A m \in n..e : Free(a, m, e)
  BY <1>1, NoneLeads DEF Free
<1>4. \A z \in 0..d - 1 : Char(a, i + z).c # STAR
  BY <1>2
<1>5. Stretch(a, n, e) /\ ~LeadingPeriod(a, n)
  BY DEF Free
<1> HIDE DEF d
<1>6. E[<<i, n>>] <=> n + d <= e /\ Taken(a, i, n, d) /\ E[<<i + d, n + d>>]
  BY <1>2, <1>4, <1>5, RunMeans
<1>7. ASSUME n + d <= e PROVE E[<<i + d, n + d>>] <=> Later(a, j, e, k, n + d)
  <2>1. Free(a, n + d, e)
    <3>1. n + d \in n..e
      BY <1>2, <1>3, <1>7
    <3> QED
      BY <1>3, <3>1
  <2> DEFINE m == n + d
  <2> HIDE DEF m, E
  <2>2. E[<<k - 1, m>>] <=> Later(a, j, e, k, m)
    BY <1>2, <2>1, LaterStar DEF m, E
  <2> QED
    BY <1>2, <2>2 DEF m
<1> HIDE DEF E
<1>8. E[<<i, n>>] <=> n + d <= e /\ Taken(a, i, n, d) /\ Later(a, j, e, k, n + d)
  BY <1>6, <1>7
<1> QED
  BY <1>8 DEF d, E
-----------------------------------------------------------------------------
(* The next star behind the one at i, and the first place where nothing    *)
(* speaks against the component between them.                              *)
IsNext(a, i, last, k) ==
  /\ k \in i + 1..last /\ PatternChars(a)[k].c = STAR
  /\ \A x \in i + 1..k - 1 : PatternChars(a)[x].c # STAR
NextStar(a, i, last) ==
  CHOOSE j \in i + 1..last :
    PatternChars(a)[j].c = STAR /\ \A x \in i + 1..j - 1 : PatternChars(a)[x].c # STAR
Unrefuted(a, e, i, j, s) ==
  \A x \in i + 1..j - 1 : s + (x - i) <= e => Takes(a, PatternChars(a)[x], S(a, s + (x - i) - 1))
FirstOpen(a, e, i, j, n) ==
  CHOOSE s \in n..e :
    /\ \A x \in i + 1..j - 1 : s + (x - i) <= e => Takes(a, PatternChars(a)[x], S(a, s + (x - i) - 1))
    /\ \A r \in n..s - 1 : \E x \in i + 1..j - 1 :
         r + (x - i) <= e /\ ~Takes(a, PatternChars(a)[x], S(a, r + (x - i) - 1))

(* There is a next star in front of the last one.                          *)
LEMMA NextStarIs ==
  ASSUME NEW a, NEW last \in Nat, PatternChars(a)[last].c = STAR, NEW i \in 0..last - 1
  PROVE  IsNext(a, i, last, NextStar(a, i, last))
PROOF
<1> DEFINE T == {j \in i + 1..last : PatternChars(a)[j].c = STAR}
<1>1. last \in T /\ T \subseteq Nat
  OBVIOUS
<1>2. PICK k \in T : \A x \in T : k <= x
  BY <1>1, LeastNumber
<1>3. k \in i + 1..last /\ PatternChars(a)[k].c = STAR
  BY <1>2
<1>4. ASSUME NEW x \in i + 1..k - 1 PROVE PatternChars(a)[x].c # STAR
  <2>1. x \in i + 1..last /\ ~(k <= x)
    BY <1>3
  <2> QED
    BY <1>2, <2>1
<1> QED
  BY <1>3, <1>4 DEF NextStar, IsNext

(* There is a first place where nothing speaks against a component: at     *)
(* the end of the string nothing does.                                     *)
LEMMA FirstOpenIs ==
  ASSUME NEW a, NEW e \in Nat, NEW n \in 0..e, NEW i \in Nat, NEW j \in Nat
  PROVE  /\ FirstOpen(a, e, i, j, n) \in n..e
         /\ Unrefuted(a, e, i, j, FirstOpen(a, e, i, j, n))
         /\ \A r \in n..FirstOpen(a, e, i, j, n) - 1 : ~Unrefuted(a, e, i, j, r)
PROOF
<1> DEFINE T == {s \in n..e : Unrefuted(a, e, i, j, s)}
<1>1. Unrefuted(a, e, i, j, e)
  <2>1. \A x \in i + 1..j - 1 : ~(e + (x - i) <= e)
    OBVIOUS
  <2> QED
    BY <2>1 DEF Unrefuted
<1>2. e \in T /\ T \subseteq Nat
  BY <1>1
<1>3. PICK s \in T : \A x \in T : s <= x
  BY <1>2, LeastNumber
<1>4. s \in n..e /\ Unrefuted(a, e, i, j, s)
  BY <1>3
<1>5. \A r \in n..s - 1 : ~Unrefuted(a, e, i, j, r)
  <2> SUFFICES ASSUME NEW r \in n..s - 1 PROVE ~Unrefuted(a, e, i, j, r)
    OBVIOUS
  <2>1. r \in n..e /\ ~(s <= r)
    BY <1>4
  <2> QED
    BY <1>3, <2>1
<1>6. \A r : ~Unrefuted(a, e, i, j, r) <=>
        \E x \in i + 1..j - 1 :
          r + (x - i) <= e /\ ~Takes(a, PatternChars(a)[x], S(a, r + (x - i) - 1))
  BY DEF Unrefuted
<1> HIDE DEF T
<1> DEFINE Q(t) ==
      /\ \A x \in i + 1..j - 1 : t + (x - i) <= e => Takes(a, PatternChars(a)[x], S(a, t + (x - i) - 1))
      /\ \A r \in n..t - 1 : \E x \in i + 1..j - 1 :
           r + (x - i) <= e /\ ~Takes(a, PatternChars(a)[x], S(a, r + (x - i) - 1))
<1>7. \A t : Q(t) <=> Unrefuted(a, e, i, j, t) /\ \A r \in n..t - 1 : ~Unrefuted(a, e, i, j, r)
  BY <1>6 DEF Unrefuted
<1>8. FirstOpen(a, e, i, j, n) = CHOOSE t \in n..e : Q(t)
  BY DEF FirstOpen
<1> HIDE DEF Q
<1>9. Q(s)
  BY <1>4, <1>5, <1>7
<1>10. FirstOpen(a, e, i, j, n) \in n..e /\ Q(FirstOpen(a, e, i, j, n))
  BY <1>4, <1>8, <1>9
<1> QED
  BY <1>7, <1>10

(* One component, and what follows it.                                     *)
After(a, e, last, i, n) ==
  FirstOpen(a, e, i, NextStar(a, i, last), n) + (NextStar(a, i, last) - i) - 1

(* What the search for components asks.                                    *)
LEMMA ComponentIs ==
  ASSUME NEW a, NEW last, NEW e, NEW i, NEW n, NEW C
  PROVE  ComponentsFrom(C, a, PatternChars(a), last, e, i, n) <=>
           i = last \/ (After(a, e, last, i, n) <= e /\ C[<<NextStar(a, i, last), After(a, e, last, i, n)>>])
PROOF
  BY DEF ComponentsFrom, After, FirstOpen, NextStar

ComponentsOf(a, last, e) ==
  CHOOSE C : C = [x \in (0..last) \X (0..e) |->
                    ComponentsFrom(C, a, PatternChars(a), last, e, x[1], x[2])]

(* The components are searched for one after the other.                    *)
LEMMA ComponentsExist ==
  ASSUME NEW a, NEW last \in Nat, PatternChars(a)[last].c = STAR, NEW e \in Nat
  PROVE  \A i \in 0..last, n \in 0..e :
           ComponentsOf(a, last, e)[<<i, n>>] <=>
             \/ i = last
             \/ After(a, e, last, i, n) <= e
                  /\ ComponentsOf(a, last, e)[<<NextStar(a, i, last), After(a, e, last, i, n)>>]
PROOF
<1> DEFINE D == (0..last) \X (0..e)
           V == BOOLEAN
           place == [i \in D |-> i[1]]
           F(f, i, n) == ComponentsFrom(f, a, PatternChars(a), last, e, i, n)
           B == [f \in [D -> V] |-> [i \in D |-> F(f, i[1], i[2])]]
<1>1. \A x \in 0..last, n \in 0..e : <<x, n>> \in D
  OBVIOUS
<1>2. \A i \in D : i[1] \in 0..last /\ i[2] \in 0..e /\ i = <<i[1], i[2]>>
  OBVIOUS
<1>3. place \in [D -> 0..last] /\ (\A i \in D : place[i] = i[1])
      /\ \A x \in 0..last, n \in 0..e : place[<<x, n>>] = x
  OBVIOUS
<1>4. ASSUME NEW x \in 0..last, NEW n \in 0..e, NEW f \in [D -> V], NEW g \in [D -> V],
             \A y \in x + 1..last, m \in 0..e : f[<<y, m>>] = g[<<y, m>>]
      PROVE  F(f, x, n) = F(g, x, n)
  <2>0. F(f, x, n) \in BOOLEAN /\ F(g, x, n) \in BOOLEAN
    BY DEF ComponentsFrom
  <2> DEFINE k == NextStar(a, x, last)
             s == After(a, e, last, x, n)
  <2>1. F(f, x, n) <=> x = last \/ (s <= e /\ f[<<k, s>>])
    BY ComponentIs
  <2>2. F(g, x, n) <=> x = last \/ (s <= e /\ g[<<k, s>>])
    BY ComponentIs
  <2>3. ASSUME x # last, s <= e PROVE f[<<k, s>>] = g[<<k, s>>]
    <3>1. x \in 0..last - 1
      BY <2>3
    <3>2. k \in x + 1..last
      BY <3>1, NextStarIs DEF IsNext
    <3>3. k \in Nat /\ x \in Nat
      BY <3>2
    <3> HIDE DEF k
    <3>4. FirstOpen(a, e, x, k, n) \in n..e
      BY <3>3, FirstOpenIs
    <3>5. s = FirstOpen(a, e, x, k, n) + (k - x) - 1
      BY DEF After, k
    <3>6. s \in 0..e
      BY <2>3, <3>2, <3>3, <3>4, <3>5
    <3> QED
      BY <1>4, <3>2, <3>6
  <2> HIDE DEF F, k, s
  <2> QED
    BY <2>0, <2>1, <2>2, <2>3
<1>5. \A f, x, n : F(f, x, n) \in BOOLEAN
  BY DEF ComponentsFrom
<1> HIDE DEF D, F
<1>6. B \in [[D -> V] -> [D -> V]]
  BY <1>5
<1>7. \A f \in [D -> V] : /\ B[f] = [i \in D |-> F(f, i[1], i[2])]
                          /\ \A i \in D : B[f][i] = F(f, i[1], i[2])
  OBVIOUS
<1> HIDE DEF B, place
<1>8. ASSUME NEW f \in [D -> V], NEW g \in [D -> V], NEW i \in D,
             \A k \in D : place[k] > place[i] => f[k] = g[k]
      PROVE  B[f][i] = B[g][i]
  <2>1. B[f][i] = F(f, i[1], i[2]) /\ B[g][i] = F(g, i[1], i[2])
    BY <1>7
  <2>2. i[1] \in 0..last /\ i[2] \in 0..e
    BY <1>2
  <2>3. ASSUME NEW y \in i[1] + 1..last, NEW m \in 0..e PROVE f[<<y, m>>] = g[<<y, m>>]
    <3>1. y \in 0..last /\ y > i[1]
      BY <2>2
    <3>2. <<y, m>> \in D /\ place[<<y, m>>] > place[i]
      BY <1>1, <1>3, <3>1
    <3> QED
      BY <1>8, <3>2
  <2>4. F(f, i[1], i[2]) = F(g, i[1], i[2])
    BY <1>4, <2>2, <2>3
  <2> QED
    BY <2>1, <2>4
<1>9. PICK f \in [D -> V] : f = B[f]
  <2>1. last \in Nat /\ V # {} /\ place \in [D -> 0..last]
    BY <1>3
  <2> HIDE DEF V
  <2>2. Onward(B, D, V, last, place)
    BY <1>6, <1>8, <2>1 DEF Onward
  <2> QED
    BY <2>2, RecursionOnward
<1>10. f = [i \in D |-> F(f, i[1], i[2])]
  BY <1>7, <1>9
<1> DEFINE E == ComponentsOf(a, last, e)
<1>11. E = [i \in D |-> F(E, i[1], i[2])]
  BY <1>10 DEF ComponentsOf, D, F
<1> HIDE DEF E
<1>12. \A i \in D : E[i] = F(E, i[1], i[2])
  BY <1>11
<1>13. ASSUME NEW x \in 0..last, NEW n \in 0..e
       PROVE  E[<<x, n>>] <=>
                \/ x = last
                \/ After(a, e, last, x, n) <= e /\ E[<<NextStar(a, x, last), After(a, e, last, x, n)>>]
  <2>1. <<x, n>> \in D
    BY <1>1
  <2>2. E[<<x, n>>] = F(E, x, n)
    BY <1>12, <2>1
  <2> QED
    BY <2>2, ComponentIs DEF F
<1> QED
  BY <1>13 DEF E
-----------------------------------------------------------------------------
(* Nothing speaks against a component that stands at a place, and if the   *)
(* string does not end in it, it stands where nothing speaks against it.   *)
LEMMA UnrefutedTaken ==
  ASSUME NEW a, NEW i \in Nat, NEW k \in Nat, NEW s \in Nat, NEW e \in Nat
  PROVE  /\ Taken(a, i, s, k - i - 1) => Unrefuted(a, e, i, k, s)
         /\ Unrefuted(a, e, i, k, s) /\ s + (k - i - 1) <= e => Taken(a, i, s, k - i - 1)
PROOF
<1>1. ASSUME Taken(a, i, s, k - i - 1), NEW x \in i + 1..k - 1
      PROVE  Takes(a, PatternChars(a)[x], S(a, s + (x - i) - 1))
  <2> DEFINE z == x - i - 1
  <2>1. z \in 0..(k - i - 1) - 1 /\ s + (x - i) - 1 = s + z /\ (i + z) + 1 = x
    OBVIOUS
  <2> HIDE DEF z
  <2>2. Takes(a, Char(a, i + z), S(a, s + z))
    BY <1>1, <2>1 DEF Taken
  <2> QED
    BY <2>1, <2>2 DEF Char
<1>2. ASSUME Unrefuted(a, e, i, k, s), s + (k - i - 1) <= e, NEW z \in 0..(k - i - 1) - 1
      PROVE  Takes(a, Char(a, i + z), S(a, s + z))
  <2> DEFINE x == i + z + 1
  <2>1. x \in i + 1..k - 1 /\ s + (x - i) - 1 = s + z /\ (i + z) + 1 = x /\ s + (x - i) <= e
    BY <1>2
  <2> HIDE DEF x
  <2>2. Takes(a, PatternChars(a)[x], S(a, s + (x - i) - 1))
    BY <1>2, <2>1 DEF Unrefuted
  <2> QED
    BY <2>1, <2>2 DEF Char
<1> QED
  BY <1>1, <1>2 DEF Taken, Unrefuted

(* What matches from a place on matches from an earlier place on.          *)
LEMMA LaterEarlier ==
  ASSUME NEW a, NEW j, NEW e \in Nat, NEW i, NEW n \in Nat, NEW m \in Nat, n <= m,
         Later(a, j, e, i, m)
  PROVE  Later(a, j, e, i, n)
PROOF
<1>1. \A k \in m..e : k \in n..e
  OBVIOUS
<1> QED
  BY <1>1 DEF Later

(* What musl finds out about a part of a pattern: its last star, and the   *)
(* place of what follows it.                                               *)
LastStar(a, j, last) ==
  /\ last \in 1..j /\ PatternChars(a)[last].c = STAR
  /\ \A x \in last..j - 1 : Char(a, x).c # STAR

(* One component, from the star i on.                                      *)
LEMMA LaterNext ==
  ASSUME NEW a, MuslCall(a), NEW j \in 0..Size(a), NEW last, LastStar(a, j, last),
         NEW i \in 0..last - 1, NEW n, NEW e, Free(a, n, e)
  PROVE  Exact(a, j, e)[<<i, n>>] <=>
           /\ n + (NextStar(a, i, last) - i - 1) <= e
           /\ Taken(a, i, n, NextStar(a, i, last) - i - 1)
           /\ Later(a, j, e, NextStar(a, i, last), n + (NextStar(a, i, last) - i - 1))
PROOF
<1> DEFINE k == NextStar(a, i, last)
<1>1. IsCall(a) /\ PlainBrackets(a)
  BY DEF MuslCall, MuslFollows
<1>2. Size(a) \in Nat /\ j \in Nat /\ last \in Nat /\ last <= j /\ PatternChars(a)[last].c = STAR
  BY <1>1, CharsAre DEF LastStar
<1>3. IsNext(a, i, last, k)
  BY <1>2, NextStarIs
<1> HIDE DEF k
<1>4. k \in i + 1..j /\ i \in 0..j /\ (k - 1) + 1 = k
  BY <1>2, <1>3 DEF IsNext
<1>5. Char(a, k - 1).c = STAR
  BY <1>3, <1>4 DEF IsNext, Char
<1>6. ASSUME NEW x \in i..k - 2 PROVE Char(a, x).c # STAR
  <2>1. x + 1 \in i + 1..k - 1
    BY <1>4
  <2> QED
    BY <1>3, <2>1 DEF IsNext, Char
<1>7. Exact(a, j, e)[<<i, n>>] <=>
           /\ n + (k - i - 1) <= e /\ Taken(a, i, n, k - i - 1)
           /\ Later(a, j, e, k, n + (k - i - 1))
  BY <1>4, <1>5, <1>6, LaterRun
<1> QED
  BY <1>7 DEF k

(* What follows any star is followed by what follows the last one.         *)
LEMMA LaterLast ==
  ASSUME NEW a, MuslCall(a), NEW j \in 0..Size(a), NEW last, LastStar(a, j, last),
         NEW lo, NEW e, Free(a, lo, e), NEW i \in 0..last, NEW n \in lo..e, Later(a, j, e, i, n)
  PROVE  n <= e - (j - last) /\ Taken(a, last, e - (j - last), j - last)
PROOF
<1> DEFINE T == {x \in 0..last : \A m \in lo..e : Later(a, j, e, x, m) => Later(a, j, e, last, m)}
<1>1. IsCall(a) /\ PlainBrackets(a)
  BY DEF MuslCall, MuslFollows
<1>2. Size(a) \in Nat /\ j \in Nat /\ last \in Nat /\ last \in 0..j /\ PatternChars(a)[last].c = STAR
      /\ \A x \in last..j - 1 : Char(a, x).c # STAR
  BY <1>1, CharsAre DEF LastStar
<1>3. lo \in Nat /\ e \in Nat /\ lo <= e /\ \A m \in lo..e : Free(a, m, e)
  BY <1>1, NoneLeads DEF Free
<1>4. ASSUME NEW x \in 0..last, \A y \in x + 1..last : y \in T
      PROVE  x \in T
  <2> SUFFICES ASSUME NEW m \in lo..e, Later(a, j, e, x, m) PROVE Later(a, j, e, last, m)
    OBVIOUS
  <2>1. CASE x = last
    BY <2>1
  <2>2. CASE x # last
    <3> DEFINE k == NextStar(a, x, last)
    <3>1. x \in 0..last - 1
      BY <1>2, <2>2
    <3>2. k \in x + 1..last
      BY <1>2, <3>1, NextStarIs DEF IsNext
    <3>3. PICK s \in m..e : Exact(a, j, e)[<<x, s>>]
      BY DEF Later
    <3>4. Free(a, s, e) /\ s \in Nat /\ m \in Nat
      BY <1>3
    <3>5. s + (k - x - 1) <= e /\ Later(a, j, e, k, s + (k - x - 1))
      BY <3>1, <3>3, <3>4, LaterNext
    <3> HIDE DEF k
    <3> DEFINE t == s + (k - x - 1)
    <3>6. t \in lo..e /\ t \in Nat /\ m <= t
      BY <1>2, <1>3, <3>2, <3>3, <3>5
    <3>7. Later(a, j, e, k, t)
      BY <3>5
    <3> HIDE DEF t
    <3>8. Later(a, j, e, last, t)
      BY <1>4, <3>2, <3>6, <3>7
    <3> QED
      BY <1>3, <3>4, <3>6, <3>8, LaterEarlier
  <2> QED
    BY <2>1, <2>2
<1> HIDE DEF T
<1>5. i \in T
  BY <1>2, <1>4, AllDownward
<1>6. Later(a, j, e, last, n) /\ Free(a, n, e)
  BY <1>3, <1>5 DEF T
<1> QED
  BY <1>2, <1>6, LaterTail

(* The search for the components finds what the reference would.           *)
LEMMA ComponentsMean ==
  ASSUME NEW a, MuslCall(a), NEW j \in 0..Size(a), NEW last, LastStar(a, j, last),
         NEW lo, NEW e, Free(a, lo, e), NEW tail, tail = e - (j - last), tail \in lo..e,
         Taken(a, last, tail, j - last), NEW i \in 0..last, NEW n \in lo..tail
  PROVE  Later(a, j, e, i, n) <=> Components(a, PatternChars(a), i, last, n, tail)
PROOF
<1> DEFINE C == ComponentsOf(a, last, tail)
           Claim(x, m) == Later(a, j, e, x, m) <=> C[<<x, m>>]
           T == {x \in 0..last : \A m \in lo..tail : Claim(x, m)}
<1>1. IsCall(a) /\ PlainBrackets(a)
  BY DEF MuslCall, MuslFollows
<1>2. Size(a) \in Nat /\ j \in Nat /\ last \in Nat /\ last \in 0..j /\ PatternChars(a)[last].c = STAR
      /\ \A x \in last..j - 1 : Char(a, x).c # STAR
  BY <1>1, CharsAre DEF LastStar
<1>3. lo \in Nat /\ e \in Nat /\ lo <= e /\ \A m \in lo..e : Free(a, m, e)
  BY <1>1, NoneLeads DEF Free
<1>4. tail \in Nat /\ tail <= e /\ \A m \in lo..tail : m \in lo..e /\ m \in 0..tail /\ m \in Nat
  BY <1>3
<1>5. ASSUME NEW x \in 0..last, NEW m \in 0..tail
      PROVE  C[<<x, m>>] <=>
               x = last \/ (After(a, tail, last, x, m) <= tail
                              /\ C[<<NextStar(a, x, last), After(a, tail, last, x, m)>>])
  BY <1>2, <1>4, ComponentsExist
<1> HIDE DEF C
<1>6. ASSUME NEW x \in 0..last, \A y \in x + 1..last : y \in T
      PROVE  x \in T
  <2> SUFFICES ASSUME NEW m \in lo..tail PROVE Claim(x, m)
    OBVIOUS
  <2>1. CASE x = last
    <3>1. Later(a, j, e, last, m) <=> m <= e - (j - last) /\ Taken(a, last, e - (j - last), j - last)
      BY <1>2, <1>3, <1>4, LaterTail
    <3>2. m <= tail
      BY <1>3
    <3>3. C[<<last, m>>]
      BY <1>4, <1>5, <2>1
    <3> QED
      BY <2>1, <3>1, <3>2, <3>3
  <2>2. CASE x # last
    <3> DEFINE k == NextStar(a, x, last)
               w == k - x - 1
               s == FirstOpen(a, tail, x, k, m)
               t == After(a, tail, last, x, m)
    <3>1. x \in 0..last - 1 /\ x \in Nat
      BY <1>2, <2>2
    <3>2. k \in x + 1..last /\ k \in 0..last /\ k \in Nat
      <4>1. k \in x + 1..last
        BY <1>2, <3>1, NextStarIs DEF IsNext
      <4> HIDE DEF k
      <4> QED
        BY <1>2, <4>1
    <3>3. m \in 0..tail /\ m \in Nat
      BY <1>4
    <3>4. ASSUME NEW r \in m..e
          PROVE  Exact(a, j, e)[<<x, r>>] <=>
                   r + w <= e /\ Taken(a, x, r, w) /\ Later(a, j, e, k, r + w)
      <4>1. Free(a, r, e)
        BY <1>3, <1>4
      <4> QED
        BY <3>1, <4>1, LaterNext
    <3> HIDE DEF k
    <3>5. s \in m..tail /\ Unrefuted(a, tail, x, k, s) /\ \A r \in m..s - 1 : ~Unrefuted(a, tail, x, k, r)
      BY <1>4, <3>1, <3>2, <3>3, FirstOpenIs
    <3>6. t = s + w /\ w \in Nat
      <4>1. t = s + (k - x) - 1
        BY DEF After, k
      <4> HIDE DEF s, t
      <4> QED
        BY <3>1, <3>2, <3>5, <4>1
    <3> HIDE DEF s, t
    <3>7. s \in Nat /\ t \in Nat /\ t >= m /\ s \in m..e
      BY <1>3, <1>4, <3>3, <3>5, <3>6
    <3>8. \A r \in Nat : /\ Taken(a, x, r, w) => Unrefuted(a, tail, x, k, r)
                         /\ Unrefuted(a, tail, x, k, r) /\ r + w <= tail => Taken(a, x, r, w)
      BY <1>4, <3>1, <3>2, UnrefutedTaken
    <3>9. ASSUME NEW u \in lo..tail PROVE Later(a, j, e, k, u) <=> C[<<k, u>>]
      BY <1>6, <3>2
    <3>10. C[<<x, m>>] <=> t <= tail /\ C[<<k, t>>]
      BY <1>5, <2>2, <3>3 DEF k, t
    <3> HIDE DEF w
    <3>11. ASSUME Later(a, j, e, x, m) PROVE t <= tail /\ C[<<k, t>>]
      <4>1. PICK r \in m..e : Exact(a, j, e)[<<x, r>>]
        BY <3>11 DEF Later
      <4>2. r + w <= e /\ Taken(a, x, r, w) /\ Later(a, j, e, k, r + w)
        BY <3>4, <4>1
      <4>3. r \in Nat /\ r + w \in lo..e /\ r + w \in Nat
        BY <1>3, <1>4, <3>3, <3>6, <4>2
      <4>4. r + w <= tail
        BY <3>2, <4>2, <4>3, LaterLast
      <4>5. Unrefuted(a, tail, x, k, r)
        BY <3>8, <4>2, <4>3
      <4>6. s <= r
        <5>1. r \notin m..s - 1
          BY <3>5, <4>5
        <5> QED
          BY <3>3, <3>7, <4>3, <5>1
      <4>7. t <= r + w /\ t <= tail /\ t \in lo..tail
        BY <1>3, <1>4, <3>3, <3>6, <3>7, <4>3, <4>4, <4>6
      <4>8. Later(a, j, e, k, t)
        BY <1>3, <3>7, <4>2, <4>3, <4>7, LaterEarlier
      <4> QED
        BY <3>9, <4>7, <4>8
    <3>12. ASSUME t <= tail, C[<<k, t>>] PROVE Later(a, j, e, x, m)
      <4>1. t \in lo..tail
        BY <1>3, <1>4, <3>3, <3>7, <3>12
      <4>2. Later(a, j, e, k, s + w)
        BY <3>6, <3>9, <3>12, <4>1
      <4>3. Taken(a, x, s, w)
        BY <3>5, <3>6, <3>7, <3>8, <3>12
      <4>4. s + w <= e
        BY <1>3, <1>4, <3>6, <3>7, <3>12
      <4>5. Exact(a, j, e)[<<x, s>>]
        BY <3>4, <3>7, <4>2, <4>3, <4>4
      <4> QED
        BY <3>7, <4>5 DEF Later
    <3> QED
      BY <3>10, <3>11, <3>12
  <2> QED
    BY <2>1, <2>2
<1>7. Components(a, PatternChars(a), i, last, n, tail) = C[<<i, n>>]
  BY DEF Components, ComponentsOf, C
<1> HIDE DEF T, Claim
<1>8. i \in T
  BY <1>2, <1>6, AllDownward
<1>9. Claim(i, n)
  BY <1>8 DEF T
<1> QED
  BY <1>7, <1>9 DEF Claim
-----------------------------------------------------------------------------
(* The stars of a part of a pattern.                                       *)
StarsOf(a, i, j)   == {x \in i + 1..j : PatternChars(a)[x].c = STAR}
FirstStar(a, i, j) == CHOOSE x \in StarsOf(a, i, j) : \A y \in StarsOf(a, i, j) : x <= y
FinalStar(a, i, j) == CHOOSE x \in StarsOf(a, i, j) : \A y \in StarsOf(a, i, j) : y <= x

(* What fnmatch_internal tries with no star in the part, and with some.    *)
NoStars(a, i, j, n, e) == e - n = j - i /\ TakeAll(a, PatternChars(a), i, j, n)
SomeStars(a, i, j, first, last, n, e) ==
  /\ n + (first - i) - 1 <= e - (j - last)
  /\ TakeAll(a, PatternChars(a), i, first - 1, n)
  /\ TakeAll(a, PatternChars(a), last, j, e - (j - last))
  /\ Components(a, PatternChars(a), first, last, n + (first - i) - 1, e - (j - last))

(* The parts of fnmatch_internal.                                          *)
LEMMA InternalIs ==
  ASSUME NEW a, NEW i, NEW j, NEW n, NEW e
  PROVE  fnmatch_internal(a, PatternChars(a), i, j, n, e) <=>
           /\ "PERIOD" \in a.flags /\ S(a, n) = Period =>
                i < j /\ P(a, PatternChars(a)[i + 1].at) = Period
           /\ IF StarsOf(a, i, j) = {} THEN NoStars(a, i, j, n, e)
              ELSE SomeStars(a, i, j, FirstStar(a, i, j), FinalStar(a, i, j), n, e)
PROOF
  BY DEF fnmatch_internal, StarsOf, FirstStar, FinalStar, NoStars, SomeStars

(* A part with a star has a first and a last one.                          *)
LEMMA StarsAre ==
  ASSUME NEW a, NEW j \in Nat, NEW i \in 0..j, StarsOf(a, i, j) # {}
  PROVE  /\ FirstStar(a, i, j) \in i + 1..j /\ Char(a, FirstStar(a, i, j) - 1).c = STAR
         /\ \A x \in i..FirstStar(a, i, j) - 2 : Char(a, x).c # STAR
         /\ LastStar(a, j, FinalStar(a, i, j))
         /\ FirstStar(a, i, j) <= FinalStar(a, i, j)
PROOF
<1> DEFINE T == StarsOf(a, i, j)
           U == {y \in Nat : j - y \in T}
<1>1. T \subseteq Nat /\ U \subseteq Nat /\ \A x \in T : x \in i + 1..j /\ PatternChars(a)[x].c = STAR
  BY DEF StarsOf
<1>2. \A x \in i + 1..j : PatternChars(a)[x].c = STAR => x \in T
  BY DEF StarsOf
<1>3. U # {}
  <2>1. PICK x \in T : TRUE
    OBVIOUS
  <2>2. j - x \in Nat /\ j - (j - x) = x
    BY <1>1
  <2>3. j - x \in U
    BY <2>2
  <2> QED
    BY <2>3
<1>4. T # {}
  OBVIOUS
<1> HIDE DEF T
<1>5. PICK f \in T : \A y \in T : f <= y
  BY <1>1, <1>4, LeastNumber
<1>6. PICK u \in U : \A y \in U : u <= y
  <2> HIDE DEF U
  <2> QED
    BY <1>1, <1>3, LeastNumber
<1>7. j - u \in T /\ \A y \in T : y <= j - u
  <2>1. ASSUME NEW y \in T PROVE y <= j - u
    <3>1. j - y \in Nat /\ j - (j - y) = y /\ y \in Nat
      BY <1>1
    <3>2. j - y \in U
      BY <3>1
    <3> QED
      BY <1>6, <3>1, <3>2
  <2> QED
    BY <1>6, <2>1
<1>8. FirstStar(a, i, j) \in T /\ \A y \in T : FirstStar(a, i, j) <= y
  BY <1>5 DEF FirstStar, T
<1>9. FinalStar(a, i, j) \in T /\ \A y \in T : y <= FinalStar(a, i, j)
  BY <1>7 DEF FinalStar, T
<1> DEFINE first == FirstStar(a, i, j)
           last  == FinalStar(a, i, j)
<1>10. /\ first \in i + 1..j /\ first \in T /\ last \in i + 1..j /\ last \in T /\ first <= last
       /\ (\A y \in T : first <= y /\ y <= last)
       /\ PatternChars(a)[first].c = STAR /\ PatternChars(a)[last].c = STAR
  BY <1>1, <1>8, <1>9
<1> HIDE DEF first, last
<1>11. Char(a, first - 1).c = STAR
  <2>1. (first - 1) + 1 = first
    BY <1>10
  <2> QED
    BY <1>10, <2>1 DEF Char
<1>12. ASSUME NEW x \in i..first - 2 PROVE Char(a, x).c # STAR
  <2>1. x + 1 \in i + 1..j /\ ~(first <= x + 1)
    BY <1>10
  <2> QED
    BY <1>2, <1>10, <2>1 DEF Char
<1>13. ASSUME NEW x \in last..j - 1 PROVE Char(a, x).c # STAR
  <2>1. x + 1 \in i + 1..j /\ ~(x + 1 <= last)
    BY <1>10
  <2> QED
    BY <1>2, <1>10, <2>1 DEF Char
<1>14. LastStar(a, j, last)
  <2>1. last \in 1..j
    BY <1>10
  <2> QED
    BY <1>10, <1>13, <2>1 DEF LastStar
<1> QED
  BY <1>10, <1>11, <1>12, <1>14 DEF first, last

(* fnmatch_internal says whether a part of the pattern matches a part of   *)
(* the string.                                                             *)
LEMMA InternalMeans ==
  ASSUME NEW a, MuslCall(a), NEW j \in 0..Size(a), NEW i \in 0..j, NEW n, NEW e,
         Stretch(a, n, e), Starts(a, n), S(a, e) \in {EOS, Slash}
  PROVE  fnmatch_internal(a, PatternChars(a), i, j, n, e) <=> Exact(a, j, e)[<<i, n>>]
PROOF
<1> DEFINE Q == PatternChars(a)
           E == Exact(a, j, e)
           Dotted1 == LeadingPeriod(a, n) => i < j /\ P(a, At(a, i)) = Period
           first == FirstStar(a, i, j)
           last  == FinalStar(a, i, j)
           head  == n + (first - i) - 1
           tail  == e - (j - last)
<1>1. IsCall(a) /\ PlainBrackets(a)
  BY DEF MuslCall, MuslFollows
<1>2. Size(a) \in Nat /\ j \in Nat /\ i \in Nat /\ i <= j /\ j <= Size(a)
  BY <1>1, CharsAre
<1>3. /\ n \in Nat /\ e \in Nat /\ n <= e /\ n \in 0..e /\ n \in StringOffsets(a)
      /\ \A m \in n + 1..e : ~LeadingPeriod(a, m)
  BY <1>1, NoneLeads DEF Stretch
<1>4. LeadingPeriod(a, n) <=> "PERIOD" \in a.flags /\ S(a, n) = Period
  BY DEF LeadingPeriod, Starts
<1>5. (LeadingPeriod(a, n) => i < j /\ P(a, Q[i + 1].at) = Period) <=> Dotted1
  <2>1. ASSUME i < j PROVE Q[i + 1].at = At(a, i)
    <3>1. i \in 0..Size(a) - 1
      BY <1>2, <2>1
    <3>2. Char(a, i).at = At(a, i)
      BY <1>3, <3>1, CharTakes
    <3> QED
      BY <3>2 DEF Char
  <2> QED
    BY <2>1
<1>6. ASSUME E[<<i, n>>], LeadingPeriod(a, n)
      PROVE  i < j /\ P(a, At(a, i)) = Period
  <2>1. n # e
    BY <1>4, <1>6 DEF Period, Slash, EOS
  <2>2. i # j
    <3>1. j \in Nat /\ e \in Nat /\ n \in 0..e
      BY <1>2, <1>3
    <3>2. E[<<j, n>>] <=> n = e
      BY <3>1, ExactEnd
    <3> HIDE DEF E
    <3> QED
      BY <1>6, <2>1, <3>2
  <2>3. i \in 0..j - 1 /\ i \in 0..Size(a) - 1 /\ i < j
    BY <1>2, <2>2
  <2>4. Char(a, i).c # STAR
    <3> SUFFICES ASSUME Char(a, i).c = STAR PROVE FALSE
      OBVIOUS
    <3>1. E[<<i, n>>] <=> ~LeadingPeriod(a, n) /\ \E m \in n..e : E[<<i + 1, m>>]
      BY <1>2, <1>3, <2>3, ExactStar
    <3> QED
      BY <1>6, <3>1
  <2>5. E[<<i, n>>] <=> n < e /\ Takes1(a, At(a, i), n) /\ E[<<i + 1, n + 1>>]
    BY <1>2, <1>3, <2>3, <2>4, ExactChar
  <2>6. Takes1(a, At(a, i), n)
    <3> HIDE DEF E
    <3> QED
      BY <1>6, <2>5
  <2> QED
    BY <1>3, <1>6, <2>3, <2>4, <2>6, CharTakes
<1>7. ASSUME Dotted1, StarsOf(a, i, j) = {}
      PROVE  NoStars(a, i, j, n, e) <=> E[<<i, n>>]
  <2> DEFINE d == j - i
  <2>1. d \in 0..j - i /\ i + d = j /\ d \in Nat
    BY <1>2
  <2>2. \A z \in 0..d - 1 : Char(a, i + z).c # STAR
    <3> SUFFICES ASSUME NEW z \in 0..d - 1 PROVE Char(a, i + z).c # STAR
      OBVIOUS
    <3>1. i + z + 1 \in i + 1..j /\ (i + z) + 1 = i + z + 1
      BY <1>2
    <3> QED
      BY <1>7, <3>1 DEF StarsOf, Char
  <2>3. TakeAll(a, Q, i, j, n) <=> Taken(a, i, n, d)
    BY <1>2, <1>3, TakeAllIs
  <2>4. LeadingPeriod(a, n) => P(a, At(a, i)) = Period
    BY <1>7
  <2> HIDE DEF d, E
  <2>5. E[<<i, n>>] <=> n + d <= e /\ Taken(a, i, n, d) /\ E[<<i + d, n + d>>]
    BY <2>1, <2>2, <2>4, RunMeans DEF E
  <2>6. ASSUME n + d <= e PROVE E[<<i + d, n + d>>] <=> n + d = e
    <3> DEFINE k == n + d
    <3>1. k \in 0..e
      BY <1>3, <2>1, <2>6
    <3> HIDE DEF k
    <3>2. E[<<j, k>>] <=> k = e
      BY <1>2, <1>3, <3>1, ExactEnd DEF E
    <3> QED
      BY <2>1, <3>2 DEF k
  <2>7. e - n = j - i <=> n + d <= e /\ n + d = e
    BY <1>2, <1>3, <2>1
  <2> QED
    BY <2>3, <2>5, <2>6, <2>7 DEF NoStars
<1>8. ASSUME Dotted1, StarsOf(a, i, j) # {}
      PROVE  SomeStars(a, i, j, first, last, n, e) <=> E[<<i, n>>]
  <2>1. /\ first \in i + 1..j /\ Char(a, first - 1).c = STAR
        /\ \A x \in i..first - 2 : Char(a, x).c # STAR
        /\ LastStar(a, j, last) /\ first <= last
    BY <1>2, <1>8, StarsAre
  <2> HIDE DEF first, last
  <2>2. last \in 1..j
    BY <2>1 DEF LastStar
  <2> DEFINE d == first - i - 1
  <2>3. d \in 0..j - i /\ d \in Nat /\ head = n + d /\ i + d = first - 1 /\ head \in Nat /\ tail \in Int /\ tail <= e
        /\ first \in 1..j /\ first \in 0..last /\ first - 1 \in Nat /\ (first - 1) - i = d /\ last \in Nat
    BY <1>2, <1>3, <2>1, <2>2
  <2>4. \A z \in 0..d - 1 : Char(a, i + z).c # STAR
    BY <1>2, <2>1
  <2>5. TakeAll(a, Q, i, first - 1, n) <=> Taken(a, i, n, d)
    BY <1>2, <1>3, <2>3, TakeAllIs
  <2>6. TakeAll(a, Q, last, j, tail) <=> Taken(a, last, tail, j - last)
    BY <1>2, <2>3, TakeAllIs
  <2>7. LeadingPeriod(a, n) => P(a, At(a, i)) = Period
    BY <1>8
  <2> HIDE DEF d, E, head, tail, Q
  <2>8. E[<<i, n>>] <=> n + d <= e /\ Taken(a, i, n, d) /\ E[<<i + d, n + d>>]
    <3>1. d \in 0..j - i
      BY <2>3
    <3> QED
      BY <2>4, <2>7, <3>1, RunMeans DEF E
  <2>9. ASSUME head <= e PROVE Free(a, head, e)
    <3>1. ~LeadingPeriod(a, head)
      <4>1. CASE d = 0
        <5>1. head = n /\ i = first - 1 /\ i \in 0..Size(a) - 1
          BY <1>2, <1>3, <2>3, <4>1
        <5>2. P(a, At(a, i)) = Star
          BY <1>3, <2>1, <5>1, CharTakes
        <5> QED
          BY <2>7, <5>1, <5>2 DEF Star, Period
      <4>2. CASE d # 0
        <5>1. head \in n + 1..e
          BY <1>3, <2>3, <2>9, <4>2
        <5> QED
          BY <1>3, <5>1
      <4> QED
        BY <4>1, <4>2
    <3>2. Stretch(a, head, e)
      <4>1. \A k \in head..e - 1 : k \in n..e - 1
        BY <1>3, <2>3
      <4>2. head \in StringOffsets(a)
        <5>1. head <= e /\ n <= head /\ StringOffsets(a) = 0..StringEnd(a) /\ e \in StringOffsets(a) /\ StringEnd(a) \in Nat
          BY <1>1, <1>3, <2>3, <2>9, Bytes DEF Stretch
        <5> QED
          BY <2>3, <5>1
      <4> QED
        BY <2>9, <4>1, <4>2 DEF Stretch, Span
    <3> QED
      BY <3>1, <3>2 DEF Free
  <2>10. ASSUME head <= e
         PROVE  E[<<i + d, n + d>>] <=>
                  /\ head <= tail /\ Taken(a, last, tail, j - last)
                  /\ Components(a, Q, first, last, head, tail)
    <3>1. E[<<first - 1, head>>] <=> Later(a, j, e, first, head)
      BY <2>1, <2>3, <2>9, <2>10, LaterStar DEF E
    <3>2. head \in head..e
      BY <2>3, <2>10
    <3>3. ASSUME Later(a, j, e, first, head)
          PROVE  head <= e - (j - last) /\ Taken(a, last, e - (j - last), j - last)
      BY <2>1, <2>3, <2>9, <2>10, <3>2, <3>3, LaterLast
    <3>4. ASSUME head <= tail, Taken(a, last, tail, j - last)
          PROVE  Later(a, j, e, first, head) <=> Components(a, Q, first, last, head, tail)
      <4>1. tail = e - (j - last) /\ tail \in head..e /\ head \in head..tail
        BY <1>3, <2>3, <3>4 DEF tail
      <4> QED
        BY <2>1, <2>3, <2>9, <2>10, <3>4, <4>1, ComponentsMean DEF Q
    <3>5. ASSUME Later(a, j, e, first, head)
          PROVE  head <= tail /\ Taken(a, last, tail, j - last)
      BY <3>3, <3>5 DEF tail
    <3> QED
      BY <2>3, <3>1, <3>4, <3>5
  <2>11. head <= tail => head <= e
    BY <1>3, <2>3
  <2>12. SomeStars(a, i, j, first, last, n, e) <=>
           /\ head <= tail /\ TakeAll(a, Q, i, first - 1, n) /\ TakeAll(a, Q, last, j, tail)
           /\ Components(a, Q, first, last, head, tail)
    BY DEF SomeStars, head, tail, Q
  <2> QED
    BY <2>3, <2>5, <2>6, <2>8, <2>10, <2>11, <2>12
<1>9. fnmatch_internal(a, Q, i, j, n, e) <=>
        /\ LeadingPeriod(a, n) => i < j /\ P(a, Q[i + 1].at) = Period
        /\ IF StarsOf(a, i, j) = {} THEN NoStars(a, i, j, n, e)
           ELSE SomeStars(a, i, j, first, last, n, e)
  BY <1>4, InternalIs
<1> HIDE DEF E, first, last
<1> QED
  BY <1>5, <1>6, <1>7, <1>8, <1>9 DEF E
-----------------------------------------------------------------------------
(* Where a slash ends a segment of the pattern.                            *)
PartEnd(a, i) ==
  CHOOSE j \in i..Len(PatternChars(a)) :
    (j < Len(PatternChars(a)) => PatternChars(a)[j + 1].c = Slash)
      /\ \A x \in i + 1..j : PatternChars(a)[x].c # Slash

(* A segment of the pattern ends at its first slash.                       *)
LEMMA PartEndIs ==
  ASSUME NEW a, MuslCall(a), NEW i \in 0..Size(a)
  PROVE  /\ PartEnd(a, i) \in i..Size(a) /\ (PartEnd(a, i) < Size(a) => Char(a, PartEnd(a, i)).c = Slash)
         /\ \A x \in i..PartEnd(a, i) - 1 : Char(a, x).c # Slash
PROOF
<1> DEFINE N == Size(a)
           T == {j \in i..N : j < N => Char(a, j).c = Slash}
<1>1. N \in Nat /\ i \in Nat
  BY CharsAre DEF MuslCall, MuslFollows
<1>2. N \in T /\ T \subseteq Nat
  BY <1>1
<1>3. PICK k \in T : \A y \in T : k <= y
  <2> HIDE DEF T
  <2> QED
    BY <1>2, LeastNumber
<1>4. k \in i..N /\ k \in Nat /\ (k < N => Char(a, k).c = Slash)
  BY <1>2, <1>3
<1>5. ASSUME NEW x \in i..k - 1 PROVE Char(a, x).c # Slash
  <2>1. x \in i..N /\ ~(k <= x)
    BY <1>1, <1>4
  <2> QED
    BY <1>3, <2>1
<1>6. ASSUME NEW x \in i + 1..k PROVE PatternChars(a)[x].c # Slash
  <2>1. x - 1 \in i..k - 1 /\ (x - 1) + 1 = x
    BY <1>1, <1>4
  <2> QED
    BY <1>5, <2>1 DEF Char
<1>7. (k < N => PatternChars(a)[k + 1].c = Slash)
  BY <1>4 DEF Char
<1> HIDE DEF T
<1>8. /\ PartEnd(a, i) \in i..N /\ (PartEnd(a, i) < N => PatternChars(a)[PartEnd(a, i) + 1].c = Slash)
      /\ \A x \in i + 1..PartEnd(a, i) : PatternChars(a)[x].c # Slash
  BY <1>4, <1>6, <1>7 DEF PartEnd, Size
<1> DEFINE l == PartEnd(a, i)
<1> HIDE DEF l, N
<1>9. ASSUME NEW x \in i..l - 1 PROVE Char(a, x).c # Slash
  <2>1. x + 1 \in i + 1..l
    BY <1>1, <1>8 DEF l
  <2> QED
    BY <1>8, <2>1 DEF Char, l
<1>10. l < N => Char(a, l).c = Slash
  BY <1>8 DEF Char, l
<1> QED
  BY <1>8, <1>9, <1>10 DEF l, N

(* One segment, and those that follow it.                                  *)
SegmentFits(a, i, n) ==
  /\ IF PartEnd(a, i) < Size(a) THEN S(a, SegmentEnd(a, n)) = Slash
     ELSE S(a, SegmentEnd(a, n)) = EOS \/ (S(a, SegmentEnd(a, n)) = Slash /\ "LEADING_DIR" \in a.flags)
  /\ fnmatch_internal(a, PatternChars(a), i, PartEnd(a, i), n, SegmentEnd(a, n))
(* What musl asks of a segment.                                            *)
LEMMA SegmentsAre ==
  ASSUME NEW a, NEW i, NEW n, NEW G
  PROVE  SegmentsFrom(G, a, PatternChars(a), i, n) <=>
           /\ SegmentFits(a, i, n)
           /\ PartEnd(a, i) < Size(a) => G[<<PartEnd(a, i) + 1, SegmentEnd(a, n) + 1>>]
PROOF
<1> DEFINE e == SegmentEnd(a, n)
           k == PartEnd(a, i)
           c == IF k < Size(a) THEN Slash ELSE END
<1>1. SegmentsFrom(G, a, PatternChars(a), i, n) <=>
        /\ c = S(a, e) \/ (S(a, e) = Slash /\ "LEADING_DIR" \in a.flags)
        /\ fnmatch_internal(a, PatternChars(a), i, k, n, e)
        /\ c = END \/ G[<<k + 1, e + 1>>]
  BY DEF SegmentsFrom, PartEnd, Size
<1> HIDE DEF e, k
<1> QED
  BY <1>1 DEF SegmentFits, e, k, Slash, END, EOS

SegmentsOf(a) ==
  CHOOSE G : G = [x \in (0..Len(PatternChars(a))) \X StringOffsets(a) |->
                    SegmentsFrom(G, a, PatternChars(a), x[1], x[2])]

(* musl's segments are asked about one after the other.                    *)
LEMMA SegmentsExist ==
  ASSUME NEW a, MuslCall(a)
  PROVE  \A i \in 0..Size(a), n \in StringOffsets(a) :
           /\ SegmentsOf(a)[<<i, n>>] \in BOOLEAN
           /\ SegmentsOf(a)[<<i, n>>] <=>
                /\ SegmentFits(a, i, n)
                /\ PartEnd(a, i) < Size(a) => SegmentsOf(a)[<<PartEnd(a, i) + 1, SegmentEnd(a, n) + 1>>]
PROOF
<1> DEFINE L == Size(a)
           D == (0..L) \X StringOffsets(a)
           V == BOOLEAN
           place == [i \in D |-> i[1]]
           F(f, i, n) == SegmentsFrom(f, a, PatternChars(a), i, n)
           B == [f \in [D -> V] |-> [i \in D |-> F(f, i[1], i[2])]]
<1>0. IsCall(a) /\ L \in Nat
  BY CharsAre DEF MuslCall, MuslFollows
<1> HIDE DEF L
<1>1. \A x \in 0..L, n \in StringOffsets(a) : <<x, n>> \in D
  OBVIOUS
<1>2. \A i \in D : i[1] \in 0..L /\ i[2] \in StringOffsets(a) /\ i = <<i[1], i[2]>>
  OBVIOUS
<1>3. place \in [D -> 0..L] /\ (\A i \in D : place[i] = i[1])
      /\ \A x \in 0..L, n \in StringOffsets(a) : place[<<x, n>>] = x
  OBVIOUS
<1>4. ASSUME NEW x \in 0..L, NEW n \in StringOffsets(a), NEW f \in [D -> V], NEW g \in [D -> V],
             \A y \in x + 1..L, m \in StringOffsets(a) : f[<<y, m>>] = g[<<y, m>>]
      PROVE  F(f, x, n) = F(g, x, n)
  <2>0. F(f, x, n) \in BOOLEAN /\ F(g, x, n) \in BOOLEAN
    BY DEF SegmentsFrom
  <2> DEFINE k == PartEnd(a, x)
             e == SegmentEnd(a, n)
  <2>1. F(f, x, n) <=> SegmentFits(a, x, n) /\ (k < L => f[<<k + 1, e + 1>>])
    BY SegmentsAre DEF L
  <2>2. F(g, x, n) <=> SegmentFits(a, x, n) /\ (k < L => g[<<k + 1, e + 1>>])
    BY SegmentsAre DEF L
  <2>3. ASSUME SegmentFits(a, x, n), k < L PROVE f[<<k + 1, e + 1>>] = g[<<k + 1, e + 1>>]
    <3>1. k \in x..L
      BY PartEndIs DEF L
    <3>2. e \in n..StringEnd(a) /\ n \in Nat
      BY <1>0, SegmentEnds, Bytes
    <3>3. S(a, e) = Slash
      BY <2>3 DEF SegmentFits, L
    <3>4. e \in StringOffsets(a)
      BY <1>0, <3>2, Bytes
    <3>5. e + 1 \in StringOffsets(a)
      BY <1>0, <3>3, <3>4, InsideBound DEF Slash, EOS
    <3>6. k + 1 \in x + 1..L
      BY <1>0, <2>3, <3>1
    <3> QED
      BY <1>4, <3>5, <3>6
  <2> HIDE DEF F, k, e
  <2> QED
    BY <2>0, <2>1, <2>2, <2>3
<1>5. \A f, x, n : F(f, x, n) \in BOOLEAN
  BY DEF SegmentsFrom
<1> HIDE DEF D, F
<1>6. B \in [[D -> V] -> [D -> V]]
  BY <1>5
<1>7. \A f \in [D -> V] : /\ B[f] = [i \in D |-> F(f, i[1], i[2])]
                          /\ \A i \in D : B[f][i] = F(f, i[1], i[2])
  OBVIOUS
<1> HIDE DEF B, place
<1>8. ASSUME NEW f \in [D -> V], NEW g \in [D -> V], NEW i \in D,
             \A k \in D : place[k] > place[i] => f[k] = g[k]
      PROVE  B[f][i] = B[g][i]
  <2>1. B[f][i] = F(f, i[1], i[2]) /\ B[g][i] = F(g, i[1], i[2])
    BY <1>7
  <2>2. i[1] \in 0..L /\ i[2] \in StringOffsets(a)
    BY <1>2
  <2>3. ASSUME NEW y \in i[1] + 1..L, NEW m \in StringOffsets(a) PROVE f[<<y, m>>] = g[<<y, m>>]
    <3>1. y \in 0..L /\ y > i[1]
      BY <1>0, <2>2
    <3>2. <<y, m>> \in D /\ place[<<y, m>>] > place[i]
      BY <1>1, <1>3, <3>1
    <3> QED
      BY <1>8, <3>2
  <2>4. F(f, i[1], i[2]) = F(g, i[1], i[2])
    BY <1>4, <2>2, <2>3
  <2> QED
    BY <2>1, <2>4
<1>9. PICK f \in [D -> V] : f = B[f]
  <2>1. L \in Nat /\ V # {} /\ place \in [D -> 0..L]
    BY <1>0, <1>3
  <2> HIDE DEF V
  <2>2. Onward(B, D, V, L, place)
    BY <1>6, <1>8, <2>1 DEF Onward
  <2> QED
    BY <2>2, RecursionOnward
<1>10. f = [i \in D |-> F(f, i[1], i[2])]
  BY <1>7, <1>9
<1> DEFINE E == SegmentsOf(a)
<1>11. E = [i \in D |-> F(E, i[1], i[2])]
  BY <1>10 DEF SegmentsOf, D, F, L, Size
<1> HIDE DEF E
<1>12. \A i \in D : E[i] = F(E, i[1], i[2])
  BY <1>11
<1>13. ASSUME NEW x \in 0..L, NEW n \in StringOffsets(a)
       PROVE  /\ E[<<x, n>>] \in BOOLEAN
              /\ E[<<x, n>>] <=>
                   /\ SegmentFits(a, x, n)
                   /\ PartEnd(a, x) < L => E[<<PartEnd(a, x) + 1, SegmentEnd(a, n) + 1>>]
  <2>1. <<x, n>> \in D
    BY <1>1
  <2>2. E[<<x, n>>] = F(E, x, n)
    BY <1>12, <2>1
  <2>3. F(E, x, n) <=>
          SegmentFits(a, x, n) /\ (PartEnd(a, x) < L => E[<<PartEnd(a, x) + 1, SegmentEnd(a, n) + 1>>])
    BY SegmentsAre DEF F, L
  <2> QED
    BY <1>5, <2>2, <2>3
<1> QED
  BY <1>13 DEF E, L
-----------------------------------------------------------------------------
(* A stretch under PATHNAME that a slash or the end follows is a segment.  *)
LEMMA StretchEnds ==
  ASSUME NEW a, IsCall(a), NEW n \in StringOffsets(a), NEW e \in StringOffsets(a), n <= e,
         Span(a, n, e), "PATHNAME" \in a.flags, S(a, e) \in {Slash, EOS}
  PROVE  e = SegmentEnd(a, n)
PROOF
<1> DEFINE s == SegmentEnd(a, n)
<1>1. s \in n..StringEnd(a) /\ S(a, s) \in {Slash, EOS} /\ \A m \in n..s - 1 : S(a, m) \notin {Slash, EOS}
  BY SegmentEnds
<1>2. n \in Nat /\ e \in Nat /\ StringEnd(a) \in Nat
  BY Bytes
<1> HIDE DEF s
<1>3. ~(e < s)
  <2> SUFFICES ASSUME e < s PROVE FALSE
    OBVIOUS
  <2>1. e \in n..s - 1
    BY <1>1, <1>2
  <2> QED
    BY <1>1, <2>1
<1>4. ~(s < e)
  <2> SUFFICES ASSUME s < e PROVE FALSE
    OBVIOUS
  <2>1. s \in n..e - 1
    BY <1>1, <1>2
  <2>2. Inside(a, s)
    BY <2>1 DEF Span
  <2> QED
    BY <1>1, <2>2 DEF Inside
<1> QED
  BY <1>1, <1>2, <1>3, <1>4 DEF s

(* The segment of n is a stretch.                                          *)
LEMMA SegmentStretch ==
  ASSUME NEW a, IsCall(a), NEW n \in StringOffsets(a)
  PROVE  Stretch(a, n, SegmentEnd(a, n)) /\ S(a, SegmentEnd(a, n)) \in {Slash, EOS}
PROOF
<1> DEFINE s == SegmentEnd(a, n)
<1>1. s \in n..StringEnd(a) /\ S(a, s) \in {Slash, EOS} /\ \A m \in n..s - 1 : S(a, m) \notin {Slash, EOS}
  BY SegmentEnds
<1> HIDE DEF s
<1>2. n \in Nat /\ StringEnd(a) \in Nat /\ StringOffsets(a) = 0..StringEnd(a)
  BY Bytes
<1>3. s \in StringOffsets(a) /\ n <= s
  BY <1>1, <1>2
<1>4. Span(a, n, s)
  BY <1>1 DEF Span, Inside
<1> QED
  BY <1>1, <1>3, <1>4 DEF Stretch, s

(* One segment under PATHNAME.                                             *)
LEMMA SegmentAgrees ==
  ASSUME NEW a, MuslCall(a), "PATHNAME" \in a.flags, NEW i \in 0..Size(a),
         NEW n \in StringOffsets(a), Starts(a, n)
  PROVE  /\ Match(a)[<<At(a, i), n>>] <=>
              /\ SegmentFits(a, i, n)
              /\ PartEnd(a, i) < Size(a) => Match(a)[<<At(a, PartEnd(a, i) + 1), SegmentEnd(a, n) + 1>>]
         /\ SegmentFits(a, i, n) /\ PartEnd(a, i) < Size(a) =>
              SegmentEnd(a, n) + 1 \in StringOffsets(a) /\ Starts(a, SegmentEnd(a, n) + 1)
PROOF
<1> DEFINE M == Match(a)
           k == PartEnd(a, i)
           e == SegmentEnd(a, n)
           After1(m) == IF k < Size(a) THEN S(a, m) = Slash /\ M[<<At(a, k + 1), m + 1>>]
                        ELSE S(a, m) = EOS \/ ("LEADING_DIR" \in a.flags /\ S(a, m) = Slash)
<1>1. IsCall(a) /\ PlainBrackets(a)
  BY DEF MuslCall, MuslFollows
<1>2. Size(a) \in Nat /\ At(a, Size(a)) = PatternEnd(a)
  BY <1>1, CharsAre
<1>3. /\ k \in i..Size(a) /\ (k < Size(a) => Char(a, k).c = Slash)
      /\ \A x \in i..k - 1 : Char(a, x).c # Slash
  BY PartEndIs
<1>4. Stretch(a, n, e) /\ S(a, e) \in {EOS, Slash}
  BY <1>1, SegmentStretch
<1>5. e \in StringOffsets(a) /\ n <= e /\ Span(a, n, e)
  BY <1>4 DEF Stretch
<1> HIDE DEF k, e
<1>6. k \in 0..Size(a) /\ i \in 0..k
  BY <1>2, <1>3
<1>7. fnmatch_internal(a, PatternChars(a), i, k, n, e) <=> Exact(a, k, e)[<<i, n>>]
  BY <1>4, <1>6, InternalMeans
<1>8. NoSlash(a, i, k)
  BY <1>3 DEF NoSlash
<1>9. M[<<At(a, i), n>>] <=>
        \E m \in StringOffsets(a) :
          n <= m /\ Span(a, n, m) /\ Exact(a, k, m)[<<i, n>>] /\ M[<<At(a, k), m>>]
  BY <1>6, <1>8, ExactEnds
<1>10. ASSUME NEW m \in StringOffsets(a) PROVE M[<<At(a, k), m>>] <=> After1(m)
  <2>1. CASE k < Size(a)
    <3>1. k \in 0..Size(a) - 1
      BY <1>2, <1>6, <2>1
    <3>2. Char(a, k).c = Slash /\ Char(a, k).c # STAR
      BY <1>3, <2>1 DEF Slash, STAR
    <3>3. /\ At(a, k) \in PatternOffsets(a) /\ P(a, At(a, k)) # EOS /\ P(a, At(a, k)) # Star
          /\ At(a, k + 1) = TokenEnd(a, At(a, k))
          /\ Takes1(a, At(a, k), m) <=> S(a, m) = Slash
      BY <3>1, <3>2, CharTakes
    <3>4. M[<<At(a, k), m>>] <=> Takes1(a, At(a, k), m) /\ M[<<At(a, k + 1), m + 1>>]
      BY <1>1, <3>3, Steps
    <3> QED
      BY <2>1, <3>3, <3>4
  <2>2. CASE ~(k < Size(a))
    <3>1. At(a, k) = PatternEnd(a)
      BY <1>2, <1>6, <2>2
    <3>2. PatternEnd(a) \in PatternOffsets(a) /\ P(a, PatternEnd(a)) = EOS
      BY <1>1, Bytes
    <3>3. M[<<At(a, k), m>>] <=> S(a, m) = EOS \/ ("LEADING_DIR" \in a.flags /\ S(a, m) = Slash)
      BY <1>1, <3>1, <3>2, Steps
    <3> QED
      BY <2>2, <3>3
  <2> QED
    BY <2>1, <2>2
<1>11. \A m : After1(m) => S(a, m) \in {Slash, EOS}
  OBVIOUS
<1>12. ASSUME NEW m \in StringOffsets(a), n <= m, Span(a, n, m), After1(m) PROVE m = e
  BY <1>1, <1>11, <1>12, StretchEnds DEF e
<1> HIDE DEF After1, M
<1>13. M[<<At(a, i), n>>] <=> Exact(a, k, e)[<<i, n>>] /\ After1(e)
  BY <1>5, <1>9, <1>10, <1>12
<1>14. SegmentFits(a, i, n) <=>
         /\ IF k < Size(a) THEN S(a, e) = Slash
            ELSE S(a, e) = EOS \/ (S(a, e) = Slash /\ "LEADING_DIR" \in a.flags)
         /\ Exact(a, k, e)[<<i, n>>]
  BY <1>7 DEF SegmentFits, k, e
<1>15. M[<<At(a, i), n>>] <=> SegmentFits(a, i, n) /\ (k < Size(a) => M[<<At(a, k + 1), e + 1>>])
  BY <1>13, <1>14 DEF After1
<1>16. ASSUME SegmentFits(a, i, n), k < Size(a)
       PROVE  e + 1 \in StringOffsets(a) /\ Starts(a, e + 1)
  <2>1. S(a, e) = Slash
    BY <1>14, <1>16
  <2>2. e \in Nat /\ e + 1 \in StringOffsets(a) /\ (e + 1) - 1 = e
    BY <1>1, <1>5, <2>1, InsideBound DEF Slash, EOS
  <2> QED
    BY <2>1, <2>2 DEF Starts
<1> QED
  BY <1>15, <1>16 DEF M, k, e

(* Segment by segment.                                                     *)
LEMMA SegmentsMean ==
  ASSUME NEW a, MuslCall(a), "PATHNAME" \in a.flags
  PROVE  Segments(a, PatternChars(a)) <=> Matches(a)
PROOF
<1> DEFINE M == Match(a)
           G == SegmentsOf(a)
           T == {i \in 0..Size(a) : \A n \in StringOffsets(a) :
                   Starts(a, n) => (G[<<i, n>>] <=> M[<<At(a, i), n>>])}
<1>1. IsCall(a) /\ PlainBrackets(a)
  BY DEF MuslCall, MuslFollows
<1>2. Size(a) \in Nat /\ At(a, 0) = 0 /\ 0 \in StringOffsets(a)
  BY <1>1, CharsAre, Bytes
<1> HIDE DEF G, M
<1>3. ASSUME NEW i \in 0..Size(a), \A y \in i + 1..Size(a) : y \in T
      PROVE  i \in T
  <2> SUFFICES ASSUME NEW n \in StringOffsets(a), Starts(a, n)
               PROVE  G[<<i, n>>] <=> M[<<At(a, i), n>>]
    OBVIOUS
  <2> DEFINE k == PartEnd(a, i)
             e == SegmentEnd(a, n)
  <2>1. G[<<i, n>>] <=> SegmentFits(a, i, n) /\ (k < Size(a) => G[<<k + 1, e + 1>>])
    BY SegmentsExist DEF G
  <2>2. /\ M[<<At(a, i), n>>] <=> SegmentFits(a, i, n) /\ (k < Size(a) => M[<<At(a, k + 1), e + 1>>])
        /\ SegmentFits(a, i, n) /\ k < Size(a) => e + 1 \in StringOffsets(a) /\ Starts(a, e + 1)
    BY SegmentAgrees DEF M
  <2>3. k \in i..Size(a)
    BY PartEndIs
  <2> HIDE DEF k, e
  <2>4. k < Size(a) => k + 1 \in i + 1..Size(a)
    BY <1>2, <2>3
  <2>5. ASSUME SegmentFits(a, i, n), k < Size(a)
        PROVE  G[<<k + 1, e + 1>>] <=> M[<<At(a, k + 1), e + 1>>]
    <3>1. k + 1 \in T
      BY <1>3, <2>4, <2>5
    <3> QED
      BY <2>2, <2>5, <3>1
  <2> QED
    BY <2>1, <2>2, <2>5
<1> HIDE DEF T
<1>4. 0 \in T
  <2>1. 0..Size(a) \subseteq T
    BY <1>2, <1>3, AllDownward
  <2> QED
    BY <1>2, <2>1
<1>5. G[<<0, 0>>] <=> M[<<0, 0>>]
  BY <1>2, <1>4 DEF T, Starts
<1>6. Segments(a, PatternChars(a)) = G[<<0, 0>>]
  BY DEF Segments, SegmentsOf, G
<1> QED
  BY <1>5, <1>6 DEF Matches, M

(* For the patterns it reads as POSIX does, musl answers as POSIX does.    *)
THEOREM MuslMeans ==
  ASSUME NEW a, MuslCall(a)
  PROVE  musl(a) <=> Matches(a)
PROOF
<1>1. IsCall(a) /\ PlainBrackets(a)
  BY DEF MuslCall, MuslFollows
<1>2. CASE "PATHNAME" \in a.flags
  BY <1>2, SegmentsMean DEF musl
<1>3. CASE "PATHNAME" \notin a.flags
  <2> DEFINE N == StringEnd(a)
             M == Match(a)
             j == Size(a)
             Ends1(m) == m = N \/ (S(a, m) = Slash /\ "LEADING_DIR" \in a.flags)
  <2>1. /\ j \in Nat /\ j \in 0..j /\ 0 \in 0..j /\ At(a, 0) = 0 /\ At(a, j) = PatternEnd(a)
        /\ N \in Nat /\ StringOffsets(a) = 0..N /\ 0 \in StringOffsets(a)
        /\ PatternEnd(a) \in PatternOffsets(a) /\ P(a, PatternEnd(a)) = EOS
        /\ \A m \in 0..N : S(a, m) = EOS <=> m = N
    <3>1. j \in Nat /\ At(a, 0) = 0 /\ At(a, j) = PatternEnd(a)
      BY <1>1, CharsAre
    <3>2. /\ N \in Nat /\ StringOffsets(a) = 0..N /\ PatternEnd(a) \in PatternOffsets(a)
          /\ P(a, PatternEnd(a)) = EOS /\ \A m \in Int : S(a, m) # EOS <=> m \in 0..N - 1
      BY <1>1, Bytes
    <3> HIDE DEF N, j
    <3>3. \A m \in 0..N : m \in Int /\ (m \notin 0..N - 1 <=> m = N)
      BY <3>2
    <3> QED
      BY <3>1, <3>2, <3>3
  <2>2. musl(a) <=> \E m \in StringOffsets(a) : Ends1(m) /\ fnmatch_internal(a, PatternChars(a), 0, j, 0, m)
    BY <1>3 DEF musl, Size, StringEnd
  <2> HIDE DEF j, N
  <2>3. \A m \in StringOffsets(a) : 0 <= m /\ Span(a, 0, m)
    <3> SUFFICES ASSUME NEW m \in StringOffsets(a) PROVE 0 <= m /\ Span(a, 0, m)
      OBVIOUS
    <3>1. \A k \in 0..m - 1 : k \in 0..N /\ k # N
      BY <2>1
    <3> QED
      BY <1>3, <2>1, <3>1 DEF Span, Inside
  <2>4. ASSUME NEW m \in StringOffsets(a), Ends1(m)
        PROVE  fnmatch_internal(a, PatternChars(a), 0, j, 0, m) <=> Exact(a, j, m)[<<0, 0>>]
    <3>1. Stretch(a, 0, m)
      BY <2>1, <2>3 DEF Stretch
    <3>2. S(a, m) \in {EOS, Slash}
      BY <2>1, <2>4
    <3>3. Starts(a, 0)
      BY DEF Starts
    <3> QED
      BY <2>1, <3>1, <3>2, <3>3, InternalMeans DEF j
  <2>5. NoSlash(a, 0, j)
    BY <1>3 DEF NoSlash
  <2>6. M[<<0, 0>>] <=>
          \E m \in StringOffsets(a) :
            0 <= m /\ Span(a, 0, m) /\ Exact(a, j, m)[<<0, 0>>] /\ M[<<At(a, j), m>>]
    <3>1. M[<<At(a, 0), 0>>] <=>
            \E m \in StringOffsets(a) :
              0 <= m /\ Span(a, 0, m) /\ Exact(a, j, m)[<<0, 0>>] /\ M[<<At(a, j), m>>]
      BY <2>1, <2>5, ExactEnds DEF j
    <3> QED
      BY <2>1, <3>1
  <2>7. ASSUME NEW m \in StringOffsets(a) PROVE M[<<At(a, j), m>>] <=> Ends1(m)
    <3>1. M[<<PatternEnd(a), m>>] <=> S(a, m) = EOS \/ ("LEADING_DIR" \in a.flags /\ S(a, m) = Slash)
      BY <1>1, <2>1, Steps
    <3> QED
      BY <2>1, <3>1
  <2> HIDE DEF M, Ends1
  <2>8. musl(a) <=> M[<<0, 0>>]
    BY <2>2, <2>3, <2>4, <2>6, <2>7
  <2> QED
    BY <2>8 DEF Matches, M
<1> QED
  BY <1>2, <1>3
-----------------------------------------------------------------------------
(* The answers of the collected implementations.                           *)

(* An answer is TRUE or FALSE.                                             *)
LEMMA AnswersAre ==
  ASSUME NEW a, IsCall(a)
  PROVE  /\ Matches(a) \in BOOLEAN
         /\ NetBSDFollows(a) => netbsd(a) \in BOOLEAN
         /\ GNUDefined(a) /\ GNUFollows(a) => gnu(a) \in BOOLEAN
         /\ OpenBSDFollows(a) => openbsd(a) \in BOOLEAN
         /\ MuslCall(a) => musl(a) \in BOOLEAN
PROOF
<1>1. 0 \in PatternOffsets(a) /\ 0 \in StringOffsets(a) /\ TRUE \in BOOLEAN
  BY Bytes
<1>2. Matches(a) \in BOOLEAN
  <2>1. <<0, 0>> \in PatternOffsets(a) \X StringOffsets(a)
    BY <1>1
  <2> QED
    BY <2>1, MatchExists DEF Matches
<1>3. ASSUME NetBSDFollows(a) PROVE netbsd(a) \in BOOLEAN
  <2>1. netbsd(a) = NetBSDOf(a)[<<0, 0, TRUE>>]
    BY DEF netbsd, NetBSDOf
  <2>2. NetBSDOf(a)[<<0, 0, TRUE>>] = NetBSDFrom(NetBSDOf(a), a, 0, 0, TRUE)
    BY <1>1, <1>3, NetBSDExists DEF NetBSDFollows
  <2>3. NetBSDCases(NetBSDOf(a), a, 0, 0, TRUE)
    BY NetBSDIs
  <2>4. NetBSDFrom(NetBSDOf(a), a, 0, 0, TRUE) \in BOOLEAN
    BY <2>3 DEF NetBSDCases
  <2> QED
    BY <2>1, <2>2, <2>4
<1>4. ASSUME GNUDefined(a), GNUFollows(a) PROVE gnu(a) \in BOOLEAN
  <2>1. gnu(a) = GNUOf(a)[<<0, 0, TRUE>>]
    BY DEF gnu, GNUOf
  <2>2. GNUOf(a)[<<0, 0, TRUE>>] = GNUFrom(GNUOf(a), a, 0, 0, TRUE)
    BY <1>1, <1>4, GNUExists DEF GNUFollows
  <2>3. GNUCases(GNUOf(a), a, 0, 0, TRUE)
    BY GNUIs
  <2>4. GNUFrom(GNUOf(a), a, 0, 0, TRUE) \in BOOLEAN
    BY <2>3 DEF GNUCases
  <2> QED
    BY <2>1, <2>2, <2>4
<1>5. ASSUME OpenBSDFollows(a) PROVE openbsd(a) \in BOOLEAN
  <2>1. openbsd(a) = IF P(a, 0) = Star THEN FirstSegment(OpenOf(a), a, 0, 0) ELSE OpenOf(a)[<<0, 0>>]
    BY DEF openbsd, OpenOf
  <2>2. OpenOf(a)[<<0, 0>>] = OpenBSDFrom(OpenOf(a), a, 0, 0)
    BY <1>1, <1>5, OpenExists
  <2>3. \A O, p, n : FirstSegment(O, a, p, n) \in BOOLEAN
    BY DEF FirstSegment, SegmentDone
  <2>4. OpenBSDFrom(OpenOf(a), a, 0, 0) \in BOOLEAN
    BY <2>3 DEF OpenBSDFrom
  <2> QED
    BY <2>1, <2>2, <2>3, <2>4
<1>6. ASSUME MuslCall(a) PROVE musl(a) \in BOOLEAN
  <2>1. 0 \in 0..Size(a)
    <3>1. Size(a) \in Nat
      BY <1>6, CharsAre DEF MuslCall, MuslFollows
    <3> QED
      BY <3>1
  <2>2. SegmentsOf(a)[<<0, 0>>] \in BOOLEAN
    BY <1>1, <1>6, <2>1, SegmentsExist
  <2>3. Segments(a, PatternChars(a)) = SegmentsOf(a)[<<0, 0>>]
    BY DEF Segments, SegmentsOf
  <2> QED
    BY <2>2, <2>3 DEF musl
<1> QED
  BY <1>2, <1>3, <1>4, <1>5, <1>6

(* What an answer is right about.                                          *)
IsRight(by, f, match) == Follows(by, Asked(f)) => match = Matches(Asked(f))
AskInv == pattern \in Patterns /\ string \in Strings /\ AgreesWithPosix

(* What is asked is a call with two strings.                               *)
LEMMA AskedIsCall ==
  ASSUME pattern \in Patterns, string \in Strings, NEW f
  PROVE  IsCall(Asked(f)) /\ Asked(f).flags = f
PROOF
  BY CollectedAssumption DEF IsCall, Asked, Call

(* A right answer is kept.                                                 *)
LEMMA AnswerIsRight ==
  ASSUME AskInv, NEW by, NEW f, NEW match, Answer(by, f, match), IsRight(by, f, match)
  PROVE  AskInv'
PROOF
<1>1. pattern' = pattern /\ string' = string /\ answer' = <<[by |-> by, flags |-> f, match |-> match]>>
  BY DEF Answer
<1>2. DOMAIN answer' = {1} /\ answer'[1].by = by /\ answer'[1].flags = f /\ answer'[1].match = match
  BY <1>1
<1>3. Follows(by, Call(pattern, string, f)) => match = Matches(Call(pattern, string, f))
  BY DEF IsRight, Asked
<1>4. AgreesWithPosix'
  <2>1. AgreesWithPosix' <=>
          \A i \in DOMAIN answer' :
            Follows(answer'[i].by, Call(pattern', string', answer'[i].flags))
              => answer'[i].match = Matches(Call(pattern', string', answer'[i].flags))
    BY DEF AgreesWithPosix, Asked
  <2>2. ASSUME NEW i \in DOMAIN answer',
               Follows(answer'[i].by, Call(pattern', string', answer'[i].flags))
        PROVE  answer'[i].match = Matches(Call(pattern', string', answer'[i].flags))
    <3>1. i = 1
      BY <1>2
    <3>2. Follows(by, Call(pattern, string, f))
      BY <1>1, <1>2, <2>2, <3>1
    <3> QED
      BY <1>1, <1>2, <1>3, <3>1, <3>2
  <2> QED
    BY <2>1, <2>2
<1> QED
  BY <1>1, <1>4 DEF AskInv

(* Every answer preserves AskInv.                                          *)
LEMMA AskStep ==
  ASSUME AskInv, [AskNext]_asked
  PROVE  AskInv'
PROOF
<1>1. \A f : IsCall(Asked(f)) /\ Asked(f).flags = f
  BY AskedIsCall DEF AskInv
<1>2. CASE UNCHANGED asked
  <2>1. pattern' = pattern /\ string' = string /\ answer' = answer
    BY <1>2 DEF asked
  <2>2. \A g : Asked(g)' = Asked(g)
    BY <2>1 DEF Asked
  <2>3. AgreesWithPosix'
    BY <2>1, <2>2 DEF AskInv, AgreesWithPosix
  <2> QED
    BY <2>1, <2>3 DEF AskInv
<1>3. CASE AskNetBSD
  <2>1. PICK f \in FlagSets : Answer("netbsd", f, netbsd(Asked(f)))
    BY <1>3 DEF AskNetBSD
  <2>2. Follows("netbsd", Asked(f)) => NetBSDFollows(Asked(f))
    BY DEF Follows
  <2>3. IsRight("netbsd", f, netbsd(Asked(f)))
    BY <1>1, <2>2, AnswersAre, NetBSDMeans DEF IsRight
  <2> QED
    BY <2>1, <2>3, AnswerIsRight
<1>4. CASE AskGNU
  <2>1. PICK f \in FlagSets : GNUDefined(Asked(f)) /\ Answer("gnu", f, gnu(Asked(f)))
    BY <1>4 DEF AskGNU
  <2>2. Follows("gnu", Asked(f)) => GNUFollows(Asked(f))
    BY DEF Follows
  <2>3. IsRight("gnu", f, gnu(Asked(f)))
    BY <1>1, <2>1, <2>2, AnswersAre, GNUMeans DEF IsRight
  <2> QED
    BY <2>1, <2>3, AnswerIsRight
<1>5. CASE AskCVS
  <2>1. PICK f \in FlagSets : CVSDefined(Asked(f)) /\ Answer("cvs", f, cvs(Asked(f)))
    BY <1>5 DEF AskCVS
  <2>2. Follows("cvs", Asked(f)) => GNUFollows(Asked(f))
    BY DEF Follows
  <2>3. IsRight("cvs", f, cvs(Asked(f)))
    BY <1>1, <2>1, <2>2, AnswersAre, GNUMeans DEF IsRight, CVSDefined, cvs
  <2> QED
    BY <2>1, <2>3, AnswerIsRight
<1>6. CASE AskMusl
  <2>1. PICK f \in FlagSets : "CASEFOLD" \notin f /\ Answer("musl", f, musl(Asked(f)))
    BY <1>6 DEF AskMusl
  <2>2. Follows("musl", Asked(f)) => MuslFollows(Asked(f))
    BY DEF Follows
  <2>3. Follows("musl", Asked(f)) => MuslCall(Asked(f))
    BY <1>1, <2>1, <2>2 DEF MuslCall
  <2>4. IsRight("musl", f, musl(Asked(f)))
    BY <1>1, <2>3, AnswersAre, MuslMeans DEF IsRight
  <2> QED
    BY <2>1, <2>4, AnswerIsRight
<1>7. CASE AskOpenBSD
  <2>1. PICK f \in FlagSets : Answer("openbsd", f, openbsd(Asked(f)))
    BY <1>7 DEF AskOpenBSD
  <2>2. Follows("openbsd", Asked(f)) => OpenBSDFollows(Asked(f))
    BY DEF Follows
  <2>3. IsRight("openbsd", f, openbsd(Asked(f)))
    BY <1>1, <2>2, AnswersAre, OpenBSDMeans DEF IsRight
  <2> QED
    BY <2>1, <2>3, AnswerIsRight
<1> QED
  BY <1>2, <1>3, <1>4, <1>5, <1>6, <1>7 DEF AskNext

(* For every set of patterns, strings and flags: whichever of the five     *)
(* implementations is asked, its answer is the one POSIX defines wherever  *)
(* it is known to follow POSIX (src/src/alt_impl.c:78, 572 and 1108,       *)
(* src/src/inspiration.c:144 and 1555).                                    *)
THEOREM CollectedAgree == AskSpec => []AgreesWithPosix
PROOF
<1>1. AskInit => AskInv
  BY DEF AskInit, AskInv, AgreesWithPosix
<1>2. AskInv /\ [AskNext]_asked => AskInv'
  BY AskStep
<1>3. AskInv => AgreesWithPosix
  BY DEF AskInv
<1> QED
  BY <1>1, <1>2, <1>3, PTL DEF AskSpec
-----------------------------------------------------------------------------
(* The walk of a working directory.                                        *)

(* What stands from p on is what stands from n on.                         *)
SameFrom(a, p, n) ==
  /\ PatternEnd(a) - p = StringEnd(a) - n
  /\ \A i \in p..PatternEnd(a) - 1 : Fold(a, P(a, i)) = Fold(a, S(a, n + (i - p)))

(* A pattern without a character of a glob.                                *)
IsPlain(a) ==
  \A p \in PatternOffsets(a) : P(a, p) \notin {Star, Question, Open, Backslash}

(* A pattern with nothing special in it matches the string it is.          *)
LEMMA PlainMeans ==
  ASSUME NEW a, IsCall(a), PlainBrackets(a), IsPlain(a), "LEADING_DIR" \notin a.flags
  PROVE  Matches(a) <=> SameFrom(a, 0, 0)
PROOF
<1> DEFINE M == Match(a)
           L == PatternEnd(a)
           N == StringEnd(a)
           T == {p \in 0..L : \A n \in 0..N : M[<<p, n>>] <=> SameFrom(a, p, n)}
<1>1. L \in Nat /\ N \in Nat /\ PatternOffsets(a) = 0..L /\ StringOffsets(a) = 0..N
  BY Bytes
<1>2. /\ \A p \in 0..L : p # L <=> P(a, p) # EOS
      /\ \A n \in 0..N : n # N <=> S(a, n) # EOS
  BY <1>1, Bytes
<1>3. \A p \in 0..L, n \in 0..N :
        SameFrom(a, p, n) <=>
          L - p = N - n /\ \A i \in p..L - 1 : Fold(a, P(a, i)) = Fold(a, S(a, n + (i - p)))
  BY DEF SameFrom
<1> HIDE DEF M, L, N
<1>4. ASSUME NEW p \in 0..L, \A q \in p + 1..L : q \in T
      PROVE  p \in T
  <2> SUFFICES ASSUME NEW n \in 0..N PROVE M[<<p, n>>] <=> SameFrom(a, p, n)
    OBVIOUS
  <2>1. p \in PatternOffsets(a) /\ n \in StringOffsets(a) /\ p \in Nat /\ n \in Nat
    BY <1>1
  <2>2. CASE p = L
    <3>1. M[<<p, n>>] <=> S(a, n) = EOS
      BY <1>2, <2>1, <2>2, Steps DEF M
    <3>2. SameFrom(a, p, n) <=> n = N
      BY <1>1, <1>3, <2>2
    <3> QED
      BY <1>2, <3>1, <3>2
  <2>3. CASE p # L
    <3>1. P(a, p) \notin {EOS, Star, Question, Open} /\ P(a, p) # Backslash
      BY <1>2, <2>1, <2>3 DEF IsPlain
    <3>2. ~Escape(a, p)
      BY <3>1 DEF Escape
    <3>3. TokenEnd(a, p) = p + 1
      BY <3>1, <3>2 DEF TokenEnd
    <3>4. Takes1(a, p, n) <=> S(a, n) # EOS /\ Fold(a, P(a, p)) = Fold(a, S(a, n))
      BY <2>1, <3>1, <3>2, TakesCases
    <3>5. M[<<p, n>>] <=> Takes1(a, p, n) /\ M[<<p + 1, n + 1>>]
      BY <2>1, <3>1, <3>3, Steps DEF M
    <3>6. CASE n = N
      <4>1. ~M[<<p, n>>]
        BY <1>2, <3>4, <3>5, <3>6
      <4>2. ~SameFrom(a, p, n)
        BY <1>1, <1>3, <2>3, <3>6
      <4> QED
        BY <4>1, <4>2
    <3>7. CASE n # N
      <4>1. S(a, n) # EOS /\ n + 1 \in 0..N /\ p + 1 \in p + 1..L /\ p + 1 \in 0..L
        BY <1>1, <1>2, <2>3, <3>7
      <4>2. M[<<p + 1, n + 1>>] <=> SameFrom(a, p + 1, n + 1)
        BY <1>4, <4>1
      <4>3. SameFrom(a, p + 1, n + 1) <=>
              L - p = N - n /\ \A i \in p + 1..L - 1 : Fold(a, P(a, i)) = Fold(a, S(a, n + (i - p)))
        <5>1. L - (p + 1) = N - (n + 1) <=> L - p = N - n
          BY <1>1
        <5>2. \A i \in p + 1..L - 1 : (n + 1) + (i - (p + 1)) = n + (i - p)
          BY <1>1
        <5> QED
          BY <1>3, <4>1, <5>1, <5>2
      <4>4. SameFrom(a, p, n) <=>
              L - p = N - n /\ \A i \in p..L - 1 : Fold(a, P(a, i)) = Fold(a, S(a, n + (i - p)))
        BY <1>3
      <4>5. (\A i \in p..L - 1 : Fold(a, P(a, i)) = Fold(a, S(a, n + (i - p)))) <=>
              /\ Fold(a, P(a, p)) = Fold(a, S(a, n))
              /\ \A i \in p + 1..L - 1 : Fold(a, P(a, i)) = Fold(a, S(a, n + (i - p)))
        <5>1. \A i : i \in p..L - 1 <=> i = p \/ i \in p + 1..L - 1
          BY <1>1, <2>1, <2>3
        <5>2. n + (p - p) = n
          BY <2>1
        <5> QED
          BY <5>1, <5>2
      <4> QED
        BY <3>4, <3>5, <4>1, <4>2, <4>3, <4>4, <4>5
    <3> QED
      BY <3>6, <3>7
  <2> QED
    BY <2>2, <2>3
<1> HIDE DEF T
<1>5. 0 \in T
  <2>1. 0..L \subseteq T
    BY <1>1, <1>4, AllDownward
  <2> QED
    BY <1>1, <2>1
<1> QED
  BY <1>1, <1>5 DEF T, M, Matches

(* Comparing a name with such a pattern is matching it.                    *)
LEMMA CompareMeans ==
  ASSUME NEW pat \in Text, NEW name \in Text, PlainBrackets(Call(pat, name, flags)),
         \A i \in DOMAIN pat : pat[i] \notin Meta, ~Has(Call(pat, name, flags), Backslash)
  PROVE  Matches(Call(pat, name, flags)) <=> cvs_file_cmpname(name, pat)
PROOF
<1> DEFINE a == Call(pat, name, flags)
<1>1. a.pattern = pat /\ a.string = name /\ a.flags = flags /\ IsCall(a)
  BY DEF Call, IsCall
<1>2. /\ DOMAIN pat = 1..Len(pat) /\ Len(pat) \in Nat
      /\ DOMAIN name = 1..Len(name) /\ Len(name) \in Nat
  BY DEF Text
<1>3. PatternEnd(a) = Len(pat) /\ StringEnd(a) = Len(name) /\ PatternOffsets(a) = 0..Len(pat)
  BY <1>1, Bytes DEF PatternEnd, StringEnd
<1>4. "LEADING_DIR" \notin a.flags /\ ("CASEFOLD" \in a.flags <=> cvs_nocase)
  BY <1>1 DEF flags
<1> HIDE DEF a
<1>5. /\ \A i \in 1..Len(pat) : P(a, i - 1) = pat[i]
      /\ \A i \in 1..Len(name) : S(a, i - 1) = name[i]
  BY <1>1, <1>2 DEF P, S
<1>6. IsPlain(a)
  <2> SUFFICES ASSUME NEW p \in PatternOffsets(a)
               PROVE  P(a, p) \notin {Star, Question, Open, Backslash}
    BY DEF IsPlain
  <2>1. CASE p = Len(pat)
    <3>1. P(a, p) = EOS
      BY <1>1, <1>2, <1>3, <2>1, Bytes
    <3> QED
      BY <3>1 DEF EOS, Star, Question, Open, Backslash
  <2>2. CASE p # Len(pat)
    <3>1. p + 1 \in 1..Len(pat) /\ (p + 1) - 1 = p /\ p \in 0..Len(pat) - 1
      BY <1>2, <1>3, <2>2
    <3>2. P(a, p) \notin Meta
      BY <1>2, <1>5, <3>1
    <3>3. P(a, p) # Backslash
      BY <1>1, <3>1 DEF Has, a
    <3> QED
      BY <3>2, <3>3 DEF Meta
  <2> QED
    BY <2>1, <2>2
<1>7. Matches(a) <=> SameFrom(a, 0, 0)
  BY <1>1, <1>4, <1>6, PlainMeans DEF a
<1>8. SameFrom(a, 0, 0) <=>
        Len(pat) = Len(name) /\ \A i \in 1..Len(pat) : Fold(a, pat[i]) = Fold(a, name[i])
  <2>1. SameFrom(a, 0, 0) <=>
          Len(pat) = Len(name) /\ \A i \in 0..Len(pat) - 1 : Fold(a, P(a, i)) = Fold(a, S(a, i))
    BY <1>2, <1>3 DEF SameFrom
  <2>2. ASSUME Len(pat) = Len(name)
        PROVE  /\ \A i \in 0..Len(pat) - 1 : i + 1 \in 1..Len(pat) /\ P(a, i) = pat[i + 1] /\ S(a, i) = name[i + 1]
               /\ \A i \in 1..Len(pat) : i - 1 \in 0..Len(pat) - 1 /\ P(a, i - 1) = pat[i] /\ S(a, i - 1) = name[i]
    <3>1. \A i \in 1..Len(pat) : i - 1 \in 0..Len(pat) - 1 /\ P(a, i - 1) = pat[i] /\ S(a, i - 1) = name[i]
      BY <1>2, <1>5, <2>2
    <3>2. ASSUME NEW i \in 0..Len(pat) - 1
          PROVE  i + 1 \in 1..Len(pat) /\ P(a, i) = pat[i + 1] /\ S(a, i) = name[i + 1]
      <4>1. i + 1 \in 1..Len(pat) /\ (i + 1) - 1 = i
        BY <1>2
      <4> QED
        BY <3>1, <4>1
    <3> QED
      BY <3>1, <3>2
  <2>3. ASSUME Len(pat) = Len(name)
        PROVE  (\A i \in 0..Len(pat) - 1 : Fold(a, P(a, i)) = Fold(a, S(a, i))) <=>
                 \A i \in 1..Len(pat) : Fold(a, pat[i]) = Fold(a, name[i])
    BY <2>2, <2>3
  <2> QED
    BY <2>1, <2>3
<1>9. cvs_file_cmpname(name, pat) <=>
        Len(pat) = Len(name) /\ \A i \in 1..Len(pat) : Fold(a, pat[i]) = Fold(a, name[i])
  <2>1. CASE cvs_nocase
    <3>1. \A c : Fold(a, c) = tolower(c)
      BY <1>4, <2>1 DEF Fold
    <3>2. cvs_file_cmpname(name, pat) <=> Lowered(name) = Lowered(pat)
      BY <2>1 DEF cvs_file_cmpname
    <3>3. /\ Lowered(name) = [i \in 1..Len(name) |-> tolower(name[i])]
          /\ Lowered(pat) = [i \in 1..Len(pat) |-> tolower(pat[i])]
      BY <1>2 DEF Lowered
    <3>4. Lowered(name) = Lowered(pat) <=>
            Len(pat) = Len(name) /\ \A i \in 1..Len(pat) : tolower(pat[i]) = tolower(name[i])
      <4>1. ASSUME Lowered(name) = Lowered(pat)
            PROVE  Len(pat) = Len(name) /\ \A i \in 1..Len(pat) : tolower(pat[i]) = tolower(name[i])
        <5>1. DOMAIN Lowered(name) = 1..Len(name) /\ DOMAIN Lowered(pat) = 1..Len(pat)
          BY <3>3
        <5>2. 1..Len(name) = 1..Len(pat)
          BY <4>1, <5>1
        <5>3. Len(name) = Len(pat)
          <6> DEFINE m == Len(name)
                     k == Len(pat)
          <6>1. m \in Nat /\ k \in Nat /\ 1..m = 1..k
            BY <1>2, <5>2
          <6> HIDE DEF m, k
          <6>2. \A i \in Nat \ {0} : i <= m <=> i <= k
            <7> SUFFICES ASSUME NEW i \in Nat \ {0} PROVE i <= m <=> i <= k
              OBVIOUS
            <7>1. i \in 1..m <=> i <= m
              BY <6>1
            <7>2. i \in 1..k <=> i <= k
              BY <6>1
            <7> QED
              BY <6>1, <7>1, <7>2
          <6>3. m = k
            BY <6>1, <6>2
          <6> QED
            BY <6>3 DEF m, k
        <5>4. ASSUME NEW i \in 1..Len(pat) PROVE tolower(pat[i]) = tolower(name[i])
          <6>1. Lowered(pat)[i] = tolower(pat[i]) /\ Lowered(name)[i] = tolower(name[i])
            BY <3>3, <5>2
          <6> QED
            BY <4>1, <6>1
        <5> QED
          BY <5>3, <5>4
      <4>2. ASSUME Len(pat) = Len(name), \A i \in 1..Len(pat) : tolower(pat[i]) = tolower(name[i])
            PROVE  Lowered(name) = Lowered(pat)
        BY <3>3, <4>2
      <4> QED
        BY <4>1, <4>2
    <3> QED
      BY <3>1, <3>2, <3>4
  <2>2. CASE ~cvs_nocase
    <3>1. \A c : Fold(a, c) = c
      BY <1>4, <2>2 DEF Fold
    <3>2. cvs_file_cmpname(name, pat) <=> name = pat
      BY <2>2 DEF cvs_file_cmpname
    <3>3. name = pat <=> Len(pat) = Len(name) /\ \A i \in 1..Len(pat) : pat[i] = name[i]
      <4>1. name = [i \in 1..Len(name) |-> name[i]] /\ pat = [i \in 1..Len(pat) |-> pat[i]]
        BY DEF Text
      <4> QED
        BY <4>1
    <3> QED
      BY <3>1, <3>2, <3>3
  <2> QED
    BY <2>1, <2>2
<1> QED
  BY <1>7, <1>8, <1>9 DEF a

(* What a list's patterns say of a name.                                   *)
Hits(ip, name) ==
  IF ip.static THEN cvs_file_cmpname(name, ip.pat) ELSE openbsd(Call(ip.pat, name, flags))
Listed(lines) == {IgnPat(l) : l \in lines}
IgnoredBy(lines, name) == cvs_cmdop # "RLOG" /\ \E l \in lines : Hits(IgnPat(l), name)

(* The elements of the lists, and a directory that is being read.          *)
Elem == [dir : Dirs, name : Text, is : Dirs \cup {File}]
Place(d, u, f, l) == [dir |-> d, unread |-> u, fl |-> f, dl |-> l]
Reading(d, u, f, l) ==
  /\ d \in Dirs /\ u \subseteq Content[d] /\ f \subseteq Elem
  /\ l \subseteq Elem /\ \A x \in l : x.is # File

(* The lists are those of the directory that is read, and what was said of *)
(* a name was said by the lists of its directory.                          *)
WalkInv ==
  /\ cvs_ign_pats = Listed(cvs_ign_std \cup HomePieces)
  /\ \/ at = <<>> /\ dir_ign_pats = {}
     \/ \E d, u, f, l :
          at = <<Place(d, u, f, l)>> /\ Reading(d, u, f, l) /\ dir_ign_pats = Listed(Lines[d])
  /\ todo \in Seq(SUBSET Elem)
  /\ \A s \in seen :
       /\ s.dir \in Dirs /\ s.name \in Text
       /\ s.ignored <=> IgnoredBy(OwnLines(s.dir), s.name)

(* The parts of a directory that is being read.                            *)
LEMMA PlaceFields ==
  \A d, u, f, l :
    /\ Place(d, u, f, l).dir = d /\ Place(d, u, f, l).unread = u
    /\ Place(d, u, f, l).fl = f /\ Place(d, u, f, l).dl = l
PROOF
  BY DEF Place

(* A name that is read is struck off, and listed with its kind.            *)
Off(r, e)    == [r EXCEPT !.unread = @ \ {e}]
ToFiles(r, x) == [r EXCEPT !.fl = @ \cup {x}]
ToDirs(r, x)  == [r EXCEPT !.dl = @ \cup {x}]

LEMMA ReadOff ==
  \A d, u, f, l, e, x :
    /\ Off(Place(d, u, f, l), e) = Place(d, u \ {e}, f, l)
    /\ ToFiles(Place(d, u, f, l), x) = Place(d, u, f \cup {x}, l)
    /\ ToDirs(Place(d, u, f, l), x) = Place(d, u, f, l \cup {x})
PROOF
<1> SUFFICES ASSUME NEW d, NEW u, NEW f, NEW l, NEW e, NEW x
             PROVE  /\ Off(Place(d, u, f, l), e) = Place(d, u \ {e}, f, l)
                    /\ ToFiles(Place(d, u, f, l), x) = Place(d, u, f \cup {x}, l)
                    /\ ToDirs(Place(d, u, f, l), x) = Place(d, u, f, l \cup {x})
  OBVIOUS
<1>1. Off(Place(d, u, f, l), e) = Place(d, u \ {e}, f, l)
  BY DEF Off, Place
<1>2. ToFiles(Place(d, u, f, l), x) = Place(d, u, f \cup {x}, l)
  BY DEF ToFiles, Place
<1>3. ToDirs(Place(d, u, f, l), x) = Place(d, u, f, l \cup {x})
  BY DEF ToDirs, Place
<1> QED
  BY <1>1, <1>2, <1>3

(* What is listed is an element.                                           *)
LEMMA PathType ==
  ASSUME NEW d \in Dirs, NEW e, e.name \in Text, e.is \in Dirs \cup {File}
  PROVE  /\ Path(d, e) \in Elem /\ Path(d, e).is = e.is
         /\ Path(d, e).dir = d /\ Path(d, e).name = e.name
PROOF
  BY DEF Path, Elem


(* Every line that may be listed is a string.                              *)
LEMMA PiecesAreText ==
  \A l \in OwnLines(Root) \cup UNION {Lines[d] : d \in Dirs} : l \in Text
PROOF
<1>1. ASSUME NEW line \in HomeLines, NEW piece \in Pieces(line)
      PROVE  piece \in Text
  <2>1. line \in Text /\ NameMax \in Nat
    BY WalkAssumption
  <2>2. Len(line) \in Nat /\ \A i \in 1..Len(line) : line[i] \in 1..127
    BY <2>1, TextBytes
  <2>3. PICK i \in 0..Len(line) - 1 :
          piece = SubSeq(line, i + 1, IF i + NameMax - 1 < Len(line) THEN i + NameMax - 1 ELSE Len(line))
    BY DEF Pieces
  <2> DEFINE m == IF i + NameMax - 1 < Len(line) THEN i + NameMax - 1 ELSE Len(line)
  <2>4. m \in Int /\ i + 1 \in Int /\ \A j \in i + 1..m : j \in 1..Len(line)
    BY <2>1, <2>2
  <2> HIDE DEF m
  <2> DEFINE bytes == 1..127
  <2>5. \A j \in i + 1..m : line[j] \in bytes
    BY <2>2, <2>4
  <2> HIDE DEF bytes
  <2>6. SubSeq(line, i + 1, m) \in Seq(bytes)
    BY <2>4, <2>5, SubSeqProperties
  <2> QED
    BY <2>3, <2>6 DEF m, bytes, Text
<1>2. cvs_ign_std \subseteq Text /\ \A d \in Dirs : Lines[d] \subseteq Text
  BY WalkAssumption
<1>3. Root \in Dirs
  BY WalkAssumption
<1> QED
  BY <1>1, <1>2, <1>3 DEF OwnLines, HomePieces

(* So is every line of a directory's own.                                  *)
LEMMA OwnText ==
  ASSUME NEW d \in Dirs
  PROVE  OwnLines(d) \subseteq Text
PROOF
  BY PiecesAreText DEF OwnLines

(* WalkInv holds in the initial states.                                    *)
LEMMA WalkInit ==
  Init => WalkInv
PROOF
<1> SUFFICES ASSUME Init PROVE WalkInv
  OBVIOUS
<1>1. cvs_ign_pats = Listed(cvs_ign_std \cup HomePieces) /\ dir_ign_pats = {}
  BY DEF Init, cvs_file_init, cvs_file_ignore, Listed
<1>2. at = <<>> /\ todo = <<{Path(Root, Here)}>> /\ seen = {}
  BY DEF Init
<1>3. Path(Root, Here) \in Elem
  <2>1. Root \in Dirs /\ Here.name = <<46>> /\ Here.is = Root
    BY WalkAssumption DEF Here
  <2>2. <<46>> \in Text
    BY DEF Text
  <2> QED
    BY <2>1, <2>2, PathType
<1>4. todo \in Seq(SUBSET Elem)
  BY <1>2, <1>3
<1> QED
  BY <1>1, <1>2, <1>4 DEF WalkInv

(* A name is asked about with the lists of its directory.                  *)
LEMMA ChecksOwnLines ==
  ASSUME WalkInv, NEW d, dir_ign_pats = Listed(Lines[d]), NEW name
  PROVE  cvs_file_chkign(name) /\ cvs_cmdop # "RLOG" <=> IgnoredBy(OwnLines(d), name)
PROOF
<1>1. cvs_ign_pats = Listed(cvs_ign_std \cup HomePieces)
  BY DEF WalkInv
<1>2. cvs_ign_pats \cup dir_ign_pats = Listed(OwnLines(d))
  BY <1>1 DEF Listed, OwnLines
<1>3. cvs_file_chkign(name) <=> \E ip \in Listed(OwnLines(d)) : Hits(ip, name)
  BY <1>2 DEF cvs_file_chkign, Hits
<1>4. (\E ip \in Listed(OwnLines(d)) : Hits(ip, name)) <=>
        \E l \in OwnLines(d) : Hits(IgnPat(l), name)
  BY DEF Listed
<1> QED
  BY <1>3, <1>4 DEF IgnoredBy

(* What the options decide stays.                                          *)
LEMMA IgnoredStays ==
  ASSUME UNCHANGED options
  PROVE  \A lines, name : IgnoredBy(lines, name)' <=> IgnoredBy(lines, name)
PROOF
  BY DEF IgnoredBy, Hits, cvs_file_cmpname, flags, options

(* A step that reads a name strikes it off, lists a file exactly when the  *)
(* lines of its directory do not ignore it, and notes what they say.       *)
ReadAsFile(d, e) == e.is = File /\ e.name \notin Hidden /\ ~IgnoredBy(OwnLines(d), e.name)
Noted(d, e, ignored) == [dir |-> d, name |-> e.name, ignored |-> ignored]

ReadsOne(d, u, f, l, e, g, h, note) ==
  /\ at = <<Place(d, u, f, l)>> /\ Reading(d, u, f, l) /\ e \in u
  /\ at' = <<Place(d, u \ {e}, g, h)>>
  /\ g = IF ReadAsFile(d, e) THEN f \cup {Path(d, e)} ELSE f
  /\ h = l \/ (h = l \cup {Path(d, e)} /\ e.is \in Dirs)
  /\ note.dir = d /\ note.name = e.name
  /\ note.ignored <=> IgnoredBy(OwnLines(d), e.name)
  /\ seen' = seen \/ seen' = seen \cup {note}

LEMMA ReadsName ==
  ASSUME WalkInv, ReadName
  PROVE  \E d, u, f, l, e, g, h, note :
           /\ ReadsOne(d, u, f, l, e, g, h, note)
           /\ dir_ign_pats = Listed(Lines[d])
PROOF
<1>1. at # <<>>
  BY DEF ReadName
<1>2. PICK d, u, f, l :
        at = <<Place(d, u, f, l)>> /\ Reading(d, u, f, l) /\ dir_ign_pats = Listed(Lines[d])
  BY <1>1 DEF WalkInv
<1> DEFINE r == Place(d, u, f, l)
<1>3. at[1] = r /\ r.dir = d /\ r.unread = u
  BY <1>2, PlaceFields
<1>4. PICK e \in u, ignored \in BOOLEAN :
        /\ ignored <=> cvs_file_chkign(e.name) /\ cvs_cmdop # "RLOG"
        /\ at' = <<IF e.name \in Hidden \/ ignored \/ e.is = Other
                   THEN Off(r, e)
                   ELSE IF e.is = File
                   THEN ToFiles(Off(r, e), Path(d, e))
                   ELSE ToDirs(Off(r, e), Path(d, e))>>
        /\ seen' = seen \/ seen' = seen \cup {Noted(d, e, ignored)}
  <2> HIDE DEF r
  <2> QED
    BY <1>3 DEF ReadName, Noted, Off, ToFiles, ToDirs
<1> HIDE DEF r
<1>5. ignored <=> IgnoredBy(OwnLines(d), e.name)
  BY <1>2, <1>4, ChecksOwnLines
<1>6. e.is \in Dirs \cup {File, Other} /\ File \notin Dirs \cup {Other} /\ Other \notin Dirs
  BY <1>2, <1>4, WalkAssumption DEF Reading
<1>7. Off(r, e) = Place(d, u \ {e}, f, l)
  BY ReadOff DEF r
<1>8. ToFiles(Off(r, e), Path(d, e)) = Place(d, u \ {e}, f \cup {Path(d, e)}, l)
  BY <1>7, ReadOff
<1>9. ToDirs(Off(r, e), Path(d, e)) = Place(d, u \ {e}, f, l \cup {Path(d, e)})
  BY <1>7, ReadOff
<1>10. PICK g, h :
         /\ at' = <<Place(d, u \ {e}, g, h)>>
         /\ g = IF ReadAsFile(d, e) THEN f \cup {Path(d, e)} ELSE f
         /\ h = l \/ (h = l \cup {Path(d, e)} /\ e.is \in Dirs)
  <2>1. CASE e.name \in Hidden \/ ignored \/ e.is = Other
    <3>1. ~ReadAsFile(d, e)
      BY <1>5, <1>6, <2>1 DEF ReadAsFile
    <3>2. at' = <<Place(d, u \ {e}, f, l)>>
      BY <1>4, <1>7, <2>1
    <3> QED
      BY <3>1, <3>2
  <2>2. CASE ~(e.name \in Hidden \/ ignored \/ e.is = Other) /\ e.is = File
    <3>1. ReadAsFile(d, e)
      BY <1>5, <2>2 DEF ReadAsFile
    <3>2. at' = <<Place(d, u \ {e}, f \cup {Path(d, e)}, l)>>
      BY <1>4, <1>8, <2>2
    <3> QED
      BY <3>1, <3>2
  <2>3. CASE ~(e.name \in Hidden \/ ignored \/ e.is = Other) /\ e.is # File
    <3>1. ~ReadAsFile(d, e) /\ e.is \in Dirs
      BY <1>6, <2>3 DEF ReadAsFile
    <3>2. at' = <<Place(d, u \ {e}, f, l \cup {Path(d, e)})>>
      BY <1>4, <1>9, <2>3
    <3> QED
      BY <3>1, <3>2
  <2> QED
    BY <2>1, <2>2, <2>3
<1> DEFINE note == Noted(d, e, ignored)
<1>11. note.dir = d /\ note.name = e.name /\ note.ignored = ignored
  BY DEF Noted
<1>12. seen' = seen \/ seen' = seen \cup {note}
  BY <1>4
<1> HIDE DEF note
<1>13. ReadsOne(d, u, f, l, e, g, h, note)
  BY <1>2, <1>4, <1>5, <1>10, <1>11, <1>12 DEF ReadsOne
<1> QED
  BY <1>2, <1>13

(* What a directory leaves behind: what was listed and what CVS/Entries    *)
(* has.                                                                    *)
KnownFiles(d) == {Path(d, e) : e \in {k \in Known(d) : k.is = File}}
KnownDirs(d)  == {Path(d, e) : e \in {k \in Known(d) : k.is # File}}

LEMMA LeavesLists ==
  ASSUME WalkInv, LeaveDir
  PROVE  \E d, f, l :
           /\ at = <<Place(d, {}, f, l)>> /\ Reading(d, {}, f, l)
           /\ todo' = <<f \cup KnownFiles(d), l \cup KnownDirs(d)>> \o todo
           /\ f \cup KnownFiles(d) \in SUBSET Elem /\ l \cup KnownDirs(d) \in SUBSET Elem
           /\ \A x \in l \cup KnownDirs(d) : x.is # File
PROOF
<1>1. at # <<>> /\ at[1].unread = {}
  BY DEF LeaveDir
<1>2. PICK d, u, f, l : at = <<Place(d, u, f, l)>> /\ Reading(d, u, f, l)
  BY <1>1 DEF WalkInv
<1>3. at[1].dir = d /\ at[1].unread = u /\ at[1].fl = f /\ at[1].dl = l
  BY <1>2, PlaceFields
<1>4. u = {}
  BY <1>1, <1>3
<1>5. todo' = <<f \cup KnownFiles(d), l \cup KnownDirs(d)>> \o todo
  BY <1>3 DEF LeaveDir, KnownFiles, KnownDirs
<1>6. ASSUME NEW e \in Known(d)
      PROVE  Path(d, e) \in Elem /\ Path(d, e).is = e.is
  <2>1. d \in Dirs /\ e.name \in Text /\ e.is \in Dirs \cup {File}
    BY <1>2, <1>6, WalkAssumption DEF Known, Reading
  <2> QED
    BY <2>1, PathType
<1>7. KnownFiles(d) \subseteq Elem /\ KnownDirs(d) \subseteq Elem /\ \A x \in KnownDirs(d) : x.is # File
  BY <1>6 DEF KnownFiles, KnownDirs
<1> QED
  BY <1>2, <1>4, <1>5, <1>7 DEF Reading

(* The lists when the walk goes on with one of them.                       *)
LEMMA WalkingLists ==
  ASSUME WalkInv, Walking
  PROVE  /\ Head(todo) \in SUBSET Elem /\ Tail(todo) \in Seq(SUBSET Elem)
         /\ \A l : Rest(l) \in Seq(SUBSET Elem)
PROOF
<1>1. todo \in Seq(SUBSET Elem) /\ todo # <<>>
  BY DEF WalkInv, Walking
<1>2. Head(todo) \in SUBSET Elem /\ Tail(todo) \in Seq(SUBSET Elem)
  BY <1>1
<1>3. ASSUME NEW l PROVE Rest(l) \in Seq(SUBSET Elem)
  <2>1. Head(todo) \ {l} \in SUBSET Elem
    BY <1>2
  <2>2. <<Head(todo) \ {l}>> \in Seq(SUBSET Elem)
    BY <2>1
  <2> QED
    BY <1>2, <2>2 DEF Rest
<1> QED
  BY <1>2, <1>3

(* A step that enters a directory takes it off its list and reads its      *)
(* lines, or ends the walk.                                                *)
LEMMA EntersDir ==
  ASSUME WalkInv, EnterDir
  PROVE  \E x \in Head(todo) :
           /\ x.is \in Dirs /\ todo' = Rest(x)
           /\ \/ /\ dir_ign_pats' = Listed(Lines[x.is])
                 /\ at' = <<Place(x.is, Content[x.is], {}, {})>>
              \/ UNCHANGED <<dir_ign_pats, at>>
PROOF
<1>1. PICK x \in Head(todo) :
        /\ x.is # File /\ todo' = Rest(x)
        /\ \/ /\ dir_ign_pats' = cvs_file_ignore(Lines[x.is], dir_ign_pats)
              /\ at' = <<[dir |-> x.is, unread |-> Content[x.is], fl |-> {}, dl |-> {}]>>
           \/ UNCHANGED <<dir_ign_pats, at>>
  BY DEF EnterDir
<1>2. Walking
  BY DEF EnterDir
<1>3. x \in Elem
  BY <1>1, <1>2, WalkingLists
<1>4. x.is \in Dirs
  BY <1>1, <1>3 DEF Elem
<1>5. dir_ign_pats = {}
  BY <1>2 DEF WalkInv, Walking
<1>6. cvs_file_ignore(Lines[x.is], dir_ign_pats) = Listed(Lines[x.is])
  BY <1>5 DEF cvs_file_ignore, Listed
<1> QED
  BY <1>1, <1>4, <1>6 DEF Place

(* Every step of the walk preserves WalkInv.                               *)
LEMMA WalkStep ==
  WalkInv /\ [Next]_vars => WalkInv'
PROOF
<1> SUFFICES ASSUME WalkInv, [Next]_vars PROVE WalkInv'
  OBVIOUS
<1> USE DEF options
<1> DEFINE Said(s) == /\ s.dir \in Dirs /\ s.name \in Text
                      /\ s.ignored <=> IgnoredBy(OwnLines(s.dir), s.name)
<1>1. UNCHANGED <<options, cvs_ign_pats>>
  BY DEF Next, vars, SkipElement, ProcessFile, EnterDir, ReadName, LeaveDir, LeaveList, Quit
<1>2. (cvs_ign_pats = Listed(cvs_ign_std \cup HomePieces))'
  BY <1>1 DEF WalkInv
<1>3. \A s : Said(s)' <=> Said(s)
  BY <1>1, IgnoredStays
<1>4. \A s \in seen : Said(s)
  BY DEF WalkInv
<1> HIDE DEF Said
<1>5. ASSUME \A s \in seen' : Said(s)
      PROVE  (\A s \in seen : /\ s.dir \in Dirs /\ s.name \in Text
                              /\ s.ignored <=> IgnoredBy(OwnLines(s.dir), s.name))'
  BY <1>3, <1>5 DEF Said
<1>6. CASE SkipElement \/ ProcessFile
  <2>1. at' = at /\ dir_ign_pats' = dir_ign_pats /\ seen' = seen /\ todo' \in Seq(SUBSET Elem)
    <3>1. Walking /\ \E l : todo' = Rest(l)
      BY <1>6 DEF SkipElement, ProcessFile
    <3>2. todo' \in Seq(SUBSET Elem)
      BY <3>1, WalkingLists
    <3> QED
      BY <1>6, <3>2 DEF SkipElement, ProcessFile
  <2> QED
    BY <1>2, <1>4, <1>5, <2>1 DEF WalkInv
<1>7. CASE EnterDir
  <2>1. PICK x \in Head(todo) :
          /\ x.is \in Dirs /\ todo' = Rest(x)
          /\ \/ /\ dir_ign_pats' = Listed(Lines[x.is])
                /\ at' = <<Place(x.is, Content[x.is], {}, {})>>
             \/ UNCHANGED <<dir_ign_pats, at>>
    BY <1>7, EntersDir
  <2>2. Walking /\ seen' = seen
    BY <1>7 DEF EnterDir
  <2>3. todo' \in Seq(SUBSET Elem)
    BY <2>1, <2>2, WalkingLists
  <2>4. Reading(x.is, Content[x.is], {}, {})
    BY <2>1 DEF Reading
  <2>5. (\/ at = <<>> /\ dir_ign_pats = {}
         \/ \E d, u, f, l :
              at = <<Place(d, u, f, l)>> /\ Reading(d, u, f, l) /\ dir_ign_pats = Listed(Lines[d]))'
    <3>1. CASE UNCHANGED <<dir_ign_pats, at>>
      <4>1. at = <<>> /\ dir_ign_pats = {}
        BY <2>2 DEF Walking, WalkInv
      <4> QED
        BY <3>1, <4>1
    <3>2. CASE /\ dir_ign_pats' = Listed(Lines[x.is])
               /\ at' = <<Place(x.is, Content[x.is], {}, {})>>
      BY <2>4, <3>2
    <3> QED
      BY <2>1, <3>1, <3>2
  <2> QED
    BY <1>2, <1>4, <1>5, <2>2, <2>3, <2>5 DEF WalkInv
<1>8. CASE ReadName
  <2>1. PICK d, u, f, l, e, g, h, note :
          ReadsOne(d, u, f, l, e, g, h, note) /\ dir_ign_pats = Listed(Lines[d])
    BY <1>8, ReadsName
  <2>2. /\ Reading(d, u, f, l) /\ e \in u
        /\ note.dir = d /\ note.name = e.name
        /\ note.ignored <=> IgnoredBy(OwnLines(d), e.name)
        /\ seen' = seen \/ seen' = seen \cup {note}
    BY <2>1 DEF ReadsOne
  <2>3. /\ at' = <<Place(d, u \ {e}, g, h)>>
        /\ g = IF ReadAsFile(d, e) THEN f \cup {Path(d, e)} ELSE f
        /\ h = l \/ (h = l \cup {Path(d, e)} /\ e.is \in Dirs)
    BY <2>1 DEF ReadsOne
  <2>4. d \in Dirs /\ e \in Content[d] /\ e.name \in Text
    BY <2>2, WalkAssumption DEF Reading
  <2>5. e.is \in Dirs \cup {File} =>
          Path(d, e) \in Elem /\ Path(d, e).is = e.is
    BY <2>4, PathType
  <2>6. Reading(d, u \ {e}, g, h)
    <3>1. g \subseteq Elem
      BY <2>2, <2>3, <2>5 DEF Reading, ReadAsFile
    <3>2. h \subseteq Elem /\ \A x \in h : x.is # File
      BY <2>2, <2>3, <2>5, WalkAssumption DEF Reading
    <3> QED
      BY <2>2, <3>1, <3>2 DEF Reading
  <2>7. dir_ign_pats' = dir_ign_pats /\ todo' = todo
    BY <1>8 DEF ReadName
  <2>8. \A s \in seen' : Said(s)
    <3>1. Said(note)
      BY <2>2, <2>4 DEF Said
    <3>2. \A s \in seen' : s \in seen \/ s = note
      BY <2>2
    <3> QED
      BY <1>4, <3>1, <3>2
  <2>9. (\E dd, uu, ff, ll :
           at = <<Place(dd, uu, ff, ll)>> /\ Reading(dd, uu, ff, ll)
             /\ dir_ign_pats = Listed(Lines[dd]))'
    BY <2>1, <2>3, <2>6, <2>7
  <2> QED
    BY <1>2, <1>5, <2>7, <2>8, <2>9 DEF WalkInv
<1>9. CASE LeaveDir
  <2>1. PICK p \in SUBSET Elem, q \in SUBSET Elem : todo' = <<p, q>> \o todo
    BY <1>9, LeavesLists
  <2>2. at' = <<>> /\ dir_ign_pats' = {} /\ seen' = seen
    BY <1>9 DEF LeaveDir, Freed
  <2>3. todo' \in Seq(SUBSET Elem)
    <3>1. <<p, q>> \in Seq(SUBSET Elem) /\ todo \in Seq(SUBSET Elem)
      BY DEF WalkInv
    <3> QED
      BY <2>1, <3>1
  <2> QED
    BY <1>2, <1>4, <1>5, <2>2, <2>3 DEF WalkInv
<1>10. CASE LeaveList
  <2>1. at' = at /\ dir_ign_pats' = dir_ign_pats /\ seen' = seen /\ todo' \in Seq(SUBSET Elem)
    BY <1>10, WalkingLists DEF LeaveList
  <2> QED
    BY <1>2, <1>4, <1>5, <2>1 DEF WalkInv
<1>11. CASE Quit \/ UNCHANGED vars
  <2>1. at' = at /\ dir_ign_pats' = dir_ign_pats /\ seen' = seen /\ todo' = todo
    BY <1>11 DEF Quit, vars
  <2> QED
    BY <1>2, <1>4, <1>5, <2>1 DEF WalkInv
<1> QED
  BY <1>6, <1>7, <1>8, <1>9, <1>10, <1>11 DEF Next

(* The lists are those of the directory that is read.                      *)
THEOREM WalkIsLocal ==
  Spec => []WalkInv
PROOF
  BY WalkInit, WalkStep, PTL DEF Spec

(* What a line says of a name is what POSIX has it say.                    *)
LEMMA IgnoredMeans ==
  ASSUME NEW d \in Dirs, NEW name \in Text, ReadAsPosix(d, name)
  PROVE  IgnoredBy(OwnLines(d), name) <=> ToIgnore(d, name)
PROOF
<1>1. ASSUME NEW l \in OwnLines(d)
      PROVE  Hits(IgnPat(l), name) <=> Matches(Call(l, name, flags))
  <2>1. l \in Text
    BY OwnText
  <2>2. IgnPat(l).pat = l /\ (IgnPat(l).static <=> \A i \in DOMAIN l : l[i] \notin Meta)
    BY DEF IgnPat
  <2>3. OpenBSDFollows(Call(l, name, flags)) /\ ~Has(Call(l, name, flags), Backslash)
    BY DEF ReadAsPosix
  <2>4. CASE \A i \in DOMAIN l : l[i] \notin Meta
    <3>1. PlainBrackets(Call(l, name, flags))
      BY <2>3 DEF OpenBSDFollows
    <3>2. Matches(Call(l, name, flags)) <=> cvs_file_cmpname(name, l)
      BY <2>1, <2>3, <2>4, <3>1, CompareMeans
    <3> QED
      BY <2>2, <2>4, <3>2 DEF Hits
  <2>5. CASE ~\A i \in DOMAIN l : l[i] \notin Meta
    <3>1. IsCall(Call(l, name, flags))
      BY <2>1 DEF IsCall, Call
    <3>2. openbsd(Call(l, name, flags)) <=> Matches(Call(l, name, flags))
      BY <2>3, <3>1, OpenBSDMeans
    <3> QED
      BY <2>2, <2>5, <3>2 DEF Hits
  <2> QED
    BY <2>4, <2>5
<1> QED
  BY <1>1 DEF IgnoredBy, ToIgnore

(* Every name is ignored for the lines of its own directory and for none   *)
(* of another's (src/src/inspiration.c:3241, 3538-3552, 3660), and what    *)
(* OpenBSD's fnmatch and the comparison of plain names say of a line is    *)
(* what POSIX defines.                                                     *)
THEOREM IgnoresOwn ==
  Spec => []IgnoresByOwnLines
PROOF
<1>1. ASSUME WalkInv PROVE IgnoresByOwnLines
  BY <1>1, IgnoredMeans DEF WalkInv, IgnoresByOwnLines
<1> QED
  BY <1>1, WalkIsLocal, PTL

(* What is in a stack of lists.                                            *)
Waiting(q) == UNION {q[k] : k \in DOMAIN q}

ElemSets == SUBSET Elem

LEMMA WaitingPushed ==
  ASSUME NEW a \in ElemSets, NEW q \in Seq(ElemSets)
  PROVE  Waiting(<<a>> \o q) = a \cup Waiting(q)
PROOF
<1> DEFINE r == <<a>> \o q
<1>1. Len(q) \in Nat /\ DOMAIN q = 1..Len(q)
  OBVIOUS
<1>2. r \in Seq(ElemSets) /\ Len(r) = Len(q) + 1 /\ r[1] = a /\ \A k \in 1..Len(q) : r[k + 1] = q[k]
  <2>1. <<a>> \in Seq(ElemSets) /\ Len(<<a>>) = 1 /\ <<a>>[1] = a
    OBVIOUS
  <2> QED
    BY <1>1, <2>1, ConcatProperties
<1>3. DOMAIN r = 1..Len(q) + 1
  BY <1>2
<1> HIDE DEF r
<1>4. ASSUME NEW x \in Waiting(r) PROVE x \in a \cup Waiting(q)
  <2>1. PICK k \in 1..Len(q) + 1 : x \in r[k]
    BY <1>3 DEF Waiting
  <2>2. CASE k = 1
    BY <1>2, <2>1, <2>2
  <2>3. CASE k # 1
    <3>1. k - 1 \in 1..Len(q) /\ (k - 1) + 1 = k
      BY <1>1, <2>3
    <3>2. x \in q[k - 1]
      BY <1>2, <2>1, <3>1
    <3> QED
      BY <1>1, <3>1, <3>2 DEF Waiting
  <2> QED
    BY <2>2, <2>3
<1>5. ASSUME NEW x \in a \cup Waiting(q) PROVE x \in Waiting(r)
  <2>1. CASE x \in a
    <3>1. 1 \in DOMAIN r
      BY <1>1, <1>3
    <3> QED
      BY <1>2, <2>1, <3>1 DEF Waiting
  <2>2. CASE x \in Waiting(q)
    <3>1. PICK k \in 1..Len(q) : x \in q[k]
      BY <1>1, <2>2 DEF Waiting
    <3>2. k + 1 \in DOMAIN r /\ x \in r[k + 1]
      BY <1>1, <1>2, <1>3, <3>1
    <3> QED
      BY <3>2 DEF Waiting
  <2> QED
    BY <2>1, <2>2
<1>6. Waiting(r) = a \cup Waiting(q)
  BY <1>4, <1>5
<1> QED
  BY <1>6 DEF r

LEMMA PairSplits ==
  ASSUME NEW p \in ElemSets, NEW q \in ElemSets
  PROVE  <<p, q>> = <<p>> \o <<q>>
PROOF
<1> DEFINE r == <<p>> \o <<q>>
<1>1. <<p>> \in Seq(ElemSets) /\ <<q>> \in Seq(ElemSets) /\ <<p, q>> \in Seq(ElemSets)
  OBVIOUS
<1>2. Len(<<p>>) = 1 /\ Len(<<q>>) = 1 /\ Len(<<p, q>>) = 2 /\ <<p>>[1] = p /\ <<q>>[1] = q
      /\ <<p, q>>[1] = p /\ <<p, q>>[2] = q
  OBVIOUS
<1>3. r \in Seq(ElemSets) /\ Len(r) = 2 /\ r[1] = p /\ r[2] = q
  BY <1>1, <1>2, ConcatProperties
<1> HIDE DEF r
<1>4. \A i \in 1..2 : <<p, q>>[i] = r[i]
  BY <1>2, <1>3
<1>5. <<p, q>> = r
  BY <1>1, <1>2, <1>3, <1>4, SeqEqual
<1> QED
  BY <1>5 DEF r

(* An element that is taken off its list is the only one that goes.        *)
LEMMA WaitingWalked ==
  ASSUME WalkInv, Walking
  PROVE  /\ Waiting(todo) = Head(todo) \cup Waiting(Tail(todo))
         /\ \A l \in Head(todo) : Waiting(Rest(l)) \cup {l} = Waiting(todo) \cup {l}
PROOF
<1>1. todo \in Seq(SUBSET Elem) /\ todo # <<>>
  BY DEF WalkInv, Walking
<1>2. Head(todo) \in ElemSets /\ Tail(todo) \in Seq(ElemSets)
  BY <1>1 DEF ElemSets
<1>3. todo = <<Head(todo)>> \o Tail(todo)
  BY <1>1, HeadTailProperties
<1>4. Waiting(todo) = Head(todo) \cup Waiting(Tail(todo))
  <2>1. Waiting(<<Head(todo)>> \o Tail(todo)) = Head(todo) \cup Waiting(Tail(todo))
    BY <1>2, WaitingPushed
  <2> QED
    BY <1>3, <2>1
<1>5. ASSUME NEW l \in Head(todo)
      PROVE  Waiting(Rest(l)) \cup {l} = Waiting(todo) \cup {l}
  <2>1. Head(todo) \ {l} \in ElemSets
    BY <1>2 DEF ElemSets
  <2>2. Waiting(Rest(l)) = (Head(todo) \ {l}) \cup Waiting(Tail(todo))
    BY <1>2, <2>1, WaitingPushed DEF Rest
  <2> QED
    BY <1>4, <2>2
<1> QED
  BY <1>4, <1>5

(* Whether the file of that name is owed, by what the matcher says.        *)
FilePath(d, name) == [dir |-> d, name |-> name, is |-> File]
Tracks(d, name) == d \in DOMAIN Tracked /\ \E k \in Tracked[d] : k.is = File /\ k.name = name
Kept(d, name) == Tracks(d, name) \/ \E e \in Content[d] : ReadAsFile(d, e) /\ e.name = name

(* The files a directory has listed so far are those it has read and not   *)
(* ignored, what is accounted for is owed, and a directory that has been   *)
(* read is accounted for.                                                  *)
FilesInv ==
  /\ \A d, u, f, l : at = <<Place(d, u, f, l)>> =>
       f = {Path(d, e) : e \in {k \in Content[d] \ u : ReadAsFile(d, k)}}
  /\ \A x \in Accounted : x \in Elem /\ (x.is = File => Kept(x.dir, x.name))
  /\ \A s \in seen : at = <<>> \/ at[1].dir # s.dir =>
       \A name : Kept(s.dir, name) => FilePath(s.dir, name) \in Accounted

(* The files that a directory leaves are those that are owed.              *)
LEMMA LeavesOwed ==
  ASSUME NEW d \in Dirs, NEW f, f = {Path(d, e) : e \in {k \in Content[d] : ReadAsFile(d, k)}}
  PROVE  /\ \A x \in f \cup KnownFiles(d) : x.dir = d /\ x.is = File /\ Kept(d, x.name)
         /\ \A name : Kept(d, name) => FilePath(d, name) \in f \cup KnownFiles(d)
PROOF
<1>1. \A e : Path(d, e).dir = d /\ Path(d, e).name = e.name /\ Path(d, e).is = e.is
  BY DEF Path
<1>2. ASSUME NEW x \in f PROVE x.dir = d /\ x.is = File /\ Kept(d, x.name)
  <2>1. PICK e \in Content[d] : ReadAsFile(d, e) /\ x = Path(d, e)
    OBVIOUS
  <2>2. e.is = File
    BY <2>1 DEF ReadAsFile
  <2> QED
    BY <1>1, <2>1, <2>2 DEF Kept
<1>3. ASSUME NEW x \in KnownFiles(d) PROVE x.dir = d /\ x.is = File /\ Kept(d, x.name)
  <2>1. PICK e \in Known(d) : e.is = File /\ x = Path(d, e)
    BY DEF KnownFiles
  <2>2. Tracks(d, e.name)
    BY <2>1 DEF Known, Tracks
  <2> QED
    BY <1>1, <2>1, <2>2 DEF Kept
<1>4. ASSUME NEW name, Kept(d, name) PROVE FilePath(d, name) \in f \cup KnownFiles(d)
  <2>1. CASE Tracks(d, name)
    <3>1. PICK k \in Known(d) : k.is = File /\ k.name = name
      BY <2>1 DEF Tracks, Known
    <3>2. Path(d, k) = FilePath(d, name)
      BY <3>1 DEF Path, FilePath
    <3> QED
      BY <3>1, <3>2 DEF KnownFiles
  <2>2. CASE \E e \in Content[d] : ReadAsFile(d, e) /\ e.name = name
    <3>1. PICK e \in Content[d] : ReadAsFile(d, e) /\ e.name = name
      BY <2>2
    <3>2. Path(d, e) = FilePath(d, name)
      BY <3>1 DEF Path, FilePath, ReadAsFile
    <3> QED
      BY <3>1, <3>2
  <2> QED
    BY <1>4, <2>1, <2>2 DEF Kept
<1> QED
  BY <1>2, <1>3, <1>4

(* FilesInv holds in the initial states.                                   *)
LEMMA FilesInit ==
  Init => FilesInv
PROOF
<1> SUFFICES ASSUME Init PROVE FilesInv
  OBVIOUS
<1>1. at = <<>> /\ todo = <<{Path(Root, Here)}>> /\ seen = {} /\ done = {} /\ skipped = {}
  BY DEF Init
<1>2. Accounted = {Path(Root, Here)}
  <2>1. DOMAIN todo = {1} /\ todo[1] = {Path(Root, Here)}
    BY <1>1
  <2>2. UNION {todo[k] : k \in DOMAIN todo} = {Path(Root, Here)}
    BY <2>1
  <2> QED
    BY <1>1, <2>2 DEF Accounted
<1>3. Path(Root, Here) \in Elem /\ Path(Root, Here).is # File
  <2>1. Root \in Dirs /\ File \notin Dirs /\ Here.name = <<46>> /\ Here.is = Root
    BY WalkAssumption DEF Here
  <2>2. <<46>> \in Text
    BY DEF Text
  <2> QED
    BY <2>1, <2>2, PathType
<1>4. \A d, u, f, l : at # <<Place(d, u, f, l)>>
  BY <1>1
<1> QED
  BY <1>1, <1>2, <1>3, <1>4 DEF FilesInv

(* Every step of the walk preserves FilesInv.                              *)
LEMMA FilesStep ==
  WalkInv /\ FilesInv /\ [Next]_vars => FilesInv'
PROOF
<1> SUFFICES ASSUME WalkInv, FilesInv, [Next]_vars PROVE FilesInv'
  OBVIOUS
<1> DEFINE Listings == \A d, u, f, l : at = <<Place(d, u, f, l)>> =>
                      f = {Path(d, e) : e \in {k \in Content[d] \ u : ReadAsFile(d, k)}}
           Due(x) == x \in Elem /\ (x.is = File => Kept(x.dir, x.name))
           Known1(d) == \A name : Kept(d, name) => FilePath(d, name) \in Accounted
<1>1. UNCHANGED options
  BY DEF Next, vars, SkipElement, ProcessFile, EnterDir, ReadName, LeaveDir, LeaveList, Quit
<1>2. \A d, e : ReadAsFile(d, e)' <=> ReadAsFile(d, e)
  BY <1>1, IgnoredStays DEF ReadAsFile
<1>3. \A d, name : Kept(d, name)' <=> Kept(d, name)
  BY <1>2 DEF Kept, Tracks
<1>4. Accounted = done \cup skipped \cup Waiting(todo)
      /\ Accounted' = done' \cup skipped' \cup Waiting(todo')
  BY DEF Accounted, Waiting
<1>5. Listings /\ (\A x \in Accounted : Due(x))
      /\ \A s \in seen : at = <<>> \/ at[1].dir # s.dir => Known1(s.dir)
  BY DEF FilesInv
<1>6. ASSUME Listings', \A x \in Accounted' : Due(x),
             \A s \in seen' : at' = <<>> \/ at'[1].dir # s.dir =>
               \A name : Kept(s.dir, name) => FilePath(s.dir, name) \in Accounted'
      PROVE  FilesInv'
  BY <1>3, <1>6 DEF FilesInv
<1> HIDE DEF Listings, Due
<1>7. ASSUME at' = at PROVE Listings'
  BY <1>2, <1>5, <1>7 DEF Listings
<1>8. ASSUME at' = at, seen' = seen, Accounted' = Accounted
      PROVE  FilesInv'
  BY <1>5, <1>6, <1>7, <1>8
<1>9. CASE SkipElement
  <2>1. PICK l \in Head(todo) : todo' = Rest(l) /\ skipped' = skipped \cup {l}
    BY <1>9 DEF SkipElement
  <2>2. Walking /\ at' = at /\ seen' = seen /\ done' = done
    BY <1>9 DEF SkipElement
  <2>3. Waiting(todo') \cup {l} = Waiting(todo) \cup {l} /\ l \in Waiting(todo)
    BY <2>1, <2>2, WaitingWalked
  <2>4. Accounted' = Accounted
    BY <1>4, <2>1, <2>2, <2>3
  <2> QED
    BY <1>8, <2>2, <2>4
<1>10. CASE ProcessFile
  <2>1. PICK l \in Head(todo) : todo' = Rest(l) /\ done' = done \cup {l}
    BY <1>10 DEF ProcessFile
  <2>2. Walking /\ at' = at /\ seen' = seen /\ skipped' = skipped
    BY <1>10 DEF ProcessFile
  <2>3. Waiting(todo') \cup {l} = Waiting(todo) \cup {l} /\ l \in Waiting(todo)
    BY <2>1, <2>2, WaitingWalked
  <2>4. Accounted' = Accounted
    BY <1>4, <2>1, <2>2, <2>3
  <2> QED
    BY <1>8, <2>2, <2>4
<1>11. CASE EnterDir
  <2>1. PICK x \in Head(todo) :
          /\ x.is \in Dirs /\ todo' = Rest(x)
          /\ at' = <<Place(x.is, Content[x.is], {}, {})>> \/ at' = at
    BY <1>11, EntersDir
  <2>2. Walking /\ seen' = seen /\ skipped' = skipped /\ done' = done
    BY <1>11 DEF EnterDir
  <2>3. Waiting(todo') \cup {x} = Waiting(todo) \cup {x}
    BY <2>1, <2>2, WaitingWalked
  <2>4. Accounted' \subseteq Accounted \cup {x} /\ Accounted \subseteq Accounted' \cup {x}
    BY <1>4, <2>2, <2>3
  <2>5. x \in Accounted
    BY <1>4, <2>1, <2>2, WaitingWalked
  <2>6. \A y \in Accounted' : Due(y)
    BY <1>5, <2>4, <2>5
  <2>7. \A d, name : FilePath(d, name) # x
    <3>1. x.is # File
      BY <2>1, WalkAssumption
    <3> QED
      BY <3>1 DEF FilePath
  <2>8. at = <<>>
    BY <2>2 DEF Walking
  <2>9. \A s \in seen : \A name : Kept(s.dir, name) => FilePath(s.dir, name) \in Accounted'
    BY <1>5, <2>4, <2>7, <2>8
  <2>10. Listings'
    <3>1. CASE at' = at
      BY <1>7, <3>1
    <3>2. CASE at' = <<Place(x.is, Content[x.is], {}, {})>>
      <4> SUFFICES ASSUME NEW d, NEW u, NEW f, NEW l, at' = <<Place(d, u, f, l)>>
                   PROVE  f = {Path(d, e) : e \in {k \in Content[d] \ u : ReadAsFile(d, k)'}}
        BY DEF Listings
      <4>1. Place(d, u, f, l) = Place(x.is, Content[x.is], {}, {})
        BY <3>2
      <4>2. d = x.is /\ u = Content[x.is] /\ f = {}
        BY <4>1, PlaceFields
      <4> QED
        BY <4>2
    <3> QED
      BY <2>1, <3>1, <3>2
  <2> QED
    BY <1>6, <2>2, <2>6, <2>9, <2>10
<1>12. CASE ReadName
  <2>1. PICK d, u, f, l, e, g, h, note : ReadsOne(d, u, f, l, e, g, h, note)
    BY <1>12, ReadsName
  <2>2. at = <<Place(d, u, f, l)>> /\ Reading(d, u, f, l)
    BY <2>1 DEF ReadsOne
  <2>3. e \in u /\ note.dir = d /\ (seen' = seen \/ seen' = seen \cup {note})
    BY <2>1 DEF ReadsOne
  <2>31. /\ at' = <<Place(d, u \ {e}, g, h)>>
         /\ g = IF ReadAsFile(d, e) THEN f \cup {Path(d, e)} ELSE f
    BY <2>1 DEF ReadsOne
  <2>4. Accounted' = Accounted
    <3>1. done' = done /\ skipped' = skipped /\ todo' = todo
      BY <1>12 DEF ReadName
    <3> QED
      BY <1>4, <3>1
  <2>5. f = {Path(d, k) : k \in {j \in Content[d] \ u : ReadAsFile(d, j)}}
    BY <1>5, <2>2 DEF Listings
  <2>6. e \in Content[d] /\ u \subseteq Content[d]
    BY <2>2, <2>3 DEF Reading
  <2>7. g = {Path(d, k) : k \in {j \in Content[d] \ (u \ {e}) : ReadAsFile(d, j)}}
    <3>1. Content[d] \ (u \ {e}) = (Content[d] \ u) \cup {e}
      BY <2>3, <2>6
    <3> QED
      BY <2>5, <2>31, <3>1
  <2>8. Listings'
    <3> SUFFICES ASSUME NEW d1, NEW u1, NEW f1, NEW l1, at' = <<Place(d1, u1, f1, l1)>>
                 PROVE  f1 = {Path(d1, k) : k \in {j \in Content[d1] \ u1 : ReadAsFile(d1, j)'}}
      BY DEF Listings
    <3>1. Place(d1, u1, f1, l1) = Place(d, u \ {e}, g, h)
      BY <2>31
    <3>2. d1 = d /\ u1 = u \ {e} /\ f1 = g
      BY <3>1, PlaceFields
    <3> QED
      BY <1>2, <2>7, <3>2
  <2>9. at # <<>> /\ at[1].dir = d /\ at'[1].dir = d /\ at' # <<>>
    BY <2>2, <2>31, PlaceFields
  <2>10. ASSUME NEW s \in seen', s.dir # d
         PROVE  s \in seen
    BY <2>3, <2>10
  <2>11. \A s \in seen' : at' = <<>> \/ at'[1].dir # s.dir =>
           \A name : Kept(s.dir, name) => FilePath(s.dir, name) \in Accounted'
    BY <1>5, <2>4, <2>9, <2>10
  <2>12. \A x \in Accounted' : Due(x)
    BY <1>5, <2>4
  <2> QED
    BY <1>6, <2>8, <2>11, <2>12
<1>13. CASE LeaveDir
  <2>1. PICK d, f, l :
          /\ at = <<Place(d, {}, f, l)>> /\ Reading(d, {}, f, l)
          /\ todo' = <<f \cup KnownFiles(d), l \cup KnownDirs(d)>> \o todo
          /\ f \cup KnownFiles(d) \in SUBSET Elem /\ l \cup KnownDirs(d) \in SUBSET Elem
          /\ \A x \in l \cup KnownDirs(d) : x.is # File
    BY <1>13, LeavesLists
  <2> DEFINE p == f \cup KnownFiles(d)
             q == l \cup KnownDirs(d)
  <2>2. at' = <<>> /\ seen' = seen /\ done' = done /\ skipped' = skipped
    BY <1>13 DEF LeaveDir
  <2>3. d \in Dirs
    BY <2>1 DEF Reading
  <2>4. f = {Path(d, e) : e \in {k \in Content[d] : ReadAsFile(d, k)}}
    <3>1. f = {Path(d, e) : e \in {k \in Content[d] \ {} : ReadAsFile(d, k)}}
      BY <1>5, <2>1 DEF Listings
    <3> QED
      BY <3>1
  <2>5. /\ \A x \in p : x.dir = d /\ x.is = File /\ Kept(d, x.name)
        /\ \A name : Kept(d, name) => FilePath(d, name) \in p
    BY <2>3, <2>4, LeavesOwed
  <2>6. Waiting(todo') = p \cup q \cup Waiting(todo)
    <3> HIDE DEF p, q
    <3>1. todo \in Seq(ElemSets) /\ p \in ElemSets /\ q \in ElemSets
      BY <2>1 DEF WalkInv, ElemSets, p, q
    <3>2. <<p, q>> \o todo = <<p>> \o (<<q>> \o todo) /\ <<q>> \o todo \in Seq(ElemSets)
      <4>1. <<p>> \in Seq(ElemSets) /\ <<q>> \in Seq(ElemSets)
        BY <3>1
      <4>2. <<p, q>> = <<p>> \o <<q>>
        BY <3>1, PairSplits
      <4> QED
        BY <3>1, <4>1, <4>2, ConcatAssociative, ConcatProperties
    <3>3. Waiting(<<p>> \o (<<q>> \o todo)) = p \cup Waiting(<<q>> \o todo)
      BY <3>1, <3>2, WaitingPushed
    <3>4. Waiting(<<q>> \o todo) = q \cup Waiting(todo)
      BY <3>1, WaitingPushed
    <3>5. todo' = <<p, q>> \o todo
      BY <2>1 DEF p, q
    <3> QED
      BY <3>2, <3>3, <3>4, <3>5
  <2>7. Accounted' = Accounted \cup p \cup q
    BY <1>4, <2>2, <2>6
  <2>8. \A x \in Accounted' : Due(x)
    <3>1. \A x \in p : Due(x)
      BY <2>1, <2>5 DEF Due
    <3>2. \A x \in q : Due(x)
      BY <2>1 DEF Due
    <3> QED
      BY <1>5, <2>7, <3>1, <3>2
  <2>9. ASSUME NEW s \in seen, NEW name, Kept(s.dir, name)
        PROVE  FilePath(s.dir, name) \in Accounted'
    <3>1. CASE s.dir = d
      BY <2>5, <2>7, <2>9, <3>1
    <3>2. CASE s.dir # d
      <4>1. at[1].dir = d
        BY <2>1, PlaceFields
      <4> QED
        BY <1>5, <2>7, <2>9, <3>2, <4>1
    <3> QED
      BY <3>1, <3>2
  <2>10. Listings'
    BY <2>2 DEF Listings
  <2> QED
    BY <1>6, <2>2, <2>8, <2>9, <2>10
<1>14. CASE LeaveList
  <2>1. Walking /\ Head(todo) = {} /\ todo' = Tail(todo)
        /\ at' = at /\ seen' = seen /\ done' = done /\ skipped' = skipped
    BY <1>14 DEF LeaveList
  <2>2. Waiting(todo') = Waiting(todo)
    BY <2>1, WaitingWalked
  <2> QED
    BY <1>4, <1>8, <2>1, <2>2
<1>15. CASE Quit \/ UNCHANGED vars
  <2>1. at' = at /\ seen' = seen /\ done' = done /\ skipped' = skipped /\ todo' = todo
    BY <1>15 DEF Quit, vars
  <2> QED
    BY <1>4, <1>8, <2>1
<1> QED
  BY <1>9, <1>10, <1>11, <1>12, <1>13, <1>14, <1>15 DEF Next

(* Once a directory has been read, the files given to fileproc, passed     *)
(* over or waiting are those CVS/Entries has and those that no line of     *)
(* their own directory ignores (src/src/inspiration.c:3590-3597,           *)
(* 3665-3678, 3700).                                                       *)
THEOREM AccountsForFiles ==
  Spec => []FilesAreAccounted
PROOF
<1>1. ASSUME WalkInv, FilesInv PROVE FilesAreAccounted
  <2> SUFFICES ASSUME NEW s \in seen, at = <<>> \/ at[1].dir # s.dir,
                      NEW name \in Names, ReadAsPosix(s.dir, name)
               PROVE  FilePath(s.dir, name) \in Accounted <=> Owed(s.dir, name)
    BY DEF FilesAreAccounted, FilePath
  <2>1. s.dir \in Dirs
    BY <1>1 DEF WalkInv
  <2>2. name \in Text
    <3>1. CASE \E e \in UNION {Content[d] : d \in Dirs} : name = e.name
      <4>1. PICK d \in Dirs : \E e \in Content[d] : name = e.name
        BY <3>1
      <4>2. PICK e \in Content[d] : name = e.name
        BY <4>1
      <4> QED
        BY <4>1, <4>2, WalkAssumption
    <3>2. CASE \E e \in UNION {Tracked[d] : d \in DOMAIN Tracked} : name = e.name
      <4>1. PICK d \in DOMAIN Tracked : \E e \in Tracked[d] : name = e.name
        BY <3>2
      <4>2. PICK e \in Tracked[d] : name = e.name
        BY <4>1
      <4> QED
        BY <4>1, <4>2, WalkAssumption
    <3> QED
      BY <3>1, <3>2 DEF Names
  <2>3. IgnoredBy(OwnLines(s.dir), name) <=> ToIgnore(s.dir, name)
    BY <2>1, <2>2, IgnoredMeans
  <2>4. Kept(s.dir, name) <=> Owed(s.dir, name)
    <3>1. Owed(s.dir, name) <=>
            \/ Tracks(s.dir, name)
            \/ /\ \E e \in Content[s.dir] : e.is = File /\ e.name = name
               /\ name \notin Hidden /\ ~ToIgnore(s.dir, name)
      BY DEF Owed, Tracks
    <3> QED
      BY <2>3, <3>1 DEF Kept, ReadAsFile
  <2>5. Kept(s.dir, name) => FilePath(s.dir, name) \in Accounted
    BY <1>1 DEF FilesInv
  <2>6. FilePath(s.dir, name) \in Accounted => Kept(s.dir, name)
    <3>1. /\ FilePath(s.dir, name).is = File
          /\ FilePath(s.dir, name).dir = s.dir
          /\ FilePath(s.dir, name).name = name
      BY DEF FilePath
    <3> QED
      BY <1>1, <3>1 DEF FilesInv
  <2> QED
    BY <2>4, <2>5, <2>6
<1>2. Spec => []FilesInv
  BY FilesInit, FilesStep, WalkIsLocal, PTL DEF Spec
<1> QED
  BY <1>1, <1>2, WalkIsLocal, PTL

=============================================================================
