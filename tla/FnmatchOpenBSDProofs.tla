------------------------ MODULE FnmatchOpenBSDProofs ------------------------
(***************************************************************************)
(* Proofs about OpenBSD's fnmatch, for every pattern, string and set of    *)
(* flags, and what the proofs about the other implementations share with   *)
(* them: recursive functions, the reference, lists and stars.              *)
(*                                                                         *)
(* An implementation is compared with the reference place by place, from   *)
(* the end of the pattern to its start: what it makes of the pattern from  *)
(* a place on is what the reference does, when the same holds of every     *)
(* place further on.  Before that, its recursive functions have to be      *)
(* shown to exist (RecursionOnward, Chained).  Brackets are compared item  *)
(* by item, stars by the stretch of bytes they may match (Span).           *)
(***************************************************************************)
EXTENDS FnmatchOpenBSD, FiniteSetTheorems, WellFoundedInduction, SequenceTheorems, TLAPS

(* A set of numbers that is not empty has a least element.                 *)
LEMMA LeastNumber ==
  ASSUME NEW T, T \subseteq Nat, T # {}
  PROVE  \E x \in T : \A y \in T : x <= y
PROOF
<1> DEFINE R == {ss \in Nat \X Nat : ss[1] < ss[2]}
<1>1. IsWellFoundedOn(R, Nat)
  BY NatLessThanWellFounded DEF OpToRel
<1>2. \A y, x \in Nat : y < x => <<y, x>> \in R
  OBVIOUS
<1> HIDE DEF R
<1>3. PICK x \in T : \A y \in T : ~(<<y, x>> \in R)
  BY <1>1, WFMin
<1>4. \A y \in T : x \in Nat /\ y \in Nat
  OBVIOUS
<1>5. \A y \in T : ~(y < x)
  BY <1>2, <1>3, <1>4
<1> QED
  BY <1>4, <1>5

(* A set with 0 that holds with each number the next one holds them all.   *)
LEMMA AllNumbers ==
  ASSUME NEW T, 0 \in T, \A n \in Nat : n \in T => n + 1 \in T
  PROVE  \A n \in Nat : n \in T
PROOF
<1> DEFINE U == Nat \ T
<1>1. U \subseteq Nat
  OBVIOUS
<1> SUFFICES ASSUME U # {} PROVE FALSE
  OBVIOUS
<1> HIDE DEF U
<1>2. PICK x \in U : \A y \in U : x <= y
  BY <1>1, LeastNumber
<1>3. x \in Nat /\ x \notin T
  BY <1>2 DEF U
<1>4. x # 0 /\ x - 1 \in Nat /\ (x - 1) + 1 = x
  BY <1>3
<1>5. x - 1 \in T
  <2>1. x - 1 \notin U
    BY <1>2, <1>3, <1>4
  <2> QED
    BY <1>4, <2>1 DEF U
<1> QED
  BY <1>3, <1>4, <1>5

(* A set holds all numbers up to m if it holds each one whose greater ones *)
(* it holds.                                                               *)
LEMMA AllDownward ==
  ASSUME NEW T, NEW m \in Nat,
         \A i \in 0..m : (\A j \in i + 1..m : j \in T) => i \in T
  PROVE  0..m \subseteq T
PROOF
<1> DEFINE U == {n \in 0..m : m - n \notin T}
<1>1. U \subseteq Nat
  OBVIOUS
<1>2. CASE U # {}
  <2> HIDE DEF U
  <2>1. PICK x \in U : \A y \in U : x <= y
    BY <1>1, <1>2, LeastNumber
  <2>2. x \in 0..m /\ m - x \in 0..m /\ m - x \notin T
    BY <2>1 DEF U
  <2>3. ASSUME NEW j \in (m - x) + 1..m PROVE j \in T
    <3>1. m - j \in 0..m /\ m - j < x /\ m - (m - j) = j /\ x \in Nat /\ m - j \in Nat
      BY <2>2
    <3>2. m - j \notin U
      BY <2>1, <3>1
    <3> QED
      BY <3>1, <3>2 DEF U
  <2> QED
    BY <2>2, <2>3
<1>3. CASE U = {}
  <2> SUFFICES ASSUME NEW i \in 0..m PROVE i \in T
    OBVIOUS
  <2>1. m - i \in 0..m /\ m - (m - i) = i
    OBVIOUS
  <2> QED
    BY <1>3, <2>1
<1> QED
  BY <1>2, <1>3

-----------------------------------------------------------------------------
(* Recursive functions.                                                    *)

(* B computes the value of a function at i from its values at what is      *)
(* ranked below i.                                                         *)
Computes(B, D, V, rank, m) ==
  /\ V # {} /\ m \in Nat
  /\ rank \in [D -> Nat] /\ \A i \in D : rank[i] < m
  /\ B \in [[D -> V] -> [D -> V]]
  /\ \A f, g \in [D -> V] : \A i \in D :
       (\A j \in D : rank[j] < rank[i] => f[j] = g[j]) => B[f][i] = B[g][i]

(* There is a function with the values that are computed from it.          *)
LEMMA Recursion ==
  ASSUME NEW B, NEW D, NEW V, NEW rank, NEW m, Computes(B, D, V, rank, m)
  PROVE  \E f \in [D -> V] : f = B[f]
PROOF
<1> USE DEF Computes
<1>0. PICK v \in V : TRUE
  OBVIOUS
<1> DEFINE Below(f, n) == \A i \in D : rank[i] < n => f[i] = B[f][i]
           T == {n \in Nat : \E f \in [D -> V] : Below(f, n)}
<1>1. 0 \in T
  <2> DEFINE f == [i \in D |-> v]
  <2>1. f \in [D -> V]
    OBVIOUS
  <2>2. \A i \in D : ~(rank[i] < 0)
    OBVIOUS
  <2> HIDE DEF f
  <2>3. Below(f, 0)
    BY <2>2
  <2> HIDE DEF Below
  <2> QED
    BY <2>1, <2>3
<1>2. ASSUME NEW n \in Nat, n \in T
      PROVE  n + 1 \in T
  <2>1. PICK f \in [D -> V] : Below(f, n)
    BY <1>2
  <2> DEFINE g == [i \in D |-> IF rank[i] < n THEN f[i] ELSE B[f][i]]
  <2>2. B[f] \in [D -> V]
    BY <2>1
  <2>3. \A i \in D : B[f][i] \in V
    BY <2>2
  <2>4. g \in [D -> V]
    BY <2>1, <2>3
  <2>5. \A i \in D : g[i] = IF rank[i] < n THEN f[i] ELSE B[f][i]
    OBVIOUS
  <2> HIDE DEF g
  <2>6. ASSUME NEW i \in D, rank[i] < n + 1
        PROVE  g[i] = B[g][i]
    <3>1. \A j \in D : rank[j] < rank[i] => f[j] = g[j]
      <4>1. \A j \in D : rank[j] \in Nat
        OBVIOUS
      <4> QED
        BY <2>5, <2>6, <4>1
    <3>2. B[f][i] = B[g][i]
      BY <2>1, <2>4, <3>1
    <3>3. g[i] = B[f][i]
      BY <2>1, <2>5
    <3> QED
      BY <3>2, <3>3
  <2>7. Below(g, n + 1)
    BY <2>6
  <2> HIDE DEF Below
  <2> QED
    BY <2>4, <2>7
<1>3. m \in T
  <2> HIDE DEF T
  <2>1. \A n \in Nat : n \in T
    BY <1>1, <1>2, AllNumbers
  <2> QED
    BY <2>1
<1>4. PICK f \in [D -> V] : Below(f, m)
  BY <1>3
<1>5. f = B[f]
  <2>1. \A i \in D : f[i] = B[f][i]
    BY <1>4
  <2>2. B[f] \in [D -> V]
    BY <1>4
  <2> QED
    BY <1>4, <2>1, <2>2
<1> QED
  BY <1>4, <1>5
(* The same for what is computed from its values at what stands further    *)
(* on.                                                                     *)
Onward(B, D, V, L, place) ==
  /\ V # {} /\ L \in Nat /\ place \in [D -> 0..L]
  /\ B \in [[D -> V] -> [D -> V]]
  /\ \A f, g \in [D -> V] : \A i \in D :
       (\A j \in D : place[j] > place[i] => f[j] = g[j]) => B[f][i] = B[g][i]

(* There is a function whose values are computed from those further on.    *)
LEMMA RecursionOnward ==
  ASSUME NEW B, NEW D, NEW V, NEW L, NEW place, Onward(B, D, V, L, place)
  PROVE  \E f \in [D -> V] : f = B[f]
PROOF
<1> USE DEF Onward
<1> DEFINE rank == [i \in D |-> L - place[i]]
<1>1. rank \in [D -> Nat] /\ L + 1 \in Nat /\ \A i \in D : rank[i] < L + 1
  OBVIOUS
<1>2. \A i, j \in D : place[j] > place[i] => rank[j] < rank[i]
  OBVIOUS
<1> HIDE DEF rank
<1>3. ASSUME NEW f \in [D -> V], NEW g \in [D -> V], NEW i \in D,
             \A j \in D : rank[j] < rank[i] => f[j] = g[j]
      PROVE  B[f][i] = B[g][i]
  BY <1>2, <1>3
<1>4. Computes(B, D, V, rank, L + 1)
  BY <1>1, <1>3 DEF Computes
<1> QED
  BY <1>4, Recursion

(* A function that has its value at some places at once, and at the others *)
(* takes it over from a place further on.                                  *)
Chain(D, V, L, place, T, K, J) ==
  /\ V # {} /\ L \in Nat /\ place \in [D -> 0..L] /\ K \in [D -> V] /\ J \in [D -> D]
  /\ \A i \in D : i \notin T => place[J[i]] > place[i]
Follow(F, D, T, K, J) == [i \in D |-> IF i \in T THEN K[i] ELSE F[J[i]]]
Linked(D, V, T, K, J) ==
  /\ \E f \in [D -> V] : f = Follow(f, D, T, K, J)
  /\ \A F : F = Follow(F, D, T, K, J) => F \in [D -> V]

(* There is a function that takes its values over from further on.         *)
LEMMA Chained ==
  ASSUME NEW D, NEW V, NEW L, NEW place, NEW T, NEW K, NEW J, Chain(D, V, L, place, T, K, J)
  PROVE  Linked(D, V, T, K, J)
PROOF
<1> USE DEF Chain
<1> DEFINE B == [f \in [D -> V] |-> [i \in D |-> IF i \in T THEN K[i] ELSE f[J[i]]]]
<1>1. B \in [[D -> V] -> [D -> V]]
  OBVIOUS
<1>2. ASSUME NEW f \in [D -> V], NEW g \in [D -> V], NEW i \in D,
             \A j \in D : place[j] > place[i] => f[j] = g[j]
      PROVE  B[f][i] = B[g][i]
  <2>1. B[f][i] = (IF i \in T THEN K[i] ELSE f[J[i]]) /\ B[g][i] = (IF i \in T THEN K[i] ELSE g[J[i]])
    OBVIOUS
  <2>2. i \notin T => f[J[i]] = g[J[i]]
    BY <1>2
  <2> QED
    BY <2>1, <2>2
<1>3. \A f \in [D -> V] : B[f] = [i \in D |-> IF i \in T THEN K[i] ELSE f[J[i]]]
  OBVIOUS
<1> HIDE DEF B
<1>4. PICK f \in [D -> V] : f = B[f]
  <2>1. Onward(B, D, V, L, place)
    BY <1>1, <1>2 DEF Onward
  <2> QED
    BY <2>1, RecursionOnward
<1>5. \E g \in [D -> V] : g = [i \in D |-> IF i \in T THEN K[i] ELSE g[J[i]]]
  BY <1>3, <1>4
<1>6. ASSUME NEW F, \A i \in D : F[i] = IF i \in T THEN K[i] ELSE F[J[i]]
      PROVE  \A i \in D : F[i] \in V
  <2> DEFINE U == {x \in 0..L : \A i \in D : place[i] = x => F[i] \in V}
  <2>1. ASSUME NEW x \in 0..L, \A y \in x + 1..L : y \in U
        PROVE  x \in U
    <3> SUFFICES ASSUME NEW i \in D, place[i] = x PROVE F[i] \in V
      OBVIOUS
    <3>1. CASE i \in T
      BY <1>6, <3>1
    <3>2. CASE i \notin T
      <4>1. J[i] \in D /\ place[J[i]] > x /\ place[J[i]] \in 0..L
        BY <3>2
      <4>2. place[J[i]] \in U
        BY <2>1, <4>1
      <4>3. F[J[i]] \in V
        BY <4>1, <4>2
      <4> QED
        BY <1>6, <3>2, <4>3
    <3> QED
      BY <3>1, <3>2
  <2> HIDE DEF U
  <2>2. 0..L \subseteq U
    BY <2>1, AllDownward
  <2>3. ASSUME NEW i \in D PROVE F[i] \in V
    <3>1. place[i] \in U
      BY <2>2
    <3> QED
      BY <3>1 DEF U
  <2> QED
    BY <2>3
<1>7. ASSUME NEW F, F = Follow(F, D, T, K, J)
      PROVE  F \in [D -> V]
  <2>1. \A i \in D : F[i] = IF i \in T THEN K[i] ELSE F[J[i]]
    BY <1>7 DEF Follow
  <2>2. \A i \in D : F[i] \in V
    BY <1>6, <2>1
  <2>3. F = [i \in D |-> F[i]]
    BY <1>7 DEF Follow
  <2> QED
    BY <2>2, <2>3
<1> QED
  BY <1>5, <1>7 DEF Linked, Follow

(* The arguments of a call are strings of C.                               *)
IsCall(a) == a.pattern \in Text /\ a.string \in Text
PatternEnd(a) == Len(a.pattern)
StringEnd(a)  == Len(a.string)

(* A string of C has a length, and bytes that are not 0.                   *)
LEMMA TextBytes ==
  ASSUME NEW s \in Text
  PROVE  Len(s) \in Nat /\ \A i \in 1..Len(s) : s[i] \in 1..127
PROOF
<1> DEFINE bytes == 1..127
<1>1. s \in Seq(bytes)
  BY DEF Text
<1> HIDE DEF bytes
<1>2. Len(s) \in Nat /\ \A i \in 1..Len(s) : s[i] \in bytes
  BY <1>1
<1> QED
  BY <1>2 DEF bytes

(* Behind the end of an argument a 0 is read, and nowhere else.            *)
LEMMA Bytes ==
  ASSUME NEW a, IsCall(a)
  PROVE  /\ PatternEnd(a) \in Nat /\ PatternOffsets(a) = 0..PatternEnd(a)
         /\ StringEnd(a) \in Nat /\ StringOffsets(a) = 0..StringEnd(a)
         /\ \A p \in Int : P(a, p) \in 0..127 /\ (P(a, p) # EOS <=> p \in 0..PatternEnd(a) - 1)
         /\ \A n \in Int : S(a, n) \in 0..127 /\ (S(a, n) # EOS <=> n \in 0..StringEnd(a) - 1)
PROOF
<1> DEFINE pat == a.pattern
           str == a.string
           L == Len(pat)
           N == Len(str)
<1>1. /\ L \in Nat /\ \A i \in 1..L : pat[i] \in 1..127
      /\ N \in Nat /\ \A i \in 1..N : str[i] \in 1..127
  BY TextBytes DEF IsCall
<1>2. \A p : P(a, p) = IF p \in 0..L - 1 THEN pat[p + 1] ELSE EOS
  BY DEF P
<1>3. \A n : S(a, n) = IF n \in 0..N - 1 THEN str[n + 1] ELSE EOS
  BY DEF S
<1> HIDE DEF pat, str, L, N
<1>4. \A p \in Int : P(a, p) \in 0..127 /\ (P(a, p) # EOS <=> p \in 0..L - 1)
  <2> SUFFICES ASSUME NEW p \in Int
               PROVE  P(a, p) \in 0..127 /\ (P(a, p) # EOS <=> p \in 0..L - 1)
    OBVIOUS
  <2>1. p \in 0..L - 1 => p + 1 \in 1..L
    BY <1>1
  <2> QED
    BY <1>1, <1>2, <2>1 DEF EOS
<1>5. \A n \in Int : S(a, n) \in 0..127 /\ (S(a, n) # EOS <=> n \in 0..N - 1)
  <2> SUFFICES ASSUME NEW n \in Int
               PROVE  S(a, n) \in 0..127 /\ (S(a, n) # EOS <=> n \in 0..N - 1)
    OBVIOUS
  <2>1. n \in 0..N - 1 => n + 1 \in 1..N
    BY <1>1
  <2> QED
    BY <1>1, <1>3, <2>1 DEF EOS
<1> QED
  BY <1>1, <1>4, <1>5 DEF pat, str, L, N, PatternEnd, StringEnd, PatternOffsets, StringOffsets

(* Folding case changes letters only.                                      *)
LEMMA Folded ==
  ASSUME NEW a, NEW c \in 0..127
  PROVE  /\ Fold(a, c) \in 0..127
         /\ (Fold(a, c) = EOS <=> c = EOS) /\ (Fold(a, c) = Period <=> c = Period)
         /\ (Fold(a, c) = Slash <=> c = Slash)
         /\ "CASEFOLD" \notin a.flags => Fold(a, c) = c
PROOF
  BY DEF Fold, tolower, EOS, Period, Slash

(* Bytes are compared as numbers after folding, too.                       *)
LEMMA FoldedInt ==
  ASSUME NEW a, NEW c \in 0..127
  PROVE  Fold(a, c) \in Int
PROOF
  BY DEF Fold, tolower

(* Only a period folds to a period.                                        *)
LEMMA FoldedPeriod ==
  ASSUME NEW a, NEW c \in 0..127
  PROVE  Fold(a, c) = Period <=> c = Period
PROOF
  BY DEF Fold, tolower, Period

(* Where the segment of n ends.                                            *)
LEMMA SegmentEnds ==
  ASSUME NEW a, IsCall(a), NEW n \in StringOffsets(a)
  PROVE  /\ SegmentEnd(a, n) \in n..StringEnd(a)
         /\ S(a, SegmentEnd(a, n)) \in {Slash, EOS}
         /\ \A m \in n..SegmentEnd(a, n) - 1 : S(a, m) \notin {Slash, EOS}
PROOF
<1> DEFINE T == {e \in n..StringEnd(a) : S(a, e) \in {Slash, EOS}}
<1>1. n \in Nat /\ StringEnd(a) \in Nat /\ n <= StringEnd(a)
  BY Bytes
<1>2. StringEnd(a) \in T
  BY <1>1, Bytes
<1>3. T \subseteq Nat
  BY <1>1
<1> HIDE DEF T
<1>4. PICK e \in T : \A x \in T : e <= x
  BY <1>2, <1>3, LeastNumber
<1>5. e \in n..StringEnd(a) /\ S(a, e) \in {Slash, EOS}
  BY <1>4 DEF T
<1>6. \A m \in n..e - 1 : S(a, m) # Slash
  BY <1>1, <1>4, <1>5 DEF T
<1>7. /\ SegmentEnd(a, n) \in n..StringEnd(a)
      /\ S(a, SegmentEnd(a, n)) \in {Slash, EOS}
      /\ \A m \in n..SegmentEnd(a, n) - 1 : S(a, m) # Slash
  BY <1>5, <1>6 DEF SegmentEnd, StringEnd
<1>8. \A m \in n..SegmentEnd(a, n) - 1 : S(a, m) # EOS
  BY <1>1, <1>7, Bytes
<1> QED
  BY <1>7, <1>8

(* A leading period stands at the start or behind a slash.                 *)
LEMMA Leading ==
  ASSUME NEW a, IsCall(a), NEW n \in Nat
  PROVE  /\ LeadingPeriod(a, n) => S(a, n) = Period
         /\ (n > 0 /\ LeadingPeriod(a, n) => "PATHNAME" \in a.flags /\ S(a, n - 1) = Slash)
         /\ LeadingPeriod(a, n) \in BOOLEAN
PROOF
  BY DEF LeadingPeriod

-----------------------------------------------------------------------------
(* The reference.                                                          *)

(* Match is the function that Matching computes.                           *)
LEMMA MatchExists ==
  ASSUME NEW a, IsCall(a)
  PROVE  /\ Match(a) \in [PatternOffsets(a) \X StringOffsets(a) -> BOOLEAN]
         /\ \A p \in PatternOffsets(a), n \in StringOffsets(a) :
              Match(a)[<<p, n>>] = Matching(Match(a), a, p, n)
PROOF
<1> DEFINE L == PatternEnd(a)
           N == StringEnd(a)
           D == PatternOffsets(a) \X StringOffsets(a)
           V == BOOLEAN
           rank == [i \in D |-> (L - i[1]) + (N - i[2])]
           B == [f \in [D -> V] |-> [i \in D |-> Matching(f, a, i[1], i[2])]]
<1>1. L \in Nat /\ N \in Nat /\ PatternOffsets(a) = 0..L /\ StringOffsets(a) = 0..N
  BY Bytes
<1> HIDE DEF L, N
<1>2. \A f, p, n : Matching(f, a, p, n) \in BOOLEAN
  BY DEF Matching
<1>3. B \in [[D -> V] -> [D -> V]] /\ V # {}
  BY <1>2
<1>0. \A f \in [D -> V] : /\ B[f] = [i \in D |-> Matching(f, a, i[1], i[2])]
                          /\ \A i \in D : B[f][i] = Matching(f, a, i[1], i[2])
  OBVIOUS
<1> HIDE DEF B
<1>4. \A f, g \in [D -> V] : \A i \in D :
        (\A j \in D : rank[j] < rank[i] => f[j] = g[j]) => B[f][i] = B[g][i]
  <2> SUFFICES ASSUME NEW f \in [D -> V], NEW g \in [D -> V], NEW i \in D,
                      \A j \in D : rank[j] < rank[i] => f[j] = g[j]
               PROVE  B[f][i] = B[g][i]
    OBVIOUS
  <2> DEFINE p == i[1]
             n == i[2]
  <2>0. B[f][i] = Matching(f, a, p, n) /\ B[g][i] = Matching(g, a, p, n)
    BY <1>0
  <2>1. p \in 0..L /\ n \in 0..N /\ i = <<p, n>>
    BY <1>1
  <2>2. ASSUME NEW q \in 0..L, NEW m \in 0..N, (L - q) + (N - m) < (L - p) + (N - n)
        PROVE  f[<<q, m>>] = g[<<q, m>>]
    <3>1. <<q, m>> \in D
      BY <1>1
    <3>2. rank[<<q, m>>] < rank[i]
      BY <2>1, <2>2, <3>1
    <3> QED
      BY <3>1, <3>2
  <2> HIDE DEF p, n, D, rank
  <2>3. P(a, p) = Star => f[<<p + 1, n>>] = g[<<p + 1, n>>]
    <3>1. P(a, p) = Star => p \in 0..L - 1
      BY <2>1, Bytes DEF Star, EOS, L
    <3>2. p \in 0..L - 1 => p + 1 \in 0..L /\ (L - (p + 1)) + (N - n) < (L - p) + (N - n)
      BY <1>1, <2>1
    <3> QED
      BY <2>1, <2>2, <3>1, <3>2
  <2>4. ASSUME NEW q \in 0..L, q >= p, S(a, n) # EOS
        PROVE  f[<<q, n + 1>>] = g[<<q, n + 1>>]
    <3>1. n \in 0..N - 1
      BY <2>1, <2>4, Bytes DEF N
    <3>2. n + 1 \in 0..N /\ (L - q) + (N - (n + 1)) < (L - p) + (N - n)
      BY <1>1, <2>1, <2>4, <3>1
    <3> QED
      BY <2>2, <3>2
  <2>5. \A q \in PatternOffsets(a) : TokenTakes(a, p, q, n) => q >= p /\ S(a, n) # EOS
    BY <1>1, <2>1 DEF TokenTakes, OneTakes, BracketTakes, LiteralTakes, BracketAt, Wild
  <2>6. Wild(a, n) => S(a, n) # EOS
    BY DEF Wild
  <2>7. ASSUME NEW q \in PatternOffsets(a), TokenTakes(a, p, q, n)
        PROVE  f[<<q, n + 1>>] = g[<<q, n + 1>>]
    BY <1>1, <2>4, <2>5, <2>7
  <2>8. Wild(a, n) => f[<<p, n + 1>>] = g[<<p, n + 1>>]
    BY <2>1, <2>4, <2>6
  <2>9. (\E q \in PatternOffsets(a) : TokenTakes(a, p, q, n) /\ f[<<q, n + 1>>])
          <=> \E q \in PatternOffsets(a) : TokenTakes(a, p, q, n) /\ g[<<q, n + 1>>]
    BY <2>7
  <2>10. Matching(f, a, p, n) <=> Matching(g, a, p, n)
    BY <2>3, <2>8, <2>9 DEF Matching
  <2>11. Matching(f, a, p, n) = Matching(g, a, p, n)
    BY <1>2, <2>10
  <2> QED
    BY <2>0, <2>11
<1>5. rank \in [D -> Nat] /\ L + N + 1 \in Nat /\ \A i \in D : rank[i] < L + N + 1
  BY <1>1
<1>7. PICK f \in [D -> V] : f = B[f]
  <2> HIDE DEF D, V, rank
  <2>1. Computes(B, D, V, rank, L + N + 1)
    BY <1>3, <1>4, <1>5 DEF Computes
  <2> QED
    BY <2>1, Recursion
<1>8. f = [i \in D |-> Matching(f, a, i[1], i[2])]
  BY <1>0, <1>7
<1>9. Match(a) = [i \in D |-> Matching(Match(a), a, i[1], i[2])]
  BY <1>8 DEF Match
<1>10. Match(a) \in [D -> BOOLEAN]
  BY <1>2, <1>9
<1>11. ASSUME NEW p \in PatternOffsets(a), NEW n \in StringOffsets(a)
       PROVE  Match(a)[<<p, n>>] = Matching(Match(a), a, p, n)
  <2>1. <<p, n>> \in D
    OBVIOUS
  <2> QED
    BY <1>9, <2>1
<1> QED
  BY <1>10, <1>11

(* What may be matched at all, leading periods apart: no end, and no slash *)
(* that PATHNAME protects.                                                 *)
Inside(a, n) == S(a, n) # EOS /\ ~("PATHNAME" \in a.flags /\ S(a, n) = Slash)

(* What a star, a question mark or a bracket may match.                    *)
LEMMA WildInside ==
  ASSUME NEW a, NEW n
  PROVE  Wild(a, n) <=> Inside(a, n) /\ ~LeadingPeriod(a, n)
PROOF
  BY DEF Wild, Inside

(* Where a byte stands, the string goes on.                                *)
LEMMA InsideBound ==
  ASSUME NEW a, IsCall(a), NEW n \in StringOffsets(a), S(a, n) # EOS
  PROVE  n \in Nat /\ n + 1 \in StringOffsets(a) /\ n < StringEnd(a)
PROOF
  BY Bytes

(* Behind a byte that may be matched, no period is a leading one.          *)
LEMMA InsideNext ==
  ASSUME NEW a, IsCall(a), NEW n \in StringOffsets(a), Inside(a, n)
  PROVE  ~LeadingPeriod(a, n + 1)
PROOF
<1>1. n \in Nat /\ n + 1 \in Nat /\ n + 1 > 0 /\ (n + 1) - 1 = n
  BY Bytes
<1> QED
  BY <1>1, Leading DEF Inside

(* Where a bracket expression, a quoted character or another one ends.     *)
BracketEnd(a, p) == CHOOSE e \in PatternOffsets(a) : BracketAt(a, p, e)
TokenEnd(a, p) ==
  IF P(a, p) = Open THEN BracketEnd(a, p) + 1
  ELSE IF Escape(a, p) THEN p + 2 ELSE p + 1

(* The bracket expression at p has an end, it has no other, and what       *)
(* stands in it is plain.                                                  *)
LEMMA PlainBracket ==
  ASSUME NEW a, IsCall(a), PlainBrackets(a), NEW p \in PatternOffsets(a), P(a, p) = Open
  PROVE  /\ BracketEnd(a, p) \in PatternOffsets(a) /\ BracketAt(a, p, BracketEnd(a, p))
         /\ BracketEnd(a, p) > ListStart(a, p) /\ ListStart(a, p) \in {p + 1, p + 2}
         /\ BracketEnd(a, p) < PatternEnd(a)
         /\ \A e \in PatternOffsets(a) : BracketAt(a, p, e) => e = BracketEnd(a, p)
         /\ \A q \in p + 1..BracketEnd(a, p) - 1 : P(a, q) \notin {Close, Backslash, Slash, Open, EOS}
         /\ \A q, r \in ListStart(a, p)..BracketEnd(a, p) - 1 :
              P(a, q) = Minus /\ P(a, r) = Minus /\ q < r => q + 2 < r
         /\ \A q \in PatternOffsets(a) : RangeAt(a, ListStart(a, p), BracketEnd(a, p) - 1, q) =>
              Fold(a, P(a, q - 1)) <= Fold(a, P(a, q + 1))
PROOF
<1>1. PICK e \in PatternOffsets(a) :
        /\ BracketAt(a, p, e) /\ e > ListStart(a, p)
        /\ \A q \in p + 1..e - 1 : P(a, q) \notin {Backslash, Slash, Open}
        /\ \A q, r \in ListStart(a, p)..e - 1 :
             P(a, q) = Minus /\ P(a, r) = Minus /\ q < r => q + 2 < r
  BY DEF PlainBrackets
<1>2. p \in Nat /\ e \in Nat
  BY Bytes
<1>3. \A f \in PatternOffsets(a) : BracketAt(a, p, f) => f = e
  <2> SUFFICES ASSUME NEW f \in PatternOffsets(a), BracketAt(a, p, f) PROVE f = e
    OBVIOUS
  <2>1. f \in Nat
    BY Bytes
  <2>2. f > p + 1 /\ P(a, f) = Close /\ \A q \in p + 1..f - 1 : P(a, q) # Close
    BY DEF BracketAt
  <2>3. e > p + 1 /\ P(a, e) = Close /\ \A q \in p + 1..e - 1 : P(a, q) # Close
    BY <1>1 DEF BracketAt
  <2> QED
    BY <1>2, <2>1, <2>2, <2>3
<1>4. BracketEnd(a, p) = e
  BY <1>1, <1>3 DEF BracketEnd
<1>5. P(a, e) = Close /\ e > p + 1 /\ \A q \in p + 1..e - 1 : P(a, q) # Close
  BY <1>1 DEF BracketAt
<1>6. e \in 0..PatternEnd(a) - 1
  BY <1>2, <1>5, Bytes DEF Close, EOS
<1>7. \A q \in p + 1..e - 1 : P(a, q) # EOS
  BY <1>2, <1>6, Bytes
<1>8. ListStart(a, p) \in {p + 1, p + 2}
  BY DEF ListStart
<1>9. \A q \in PatternOffsets(a) : RangeAt(a, ListStart(a, p), e - 1, q) => q \in Ranges(a)
  BY <1>1 DEF Ranges
<1>10. \A q \in PatternOffsets(a) : RangeAt(a, ListStart(a, p), e - 1, q) =>
         Fold(a, P(a, q - 1)) <= Fold(a, P(a, q + 1))
  BY <1>9 DEF PlainBrackets
<1>11. e < PatternEnd(a)
  BY <1>2, <1>6, Bytes
<1> QED
  BY <1>1, <1>3, <1>4, <1>5, <1>7, <1>8, <1>10, <1>11

(* What stands at p, no star, ends at TokenEnd and nowhere else.           *)
LEMMA TokenEnds ==
  ASSUME NEW a, IsCall(a), PlainBrackets(a), NEW p \in PatternOffsets(a), P(a, p) # EOS
  PROVE  /\ TokenEnd(a, p) \in PatternOffsets(a) /\ TokenEnd(a, p) > p /\ p < PatternEnd(a)
         /\ \A n : \A q \in PatternOffsets(a) : TokenTakes(a, p, q, n) => q = TokenEnd(a, p)
PROOF
<1>1. p \in 0..PatternEnd(a) - 1 /\ p \in Nat /\ PatternEnd(a) \in Nat
  BY Bytes
<1>2. CASE P(a, p) = Open
  <2> DEFINE e == BracketEnd(a, p)
  <2>1. /\ e \in 0..PatternEnd(a) /\ e < PatternEnd(a) /\ e > p
        /\ \A f \in PatternOffsets(a) : BracketAt(a, p, f) => f = e
    <3>1. e > ListStart(a, p) /\ ListStart(a, p) \in {p + 1, p + 2} /\ e \in 0..PatternEnd(a)
      BY <1>2, PlainBracket, Bytes
    <3>2. e > p
      BY <1>1, <3>1
    <3> QED
      BY <1>2, <3>1, <3>2, PlainBracket
  <2> HIDE DEF e
  <2>2. e + 1 \in PatternOffsets(a) /\ e + 1 > p
    BY <1>1, <2>1, Bytes
  <2>3. TokenEnd(a, p) = e + 1
    BY <1>2 DEF TokenEnd, e
  <2>4. ASSUME NEW q \in PatternOffsets(a), NEW n, TokenTakes(a, p, q, n) PROVE q = e + 1
    <3>1. BracketTakes(a, p, q, n)
      BY <1>2, <2>4 DEF TokenTakes, OneTakes, LiteralTakes, Open, Question
    <3>2. BracketAt(a, p, q - 1)
      BY <3>1 DEF BracketTakes
    <3>3. q \in 0..PatternEnd(a) /\ q - 1 > p + 1
      BY <3>2, Bytes DEF BracketAt
    <3>4. q - 1 \in PatternOffsets(a)
      BY <1>1, <3>3, Bytes
    <3>5. q - 1 = e
      BY <2>1, <3>2, <3>4
    <3> QED
      BY <2>1, <3>3, <3>5
  <2> QED
    BY <1>1, <2>2, <2>3, <2>4
<1>3. CASE P(a, p) # Open
  <2>1. TokenEnd(a, p) = IF Escape(a, p) THEN p + 2 ELSE p + 1
    BY <1>3 DEF TokenEnd
  <2>2. Escape(a, p) => p + 1 \in 0..PatternEnd(a) - 1
    BY <1>1, Bytes DEF Escape
  <2>3. TokenEnd(a, p) \in PatternOffsets(a) /\ TokenEnd(a, p) > p
    BY <1>1, <2>1, <2>2, Bytes
  <2>4. ASSUME NEW q \in PatternOffsets(a), NEW n, TokenTakes(a, p, q, n)
        PROVE  q = TokenEnd(a, p)
    <3>1. ~BracketTakes(a, p, q, n)
      BY <1>3 DEF BracketTakes, BracketAt
    <3>2. OneTakes(a, p, q, n) => q = TokenEnd(a, p)
      BY <2>1 DEF OneTakes, Escape, Question, Backslash
    <3>3. LiteralTakes(a, p, q, n) => q = TokenEnd(a, p)
      BY <1>1, <2>1 DEF LiteralTakes
    <3> QED
      BY <2>4, <3>1, <3>2, <3>3 DEF TokenTakes
  <2> QED
    BY <1>1, <2>3, <2>4
<1> QED
  BY <1>2, <1>3

(* The byte at n is taken by what stands at p.                             *)
Takes1(a, p, n) == TokenTakes(a, p, TokenEnd(a, p), n)

(* What each kind of character takes.                                      *)
LEMMA TakesCases ==
  ASSUME NEW a, IsCall(a), PlainBrackets(a), NEW p \in PatternOffsets(a),
         P(a, p) \notin {EOS, Star}, NEW n
  PROVE  /\ P(a, p) = Question => (Takes1(a, p, n) <=> Wild(a, n))
         /\ P(a, p) = Open =>
              (Takes1(a, p, n) <=> Wild(a, n) /\ Accepts(a, p, BracketEnd(a, p), S(a, n)))
         /\ P(a, p) \notin {Question, Open} =>
              (Takes1(a, p, n) <=>
                 S(a, n) # EOS /\ Fold(a, P(a, IF Escape(a, p) THEN p + 1 ELSE p)) = Fold(a, S(a, n)))
         /\ Takes1(a, p, n) => S(a, n) # EOS
PROOF
<1>1. p \in Nat
  BY Bytes
<1>2. P(a, p) = Question => (Takes1(a, p, n) <=> Wild(a, n))
  BY <1>1 DEF Takes1, TokenTakes, OneTakes, BracketTakes, BracketAt, LiteralTakes, TokenEnd, Escape,
     Question, Open, Backslash
<1>3. P(a, p) = Open =>
        (Takes1(a, p, n) <=> Wild(a, n) /\ Accepts(a, p, BracketEnd(a, p), S(a, n)))
  <2> SUFFICES ASSUME P(a, p) = Open
               PROVE  Takes1(a, p, n) <=> Wild(a, n) /\ Accepts(a, p, BracketEnd(a, p), S(a, n))
    OBVIOUS
  <2>1. BracketAt(a, p, BracketEnd(a, p)) /\ BracketEnd(a, p) \in Nat
    BY PlainBracket, Bytes
  <2>2. TokenEnd(a, p) - 1 = BracketEnd(a, p)
    BY <2>1 DEF TokenEnd
  <2>3. Takes1(a, p, n) <=> BracketTakes(a, p, TokenEnd(a, p), n)
    BY DEF Takes1, TokenTakes, OneTakes, LiteralTakes, Question, Open
  <2> QED
    BY <2>1, <2>2, <2>3 DEF BracketTakes
<1>4. P(a, p) \notin {Question, Open} =>
        (Takes1(a, p, n) <=>
           S(a, n) # EOS /\ Fold(a, P(a, IF Escape(a, p) THEN p + 1 ELSE p)) = Fold(a, S(a, n)))
  <2> SUFFICES ASSUME P(a, p) \notin {Question, Open}
               PROVE  Takes1(a, p, n) <=>
                        S(a, n) # EOS /\ Fold(a, P(a, IF Escape(a, p) THEN p + 1 ELSE p)) = Fold(a, S(a, n))
    OBVIOUS
  <2>1. Takes1(a, p, n) <=> LiteralTakes(a, p, TokenEnd(a, p), n)
    BY DEF Takes1, TokenTakes, OneTakes, BracketTakes, BracketAt
  <2>2. TokenEnd(a, p) = (IF Escape(a, p) THEN p + 1 ELSE p) + 1
    BY <1>1 DEF TokenEnd
  <2> QED
    BY <2>1, <2>2 DEF LiteralTakes
<1>5. Takes1(a, p, n) => S(a, n) # EOS
  BY <1>2, <1>3, <1>4 DEF Wild
<1> QED
  BY <1>2, <1>3, <1>4, <1>5

(* What the reference says, one step at a time.                            *)
LEMMA Steps ==
  ASSUME NEW a, IsCall(a), PlainBrackets(a),
         NEW p \in PatternOffsets(a), NEW n \in StringOffsets(a)
  PROVE  /\ P(a, p) = EOS =>
              (Match(a)[<<p, n>>] <=> S(a, n) = EOS \/ ("LEADING_DIR" \in a.flags /\ S(a, n) = Slash))
         /\ P(a, p) = Star =>
              (Match(a)[<<p, n>>] <=>
                 /\ ~LeadingPeriod(a, n)
                 /\ Match(a)[<<p + 1, n>>] \/ (Wild(a, n) /\ Match(a)[<<p, n + 1>>]))
         /\ P(a, p) \notin {EOS, Star} =>
              (Match(a)[<<p, n>>] <=> Takes1(a, p, n) /\ Match(a)[<<TokenEnd(a, p), n + 1>>])
PROOF
<1> DEFINE M == Match(a)
<1>1. M[<<p, n>>] <=> Matching(M, a, p, n)
  BY MatchExists
<1> HIDE DEF M
<1>2. ASSUME P(a, p) \in {EOS, Star}
      PROVE  ~\E q \in PatternOffsets(a) : TokenTakes(a, p, q, n) /\ M[<<q, n + 1>>]
  <2>1. ASSUME NEW q PROVE ~TokenTakes(a, p, q, n)
    BY <1>2 DEF TokenTakes, OneTakes, BracketTakes, BracketAt, LiteralTakes, EOS, Star, Question, Open
  <2> QED
    BY <2>1
<1>3. P(a, p) # EOS => TokenEnd(a, p) \in PatternOffsets(a)
                       /\ \A q \in PatternOffsets(a) : TokenTakes(a, p, q, n) => q = TokenEnd(a, p)
  BY TokenEnds
<1>0. EOS # Star
  BY DEF EOS, Star
<1>4. CASE P(a, p) = EOS
  <2>1. M[<<p, n>>] <=> S(a, n) = EOS \/ ("LEADING_DIR" \in a.flags /\ S(a, n) = Slash)
    BY <1>1, <1>2, <1>4, <1>0 DEF Matching
  <2> QED
    BY <1>4, <2>1 DEF M, EOS, Star
<1>5. CASE P(a, p) = Star
  <2>1. M[<<p, n>>] <=> /\ ~LeadingPeriod(a, n)
                        /\ M[<<p + 1, n>>] \/ (Wild(a, n) /\ M[<<p, n + 1>>])
    BY <1>1, <1>2, <1>5, <1>0 DEF Matching
  <2> QED
    BY <1>5, <2>1 DEF M, EOS, Star
<1>6. CASE P(a, p) \notin {EOS, Star}
  <2>1. M[<<p, n>>] <=> \E q \in PatternOffsets(a) : TokenTakes(a, p, q, n) /\ M[<<q, n + 1>>]
    BY <1>1, <1>6 DEF Matching
  <2>2. M[<<p, n>>] <=> Takes1(a, p, n) /\ M[<<TokenEnd(a, p), n + 1>>]
    BY <1>3, <1>6, <2>1 DEF Takes1
  <2> QED
    BY <1>6, <2>2 DEF M
<1> QED
  BY <1>4, <1>5, <1>6

-----------------------------------------------------------------------------
(* Stars and question marks.                                               *)

(* All from n up to m may be matched, leading periods apart.               *)
Span(a, n, m) == \A k \in n..m - 1 : Inside(a, k)

(* Behind what may be matched no period is a leading one.                  *)
LEMMA SpanNext ==
  ASSUME NEW a, IsCall(a), NEW n \in StringOffsets(a), NEW m \in StringOffsets(a),
         n <= m, Span(a, n, m), ~LeadingPeriod(a, n)
  PROVE  ~LeadingPeriod(a, m)
PROOF
<1>1. n \in Nat /\ m \in Nat
  BY Bytes
<1>2. CASE n < m
  <2>1. m - 1 \in n..m - 1 /\ m - 1 \in StringOffsets(a) /\ (m - 1) + 1 = m
    BY <1>1, <1>2, Bytes
  <2>2. Inside(a, m - 1)
    BY <2>1 DEF Span
  <2> QED
    BY <2>1, <2>2, InsideNext
<1> QED
  BY <1>1, <1>2

(* A star matches any stretch of bytes that may be matched.                *)
LEMMA StarMeans ==
  ASSUME NEW a, IsCall(a), PlainBrackets(a),
         NEW p \in PatternOffsets(a), P(a, p) = Star, NEW n \in StringOffsets(a)
  PROVE  Match(a)[<<p, n>>] <=>
           /\ ~LeadingPeriod(a, n)
           /\ \E m \in StringOffsets(a) : n <= m /\ Span(a, n, m) /\ Match(a)[<<p + 1, m>>]
PROOF
<1> DEFINE M == Match(a)
           N == StringEnd(a)
           Right(i) == /\ ~LeadingPeriod(a, i)
                       /\ \E m \in 0..N : i <= m /\ Span(a, i, m) /\ M[<<p + 1, m>>]
           T == {i \in 0..N : M[<<p, i>>] <=> Right(i)}
<1>1. N \in Nat /\ StringOffsets(a) = 0..N
  BY Bytes
<1>2. ASSUME NEW i \in 0..N
      PROVE  M[<<p, i>>] <=> /\ ~LeadingPeriod(a, i)
                             /\ M[<<p + 1, i>>] \/ (Wild(a, i) /\ M[<<p, i + 1>>])
  BY <1>1, Steps
<1> HIDE DEF M
<1>3. ASSUME NEW i \in 0..N, \A j \in i + 1..N : j \in T
      PROVE  i \in T
  <2>1. Span(a, i, i)
    BY DEF Span
  <2>2. ASSUME M[<<p, i>>] PROVE Right(i)
    <3>1. ~LeadingPeriod(a, i) /\ (M[<<p + 1, i>>] \/ (Wild(a, i) /\ M[<<p, i + 1>>]))
      BY <1>2, <2>2
    <3>2. CASE M[<<p + 1, i>>]
      BY <2>1, <3>1, <3>2
    <3>3. CASE Wild(a, i) /\ M[<<p, i + 1>>]
      <4>1. Inside(a, i) /\ i + 1 \in 0..N
        BY <1>1, <3>3, WildInside, InsideBound DEF Inside
      <4>2. Right(i + 1)
        BY <1>1, <1>3, <3>3, <4>1
      <4>3. PICK m \in 0..N : i + 1 <= m /\ Span(a, i + 1, m) /\ M[<<p + 1, m>>]
        BY <4>2
      <4>4. Span(a, i, m) /\ i <= m
        BY <1>1, <4>1, <4>3 DEF Span
      <4> QED
        BY <3>1, <4>3, <4>4
    <3> QED
      BY <3>1, <3>2, <3>3
  <2>3. ASSUME Right(i) PROVE M[<<p, i>>]
    <3>1. PICK m \in 0..N : i <= m /\ Span(a, i, m) /\ M[<<p + 1, m>>]
      BY <2>3
    <3>2. CASE m = i
      BY <1>2, <2>3, <3>1, <3>2
    <3>3. CASE i < m
      <4>1. i \in i..m - 1
        BY <1>1, <3>3
      <4>2. Inside(a, i)
        BY <3>1, <4>1 DEF Span
      <4>3. i + 1 \in 0..N /\ i + 1 \in i + 1..N /\ i + 1 <= m
        BY <1>1, <3>3
      <4>4. Span(a, i + 1, m)
        BY <1>1, <3>1, <4>3 DEF Span
      <4>5. ~LeadingPeriod(a, i + 1) /\ Wild(a, i)
        BY <1>1, <2>3, <4>2, InsideNext, WildInside
      <4>6. M[<<p, i + 1>>]
        BY <1>3, <3>1, <4>3, <4>4, <4>5
      <4> QED
        BY <1>2, <2>3, <4>5, <4>6
    <3> QED
      BY <1>1, <3>1, <3>2, <3>3
  <2> QED
    BY <2>2, <2>3
<1>4. n \in T
  <2> HIDE DEF T
  <2>1. 0..N \subseteq T
    BY <1>1, <1>3, AllDownward
  <2> QED
    BY <1>1, <2>1
<1> QED
  BY <1>1, <1>4 DEF M

(* A star that matches from m on matches from every place before it that   *)
(* it reaches m from.                                                      *)
LEMMA StarEarlier ==
  ASSUME NEW a, IsCall(a), PlainBrackets(a),
         NEW p \in PatternOffsets(a), P(a, p) = Star,
         NEW n \in StringOffsets(a), NEW m \in StringOffsets(a),
         n <= m, Span(a, n, m), ~LeadingPeriod(a, n), Match(a)[<<p, m>>]
  PROVE  Match(a)[<<p, n>>]
PROOF
<1>1. PICK k \in StringOffsets(a) : m <= k /\ Span(a, m, k) /\ Match(a)[<<p + 1, k>>]
  BY StarMeans
<1>2. n \in Nat /\ m \in Nat /\ k \in Nat
  BY Bytes
<1>3. n <= k /\ Span(a, n, k)
  BY <1>1, <1>2 DEF Span
<1> QED
  BY <1>1, <1>3, StarMeans

Marks(a, p, q)   == {r \in p..q - 1 : P(a, r) = Question}
Starred(a, p, q) == \E r \in p..q - 1 : P(a, r) = Star

(* The question marks and stars of a run, one at a time.                   *)
LEMMA MarksStep ==
  ASSUME NEW a, NEW p \in Nat, NEW q \in Nat
  PROVE  /\ Cardinality(Marks(a, p, q)) \in Nat
         /\ p = q => Cardinality(Marks(a, p, q)) = 0 /\ ~Starred(a, p, q)
         /\ p < q /\ P(a, p) = Question =>
              /\ Cardinality(Marks(a, p, q)) = Cardinality(Marks(a, p + 1, q)) + 1
              /\ Starred(a, p, q) <=> Starred(a, p + 1, q)
         /\ p < q /\ P(a, p) = Star =>
              /\ Cardinality(Marks(a, p, q)) = Cardinality(Marks(a, p + 1, q))
              /\ Starred(a, p, q)
PROOF
<1>1. \A i \in Nat : IsFiniteSet(Marks(a, i, q))
  <2> SUFFICES ASSUME NEW i \in Nat PROVE IsFiniteSet(Marks(a, i, q))
    OBVIOUS
  <2>1. IsFiniteSet(i..q - 1)
    BY FS_Interval
  <2> QED
    BY <2>1, FS_Subset DEF Marks
<1>2. Cardinality(Marks(a, p, q)) \in Nat
  BY <1>1, FS_CardinalityType
<1>3. p = q => Cardinality(Marks(a, p, q)) = 0 /\ ~Starred(a, p, q)
  <2>1. p = q => Marks(a, p, q) = {} /\ ~Starred(a, p, q)
    BY DEF Marks, Starred
  <2> QED
    BY <2>1, FS_EmptySet
<1>4. ASSUME p < q, P(a, p) = Question
      PROVE  /\ Cardinality(Marks(a, p, q)) = Cardinality(Marks(a, p + 1, q)) + 1
             /\ Starred(a, p, q) <=> Starred(a, p + 1, q)
  <2>1. Marks(a, p, q) = Marks(a, p + 1, q) \cup {p} /\ p \notin Marks(a, p + 1, q)
    BY <1>4 DEF Marks
  <2>2. IsFiniteSet(Marks(a, p + 1, q))
    BY <1>1
  <2>3. Cardinality(Marks(a, p, q)) = Cardinality(Marks(a, p + 1, q)) + 1
    BY <2>1, <2>2, FS_AddElement
  <2> QED
    BY <1>4, <2>3 DEF Starred, Star, Question
<1>5. ASSUME p < q, P(a, p) = Star
      PROVE  /\ Cardinality(Marks(a, p, q)) = Cardinality(Marks(a, p + 1, q))
             /\ Starred(a, p, q)
  <2>1. Marks(a, p, q) = Marks(a, p + 1, q)
    BY <1>5 DEF Marks, Star, Question
  <2>2. p \in p..q - 1
    BY <1>5
  <2> QED
    BY <1>5, <2>1, <2>2 DEF Starred
<1> QED
  BY <1>2, <1>3, <1>4, <1>5

(* A run of stars and question marks takes a byte for each question mark,  *)
(* and with a star any number of others.                                   *)
Wilds(a, p, q) == p <= q /\ \A r \in p..q - 1 : P(a, r) \in {Star, Question}
WildTo(a, p, q, n, m) ==
  /\ n + Cardinality(Marks(a, p, q)) <= m
  /\ Starred(a, p, q) \/ m = n + Cardinality(Marks(a, p, q))
  /\ Span(a, n, m)
WildOn(a, p, q, n) == \E m \in StringOffsets(a) : WildTo(a, p, q, n, m) /\ Match(a)[<<q, m>>]

(* A run of stars and question marks matches a byte for each question      *)
(* mark, and with a star any number more.                                  *)
LEMMA WildRun ==
  ASSUME NEW a, IsCall(a), PlainBrackets(a),
         NEW p \in PatternOffsets(a), NEW q \in PatternOffsets(a), Wilds(a, p, q),
         NEW n \in StringOffsets(a), ~LeadingPeriod(a, n)
  PROVE  Match(a)[<<p, n>>] <=> WildOn(a, p, q, n)
PROOF
<1> USE DEF Wilds
<1> DEFINE M == Match(a)
           L == PatternEnd(a)
           N == StringEnd(a)
           Card(i) == Cardinality(Marks(a, i, q))
           Right(i, k) == \E m \in 0..N :
             k + Card(i) <= m /\ (Starred(a, i, q) \/ m = k + Card(i)) /\ Span(a, k, m) /\ M[<<q, m>>]
           T == {i \in 0..q : i >= p =>
                   \A k \in 0..N : ~LeadingPeriod(a, k) => (M[<<i, k>>] <=> Right(i, k))}
<1>1. N \in Nat /\ StringOffsets(a) = 0..N /\ L \in Nat /\ p \in 0..L /\ q \in 0..L
      /\ PatternOffsets(a) = 0..L
  BY Bytes
<1>2. \A k \in 0..N : Span(a, k, k)
  BY DEF Span
<1>5. p \in Nat /\ q \in Nat
  BY <1>1
<1>6. ASSUME NEW i \in Nat
      PROVE  /\ Card(i) \in Nat
             /\ i = q => Card(i) = 0 /\ ~Starred(a, i, q)
             /\ i < q /\ P(a, i) = Question =>
                  Card(i) = Card(i + 1) + 1 /\ (Starred(a, i, q) <=> Starred(a, i + 1, q))
             /\ i < q /\ P(a, i) = Star => Card(i) = Card(i + 1) /\ Starred(a, i, q)
  BY <1>5, MarksStep
<1> HIDE DEF Card, M
<1>3. ASSUME NEW i \in 0..q, \A j \in i + 1..q : j \in T
      PROVE  i \in T
  <2> SUFFICES ASSUME i >= p, NEW k \in 0..N, ~LeadingPeriod(a, k)
               PROVE  M[<<i, k>>] <=> Right(i, k)
    OBVIOUS
  <2>a. i \in Nat /\ i + 1 \in Nat /\ k \in Nat
    BY <1>5
  <2>b. i \in 0..L
    BY <1>1, <1>5
  <2>c. Card(i) \in Nat /\ Card(i + 1) \in Nat
    BY <1>6, <2>a
  <2>0. Card(i) \in Nat /\ Card(i + 1) \in Nat /\ i \in 0..L /\ i \in Nat /\ k \in Nat
    BY <2>a, <2>b, <2>c
  <2>1. CASE i = q
    <3>1. Card(i) = 0 /\ ~Starred(a, i, q)
      BY <2>0, <2>1, <1>6
    <3>2. k + Card(i) = k /\ Span(a, k, k)
      BY <1>2, <2>0, <3>1
    <3>3. M[<<q, k>>] => Right(i, k)
      BY <2>0, <3>2
    <3>4. Right(i, k) => M[<<q, k>>]
      BY <3>1, <3>2
    <3> QED
      BY <2>1, <3>3, <3>4
  <2>2. CASE i < q /\ P(a, i) = Question
    <3>1. Card(i) = Card(i + 1) + 1 /\ (Starred(a, i, q) <=> Starred(a, i + 1, q))
      BY <2>0, <2>2, <1>6
    <3>2. M[<<i, k>>] <=> Wild(a, k) /\ M[<<i + 1, k + 1>>]
      <4>1. P(a, i) \notin {EOS, Star} /\ TokenEnd(a, i) = i + 1
        BY <2>2 DEF EOS, Star, Question, TokenEnd, Open, Escape, Backslash
      <4>2. Takes1(a, i, k) <=> Wild(a, k)
        BY <1>1, <2>0, <2>2, <4>1, TakesCases
      <4> QED
        BY <1>1, <2>0, <4>1, <4>2, Steps DEF M
    <3>3. ASSUME M[<<i, k>>] PROVE Right(i, k)
      <4>1. Inside(a, k) /\ k + 1 \in 0..N /\ ~LeadingPeriod(a, k + 1)
        BY <1>1, <3>2, <3>3, WildInside, InsideBound, InsideNext DEF Inside
      <4>2. i + 1 \in T /\ i + 1 >= p
        BY SMTT(30), <1>1, <1>3, <2>2
      <4>3. PICK m \in 0..N : /\ (k + 1) + Card(i + 1) <= m
                              /\ (Starred(a, i + 1, q) \/ m = (k + 1) + Card(i + 1))
                              /\ Span(a, k + 1, m) /\ M[<<q, m>>]
        BY <3>2, <3>3, <4>1, <4>2
      <4>4. Span(a, k, m)
        BY SMTT(30), <1>1, <2>0, <4>1, <4>3 DEF Span
      <4>5. k + Card(i) <= m /\ (Starred(a, i, q) \/ m = k + Card(i))
        BY <2>0, <3>1, <4>3
      <4> QED
        BY <4>3, <4>4, <4>5
    <3>4. ASSUME Right(i, k) PROVE M[<<i, k>>]
      <4>1. PICK m \in 0..N : /\ k + Card(i) <= m /\ (Starred(a, i, q) \/ m = k + Card(i))
                              /\ Span(a, k, m) /\ M[<<q, m>>]
        BY <3>4
      <4>2. k \in k..m - 1 /\ k + 1 \in 0..N
        BY <1>1, <2>0, <3>1, <4>1
      <4>3. Inside(a, k)
        BY <4>1, <4>2 DEF Span
      <4>4. ~LeadingPeriod(a, k + 1) /\ Wild(a, k)
        BY <1>1, <4>3, InsideNext, WildInside
      <4>5. Span(a, k + 1, m)
        BY <4>1 DEF Span
      <4>6. i + 1 \in T /\ i + 1 >= p
        BY <1>1, <1>3, <2>2
      <4>7. (k + 1) + Card(i + 1) <= m /\ (Starred(a, i + 1, q) \/ m = (k + 1) + Card(i + 1))
        BY <2>0, <3>1, <4>1
      <4>8. M[<<i + 1, k + 1>>]
        BY <4>1, <4>2, <4>4, <4>5, <4>6, <4>7
      <4> QED
        BY <3>2, <4>4, <4>8
    <3> QED
      BY <3>3, <3>4
  <2>3. CASE i < q /\ P(a, i) = Star
    <3>1. Card(i) = Card(i + 1) /\ Starred(a, i, q)
      BY <2>0, <2>3, <1>6
    <3>2. M[<<i, k>>] <=> \E m \in 0..N : k <= m /\ Span(a, k, m) /\ M[<<i + 1, m>>]
      BY <1>1, <2>0, <2>3, StarMeans DEF M
    <3>3. i + 1 \in T /\ i + 1 >= p
      <4>1. i + 1 \in i + 1..q /\ i + 1 >= p
        BY <1>1, <2>0, <2>3
      <4> HIDE DEF T
      <4> QED
        BY <1>3, <4>1
    <3>4. ASSUME M[<<i, k>>] PROVE Right(i, k)
      <4>1. PICK m \in 0..N : k <= m /\ Span(a, k, m) /\ M[<<i + 1, m>>]
        BY <3>2, <3>4
      <4>2. ~LeadingPeriod(a, m)
        BY <1>1, <4>1, SpanNext
      <4>3. Right(i + 1, m)
        BY <3>3, <4>1, <4>2
      <4>4. PICK j \in 0..N : m + Card(i + 1) <= j /\ Span(a, m, j) /\ M[<<q, j>>]
        BY <4>3
      <4>5. Span(a, k, j)
        BY <4>1, <4>4 DEF Span
      <4> QED
        BY <2>0, <3>1, <4>1, <4>4, <4>5
    <3>5. ASSUME Right(i, k) PROVE M[<<i, k>>]
      <4>1. PICK m \in 0..N : k + Card(i) <= m /\ Span(a, k, m) /\ M[<<q, m>>]
        BY <3>5
      <4> DEFINE j == m - Card(i)
      <4>2. j \in 0..N /\ k <= j /\ j + Card(i + 1) = m /\ j <= m
        BY <1>1, <2>0, <3>1, <4>1
      <4>3. Span(a, k, j) /\ Span(a, j, m)
        BY <2>0, <4>1, <4>2 DEF Span
      <4> HIDE DEF j
      <4>4. ~LeadingPeriod(a, j)
        BY <1>1, <4>2, <4>3, SpanNext
      <4>5. Right(i + 1, j)
        BY <4>1, <4>2, <4>3, <2>0
      <4>6. M[<<i + 1, j>>]
        BY <3>3, <4>2, <4>4, <4>5
      <4> QED
        BY <3>2, <4>2, <4>3, <4>6
    <3> QED
      BY <3>4, <3>5
  <2> QED
    BY <1>1, <2>1, <2>2, <2>3
<1>4. p \in T
  <2> HIDE DEF T
  <2>1. 0..q \subseteq T
    BY <1>3, <1>5, AllDownward
  <2> QED
    BY <1>1, <1>5, <2>1
<1>7. M[<<p, n>>] <=> Right(p, n)
  <2>1. \A k \in 0..N : ~LeadingPeriod(a, k) => (M[<<p, k>>] <=> Right(p, k))
    <3>1. p >= p
      BY <1>5
    <3> QED
      BY <1>4, <3>1
  <2> HIDE DEF Right
  <2> QED
    BY <1>1, <2>1
<1> QED
  BY <1>1, <1>7 DEF M, Card, WildTo, WildOn

-----------------------------------------------------------------------------
(* Lists of bracket expressions, item by item.                             *)

Item(a, lo, hi, q, c) ==
  IF RangeAt(a, lo, hi, q) THEN Fold(a, P(a, q - 1)) <= c /\ c <= Fold(a, P(a, q + 1))
                           ELSE Fold(a, P(a, q)) = c
ListsFrom(a, p, c, q) ==
  \E x \in q..BracketEnd(a, p) - 1 : Item(a, ListStart(a, p), BracketEnd(a, p) - 1, x, c)

(* An item of the list of the bracket expression at p starts at q.         *)
ItemAt(a, p, q) ==
  /\ q \in ListStart(a, p)..BracketEnd(a, p)
  /\ ~RangeAt(a, ListStart(a, p), BracketEnd(a, p) - 1, q)

(* A list is what its items list, from the first one on.                   *)
LEMMA FirstItem ==
  ASSUME NEW a, IsCall(a), PlainBrackets(a), NEW p \in PatternOffsets(a), P(a, p) = Open, NEW c
  PROVE  /\ ItemAt(a, p, ListStart(a, p))
         /\ Lists(a, ListStart(a, p), BracketEnd(a, p) - 1, c) <=> ListsFrom(a, p, c, ListStart(a, p))
         /\ ~ListsFrom(a, p, c, BracketEnd(a, p))
PROOF
<1>1. p \in Nat /\ ListStart(a, p) \in Nat /\ BracketEnd(a, p) \in Nat
      /\ BracketEnd(a, p) > ListStart(a, p)
  BY PlainBracket, Bytes
<1> QED
  BY <1>1 DEF ItemAt, RangeAt, Lists, ListsFrom, Item

(* An item of a list is a range or a byte; the next one follows it.        *)
LEMMA NextItem ==
  ASSUME NEW a, IsCall(a), PlainBrackets(a), NEW p \in PatternOffsets(a), P(a, p) = Open,
         NEW c \in Int, NEW q, ItemAt(a, p, q), q # BracketEnd(a, p)
  PROVE  /\ q \in Nat /\ q < BracketEnd(a, p) /\ BracketEnd(a, p) \in Nat
         /\ P(a, q) \notin {Close, Backslash, Slash, Open, EOS}
         /\ P(a, q + 1) = Minus /\ P(a, q + 2) # Close =>
              /\ ItemAt(a, p, q + 3)
              /\ q + 2 < BracketEnd(a, p) /\ P(a, q + 2) \notin {Backslash, Slash, Open, EOS}
              /\ q + 1 \in Ranges(a)
              /\ ListsFrom(a, p, c, q) <=>
                   \/ Fold(a, P(a, q)) <= c /\ c <= Fold(a, P(a, q + 2))
                   \/ ListsFrom(a, p, c, q + 3)
         /\ ~(P(a, q + 1) = Minus /\ P(a, q + 2) # Close) =>
              /\ ItemAt(a, p, q + 1)
              /\ ListsFrom(a, p, c, q) <=> Fold(a, P(a, q)) = c \/ ListsFrom(a, p, c, q + 1)
PROOF
<1> DEFINE lo == ListStart(a, p)
           e  == BracketEnd(a, p)
<1>1. /\ e \in PatternOffsets(a) /\ BracketAt(a, p, e) /\ lo \in {p + 1, p + 2} /\ e > lo
      /\ e < PatternEnd(a)
      /\ \A x \in p + 1..e - 1 : P(a, x) \notin {Close, Backslash, Slash, Open, EOS}
      /\ \A x, y \in lo..e - 1 : P(a, x) = Minus /\ P(a, y) = Minus /\ x < y => x + 2 < y
      /\ \A x \in PatternOffsets(a) : RangeAt(a, lo, e - 1, x) =>
              Fold(a, P(a, x - 1)) <= Fold(a, P(a, x + 1))
  BY PlainBracket
<1>2. q \in lo..e /\ ~RangeAt(a, lo, e - 1, q) /\ q # e
  BY DEF ItemAt
<1>10. \A x : ListsFrom(a, p, c, x) <=> \E y \in x..e - 1 : Item(a, lo, e - 1, y, c)
  BY DEF ListsFrom
<1>11. \A x : ItemAt(a, p, x) <=> x \in lo..e /\ ~RangeAt(a, lo, e - 1, x)
  BY DEF ItemAt
<1>12. \A x \in PatternOffsets(a) : RangeAt(a, lo, e - 1, x) => x \in Ranges(a)
  BY <1>1 DEF Ranges
<1> HIDE DEF lo, e
<1>3. p \in Nat /\ e \in Nat /\ lo \in Nat /\ q \in Nat /\ PatternEnd(a) \in Nat
  BY SMTT(30), <1>1, <1>2, Bytes
<1>4. q \in p + 1..e - 1 /\ q + 1 \in Nat /\ q + 2 \in Nat
  BY <1>1, <1>2, <1>3
<1>5. P(a, q) \notin {Close, Backslash, Slash, Open, EOS}
  BY <1>1, <1>4
<1>6. P(a, e) = Close
  BY <1>1 DEF BracketAt
<1>7. ASSUME P(a, q + 1) = Minus, P(a, q + 2) # Close
      PROVE  /\ ItemAt(a, p, q + 3)
             /\ q + 2 < e /\ P(a, q + 2) \notin {Backslash, Slash, Open, EOS}
             /\ q + 1 \in Ranges(a)
             /\ ListsFrom(a, p, c, q) <=>
                  \/ Fold(a, P(a, q)) <= c /\ c <= Fold(a, P(a, q + 2))
                  \/ ListsFrom(a, p, c, q + 3)
  <2>1. q + 1 # e /\ q + 2 # e
    BY <1>6, <1>7 DEF Minus, Close
  <2>2. q + 2 < e
    BY <1>3, <1>4, <2>1
  <2>3. P(a, q + 2) \notin {Backslash, Slash, Open, EOS}
    BY <1>1, <1>3, <1>4, <2>2
  <2>4. RangeAt(a, lo, e - 1, q + 1) /\ q + 1 \in PatternOffsets(a) /\ (q + 1) - 1 = q /\ (q + 1) + 1 = q + 2
    BY <1>1, <1>2, <1>3, <1>7, <2>2, Bytes DEF RangeAt
  <2>5. q + 1 \in lo..e - 1 /\ q + 2 \in lo..e - 1 /\ q + 3 \in lo..e
    BY <1>2, <1>3, <2>2
  <2>6. P(a, q + 2) # Minus /\ (q + 3 < e => P(a, q + 3) # Minus)
    BY <1>1, <1>3, <1>7, <2>5
  <2>7. ~RangeAt(a, lo, e - 1, q + 2) /\ ~RangeAt(a, lo, e - 1, q + 3)
    BY <1>3, <2>5, <2>6 DEF RangeAt
  <2>8. Fold(a, P(a, q)) <= Fold(a, P(a, q + 2))
    BY <1>1, <2>4
  <2>9. Fold(a, P(a, q)) \in Int /\ Fold(a, P(a, q + 2)) \in Int
    <3>1. P(a, q) \in 0..127 /\ P(a, q + 2) \in 0..127
      BY <1>3, <1>4, Bytes
    <3>2. \A x \in 0..127 : Fold(a, x) \in Int
      BY FoldedInt
    <3>3. Fold(a, P(a, q)) \in Int
      BY <3>1, <3>2
    <3>4. Fold(a, P(a, q + 2)) \in Int
      BY <3>1, <3>2
    <3> QED
      BY <3>3, <3>4
  <2>10. /\ Item(a, lo, e - 1, q, c) <=> Fold(a, P(a, q)) = c
         /\ Item(a, lo, e - 1, q + 1, c) <=> Fold(a, P(a, q)) <= c /\ c <= Fold(a, P(a, q + 2))
         /\ Item(a, lo, e - 1, q + 2, c) <=> Fold(a, P(a, q + 2)) = c
    BY <1>2, <2>4, <2>7 DEF Item
  <2>11. \A y : y \in q..e - 1 <=> y \in {q, q + 1, q + 2} \/ y \in q + 3..e - 1
    BY <1>3, <2>2
  <2>12. ListsFrom(a, p, c, q) <=>
           \/ Fold(a, P(a, q)) <= c /\ c <= Fold(a, P(a, q + 2))
           \/ ListsFrom(a, p, c, q + 3)
    <3>1. ListsFrom(a, p, c, q) <=>
             \/ Item(a, lo, e - 1, q, c) \/ Item(a, lo, e - 1, q + 1, c) \/ Item(a, lo, e - 1, q + 2, c)
             \/ ListsFrom(a, p, c, q + 3)
      BY <1>10, <2>11
    <3>2. Fold(a, P(a, q)) = c \/ Fold(a, P(a, q + 2)) = c =>
            Fold(a, P(a, q)) <= c /\ c <= Fold(a, P(a, q + 2))
      BY <2>8, <2>9
    <3> QED
      BY <2>10, <3>1, <3>2
  <2>13. ItemAt(a, p, q + 3)
    BY <1>11, <2>5, <2>7
  <2> QED
    BY <1>12, <2>2, <2>3, <2>4, <2>12, <2>13
<1>8. ASSUME ~(P(a, q + 1) = Minus /\ P(a, q + 2) # Close)
      PROVE  /\ ItemAt(a, p, q + 1)
             /\ ListsFrom(a, p, c, q) <=> Fold(a, P(a, q)) = c \/ ListsFrom(a, p, c, q + 1)
  <2>1. ~RangeAt(a, lo, e - 1, q + 1)
    <3> SUFFICES ASSUME RangeAt(a, lo, e - 1, q + 1) PROVE FALSE
      OBVIOUS
    <3>1. q + 1 < e - 1 /\ P(a, q + 1) = Minus
      BY DEF RangeAt
    <3>2. q + 2 \in p + 1..e - 1
      BY <1>3, <1>4, <3>1
    <3> QED
      BY <1>1, <1>8, <3>1, <3>2
  <2>2. q + 1 \in lo..e
    BY <1>2, <1>3
  <2>3. \A y : y \in q..e - 1 <=> y = q \/ y \in q + 1..e - 1
    BY <1>2, <1>3
  <2>4. Item(a, lo, e - 1, q, c) <=> Fold(a, P(a, q)) = c
    BY <1>2 DEF Item
  <2>5. ListsFrom(a, p, c, q) <=> Fold(a, P(a, q)) = c \/ ListsFrom(a, p, c, q + 1)
    BY <1>10, <2>3, <2>4
  <2> QED
    BY <1>11, <2>1, <2>2, <2>5
<1> QED
  BY <1>3, <1>4, <1>5, <1>7, <1>8 DEF e

-----------------------------------------------------------------------------
(* OpenBSD: bracket expressions.                                           *)

(* A class that is read has an end further on.                             *)
LEMMA ClassBehind ==
  ASSUME NEW a, IsCall(a), NEW q \in Nat, NEW c
  PROVE  /\ classmatch(a, q, c).end # q =>
              P(a, q) = Open /\ classmatch(a, q, c).end \in PatternOffsets(a)
                /\ classmatch(a, q, c).end > q
         /\ classmatch(a, q, c).has \in BOOLEAN
PROOF
<1> DEFINE colons == {k \in q + 2..Len(a.pattern) - 1 : P(a, k) = Colon}
           k      == CHOOSE k \in colons : \A j \in colons : k <= j
           text   == SubSeq(a.pattern, q + 3, k)
           name   == IF "CASEFOLD" \in a.flags /\ text = Upper THEN Lower ELSE text
           is     == P(a, q) = Open /\ P(a, q + 1) = Colon /\ colons # {} /\ P(a, k + 1) = Close
                       /\ \E class \in Classes : class.name = name
           has    == \E class \in Classes : class.name = name /\ c \in class.bytes
<1>1. classmatch(a, q, c) = IF is THEN [end |-> k + 2, has |-> has] ELSE [end |-> q, has |-> FALSE]
  BY DEF classmatch
<1>2. colons # {} => k \in Nat /\ k >= q + 2
  <2>1. colons \subseteq Nat
    BY Bytes DEF PatternEnd
  <2>2. colons # {} => \E x \in colons : \A j \in colons : x <= j
    <3> HIDE DEF colons
    <3> QED
      BY <2>1, LeastNumber
  <2>3. colons # {} => k \in colons
    BY <2>2
  <2> QED
    BY <2>3
<1>3. is => k \in Nat /\ k >= q + 2 /\ P(a, k + 1) = Close /\ P(a, q) = Open
  BY <1>2
<1>4. has \in BOOLEAN
  OBVIOUS
<1> HIDE DEF is, k, has
<1>5. is => k + 2 \in PatternOffsets(a) /\ k + 2 > q
  <2> SUFFICES ASSUME is PROVE k + 2 \in PatternOffsets(a) /\ k + 2 > q
    OBVIOUS
  <2>1. k + 1 \in 0..PatternEnd(a) - 1
    BY <1>3, Bytes DEF Close, EOS
  <2> QED
    BY <1>3, <2>1, Bytes
<1>6. CASE is
  BY <1>1, <1>3, <1>4, <1>5, <1>6
<1>7. CASE ~is
  BY <1>1, <1>7
<1> QED
  BY <1>6, <1>7

ListOf(a, c) == CHOOSE L : L = [q \in PatternOffsets(a) |-> ListFrom(L, a, c, q, FALSE)]

(* The list of a bracket expression is read from the items further on.     *)
LEMMA RangeListExists ==
  ASSUME NEW a, IsCall(a), NEW c
  PROVE  /\ \A q \in PatternOffsets(a) : ListOf(a, c)[q] = ListFrom(ListOf(a, c), a, c, q, FALSE)
         /\ \A p : RangeList(a, c, p) = ListFrom(ListOf(a, c), a, c, p, P(a, p) = Close)
PROOF
<1> DEFINE L == PatternEnd(a)
           D == PatternOffsets(a)
           V == [end : Int, hit : BOOLEAN]
           place == [q \in D |-> q]
           B == [f \in [D -> V] |-> [q \in D |-> ListFrom(f, a, c, q, FALSE)]]
<1>1. L \in Nat /\ D = 0..L
  BY Bytes
<1> HIDE DEF L
<1>2. ASSUME NEW p \in D
      PROVE  \/ \E v \in V : \A g : ListFrom(g, a, c, p, FALSE) = v
             \/ \E r \in D : /\ r > p
                             /\ \E hit \in BOOLEAN : \A g :
                                  ListFrom(g, a, c, p, FALSE) = [g[r] EXCEPT !.hit = hit \/ @]
  <2> DEFINE q     == IF escape(a) /\ P(a, p) = Backslash THEN p + 1 ELSE p
             class == classmatch(a, q, c)
             range == P(a, q + 1) = Minus /\ P(a, q + 2) # Close
             r     == IF escape(a) /\ P(a, q + 2) = Backslash THEN q + 3 ELSE q + 2
             Ends(x) == P(a, x) = EOS \/ (slash(a) /\ P(a, x) = Slash)
  <2>1. \A g : ListFrom(g, a, c, p, FALSE) =
          IF P(a, p) = Close THEN [end |-> p + 1, hit |-> FALSE]
          ELSE IF Ends(q) THEN [end |-> None, hit |-> FALSE]
          ELSE IF class.end # q THEN [g[class.end] EXCEPT !.hit = class.has \/ @]
          ELSE IF range /\ Ends(r) THEN [end |-> None, hit |-> FALSE]
          ELSE IF range THEN [g[r + 1] EXCEPT !.hit = InRange(a, P(a, q), c, P(a, r)) \/ @]
          ELSE [g[q + 1] EXCEPT !.hit = (Fold(a, c) = Fold(a, P(a, q))) \/ @]
    BY DEF ListFrom
  <2>2. q \in {p, p + 1} /\ r \in {q + 2, q + 3} /\ p \in Nat /\ q \in Nat /\ r \in Nat
    BY <1>1
  <2>3. class.end # q => class.end \in D /\ class.end > p /\ class.has \in BOOLEAN
    <3>1. class.end # q => class.end \in D /\ class.end > q /\ class.has \in BOOLEAN
      BY <2>2, ClassBehind
    <3> QED
      BY <1>1, <2>2, <3>1
  <2>4. \A x \in Nat : ~Ends(x) => x + 1 \in D
    BY <1>1, Bytes DEF L
  <2>5. ~Ends(q) => q + 1 \in D /\ q + 1 > p
    BY <2>2, <2>4
  <2>6. ~Ends(r) => r + 1 \in D /\ r + 1 > p
    BY <2>2, <2>4
  <2>7. InRange(a, P(a, q), c, P(a, r)) \in BOOLEAN /\ (Fold(a, c) = Fold(a, P(a, q))) \in BOOLEAN
    BY DEF InRange
  <2>8. None \in Int /\ p + 1 \in Int
    BY <2>2 DEF None
  <2> HIDE DEF q, class, range, r, Ends, V
  <2>9. [end |-> p + 1, hit |-> FALSE] \in V /\ [end |-> None, hit |-> FALSE] \in V
    BY <2>8 DEF V
  <2>10. CASE P(a, p) = Close \/ Ends(q)
    BY <2>1, <2>9, <2>10
  <2>11. CASE P(a, p) # Close /\ ~Ends(q) /\ class.end # q
    BY <2>1, <2>3, <2>11
  <2>12. CASE P(a, p) # Close /\ ~Ends(q) /\ class.end = q /\ range /\ Ends(r)
    BY <2>1, <2>9, <2>12
  <2>13. CASE P(a, p) # Close /\ ~Ends(q) /\ class.end = q /\ range /\ ~Ends(r)
    BY <2>1, <2>6, <2>7, <2>13
  <2>14. CASE P(a, p) # Close /\ ~Ends(q) /\ class.end = q /\ ~range
    BY <2>1, <2>5, <2>7, <2>14
  <2> QED
    BY <2>10, <2>11, <2>12, <2>13, <2>14
<1>3. \A r \in V, hit \in BOOLEAN : [r EXCEPT !.hit = hit \/ @] \in V
  OBVIOUS
<1>4. V # {}
  <2>1. [end |-> 0, hit |-> FALSE] \in V
    OBVIOUS
  <2> QED
    BY <2>1
<1> HIDE DEF V
<1>5. \A f \in [D -> V] : \A p \in D : ListFrom(f, a, c, p, FALSE) \in V
  <2> SUFFICES ASSUME NEW f \in [D -> V], NEW p \in D PROVE ListFrom(f, a, c, p, FALSE) \in V
    OBVIOUS
  <2>1. CASE \E v \in V : \A g : ListFrom(g, a, c, p, FALSE) = v
    BY <2>1
  <2>2. CASE \E r \in D : /\ r > p
                         /\ \E hit \in BOOLEAN : \A g :
                              ListFrom(g, a, c, p, FALSE) = [g[r] EXCEPT !.hit = hit \/ @]
    <3>1. PICK r \in D : \E hit \in BOOLEAN : \A g :
                              ListFrom(g, a, c, p, FALSE) = [g[r] EXCEPT !.hit = hit \/ @]
      BY <2>2
    <3>2. PICK hit \in BOOLEAN : \A g :
                              ListFrom(g, a, c, p, FALSE) = [g[r] EXCEPT !.hit = hit \/ @]
      BY <3>1
    <3>3. f[r] \in V
      OBVIOUS
    <3>4. ListFrom(f, a, c, p, FALSE) = [f[r] EXCEPT !.hit = hit \/ @]
      BY <3>2
    <3> QED
      BY <1>3, <3>3, <3>4
  <2> QED
    BY <1>2, <2>1, <2>2
<1>6. B \in [[D -> V] -> [D -> V]]
  BY <1>5
<1>7. \A f \in [D -> V] : /\ B[f] = [q \in D |-> ListFrom(f, a, c, q, FALSE)]
                          /\ \A q \in D : B[f][q] = ListFrom(f, a, c, q, FALSE)
  OBVIOUS
<1>8. place \in [D -> 0..L] /\ \A q \in D : place[q] = q
  BY <1>1
<1> HIDE DEF B, place
<1>9. \A f, g \in [D -> V] : \A p \in D :
        (\A r \in D : place[r] > place[p] => f[r] = g[r]) => B[f][p] = B[g][p]
  <2> SUFFICES ASSUME NEW f \in [D -> V], NEW g \in [D -> V], NEW p \in D,
                      \A r \in D : place[r] > place[p] => f[r] = g[r]
               PROVE  B[f][p] = B[g][p]
    OBVIOUS
  <2>0. B[f][p] = ListFrom(f, a, c, p, FALSE) /\ B[g][p] = ListFrom(g, a, c, p, FALSE)
    BY <1>7
  <2>1. \A r \in D : r > p => f[r] = g[r]
    BY <1>8
  <2>2. CASE \E v \in V : \A h : ListFrom(h, a, c, p, FALSE) = v
    BY <2>0, <2>2
  <2>3. ASSUME NEW r \in D, NEW hit \in BOOLEAN, r > p,
               \A h : ListFrom(h, a, c, p, FALSE) = [h[r] EXCEPT !.hit = hit \/ @]
        PROVE  B[f][p] = B[g][p]
    <3>1. f[r] = g[r]
      BY <2>1, <2>3
    <3>2. ListFrom(f, a, c, p, FALSE) = ListFrom(g, a, c, p, FALSE)
      BY <2>3, <3>1
    <3> QED
      BY <2>0, <3>2
  <2> QED
    BY <1>2, <2>2, <2>3
<1>10. PICK f \in [D -> V] : f = B[f]
  <2>1. L \in Nat /\ place \in [D -> 0..L]
    BY <1>1, <1>8
  <2> HIDE DEF D
  <2>2. Onward(B, D, V, L, place)
    BY <1>4, <1>6, <1>9, <2>1 DEF Onward
  <2> QED
    BY <2>2, RecursionOnward
<1>11. f = [q \in D |-> ListFrom(f, a, c, q, FALSE)]
  BY <1>7, <1>10
<1>12. ListOf(a, c) = [q \in D |-> ListFrom(ListOf(a, c), a, c, q, FALSE)]
  BY <1>11 DEF ListOf
<1>13. \A p : RangeList(a, c, p) = ListFrom(ListOf(a, c), a, c, p, P(a, p) = Close)
  BY DEF RangeList, ListOf
<1> QED
  BY <1>12, <1>13

(* Where CASEFOLD does not try the ends of a range as they are, it         *)
(* compares folded bytes.                                                  *)
LEMMA InRangeFolded ==
  ASSUME NEW a, NEW x \in 0..127, NEW c \in 0..127, NEW y \in 0..127,
         "CASEFOLD" \in a.flags => x > 90 \/ y <= 90
  PROVE  InRange(a, x, c, y) <=> Fold(a, x) <= Fold(a, c) /\ Fold(a, c) <= Fold(a, y)
PROOF
  BY DEF InRange, Fold, tolower

(* RangeList finds the end of the bracket expression and what it lists.    *)
LEMMA RangeListMeans ==
  ASSUME NEW a, IsCall(a), OpenBSDFollows(a), NEW p \in PatternOffsets(a), P(a, p) = Open,
         NEW c \in 0..127
  PROVE  RangeList(a, c, ListStart(a, p)) =
           [end |-> BracketEnd(a, p) + 1,
            hit |-> Lists(a, ListStart(a, p), BracketEnd(a, p) - 1, Fold(a, c))]
PROOF
<1> DEFINE lo == ListStart(a, p)
           e  == BracketEnd(a, p)
           L  == ListOf(a, c)
           C  == Fold(a, c)
           T  == {q \in 0..e : ItemAt(a, p, q) => L[q] = [end |-> e + 1, hit |-> ListsFrom(a, p, C, q)]}
<1>1. PlainBrackets(a)
  BY DEF OpenBSDFollows
<1>2. /\ e \in PatternOffsets(a) /\ BracketAt(a, p, e) /\ lo \in {p + 1, p + 2} /\ e > lo
      /\ P(a, e) = Close /\ lo \in Nat /\ e \in Nat
  <2>1. /\ e \in PatternOffsets(a) /\ BracketAt(a, p, e) /\ lo \in {p + 1, p + 2} /\ e > lo
    BY <1>1, PlainBracket
  <2> QED
    BY <2>1, Bytes DEF BracketAt
<1>3. C \in Int
  BY FoldedInt
<1>4. /\ \A q \in PatternOffsets(a) : L[q] = ListFrom(L, a, c, q, FALSE)
      /\ \A q : RangeList(a, c, q) = ListFrom(L, a, c, q, P(a, q) = Close)
  BY RangeListExists
<1>5. \A q : ListsFrom(a, p, C, q) \in BOOLEAN
  BY DEF ListsFrom
<1> HIDE DEF L, C
<1>6. ASSUME NEW q, ItemAt(a, p, q), q # e
      PROVE  ListFrom(L, a, c, q, FALSE) =
               IF P(a, q + 1) = Minus /\ P(a, q + 2) # Close
               THEN [L[q + 3] EXCEPT !.hit = InRange(a, P(a, q), c, P(a, q + 2)) \/ @]
               ELSE [L[q + 1] EXCEPT !.hit = (C = Fold(a, P(a, q))) \/ @]
  <2>1. /\ q \in Nat /\ P(a, q) \notin {Close, Backslash, Slash, Open, EOS}
        /\ P(a, q + 1) = Minus /\ P(a, q + 2) # Close =>
             P(a, q + 2) \notin {Backslash, Slash, Open, EOS}
    BY <1>1, <1>3, <1>6, NextItem
  <2>2. classmatch(a, q, c).end = q
    BY <2>1, ClassBehind
  <2>3. (q + 2) + 1 = q + 3
    BY <2>1
  <2> QED
    BY <2>1, <2>2, <2>3 DEF ListFrom, C
<1>7. ASSUME NEW q \in 0..e, \A r \in q + 1..e : r \in T
      PROVE  q \in T
  <2> SUFFICES ASSUME ItemAt(a, p, q)
               PROVE  L[q] = [end |-> e + 1, hit |-> ListsFrom(a, p, C, q)]
    OBVIOUS
  <2>0. q \in PatternOffsets(a) /\ q \in Nat
    BY <1>2, Bytes
  <2>1. CASE q = e
    <3>1. ListFrom(L, a, c, q, FALSE) = [end |-> q + 1, hit |-> FALSE]
      BY <1>2, <2>1 DEF ListFrom
    <3>2. ~ListsFrom(a, p, C, e)
      BY <1>1, FirstItem
    <3>3. ListsFrom(a, p, C, e) = FALSE
      BY <1>5, <3>2
    <3> QED
      BY <1>4, <2>0, <2>1, <3>1, <3>3
  <2>2. CASE q # e /\ P(a, q + 1) = Minus /\ P(a, q + 2) # Close
    <3>1. /\ ItemAt(a, p, q + 3) /\ q + 1 \in Ranges(a)
          /\ ListsFrom(a, p, C, q) <=>
               \/ Fold(a, P(a, q)) <= C /\ C <= Fold(a, P(a, q + 2))
               \/ ListsFrom(a, p, C, q + 3)
      BY <1>1, <1>3, <2>2, NextItem
    <3>2. q + 3 \in q + 1..e
      BY <1>2, <3>1 DEF ItemAt
    <3>3. L[q + 3] = [end |-> e + 1, hit |-> ListsFrom(a, p, C, q + 3)]
      BY <1>7, <3>1, <3>2
    <3>4. InRange(a, P(a, q), c, P(a, q + 2)) <=>
            Fold(a, P(a, q)) <= C /\ C <= Fold(a, P(a, q + 2))
      <4>1. (q + 1) - 1 = q /\ (q + 1) + 1 = q + 2
        BY <2>0
      <4>2. "CASEFOLD" \in a.flags => P(a, q) > 90 \/ P(a, q + 2) <= 90
        BY <3>1, <4>1 DEF OpenBSDFollows
      <4>3. P(a, q) \in 0..127 /\ P(a, q + 2) \in 0..127
        BY <2>0, Bytes
      <4> QED
        BY <4>2, <4>3, InRangeFolded DEF C
    <3>5. (InRange(a, P(a, q), c, P(a, q + 2)) \/ ListsFrom(a, p, C, q + 3)) = ListsFrom(a, p, C, q)
      BY <1>5, <3>1, <3>4
    <3>6. L[q] = [L[q + 3] EXCEPT !.hit = InRange(a, P(a, q), c, P(a, q + 2)) \/ @]
      BY <1>4, <1>6, <2>0, <2>2
    <3> QED
      BY <3>3, <3>5, <3>6
  <2>3. CASE q # e /\ ~(P(a, q + 1) = Minus /\ P(a, q + 2) # Close)
    <3>1. /\ ItemAt(a, p, q + 1)
          /\ ListsFrom(a, p, C, q) <=> Fold(a, P(a, q)) = C \/ ListsFrom(a, p, C, q + 1)
      BY <1>1, <1>3, <2>3, NextItem
    <3>2. q + 1 \in q + 1..e
      BY <1>2, <2>0, <2>3
    <3>3. L[q + 1] = [end |-> e + 1, hit |-> ListsFrom(a, p, C, q + 1)]
      BY <1>7, <3>1, <3>2
    <3>4. ((C = Fold(a, P(a, q))) \/ ListsFrom(a, p, C, q + 1)) = ListsFrom(a, p, C, q)
      BY <1>5, <3>1
    <3>5. L[q] = [L[q + 1] EXCEPT !.hit = (C = Fold(a, P(a, q))) \/ @]
      BY <1>4, <1>6, <2>0, <2>3
    <3> QED
      BY <3>3, <3>4, <3>5
  <2> QED
    BY <2>1, <2>2, <2>3
<1>8. lo \in T
  <2>1. lo \in 0..e
    BY <1>2
  <2> HIDE DEF T
  <2>2. 0..e \subseteq T
    BY <1>2, <1>7, AllDownward
  <2> QED
    BY <2>1, <2>2
<1>9. ItemAt(a, p, lo) /\ (Lists(a, lo, e - 1, C) <=> ListsFrom(a, p, C, lo))
  BY <1>1, FirstItem
<1>10. L[lo] = [end |-> e + 1, hit |-> ListsFrom(a, p, C, lo)]
  BY <1>8, <1>9
<1>11. Lists(a, lo, e - 1, C) = ListsFrom(a, p, C, lo)
  BY <1>5, <1>9 DEF Lists
<1>12. (P(a, lo) = Close) = FALSE /\ lo \in PatternOffsets(a)
  <2>1. lo \in p + 1..e - 1 /\ \A q \in p + 1..e - 1 : P(a, q) # Close
    BY <1>2, Bytes DEF BracketAt
  <2> QED
    BY <1>2, <2>1, Bytes
<1>13. RangeList(a, c, lo) = L[lo]
  BY <1>4, <1>12
<1> QED
  BY <1>10, <1>11, <1>13 DEF C

(* What fnmatch_ch says of a byte inside a segment: the byte is taken as   *)
(* the reference says, and the pattern moves behind what takes it.         *)
LEMMA CharacterMeans ==
  ASSUME NEW a, IsCall(a), OpenBSDFollows(a), NEW p \in PatternOffsets(a),
         P(a, p) \notin {EOS, Star}, ~AtSlash(a, p)
  PROVE  /\ \A n \in StringOffsets(a) : Inside(a, n) =>
              /\ ~LeadingPeriod(a, n) => (fnmatch_ch(a, p, S(a, n)).ok <=> Takes1(a, p, n))
              /\ fnmatch_ch(a, p, S(a, n)).ok \in BOOLEAN
              /\ fnmatch_ch(a, p, S(a, n)).p = TokenEnd(a, p)
              /\ fnmatch_ch(a, p, S(a, n)).taken = 1
         /\ P(a, p) = Open => fnmatch_ch(a, p, 32).p = TokenEnd(a, p)
PROOF
<1> DEFINE held == {EOS} \cup (IF slash(a) THEN {Slash} ELSE {})
           q == IF Escape(a, p) THEN p + 1 ELSE p
<1>1. PlainBrackets(a) /\ p \in Nat
  BY Bytes DEF OpenBSDFollows
<1>2. CASE P(a, p) = Open
  <2>1. ASSUME NEW c \in 0..127
        PROVE  /\ fnmatch_ch(a, p, c).ok <=> Accepts(a, p, BracketEnd(a, p), c)
               /\ fnmatch_ch(a, p, c).ok \in BOOLEAN
               /\ fnmatch_ch(a, p, c).p = TokenEnd(a, p) /\ fnmatch_ch(a, p, c).taken = 1
    <3> DEFINE negate == P(a, p + 1) \in Negations
               hit == Lists(a, ListStart(a, p), BracketEnd(a, p) - 1, Fold(a, c))
    <3>1. RangeList(a, c, ListStart(a, p)) = [end |-> BracketEnd(a, p) + 1, hit |-> hit]
      BY <1>2, RangeListMeans
    <3>2. BracketEnd(a, p) + 1 # None
      BY <1>1, <1>2, PlainBracket, Bytes DEF None
    <3>3. ListStart(a, p) = IF negate THEN p + 2 ELSE p + 1
      BY DEF ListStart
    <3>6. hit \in BOOLEAN /\ negate \in BOOLEAN
      BY DEF Lists
    <3>4. Accepts(a, p, BracketEnd(a, p), c) <=> (hit # negate)
      <4>1. CASE negate
        <5>1. Accepts(a, p, BracketEnd(a, p), c) <=> ~hit
          BY <3>3, <4>1 DEF Accepts
        <5> QED
          BY <3>6, <4>1, <5>1
      <4>2. CASE ~negate
        <5>1. Accepts(a, p, BracketEnd(a, p), c) <=> hit
          BY <3>3, <4>2 DEF Accepts
        <5> QED
          BY <3>6, <4>2, <5>1
      <4> QED
        BY <4>1, <4>2
    <3> HIDE DEF hit
    <3>5. fnmatch_ch(a, p, c) = [ok |-> hit # negate, p |-> BracketEnd(a, p) + 1, taken |-> 1]
      BY <1>2, <3>1, <3>2, <3>3 DEF fnmatch_ch
    <3>7. TokenEnd(a, p) = BracketEnd(a, p) + 1
      BY <1>2 DEF TokenEnd
    <3> HIDE DEF negate
    <3>8. fnmatch_ch(a, p, c).ok = (hit # negate)
      BY <3>5
    <3>9. fnmatch_ch(a, p, c).p = TokenEnd(a, p) /\ fnmatch_ch(a, p, c).taken = 1
      BY <3>5, <3>7
    <3>10. fnmatch_ch(a, p, c).ok \in BOOLEAN
      BY <3>8
    <3> QED
      BY <3>4, <3>8, <3>9, <3>10
  <2>2. ASSUME NEW n \in StringOffsets(a), Inside(a, n), ~LeadingPeriod(a, n)
        PROVE  Takes1(a, p, n) <=> Accepts(a, p, BracketEnd(a, p), S(a, n))
    BY <1>1, <1>2, <2>2, TakesCases, WildInside
  <2>3. \A n \in StringOffsets(a) : S(a, n) \in 0..127
    <3>1. StringOffsets(a) \subseteq Int
      BY Bytes
    <3> QED
      BY <3>1, Bytes
  <2>4. 32 \in 0..127
    OBVIOUS
  <2>5. P(a, p) = Open => fnmatch_ch(a, p, 32).p = TokenEnd(a, p)
    BY <2>1, <2>4
  <2>6. ASSUME NEW n \in StringOffsets(a), Inside(a, n)
        PROVE  /\ ~LeadingPeriod(a, n) => (fnmatch_ch(a, p, S(a, n)).ok <=> Takes1(a, p, n))
               /\ fnmatch_ch(a, p, S(a, n)).ok \in BOOLEAN
               /\ fnmatch_ch(a, p, S(a, n)).p = TokenEnd(a, p)
               /\ fnmatch_ch(a, p, S(a, n)).taken = 1
    BY <2>1, <2>2, <2>3, <2>6
  <2> QED
    BY <2>5, <2>6
<1>3. CASE P(a, p) = Question
  <2>1. TokenEnd(a, p) = p + 1
    BY <1>3 DEF TokenEnd, Question, Open, Escape, Backslash
  <2>2. ASSUME NEW n \in StringOffsets(a), Inside(a, n)
        PROVE  (~LeadingPeriod(a, n) => Takes1(a, p, n)) /\ fnmatch_ch(a, p, S(a, n)) = [ok |-> TRUE, p |-> p + 1, taken |-> 1]
    <3>1. ~LeadingPeriod(a, n) => Takes1(a, p, n)
      BY <1>1, <1>3, <2>2, TakesCases, WildInside
    <3>2. S(a, n) \notin held
      BY <2>2 DEF Inside, slash
    <3>3. P(a, p) # Open
      BY <1>3 DEF Open, Question
    <3> QED
      BY <1>3, <3>1, <3>2, <3>3 DEF fnmatch_ch
  <2>3. ASSUME NEW n \in StringOffsets(a), Inside(a, n)
        PROVE  /\ ~LeadingPeriod(a, n) => (fnmatch_ch(a, p, S(a, n)).ok <=> Takes1(a, p, n))
               /\ fnmatch_ch(a, p, S(a, n)).ok \in BOOLEAN
               /\ fnmatch_ch(a, p, S(a, n)).p = TokenEnd(a, p)
               /\ fnmatch_ch(a, p, S(a, n)).taken = 1
    <3>1. /\ ~LeadingPeriod(a, n) => Takes1(a, p, n)
          /\ fnmatch_ch(a, p, S(a, n)) = [ok |-> TRUE, p |-> p + 1, taken |-> 1]
      BY <2>2, <2>3
    <3>2. /\ fnmatch_ch(a, p, S(a, n)).ok = TRUE
          /\ fnmatch_ch(a, p, S(a, n)).p = p + 1 /\ fnmatch_ch(a, p, S(a, n)).taken = 1
      BY <3>1
    <3> QED
      BY <2>1, <3>1, <3>2
  <2>4. P(a, p) # Open
    BY <1>3 DEF Question, Open
  <2> QED
    BY <2>3, <2>4
<1>4. CASE P(a, p) \notin {Open, Question}
  <2>1. P(a, q) \notin held
    BY <1>1, <1>4 DEF AtSlash, Escape, escape, slash
  <2>2. TokenEnd(a, p) = q + 1
    BY <1>1, <1>4 DEF TokenEnd
  <2>3. ASSUME NEW n \in StringOffsets(a), Inside(a, n)
        PROVE  /\ Takes1(a, p, n) <=> Fold(a, S(a, n)) = Fold(a, P(a, q))
               /\ fnmatch_ch(a, p, S(a, n)) =
                    [ok |-> Fold(a, S(a, n)) = Fold(a, P(a, q)), p |-> q + 1, taken |-> 1]
    <3>1. S(a, n) # EOS /\ S(a, n) \notin held
      BY <2>3 DEF Inside, slash
    <3>2. Takes1(a, p, n) <=> Fold(a, P(a, q)) = Fold(a, S(a, n))
      BY <1>1, <1>4, <3>1, TakesCases
    <3> QED
      BY <1>4, <2>1, <3>1, <3>2 DEF fnmatch_ch
  <2>4. ASSUME NEW n \in StringOffsets(a), Inside(a, n)
        PROVE  /\ ~LeadingPeriod(a, n) => (fnmatch_ch(a, p, S(a, n)).ok <=> Takes1(a, p, n))
               /\ fnmatch_ch(a, p, S(a, n)).ok \in BOOLEAN
               /\ fnmatch_ch(a, p, S(a, n)).p = TokenEnd(a, p)
               /\ fnmatch_ch(a, p, S(a, n)).taken = 1
    <3>1. /\ Takes1(a, p, n) <=> Fold(a, S(a, n)) = Fold(a, P(a, q))
          /\ fnmatch_ch(a, p, S(a, n)) =
               [ok |-> Fold(a, S(a, n)) = Fold(a, P(a, q)), p |-> q + 1, taken |-> 1]
      BY <2>3, <2>4
    <3>2. /\ fnmatch_ch(a, p, S(a, n)).ok = (Fold(a, S(a, n)) = Fold(a, P(a, q)))
          /\ fnmatch_ch(a, p, S(a, n)).p = q + 1 /\ fnmatch_ch(a, p, S(a, n)).taken = 1
      BY <3>1
    <3> HIDE DEF q
    <3> QED
      BY <2>2, <3>1, <3>2
  <2> QED
    BY <1>4, <2>4
<1> QED
  BY <1>2, <1>3, <1>4

-----------------------------------------------------------------------------
(* Where a comparison ends in the pattern: at its end, at a star, or at a  *)
(* slash that ends a segment.                                              *)
Stops(a, p) == P(a, p) = EOS \/ P(a, p) = Star \/ AtSlash(a, p)

(* What stands up to a star is measured from its end.                      *)
LEMMA FixedExists ==
  ASSUME NEW a, IsCall(a), OpenBSDFollows(a)
  PROVE  /\ \A p \in PatternOffsets(a) : Fixed(a, p) \in [len : Nat, last : BOOLEAN]
         /\ \A p \in PatternOffsets(a) : Stops(a, p) =>
              Fixed(a, p) = [len |-> 0, last |-> P(a, p) # Star]
         /\ \A p \in PatternOffsets(a) : ~Stops(a, p) =>
              Fixed(a, p) = [Fixed(a, TokenEnd(a, p)) EXCEPT !.len = @ + 1]
PROOF
<1> DEFINE D == PatternOffsets(a)
           V == [len : Nat, last : BOOLEAN]
           place == [q \in D |-> q]
           B == [f \in [D -> V] |-> [q \in D |-> FixedFrom(f, a, q)]]
           F == CHOOSE F : F = [q \in D |-> FixedFrom(F, a, q)]
<1>1. PatternEnd(a) \in Nat /\ D = 0..PatternEnd(a)
  BY Bytes
<1>2. ASSUME NEW p \in D, Stops(a, p)
      PROVE  \A g : FixedFrom(g, a, p) = [len |-> 0, last |-> P(a, p) # Star]
  <2>1. P(a, p) = EOS => P(a, p) # Star
    BY DEF EOS, Star
  <2>2. AtSlash(a, p) => P(a, p) # Star
    BY DEF AtSlash, Star, Slash, Backslash
  <2>3. ~(P(a, p) = EOS \/ AtSlash(a, p)) => P(a, p) = Star
    BY <1>2 DEF Stops
  <2>4. \A g : P(a, p) = EOS \/ AtSlash(a, p) => FixedFrom(g, a, p) = [len |-> 0, last |-> TRUE]
    BY DEF FixedFrom
  <2>5. \A g : ~(P(a, p) = EOS \/ AtSlash(a, p)) =>
          FixedFrom(g, a, p) = [len |-> 0, last |-> FALSE]
    BY <2>3 DEF FixedFrom
  <2>6. CASE P(a, p) # Star
    BY <2>3, <2>4, <2>6
  <2>7. CASE P(a, p) = Star
    BY <2>1, <2>2, <2>5, <2>7
  <2> QED
    BY <2>6, <2>7
<1>3. ASSUME NEW p \in D, ~Stops(a, p)
      PROVE  /\ TokenEnd(a, p) \in D /\ TokenEnd(a, p) > p
             /\ \A g : FixedFrom(g, a, p) = [g[TokenEnd(a, p)] EXCEPT !.len = @ + 1]
  <2>1. PlainBrackets(a)
    BY DEF OpenBSDFollows
  <2>2. P(a, p) \notin {EOS, Star} /\ ~AtSlash(a, p)
    BY <1>3 DEF Stops
  <2>3. TokenEnd(a, p) \in D /\ TokenEnd(a, p) > p
    BY <2>1, <2>2, TokenEnds
  <2>4. P(a, p) = Open => fnmatch_ch(a, p, 32).p = TokenEnd(a, p)
    BY <2>2, CharacterMeans
  <2>5. Escape(a, p) => P(a, p) # Open
    BY DEF Escape, Open, Backslash
  <2>6. TokenEnd(a, p) = IF Escape(a, p) THEN p + 2
                         ELSE IF P(a, p) = Open THEN fnmatch_ch(a, p, 32).p ELSE p + 1
    BY <2>4, <2>5 DEF TokenEnd
  <2> QED
    BY <2>2, <2>3, <2>6 DEF FixedFrom
<1>4. \A r \in V : [r EXCEPT !.len = @ + 1] \in V
  OBVIOUS
<1>5. [len |-> 0, last |-> TRUE] \in V /\ [len |-> 0, last |-> FALSE] \in V
  OBVIOUS
<1>6. \A p \in D : [len |-> 0, last |-> P(a, p) # Star] \in V
  OBVIOUS
<1> HIDE DEF V
<1>7. \A f \in [D -> V] : \A p \in D : FixedFrom(f, a, p) \in V
  <2> SUFFICES ASSUME NEW f \in [D -> V], NEW p \in D PROVE FixedFrom(f, a, p) \in V
    OBVIOUS
  <2>1. CASE Stops(a, p)
    BY <1>2, <1>6, <2>1
  <2>2. CASE ~Stops(a, p)
    BY <1>3, <1>4, <2>2
  <2> QED
    BY <2>1, <2>2
<1>8. Onward(B, D, V, PatternEnd(a), place)
  <2>1. V # {}
    BY <1>5
  <2>2. place \in [D -> 0..PatternEnd(a)]
    BY <1>1
  <2>3. B \in [[D -> V] -> [D -> V]]
    BY <1>7
  <2>4. ASSUME NEW f \in [D -> V], NEW g \in [D -> V], NEW p \in D,
               \A j \in D : place[j] > place[p] => f[j] = g[j]
        PROVE  B[f][p] = B[g][p]
    <3>0. B[f][p] = FixedFrom(f, a, p) /\ B[g][p] = FixedFrom(g, a, p)
      OBVIOUS
    <3>1. CASE Stops(a, p)
      BY <1>2, <3>0, <3>1
    <3>2. CASE ~Stops(a, p)
      <4>1. place[TokenEnd(a, p)] > place[p] /\ TokenEnd(a, p) \in D
        BY <1>3, <3>2
      <4>2. f[TokenEnd(a, p)] = g[TokenEnd(a, p)]
        BY <2>4, <4>1
      <4> QED
        BY <1>3, <3>0, <3>2, <4>2
    <3> QED
      BY <3>1, <3>2
  <2> HIDE DEF B, place
  <2> QED
    BY <1>1, <2>1, <2>2, <2>3, <2>4 DEF Onward
<1>9. F \in [D -> V] /\ \A p \in D : F[p] = FixedFrom(F, a, p)
  <2>1. PICK f \in [D -> V] : f = B[f]
    <3> HIDE DEF B, D, place
    <3> QED
      BY <1>8, RecursionOnward
  <2>2. f = [q \in D |-> FixedFrom(f, a, q)]
    BY <2>1
  <2>3. F = [q \in D |-> FixedFrom(F, a, q)]
    BY <2>2
  <2>4. \A p \in D : F[p] = FixedFrom(F, a, p)
    BY <2>3
  <2> HIDE DEF F, D
  <2>5. F = [q \in D |-> F[q]]
    BY <2>3, <2>4
  <2>6. \A p \in 0..PatternEnd(a) : F[p] \in V
    <3> DEFINE T == {p \in D : F[p] \in V}
    <3>1. ASSUME NEW i \in 0..PatternEnd(a), \A j \in i + 1..PatternEnd(a) : j \in T
          PROVE  i \in T
      <4>1. i \in D
        BY <1>1
      <4>2. CASE Stops(a, i)
        BY <1>2, <1>6, <2>4, <4>1, <4>2
      <4>3. CASE ~Stops(a, i)
        <5>1. TokenEnd(a, i) \in i + 1..PatternEnd(a)
          BY <1>1, <1>3, <4>1, <4>3
        <5> QED
          BY <1>3, <1>4, <2>4, <3>1, <4>1, <4>3, <5>1
      <4> QED
        BY <4>2, <4>3
    <3> HIDE DEF T
    <3>2. 0..PatternEnd(a) \subseteq T
      BY <1>1, <3>1, AllDownward
    <3> QED
      BY <3>2 DEF T
  <2> QED
    BY <1>1, <2>4, <2>5, <2>6
<1>10. \A p : Fixed(a, p) = F[p]
  BY DEF Fixed
<1> HIDE DEF F, D
<1> QED
  BY <1>2, <1>3, <1>9, <1>10 DEF V, D

(* A comparison stops at once, or it moves over one character of each.     *)
LEMMA CompareExists ==
  ASSUME NEW a, IsCall(a), OpenBSDFollows(a), NEW end \in StringOffsets(a)
  PROVE  \A p \in PatternOffsets(a), n \in StringOffsets(a) :
           /\ Compare(a, end, p, n) \in [ok : BOOLEAN, p : PatternOffsets(a), n : StringOffsets(a)]
           /\ Stops(a, p) \/ n >= end => Compare(a, end, p, n) = [ok |-> TRUE, p |-> p, n |-> n]
           /\ ~Stops(a, p) /\ n < end /\ Inside(a, n) =>
                /\ TokenEnd(a, p) \in PatternOffsets(a) /\ n + 1 \in StringOffsets(a)
                /\ Compare(a, end, p, n) = IF fnmatch_ch(a, p, S(a, n)).ok
                                           THEN Compare(a, end, TokenEnd(a, p), n + 1) ELSE Failed
PROOF
<1> DEFINE D == PatternOffsets(a) \X StringOffsets(a)
           V == [ok : BOOLEAN, p : PatternOffsets(a), n : StringOffsets(a)]
           place == [i \in D |-> i[1]]
           C == CHOOSE C : C = [i \in D |-> CompareFrom(C, a, end, i[1], i[2])]
           Holds(i) == Stops(a, i[1]) \/ i[2] >= end \/ ~Inside(a, i[2])
           Hit(i) == fnmatch_ch(a, i[1], S(a, i[2])).ok
           T == {i \in D : Holds(i) \/ ~Hit(i)}
           K == [i \in D |-> IF Holds(i) THEN [ok |-> TRUE, p |-> i[1], n |-> i[2]] ELSE Failed]
           J == [i \in D |-> IF i \in T THEN i ELSE <<TokenEnd(a, i[1]), i[2] + 1>>]
<1>1. /\ PatternEnd(a) \in Nat /\ PatternOffsets(a) = 0..PatternEnd(a)
      /\ StringEnd(a) \in Nat /\ StringOffsets(a) = 0..StringEnd(a)
      /\ end \in Nat /\ end <= StringEnd(a)
  BY Bytes
<1>2. ASSUME NEW i \in D
      PROVE  /\ i[1] \in PatternOffsets(a) /\ i[2] \in StringOffsets(a) /\ i = <<i[1], i[2]>>
             /\ i[1] \in Nat /\ i[2] \in Nat
  BY <1>1
<1>3. ASSUME NEW p \in PatternOffsets(a), NEW n \in StringOffsets(a)
      PROVE  (p \in Nat /\ n \in Nat) /\
             (Stops(a, p) \/ n >= end \/ ~Inside(a, n) <=>
               P(a, p) \in {EOS, Star} \/ n >= end \/ (slash(a) /\ S(a, n) = Slash) \/ AtSlash(a, p))
  <2>1. p \in Nat /\ n \in Nat
    BY <1>1
  <2>2. n < end => S(a, n) # EOS
    BY <1>1, <2>1, Bytes
  <2>3. ~(n >= end) => n < end
    BY <1>1, <2>1
  <2> QED
    BY <2>1, <2>2, <2>3 DEF Stops, Inside, slash
<1>4. ASSUME NEW p \in PatternOffsets(a), NEW n \in StringOffsets(a),
             ~(Stops(a, p) \/ n >= end \/ ~Inside(a, n))
      PROVE  /\ TokenEnd(a, p) \in PatternOffsets(a) /\ TokenEnd(a, p) > p
             /\ n + 1 \in StringOffsets(a)
             /\ \A g : CompareFrom(g, a, end, p, n) =
                         IF fnmatch_ch(a, p, S(a, n)).ok THEN g[<<TokenEnd(a, p), n + 1>>] ELSE Failed
  <2>1. PlainBrackets(a) /\ P(a, p) \notin {EOS, Star} /\ ~AtSlash(a, p) /\ Inside(a, n)
    BY <1>4 DEF OpenBSDFollows, Stops
  <2>2. TokenEnd(a, p) \in PatternOffsets(a) /\ TokenEnd(a, p) > p
    BY <2>1, TokenEnds
  <2>3. n + 1 \in StringOffsets(a)
    BY <2>1, InsideBound DEF Inside
  <2>4. fnmatch_ch(a, p, S(a, n)).p = TokenEnd(a, p) /\ fnmatch_ch(a, p, S(a, n)).taken = 1
    BY <2>1, CharacterMeans
  <2> DEFINE ch == fnmatch_ch(a, p, S(a, n))
  <2>5. \A g : CompareFrom(g, a, end, p, n) = IF ch.ok THEN g[<<ch.p, n + ch.taken>>] ELSE Failed
    BY <1>3, <1>4 DEF CompareFrom, Behind
  <2>6. ch.p = TokenEnd(a, p) /\ ch.taken = 1
    BY <2>4
  <2> HIDE DEF ch
  <2>7. \A g : CompareFrom(g, a, end, p, n) =
           IF ch.ok THEN g[<<TokenEnd(a, p), n + 1>>] ELSE Failed
    BY <2>5, <2>6
  <2> QED
    BY <2>2, <2>3, <2>7 DEF ch
<1>5. Failed \in V
  BY <1>1 DEF Failed
<1>6. \A i \in D : [ok |-> TRUE, p |-> i[1], n |-> i[2]] \in V
  BY <1>2
<1> HIDE DEF V, D
<1>7. K \in [D -> V]
  BY <1>5, <1>6
<1>8. ASSUME NEW i \in D
      PROVE  /\ J[i] \in D /\ (i \notin T => J[i] = <<TokenEnd(a, i[1]), i[2] + 1>>)
             /\ i \notin T => TokenEnd(a, i[1]) > i[1] /\ place[J[i]] > place[i]
             /\ place[i] \in 0..PatternEnd(a)
             /\ \A g : CompareFrom(g, a, end, i[1], i[2]) = IF i \in T THEN K[i] ELSE g[J[i]]
  <2>1. i[1] \in PatternOffsets(a) /\ i[2] \in StringOffsets(a)
    BY <1>2
  <2>2. CASE Holds(i)
    <3>1. i \in T /\ K[i] = [ok |-> TRUE, p |-> i[1], n |-> i[2]] /\ J[i] = i
      BY <2>2
    <3>2. \A g : CompareFrom(g, a, end, i[1], i[2]) = [ok |-> TRUE, p |-> i[1], n |-> i[2]]
      BY <1>3, <2>1, <2>2 DEF CompareFrom
    <3> QED
      BY <1>1, <2>1, <3>1, <3>2
  <2>3. CASE ~Holds(i) /\ ~Hit(i)
    <3>1. i \in T /\ K[i] = Failed /\ J[i] = i
      BY <2>3
    <3> QED
      BY <1>1, <1>4, <2>1, <2>3, <3>1
  <2>4. CASE ~Holds(i) /\ Hit(i)
    <3>1. i \notin T
      BY <2>4
    <3>2. J[i] = <<TokenEnd(a, i[1]), i[2] + 1>>
      BY <3>1
    <3>3. TokenEnd(a, i[1]) \in PatternOffsets(a) /\ i[2] + 1 \in StringOffsets(a) /\ TokenEnd(a, i[1]) > i[1]
      BY <1>4, <2>1, <2>4
    <3>4. J[i] \in D
      BY <3>2, <3>3 DEF D
    <3>5. place[i] = i[1] /\ place[J[i]] = TokenEnd(a, i[1])
      BY <3>2, <3>4
    <3>6. \A g : CompareFrom(g, a, end, i[1], i[2]) = g[J[i]]
      BY <1>4, <2>1, <2>4, <3>2
    <3> HIDE DEF J, T, K, Holds, Hit, place
    <3> QED
      BY <1>1, <2>1, <3>1, <3>2, <3>3, <3>4, <3>5, <3>6
  <2> QED
    BY <2>2, <2>3, <2>4
<1> HIDE DEF T, K, J, Holds, Hit
<1>9. Linked(D, V, T, K, J)
  <2>1. V # {}
    BY <1>5
  <2>2. place \in [D -> 0..PatternEnd(a)] /\ J \in [D -> D]
    <3>1. \A i \in D : place[i] \in 0..PatternEnd(a) /\ J[i] \in D
      BY <1>8
    <3>2. J = [i \in D |-> J[i]]
      BY DEF J
    <3> QED
      BY <3>1, <3>2
  <2>3. \A i \in D : i \notin T => place[J[i]] > place[i]
    BY <1>8
  <2>4. PatternEnd(a) \in Nat
    BY <1>1
  <2> HIDE DEF place
  <2>5. Chain(D, V, PatternEnd(a), place, T, K, J)
    BY <1>7, <2>1, <2>2, <2>3, <2>4 DEF Chain
  <2> QED
    BY <2>5, Chained
<1>10. \A g : [i \in D |-> CompareFrom(g, a, end, i[1], i[2])] = Follow(g, D, T, K, J)
  BY <1>8 DEF Follow
<1>11. C = [i \in D |-> CompareFrom(C, a, end, i[1], i[2])]
  <2>1. PICK f \in [D -> V] : f = Follow(f, D, T, K, J)
    BY <1>9 DEF Linked
  <2>2. f = [i \in D |-> CompareFrom(f, a, end, i[1], i[2])]
    BY <1>10, <2>1
  <2> QED
    BY <2>2
<1>12. \A p, n : Compare(a, end, p, n) = C[<<p, n>>]
  BY DEF Compare, D
<1> HIDE DEF C
<1>13. \A i \in D : C[i] = CompareFrom(C, a, end, i[1], i[2])
  BY <1>11
<1>14. C \in [D -> V]
  <2>1. C = Follow(C, D, T, K, J)
    BY <1>10, <1>11
  <2> QED
    BY <1>9, <2>1 DEF Linked
<1> SUFFICES ASSUME NEW p \in PatternOffsets(a), NEW n \in StringOffsets(a)
             PROVE  /\ Compare(a, end, p, n) \in V
                    /\ Stops(a, p) \/ n >= end => Compare(a, end, p, n) = [ok |-> TRUE, p |-> p, n |-> n]
                    /\ ~Stops(a, p) /\ n < end /\ Inside(a, n) =>
                         /\ TokenEnd(a, p) \in PatternOffsets(a) /\ n + 1 \in StringOffsets(a)
                         /\ Compare(a, end, p, n) = IF fnmatch_ch(a, p, S(a, n)).ok
                                                    THEN Compare(a, end, TokenEnd(a, p), n + 1)
                                                    ELSE Failed
  BY DEF V
<1>15. <<p, n>> \in D /\ <<p, n>>[1] = p /\ <<p, n>>[2] = n
  BY DEF D
<1>16. C[<<p, n>>] = CompareFrom(C, a, end, p, n)
  BY <1>13, <1>15
<1>17. Compare(a, end, p, n) \in V
  BY <1>12, <1>14, <1>15
<1>18. ASSUME Stops(a, p) \/ n >= end
       PROVE  Compare(a, end, p, n) = [ok |-> TRUE, p |-> p, n |-> n]
  BY <1>3, <1>12, <1>16, <1>18 DEF CompareFrom
<1>19. ASSUME ~Stops(a, p) /\ n < end /\ Inside(a, n)
       PROVE  /\ TokenEnd(a, p) \in PatternOffsets(a) /\ n + 1 \in StringOffsets(a)
              /\ Compare(a, end, p, n) = IF fnmatch_ch(a, p, S(a, n)).ok
                                         THEN Compare(a, end, TokenEnd(a, p), n + 1) ELSE Failed
  <2>1. ~(Stops(a, p) \/ n >= end \/ ~Inside(a, n))
    BY <1>1, <1>19
  <2>2. /\ TokenEnd(a, p) \in PatternOffsets(a) /\ n + 1 \in StringOffsets(a)
        /\ \A g : CompareFrom(g, a, end, p, n) =
                    IF fnmatch_ch(a, p, S(a, n)).ok THEN g[<<TokenEnd(a, p), n + 1>>] ELSE Failed
    BY <1>4, <2>1
  <2>3. Compare(a, end, p, n) = IF fnmatch_ch(a, p, S(a, n)).ok THEN C[<<TokenEnd(a, p), n + 1>>]
                                                             ELSE Failed
    BY <1>12, <1>16, <2>2
  <2>4. Compare(a, end, TokenEnd(a, p), n + 1) = C[<<TokenEnd(a, p), n + 1>>]
    BY <1>12
  <2> QED
    BY <2>2, <2>3, <2>4
<1> QED
  BY <1>17, <1>18, <1>19
-----------------------------------------------------------------------------
(* What lies inside a segment that goes to end, behind a leading period.   *)
Window(a, lo, end) ==
  /\ lo \in StringOffsets(a) /\ end \in StringOffsets(a) /\ lo <= end /\ ~Inside(a, end)
  /\ \A n \in lo..end : ~LeadingPeriod(a, n) /\ (n < end => Inside(a, n))

(* Outside of a segment only a slash of the pattern takes a byte.          *)
LEMMA TakesInside ==
  ASSUME NEW a, IsCall(a), PlainBrackets(a), NEW p \in PatternOffsets(a), ~Stops(a, p),
         NEW n \in StringOffsets(a), Takes1(a, p, n)
  PROVE  Inside(a, n)
PROOF
<1>1. P(a, p) \notin {EOS, Star} /\ ~AtSlash(a, p)
  BY DEF Stops
<1>2. p \in Int /\ p + 1 \in Int /\ n \in Int
  BY Bytes
<1>3. S(a, n) \in 0..127 /\ P(a, p) \in 0..127 /\ P(a, p + 1) \in 0..127
  BY <1>2, Bytes
<1>4. CASE P(a, p) \in {Question, Open}
  <2>1. Wild(a, n)
    BY <1>1, <1>4, TakesCases
  <2> QED
    BY <2>1, WildInside
<1>5. CASE P(a, p) \notin {Question, Open}
  <2> DEFINE l == IF Escape(a, p) THEN p + 1 ELSE p
  <2>1. S(a, n) # EOS /\ Fold(a, P(a, l)) = Fold(a, S(a, n))
    BY <1>1, <1>5, TakesCases
  <2>2. P(a, l) \in 0..127
    BY <1>3
  <2>3. slash(a) => P(a, l) # Slash
    BY <1>1 DEF AtSlash, Escape, escape
  <2> HIDE DEF l
  <2>4. slash(a) => S(a, n) # Slash
    <3>1. (Fold(a, P(a, l)) = Slash <=> P(a, l) = Slash) /\ (Fold(a, S(a, n)) = Slash <=> S(a, n) = Slash)
      BY <1>3, <2>2, Folded
    <3> QED
      BY <2>1, <2>3, <3>1
  <2> QED
    BY <2>1, <2>4 DEF Inside, slash
<1> QED
  BY <1>4, <1>5

(* A comparison from p on inside a segment ends at s unless the segment is *)
(* too short for what stands in between, and what it leaves is what the    *)
(* reference leaves.                                                       *)
ComparesTo(a, lo, end, p, s) ==
  LET len == Fixed(a, p).len
      C(n) == Compare(a, end, p, n)
  IN /\ p <= s /\ Stops(a, s) /\ (Fixed(a, p).last <=> P(a, s) # Star)
     /\ \A n \in lo..end :
          /\ C(n).ok => C(n).p >= p /\ C(n).n \in n..end /\ (~Stops(a, p) /\ n < end => C(n).p > p)
          /\ C(n).ok /\ n + len <= end => C(n).p = s /\ C(n).n = n + len
          /\ Match(a)[<<p, n>>] <=> C(n).ok /\ Match(a)[<<C(n).p, C(n).n>>]
          /\ Match(a)[<<p, n>>] => n + len <= end

(* The comparison up to the next star, a slash or the end finds what the   *)
(* reference does.                                                         *)
LEMMA Compared ==
  ASSUME NEW a, IsCall(a), OpenBSDFollows(a), NEW lo, NEW end, Window(a, lo, end)
  PROVE  \A p \in PatternOffsets(a) : \E s \in PatternOffsets(a) : ComparesTo(a, lo, end, p, s)
PROOF
<1> DEFINE M == Match(a)
           T == {p \in PatternOffsets(a) : \E s \in PatternOffsets(a) : ComparesTo(a, lo, end, p, s)}
           L == PatternEnd(a)
<1>1. PlainBrackets(a) /\ L \in Nat /\ PatternOffsets(a) = 0..L
  BY Bytes DEF OpenBSDFollows
<1>2. lo \in Nat /\ end \in Nat /\ end \in StringOffsets(a) /\ lo..end \subseteq StringOffsets(a)
  BY Bytes DEF Window
<1> HIDE DEF L
<1>3. ASSUME NEW p \in 0..L, \A q \in p + 1..L : q \in T
      PROVE  p \in T
  <2>0. p \in PatternOffsets(a) /\ p \in Nat
    BY <1>1
  <2>1. CASE Stops(a, p)
    <3>1. Fixed(a, p) = [len |-> 0, last |-> P(a, p) # Star]
      BY <2>0, <2>1, FixedExists
    <3>2. Fixed(a, p).len = 0 /\ (Fixed(a, p).last <=> P(a, p) # Star)
      <4>1. Fixed(a, p).len = 0 /\ Fixed(a, p).last = (P(a, p) # Star)
        BY <3>1
      <4> QED
        BY <4>1
    <3>3. ASSUME NEW n \in lo..end
          PROVE  Compare(a, end, p, n) = [ok |-> TRUE, p |-> p, n |-> n]
      BY <1>2, <2>0, <2>1, CompareExists
    <3>4. ASSUME NEW n \in lo..end
          PROVE  /\ Compare(a, end, p, n).ok /\ Compare(a, end, p, n).p = p
                 /\ Compare(a, end, p, n).n = n
      BY <3>3
    <3>5. ASSUME NEW n \in lo..end
          PROVE  n + 0 = n /\ n \in n..end /\ p >= p /\ n <= end
      BY <1>2, <2>0
    <3>6. ComparesTo(a, lo, end, p, p)
      BY <2>0, <2>1, <3>2, <3>4, <3>5 DEF ComparesTo
    <3> QED
      BY <2>0, <3>6
  <2>2. CASE ~Stops(a, p)
    <3> DEFINE t == TokenEnd(a, p)
    <3>1. P(a, p) \notin {EOS, Star} /\ ~AtSlash(a, p)
      BY <2>2 DEF Stops
    <3>2. t \in PatternOffsets(a) /\ t > p /\ t \in p + 1..L /\ t \in Nat
      BY <1>1, <2>0, <3>1, TokenEnds
    <3>3. PICK s \in PatternOffsets(a) : ComparesTo(a, lo, end, t, s)
      BY <1>3, <3>2
    <3>4. Fixed(a, p) = [Fixed(a, t) EXCEPT !.len = @ + 1] /\ Fixed(a, t) \in [len : Nat, last : BOOLEAN]
      BY <2>0, <2>2, <3>2, FixedExists
    <3>5. Fixed(a, p).len = Fixed(a, t).len + 1 /\ (Fixed(a, p).last <=> Fixed(a, t).last)
          /\ Fixed(a, t).len \in Nat
      BY <3>4
    <3> DEFINE C(x, n) == Compare(a, end, x, n)
               len == Fixed(a, t).len
    <3> HIDE DEF t
    <3>6. s \in Nat /\ p <= s /\ Stops(a, s) /\ (Fixed(a, p).last <=> P(a, s) # Star)
      BY <1>1, <2>0, <3>2, <3>3, <3>5 DEF ComparesTo
    <3>7. ASSUME NEW n \in lo..end
          PROVE  /\ C(t, n).ok => C(t, n).p >= t /\ C(t, n).n \in n..end
                 /\ C(t, n).ok /\ n + len <= end => C(t, n).p = s /\ C(t, n).n = n + len
                 /\ M[<<t, n>>] <=> C(t, n).ok /\ M[<<C(t, n).p, C(t, n).n>>]
                 /\ M[<<t, n>>] => n + len <= end
      BY <3>3 DEF ComparesTo
    <3>8. ASSUME NEW n \in lo..end
          PROVE  /\ C(p, n).ok => C(p, n).p >= p /\ C(p, n).n \in n..end /\ (n < end => C(p, n).p > p)
                 /\ C(p, n).ok /\ n + (len + 1) <= end => C(p, n).p = s /\ C(p, n).n = n + (len + 1)
                 /\ M[<<p, n>>] <=> C(p, n).ok /\ M[<<C(p, n).p, C(p, n).n>>]
                 /\ M[<<p, n>>] => n + (len + 1) <= end
      <4>0. n \in StringOffsets(a) /\ n \in Nat
        BY <1>2
      <4>1. M[<<p, n>>] <=> Takes1(a, p, n) /\ M[<<t, n + 1>>]
        BY <1>1, <2>0, <3>1, <4>0, Steps DEF t
      <4>2. CASE n = end
        <5>1. C(p, n) = [ok |-> TRUE, p |-> p, n |-> n]
          BY <1>2, <2>0, <4>0, <4>2, CompareExists
        <5>2. C(p, n).ok /\ C(p, n).p = p /\ C(p, n).n = n
          BY <5>1
        <5>3. ~M[<<p, n>>]
          BY <1>1, <2>0, <2>2, <4>0, <4>1, <4>2, TakesInside DEF Window
        <5> HIDE DEF M, C
        <5>4. ~(n + (len + 1) <= end) /\ ~(n < end)
          BY <1>2, <3>5, <4>2
        <5>5. p >= p /\ n \in n..end
          BY <1>2, <2>0
        <5> QED
          BY <5>2, <5>3, <5>4, <5>5
      <4>3. CASE n < end
        <5>1. Inside(a, n) /\ ~LeadingPeriod(a, n)
          BY <4>3 DEF Window
        <5>2. n + 1 \in lo..end
          BY <1>2, <4>0, <4>3
        <5>3. C(p, n) = IF fnmatch_ch(a, p, S(a, n)).ok THEN C(t, n + 1) ELSE Failed
          BY <1>2, <2>0, <2>2, <4>0, <4>3, <5>1, CompareExists DEF t
        <5>4. fnmatch_ch(a, p, S(a, n)).ok <=> Takes1(a, p, n)
          BY <2>0, <3>1, <4>0, <5>1, CharacterMeans
        <5>5. ~Failed.ok
          BY DEF Failed
        <5>6. CASE Takes1(a, p, n)
          <6>1. C(p, n) = C(t, n + 1)
            BY <5>3, <5>4, <5>6
          <6>2. /\ C(t, n + 1).ok => C(t, n + 1).p >= t /\ C(t, n + 1).n \in n + 1..end
                /\ C(t, n + 1).ok /\ (n + 1) + len <= end => C(t, n + 1).p = s /\ C(t, n + 1).n = (n + 1) + len
                /\ M[<<t, n + 1>>] <=> C(t, n + 1).ok /\ M[<<C(t, n + 1).p, C(t, n + 1).n>>]
                /\ M[<<t, n + 1>>] => (n + 1) + len <= end
            BY <3>7, <5>2
          <6>3. (n + 1) + len = n + (len + 1)
            BY <3>5, <4>0
          <6>5. C(t, n + 1) \in [ok : BOOLEAN, p : PatternOffsets(a), n : StringOffsets(a)]
            BY <1>2, <3>2, <5>2, CompareExists
          <6>6. C(t, n + 1).p \in Nat
            BY <1>1, <6>5
          <6> HIDE DEF M, C
          <6>4. C(t, n + 1).ok => C(t, n + 1).p >= p /\ C(t, n + 1).n \in n..end /\ C(t, n + 1).p > p
            BY <2>0, <3>2, <4>0, <5>2, <6>2, <6>6
          <6> QED
            BY <4>1, <5>6, <6>1, <6>2, <6>3, <6>4
        <5>7. CASE ~Takes1(a, p, n)
          <6>1. ~C(p, n).ok
            BY <5>3, <5>4, <5>5, <5>7
          <6> QED
            BY <4>1, <5>7, <6>1
        <5> QED
          BY <5>6, <5>7
      <4> QED
        BY <1>2, <4>0, <4>2, <4>3
    <3> HIDE DEF len
    <3>9. Fixed(a, p).len = len + 1
      BY <3>5 DEF len
    <3>10. ComparesTo(a, lo, end, p, s)
      BY <2>2, <3>6, <3>8, <3>9 DEF ComparesTo
    <3> QED
      BY <2>0, <3>10
  <2> QED
    BY <2>1, <2>2
<1> HIDE DEF T
<1>4. 0..L \subseteq T
  BY <1>1, <1>3, AllDownward
<1> QED
  BY <1>1, <1>4 DEF T

(* The stars and question marks at p come to an end.                       *)
LEMMA AfterWilds ==
  ASSUME NEW a, IsCall(a), NEW p \in PatternOffsets(a)
  PROVE  /\ AfterWild(a, p) \in PatternOffsets(a) /\ AfterWild(a, p) \in Nat /\ p <= AfterWild(a, p)
         /\ P(a, AfterWild(a, p)) \notin {Star, Question}
         /\ \A r \in p..AfterWild(a, p) - 1 : P(a, r) \in {Star, Question}
         /\ P(a, p) \notin {Star, Question} => AfterWild(a, p) = p
PROOF
<1> DEFINE Q == {q \in p..PatternEnd(a) : P(a, q) \notin {Star, Question}}
           W(q) == /\ P(a, q) \notin {Star, Question}
                   /\ \A r \in p..q - 1 : P(a, r) \in {Star, Question}
<1>1. p \in Nat /\ PatternEnd(a) \in Nat /\ p <= PatternEnd(a) /\ PatternOffsets(a) = 0..PatternEnd(a)
  BY Bytes
<1>2. PatternEnd(a) \in Q
  <2>1. P(a, PatternEnd(a)) = EOS
    BY <1>1, Bytes
  <2> QED
    BY <1>1, <2>1 DEF EOS, Star, Question
<1>3. Q \subseteq Nat /\ Q # {}
  BY <1>1, <1>2
<1>4. PICK q \in Q : \A x \in Q : q <= x
  <2> HIDE DEF Q
  <2> QED
    BY <1>3, LeastNumber
<1>5. q \in p..PatternEnd(a) /\ W(q)
  <2>1. ASSUME NEW r \in p..q - 1 PROVE P(a, r) \in {Star, Question}
    BY <1>1, <1>4
  <2> QED
    BY <1>4, <2>1
<1>6. AfterWild(a, p) = CHOOSE x \in p..PatternEnd(a) : W(x)
  BY DEF AfterWild, PatternEnd
<1>7. AfterWild(a, p) \in p..PatternEnd(a) /\ W(AfterWild(a, p))
  <2> HIDE DEF W
  <2> QED
    BY <1>5, <1>6
<1>8. ASSUME P(a, p) \notin {Star, Question}
      PROVE  AfterWild(a, p) = p
  <2>1. ~(p \in p..AfterWild(a, p) - 1)
    BY <1>7, <1>8
  <2> QED
    BY <1>1, <1>7, <2>1
<1> QED
  BY <1>1, <1>7, <1>8

(* A round of MatchSegment is over, or runs up to the next star.           *)
Over(a, end, p, n) ==
  P(a, p) = EOS \/ n > end \/ (n = end /\ P(a, p) # Star) \/ AtSlash(a, p)
Past(a, p, n) == n + Cardinality(Marks(a, p, AfterWild(a, p)))
Round(a, end, p, n) ==
  LET q    == AfterWild(a, p)
      wild == Starred(a, p, q)
      len  == Fixed(a, q).len
  IN IF Past(a, p, n) > end \/ (wild /\ Past(a, p, n) + len > end) THEN Failed
     ELSE IF wild /\ Fixed(a, q).last THEN Compare(a, end, q, end - len)
     ELSE IF wild THEN CompareWild(a, end, q, Past(a, p, n), len)
     ELSE Compare(a, end, q, Past(a, p, n))

RoundsTo(a, end, p, n) ==
  /\ Over(a, end, p, n) => \A M : SegmentFrom(M, a, end, p, n) = [ok |-> TRUE, p |-> p, n |-> n]
  /\ ~Over(a, end, p, n) =>
       \A M : SegmentFrom(M, a, end, p, n) =
                IF Round(a, end, p, n).ok
                THEN M[<<Round(a, end, p, n).p, Round(a, end, p, n).n>>] ELSE Failed

(* A round of match_segment: its cases.                                    *)
LEMMA Rounds ==
  ASSUME NEW a, NEW end, NEW p, NEW n
  PROVE  RoundsTo(a, end, p, n)
PROOF
<1> DEFINE q == AfterWild(a, p)
           m == Past(a, p, n)
           wild == Starred(a, p, q)
           fixed == Fixed(a, q)
           run == CASE wild /\ fixed.last -> Compare(a, end, q, end - fixed.len)
                    [] wild /\ ~fixed.last -> CompareWild(a, end, q, m, fixed.len)
                    [] OTHER -> Compare(a, end, q, m)
<1>1. \A M : SegmentFrom(M, a, end, p, n) =
        IF Over(a, end, p, n) THEN [ok |-> TRUE, p |-> p, n |-> n]
        ELSE IF m > end \/ (wild /\ m + fixed.len > end) \/ ~run.ok THEN Failed
        ELSE M[<<run.p, run.n>>]
  BY DEF SegmentFrom, Over, Past, Marks, Starred, CompareBehind, Resume
<1>2. Round(a, end, p, n) = IF m > end \/ (wild /\ m + fixed.len > end) THEN Failed ELSE run
  <2> HIDE DEF wild, m, q
  <2>1. run = IF wild /\ fixed.last THEN Compare(a, end, q, end - fixed.len)
              ELSE IF wild THEN CompareWild(a, end, q, m, fixed.len)
              ELSE Compare(a, end, q, m)
    BY DEF wild, Starred
  <2> HIDE DEF run, fixed
  <2> QED
    BY <2>1 DEF Round, q, wild, m, fixed
<1>3. ~Failed.ok
  BY DEF Failed
<1> HIDE DEF m, wild, fixed, run
<1>4. Over(a, end, p, n) => \A M : SegmentFrom(M, a, end, p, n) = [ok |-> TRUE, p |-> p, n |-> n]
  BY <1>1
<1>5. ASSUME m > end \/ (wild /\ m + fixed.len > end), ~Over(a, end, p, n)
      PROVE  \A M : SegmentFrom(M, a, end, p, n) =
                      IF Round(a, end, p, n).ok
                      THEN M[<<Round(a, end, p, n).p, Round(a, end, p, n).n>>] ELSE Failed
  <2>1. Round(a, end, p, n) = Failed
    BY <1>2, <1>5
  <2>2. \A M : SegmentFrom(M, a, end, p, n) = Failed
    BY <1>1, <1>5
  <2> QED
    BY <1>3, <2>1, <2>2
<1>6. ASSUME ~(m > end \/ (wild /\ m + fixed.len > end)), ~Over(a, end, p, n)
      PROVE  \A M : SegmentFrom(M, a, end, p, n) =
                      IF Round(a, end, p, n).ok
                      THEN M[<<Round(a, end, p, n).p, Round(a, end, p, n).n>>] ELSE Failed
  <2>1. Round(a, end, p, n) = run
    BY <1>2, <1>6
  <2>2. \A M : SegmentFrom(M, a, end, p, n) = IF run.ok THEN M[<<run.p, run.n>>] ELSE Failed
    BY <1>1, <1>6
  <2> QED
    BY <2>1, <2>2
<1> QED
  BY <1>4, <1>5, <1>6 DEF RoundsTo

(* A star's search for the characters up to the next star: it finds the    *)
(* first place for them, and what the reference matches from a later place *)
(* it matches from there as well.                                          *)
LEMMA SearchMeans ==
  ASSUME NEW a, IsCall(a), OpenBSDFollows(a), NEW lo, NEW end, Window(a, lo, end),
         NEW q \in PatternOffsets(a), ~Fixed(a, q).last, NEW m \in lo..end
  PROVE  LET r == CompareWild(a, end, q, m, Fixed(a, q).len)
         IN /\ r.ok \in BOOLEAN
            /\ r.ok => r.p \in PatternOffsets(a) /\ r.p >= q /\ r.n \in m..end
            /\ (\E k \in m..end : Match(a)[<<q, k>>]) <=> r.ok /\ Match(a)[<<r.p, r.n>>]
PROOF
<1> DEFINE M == Match(a)
           len == Fixed(a, q).len
           C(k) == Compare(a, end, q, k)
           starts == {k \in m..end - len : C(k).ok}
           r == CompareWild(a, end, q, m, len)
<1>1. lo \in Nat /\ end \in Nat /\ end \in StringOffsets(a) /\ lo..end \subseteq StringOffsets(a)
  BY Bytes DEF Window
<1>2. len \in Nat /\ q \in Nat
  <2>1. Fixed(a, q) \in [len : Nat, last : BOOLEAN]
    BY FixedExists
  <2> QED
    BY <2>1, Bytes
<1>3. PICK s \in PatternOffsets(a) : ComparesTo(a, lo, end, q, s)
  BY Compared
<1>4. P(a, s) = Star /\ q <= s
  BY <1>3 DEF ComparesTo
<1>5. ASSUME NEW k \in lo..end
      PROVE  /\ C(k).ok => C(k).p >= q /\ C(k).n \in k..end
             /\ C(k).ok /\ k + len <= end => C(k).p = s /\ C(k).n = k + len
             /\ M[<<q, k>>] <=> C(k).ok /\ M[<<C(k).p, C(k).n>>]
             /\ M[<<q, k>>] => k + len <= end
  BY <1>3 DEF ComparesTo
<1>6. ASSUME NEW k \in lo..end
      PROVE  C(k).ok \in BOOLEAN /\ C(k).p \in PatternOffsets(a)
  <2>1. C(k) \in [ok : BOOLEAN, p : PatternOffsets(a), n : StringOffsets(a)]
    BY <1>1, CompareExists
  <2> QED
    BY <2>1
<1>7. m \in Nat /\ m \in lo..end
  BY <1>1
<1> HIDE DEF M, len, C
<1>8. r = IF starts = {} THEN Failed ELSE C(CHOOSE k \in starts : \A j \in starts : k <= j)
  BY DEF CompareWild, C
<1>9. CASE starts = {}
  <2>1. ~r.ok /\ r.ok \in BOOLEAN
    BY <1>8, <1>9 DEF Failed
  <2>2. ASSUME NEW k \in m..end, M[<<q, k>>] PROVE FALSE
    <3>1. k \in lo..end
      BY <1>1, <1>7
    <3>2. C(k).ok /\ k + len <= end
      BY <1>5, <2>2, <3>1
    <3>3. k \in m..end - len
      BY <1>1, <1>2, <1>7, <3>2
    <3> QED
      BY <1>9, <3>2, <3>3
  <2> HIDE DEF r
  <2> QED
    BY <2>1, <2>2 DEF M, r, len
<1>10. CASE starts # {}
  <2> DEFINE k == CHOOSE k \in starts : \A j \in starts : k <= j
  <2>1. k \in starts /\ \A j \in starts : k <= j
    <3>1. starts \subseteq Nat
      BY <1>1, <1>2, <1>7
    <3> HIDE DEF starts
    <3>2. \E x \in starts : \A j \in starts : x <= j
      BY <1>10, <3>1, LeastNumber
    <3> QED
      BY <3>2
  <2>2. r = C(k)
    BY <1>8, <1>10
  <2> HIDE DEF k, r
  <2>3. k \in m..end - len /\ C(k).ok
    BY <2>1
  <2>4. k \in lo..end /\ k \in Nat /\ k >= m /\ k + len <= end /\ k \in StringOffsets(a)
    BY <1>1, <1>2, <1>7, <2>3
  <2>5. C(k).p = s /\ C(k).n = k + len /\ C(k).p \in PatternOffsets(a)
    BY <1>5, <1>6, <2>3, <2>4
  <2>6. C(k).n \in m..end
    BY <1>1, <1>2, <1>7, <2>4, <2>5
  <2>7. (M[<<q, k>>] <=> M[<<s, k + len>>]) /\ k \in m..end
    BY <1>1, <1>2, <1>5, <1>7, <2>3, <2>4, <2>5
  <2>8. ASSUME NEW j \in m..end, M[<<q, j>>]
        PROVE  M[<<s, k + len>>]
    <3>1. j \in lo..end /\ j \in Nat
      BY <1>1, <1>7
    <3>2. C(j).ok /\ j + len <= end /\ M[<<C(j).p, C(j).n>>]
      BY <1>5, <2>8, <3>1
    <3>3. M[<<s, j + len>>]
      BY <1>5, <3>1, <3>2
    <3>4. j \in starts
      BY <1>1, <1>2, <1>7, <3>1, <3>2
    <3>5. k <= j
      BY <2>1, <3>4
    <3>6. k + len \in lo..end /\ j + len \in lo..end /\ k + len <= j + len
      BY <1>1, <1>2, <2>4, <3>1, <3>2, <3>5
    <3>7. Span(a, k + len, j + len)
      <4>1. ASSUME NEW x \in k + len..(j + len) - 1 PROVE Inside(a, x)
        <5>1. x \in lo..end /\ x < end
          BY <1>1, <1>2, <3>1, <3>6
        <5> QED
          BY <5>1 DEF Window
      <4> QED
        BY <4>1 DEF Span
    <3>8. ~LeadingPeriod(a, k + len)
      BY <3>6 DEF Window
    <3>9. PlainBrackets(a)
      BY DEF OpenBSDFollows
    <3>10. k + len \in StringOffsets(a) /\ j + len \in StringOffsets(a)
      BY <1>1, <3>6
    <3> QED
      BY <1>4, <3>3, <3>6, <3>7, <3>8, <3>9, <3>10, StarEarlier DEF M
  <2>9. (\E j \in m..end : M[<<q, j>>]) <=> r.ok /\ M[<<r.p, r.n>>]
    BY <2>2, <2>3, <2>5, <2>7, <2>8
  <2>10. r.ok \in BOOLEAN /\ r.p \in PatternOffsets(a) /\ r.p >= q /\ r.n \in m..end
    BY <1>2, <1>4, <1>6, <2>2, <2>4, <2>5, <2>6
  <2> QED
    BY <2>9, <2>10 DEF r, M, len
<1> QED
  BY <1>9, <1>10

(* A round leaves what the reference leaves.                               *)
LEMMA RoundMeans ==
  ASSUME NEW a, IsCall(a), OpenBSDFollows(a), NEW lo, NEW end, Window(a, lo, end),
         NEW p \in PatternOffsets(a), NEW n \in lo..end, ~Over(a, end, p, n)
  PROVE  LET r == Round(a, end, p, n)
         IN /\ r.ok \in BOOLEAN
            /\ r.ok => r.p \in PatternOffsets(a) /\ r.p > p /\ r.n \in n..end
            /\ Match(a)[<<p, n>>] <=> r.ok /\ Match(a)[<<r.p, r.n>>]
PROOF
<1> DEFINE M == Match(a)
           q == AfterWild(a, p)
           m == Past(a, p, n)
           wild == Starred(a, p, q)
           len == Fixed(a, q).len
           r == Round(a, end, p, n)
           Goal(x) == /\ x.ok \in BOOLEAN
                      /\ x.ok => x.p \in PatternOffsets(a) /\ x.p > p /\ x.n \in n..end
                      /\ M[<<p, n>>] <=> x.ok /\ M[<<x.p, x.n>>]
<1>1. /\ lo \in Nat /\ end \in Nat /\ end \in StringOffsets(a) /\ lo..end \subseteq StringOffsets(a)
      /\ n \in Nat /\ p \in Nat /\ n <= end /\ n \in StringOffsets(a)
  BY Bytes DEF Window
<1>2. PlainBrackets(a)
  BY DEF OpenBSDFollows
<1>3. /\ q \in PatternOffsets(a) /\ q \in Nat /\ p <= q /\ P(a, q) \notin {Star, Question}
      /\ \A x \in p..q - 1 : P(a, x) \in {Star, Question}
      /\ P(a, p) \notin {Star, Question} => q = p
  BY AfterWilds
<1>4. m \in Nat /\ n <= m /\ m = n + Cardinality(Marks(a, p, q))
      /\ (p = q => m = n /\ ~wild)
  <2>1. Cardinality(Marks(a, p, q)) \in Nat /\ (p = q => Cardinality(Marks(a, p, q)) = 0 /\ ~wild)
    BY <1>1, <1>3, MarksStep
  <2> QED
    BY <1>1, <2>1 DEF Past
<1>5. len \in Nat
  <2>1. Fixed(a, q) \in [len : Nat, last : BOOLEAN]
    BY <1>3, FixedExists
  <2> QED
    BY <2>1
<1> HIDE DEF m, q, M, r
<1>6. M[<<p, n>>] <=> \E k \in m..end : (wild \/ k = m) /\ M[<<q, k>>]
  <2>1. ~LeadingPeriod(a, n)
    BY DEF Window
  <2>2. M[<<p, n>>] <=> \E k \in StringOffsets(a) :
          /\ n + Cardinality(Marks(a, p, q)) <= k
          /\ wild \/ k = n + Cardinality(Marks(a, p, q))
          /\ Span(a, n, k) /\ M[<<q, k>>]
    <3>1. q \in PatternOffsets(a) /\ n \in StringOffsets(a)
      BY <1>1, <1>3
    <3>2. Wilds(a, p, q)
      BY <1>3 DEF Wilds
    <3>3. M[<<p, n>>] <=> \E k \in StringOffsets(a) : WildTo(a, p, q, n, k) /\ M[<<q, k>>]
      <4>1. Match(a)[<<p, n>>] <=> WildOn(a, p, q, n)
        BY <1>2, <2>1, <3>1, <3>2, WildRun
      <4> QED
        BY <4>1 DEF M, WildOn
    <3> QED
      BY <3>3 DEF WildTo
  <2>3. M[<<p, n>>] <=> \E k \in StringOffsets(a) :
          m <= k /\ (wild \/ k = m) /\ Span(a, n, k) /\ M[<<q, k>>]
    BY <1>4, <2>2
  <2>4. ASSUME NEW k \in StringOffsets(a), m <= k
        PROVE  Span(a, n, k) <=> k \in m..end
    <3>1. k \in Nat
      BY Bytes
    <3>2. ASSUME k <= end PROVE Span(a, n, k)
      <4>1. ASSUME NEW x \in n..k - 1 PROVE Inside(a, x)
        <5>1. x \in lo..end /\ x < end
          BY <1>1, <3>1, <3>2
        <5> QED
          BY <5>1 DEF Window
      <4> QED
        BY <4>1 DEF Span
    <3>3. ASSUME ~(k <= end), Span(a, n, k) PROVE FALSE
      <4>1. end \in n..k - 1
        BY <1>1, <3>1, <3>3
      <4> QED
        BY <3>3, <4>1 DEF Span, Window
    <3> QED
      BY <1>1, <1>4, <2>4, <3>1, <3>2, <3>3
  <2>5. m..end \subseteq StringOffsets(a) /\ \A k \in m..end : m <= k
    BY <1>1, <1>4
  <2> QED
    BY <2>3, <2>4, <2>5
<1>7. PICK s \in PatternOffsets(a) : ComparesTo(a, lo, end, q, s)
  BY <1>3, Compared
<1>8. ASSUME NEW k \in lo..end
      PROVE  LET C == Compare(a, end, q, k)
             IN /\ C.ok \in BOOLEAN /\ C.p \in PatternOffsets(a)
                /\ C.ok => C.p >= q /\ C.n \in k..end /\ (~Stops(a, q) /\ k < end => C.p > q)
                /\ C.ok /\ k + len <= end => C.p = s /\ C.n = k + len
                /\ M[<<q, k>>] <=> C.ok /\ M[<<C.p, C.n>>]
                /\ M[<<q, k>>] => k + len <= end
  <2>1. Compare(a, end, q, k) \in [ok : BOOLEAN, p : PatternOffsets(a), n : StringOffsets(a)]
    BY <1>1, <1>3, CompareExists
  <2>2. Compare(a, end, q, k).ok \in BOOLEAN /\ Compare(a, end, q, k).p \in PatternOffsets(a)
    BY <2>1
  <2> QED
    BY <1>7, <2>2 DEF ComparesTo, M
<1> HIDE DEF len, wild
<1>9. CASE m > end \/ (wild /\ m + len > end)
  <2>1. r = Failed
    BY <1>9 DEF r, Round, wild, q, m, len
  <2>2. ~r.ok /\ r.ok \in BOOLEAN
    BY <2>1 DEF Failed
  <2>3. ~M[<<p, n>>]
    <3> SUFFICES ASSUME NEW k \in m..end, wild \/ k = m, M[<<q, k>>] PROVE FALSE
      BY <1>6
    <3>1. k \in lo..end /\ k \in Nat
      BY <1>1, <1>4
    <3>2. k + len <= end
      BY <1>8, <3>1
    <3> QED
      BY <1>1, <1>4, <1>5, <1>9, <3>1, <3>2
  <2> QED
    BY <2>2, <2>3 DEF M, r
<1>10. CASE ~(m > end \/ (wild /\ m + len > end)) /\ ~wild
  <2>1. r = Compare(a, end, q, m)
    BY <1>10 DEF r, Round, wild, q, m, len
  <2>2. m \in lo..end /\ m \in m..end
    BY <1>1, <1>4, <1>10
  <2>3. M[<<p, n>>] <=> M[<<q, m>>]
    BY <1>6, <1>10, <2>2
  <2>4. /\ r.ok \in BOOLEAN /\ r.p \in PatternOffsets(a)
        /\ r.ok => r.p >= q /\ r.n \in m..end /\ (~Stops(a, q) /\ m < end => r.p > q)
        /\ M[<<q, m>>] <=> r.ok /\ M[<<r.p, r.n>>]
    BY <1>8, <2>1, <2>2
  <2>5. p = q => ~Stops(a, q) /\ m < end
    <3>1. ~Over(a, end, p, n)
      OBVIOUS
    <3>2. P(a, q) # Star
      BY <1>3
    <3> QED
      BY <1>1, <1>4, <3>1, <3>2 DEF Over, Stops
  <2>6. r.p \in Nat
    BY <2>4, Bytes
  <2>7. r.ok => r.p > p /\ r.n \in n..end
    BY <1>1, <1>3, <1>4, <2>4, <2>5, <2>6
  <2> QED
    BY <2>3, <2>4, <2>7 DEF M, r
<1>11. CASE ~(m > end \/ (wild /\ m + len > end)) /\ wild /\ Fixed(a, q).last
  <2>1. r = Compare(a, end, q, end - len)
    BY <1>11 DEF r, Round, wild, q, m, len
  <2>2. end - len \in lo..end /\ end - len \in m..end /\ (end - len) + len = end /\ end - len \in Nat
    BY <1>1, <1>4, <1>5, <1>11
  <2>3. q > p
    BY <1>1, <1>3, <1>4, <1>11
  <2>4. P(a, s) # Star /\ Stops(a, s)
    BY <1>7, <1>11 DEF ComparesTo
  <2>5. Has(a, Star)
    <3>1. PICK x \in p..q - 1 : P(a, x) = Star
      BY <1>11 DEF wild, Starred
    <3>2. x \in 0..PatternEnd(a) - 1
      BY SMTT(30), <1>1, <1>3, <3>1, Bytes
    <3> QED
      BY <3>1, <3>2 DEF Has, PatternEnd
  <2>6. ASSUME NEW k \in m..end, M[<<q, k>>] PROVE k = end - len
    <3>1. k \in lo..end /\ k \in Nat
      BY <1>1, <1>4
    <3>2. k + len <= end /\ M[<<s, k + len>>]
      <4>1. k + len <= end /\ Compare(a, end, q, k).ok
              /\ M[<<Compare(a, end, q, k).p, Compare(a, end, q, k).n>>]
        BY <1>8, <2>6, <3>1
      <4> QED
        BY <1>8, <3>1, <4>1
    <3>3. k + len \in lo..end /\ k + len \in StringOffsets(a)
      BY <1>1, <1>5, <3>1, <3>2
    <3>4. k + len < end => Inside(a, k + len)
      BY <3>3 DEF Window
    <3>5. ~Inside(a, k + len)
      <4>1. CASE P(a, s) = EOS
        <5>1. S(a, k + len) = EOS \/ ("LEADING_DIR" \in a.flags /\ S(a, k + len) = Slash)
          BY <1>2, <3>2, <3>3, <4>1, Steps DEF M
        <5> QED
          BY <2>5, <5>1 DEF OpenBSDFollows, Inside
      <4>2. CASE AtSlash(a, s)
        <5>1. P(a, s) \notin {EOS, Star, Question, Open} /\ slash(a)
          BY <4>2 DEF AtSlash, EOS, Star, Question, Open, Slash, Backslash
        <5>2. Takes1(a, s, k + len)
          BY <1>2, <3>2, <3>3, <5>1, Steps DEF M
        <5> DEFINE l == IF Escape(a, s) THEN s + 1 ELSE s
        <5>3. Fold(a, P(a, l)) = Fold(a, S(a, k + len))
          BY <1>2, <5>1, <5>2, TakesCases
        <5>4. P(a, l) = Slash
          BY <4>2 DEF AtSlash, Escape, escape, Slash, EOS, Backslash
        <5>5. S(a, k + len) \in 0..127 /\ P(a, l) \in 0..127
          <6>1. k + len \in Int
            BY <3>1, <1>5
          <6>2. S(a, k + len) \in 0..127
            BY <6>1, Bytes
          <6> QED
            BY <5>4, <6>2 DEF Slash
        <5> HIDE DEF l
        <5>6. S(a, k + len) = Slash
          <6>1. (Fold(a, P(a, l)) = Slash <=> P(a, l) = Slash)
                  /\ (Fold(a, S(a, k + len)) = Slash <=> S(a, k + len) = Slash)
            BY <5>5, Folded
          <6> QED
            BY <5>3, <5>4, <6>1
        <5> QED
          BY <5>1, <5>6 DEF Inside, slash
      <4> QED
        BY <2>4, <4>1, <4>2 DEF Stops
    <3> QED
      BY <1>1, <1>5, <3>1, <3>2, <3>4, <3>5
  <2>7. M[<<p, n>>] <=> M[<<q, end - len>>]
    BY <1>6, <1>11, <2>2, <2>6
  <2>8. /\ r.ok \in BOOLEAN /\ r.p \in PatternOffsets(a)
        /\ r.ok => r.p >= q /\ r.n \in end - len..end
        /\ M[<<q, end - len>>] <=> r.ok /\ M[<<r.p, r.n>>]
    BY <1>8, <2>1, <2>2
  <2>9. r.p \in Nat
    BY <2>8, Bytes
  <2>10. r.ok => r.p > p /\ r.n \in n..end
    BY <1>1, <1>3, <1>4, <2>2, <2>3, <2>8, <2>9
  <2> QED
    BY <2>7, <2>8, <2>10 DEF M, r
<1>12. CASE ~(m > end \/ (wild /\ m + len > end)) /\ wild /\ ~Fixed(a, q).last
  <2>1. r = CompareWild(a, end, q, m, len)
    BY <1>12 DEF r, Round, wild, q, m, len
  <2>2. m \in lo..end
    BY <1>1, <1>4, <1>12
  <2>3. q > p
    BY <1>1, <1>3, <1>4, <1>12
  <2>4. /\ r.ok \in BOOLEAN
        /\ r.ok => r.p \in PatternOffsets(a) /\ r.p >= q /\ r.n \in m..end
        /\ (\E k \in m..end : M[<<q, k>>]) <=> r.ok /\ M[<<r.p, r.n>>]
    BY <1>3, <1>12, <2>1, <2>2, SearchMeans DEF M, len
  <2>5. M[<<p, n>>] <=> \E k \in m..end : M[<<q, k>>]
    BY <1>6, <1>12
  <2>6. ASSUME r.ok PROVE r.p \in PatternOffsets(a) /\ r.p > p /\ r.n \in n..end
    <3>1. r.p \in Nat /\ r.p \in PatternOffsets(a) /\ r.p >= q /\ r.n \in m..end
      BY <2>4, <2>6, Bytes
    <3> QED
      BY <1>1, <1>3, <1>4, <2>3, <3>1
  <2> QED
    BY <2>4, <2>5, <2>6 DEF M, r
<1> QED
  BY <1>9, <1>10, <1>11, <1>12

(* The match of a segment ends at the end of the pattern's segment exactly *)
(* when what follows there decides.                                        *)
SegmentOf(a, lo, end) ==
  CHOOSE M : M = [i \in PatternOffsets(a) \X (lo..end) |-> SegmentFrom(M, a, end, i[1], i[2])]

(* A segment is matched round by round, each one further on in the         *)
(* pattern.                                                                *)
LEMMA SegmentExists ==
  ASSUME NEW a, IsCall(a), OpenBSDFollows(a), NEW lo, NEW end, Window(a, lo, end)
  PROVE  \A p \in PatternOffsets(a), n \in lo..end :
           SegmentOf(a, lo, end)[<<p, n>>] = SegmentFrom(SegmentOf(a, lo, end), a, end, p, n)
PROOF
<1> DEFINE D == PatternOffsets(a) \X (lo..end)
           V == [ok : BOOLEAN, p : Nat, n : Nat]
           place == [i \in D |-> i[1]]
           C == SegmentOf(a, lo, end)
           Stay(i) == Over(a, end, i[1], i[2])
           R(i) == Round(a, end, i[1], i[2])
           T == {i \in D : Stay(i) \/ ~R(i).ok}
           K == [i \in D |-> IF Stay(i) THEN [ok |-> TRUE, p |-> i[1], n |-> i[2]] ELSE Failed]
           J == [i \in D |-> IF i \in T THEN i ELSE <<R(i).p, R(i).n>>]
<1>0. \A i : RoundsTo(a, end, i[1], i[2])
  BY Rounds
<1>1. /\ PatternEnd(a) \in Nat /\ PatternOffsets(a) = 0..PatternEnd(a)
      /\ lo \in Nat /\ end \in Nat
  BY Bytes DEF Window
<1>2. ASSUME NEW i \in D
      PROVE  /\ i[1] \in PatternOffsets(a) /\ i[2] \in lo..end /\ i[1] \in Nat /\ i[2] \in Nat
  BY <1>1
<1>3. ASSUME NEW i \in D, i \notin T
      PROVE  R(i).p \in PatternOffsets(a) /\ R(i).p > i[1] /\ R(i).n \in lo..end
  <2>1. ~Over(a, end, i[1], i[2]) /\ Round(a, end, i[1], i[2]).ok
    BY <1>3
  <2>2. i[1] \in PatternOffsets(a) /\ i[2] \in lo..end
    BY <1>2
  <2>3. R(i).p \in PatternOffsets(a) /\ R(i).p > i[1] /\ R(i).n \in i[2]..end
    BY <2>1, <2>2, RoundMeans
  <2> QED
    BY <1>1, <1>2, <2>3
<1>4. Failed \in V /\ \A i \in D : [ok |-> TRUE, p |-> i[1], n |-> i[2]] \in V
  BY <1>2 DEF Failed
<1> HIDE DEF V, D
<1>5. K \in [D -> V]
  BY <1>4
<1>6. ASSUME NEW i \in D
      PROVE  /\ J[i] \in D /\ (i \notin T => place[J[i]] > place[i]) /\ place[i] \in 0..PatternEnd(a)
             /\ \A g : SegmentFrom(g, a, end, i[1], i[2]) = IF i \in T THEN K[i] ELSE g[J[i]]
  <2>1. i[1] \in PatternOffsets(a) /\ place[i] = i[1]
    BY <1>2
  <2>2. CASE Stay(i)
    <3>1. i \in T /\ K[i] = [ok |-> TRUE, p |-> i[1], n |-> i[2]] /\ J[i] = i
      BY <2>2
    <3>2. \A g : SegmentFrom(g, a, end, i[1], i[2]) = [ok |-> TRUE, p |-> i[1], n |-> i[2]]
      BY <2>2, <1>0 DEF RoundsTo
    <3> QED
      BY <1>1, <2>1, <3>1, <3>2
  <2>3. CASE ~Stay(i) /\ ~R(i).ok
    <3>1. i \in T /\ K[i] = Failed /\ J[i] = i
      BY <2>3
    <3>2. \A g : SegmentFrom(g, a, end, i[1], i[2]) = Failed
      BY <2>3, <1>0 DEF RoundsTo
    <3> QED
      BY <1>1, <2>1, <3>1, <3>2
  <2>4. CASE ~Stay(i) /\ R(i).ok
    <3>1. i \notin T
      BY <2>4
    <3>2. J[i] = <<R(i).p, R(i).n>>
      BY <3>1
    <3>3. R(i).p \in PatternOffsets(a) /\ R(i).p > i[1] /\ R(i).n \in lo..end
      BY <1>3, <3>1
    <3>4. J[i] \in D
      BY <3>2, <3>3 DEF D
    <3>5. place[J[i]] = R(i).p
      BY <3>2, <3>4
    <3>6. \A g : SegmentFrom(g, a, end, i[1], i[2]) = g[J[i]]
      BY <2>4, <3>2, <1>0 DEF RoundsTo
    <3> HIDE DEF J, T, K, Stay, R, place
    <3> QED
      BY <1>1, <2>1, <3>1, <3>3, <3>4, <3>5, <3>6
  <2> QED
    BY <2>2, <2>3, <2>4
<1> HIDE DEF T, K, J, Stay, R
<1>7. Linked(D, V, T, K, J)
  <2>1. V # {} /\ PatternEnd(a) \in Nat
    BY <1>1, <1>4
  <2>2. place \in [D -> 0..PatternEnd(a)] /\ J \in [D -> D]
    <3>1. \A i \in D : place[i] \in 0..PatternEnd(a) /\ J[i] \in D
      BY <1>6
    <3>2. J = [i \in D |-> J[i]]
      BY DEF J
    <3> QED
      BY <3>1, <3>2
  <2>3. \A i \in D : i \notin T => place[J[i]] > place[i]
    BY <1>6
  <2> HIDE DEF place
  <2>4. Chain(D, V, PatternEnd(a), place, T, K, J)
    BY <1>5, <2>1, <2>2, <2>3 DEF Chain
  <2> QED
    BY <2>4, Chained
<1>8. \A g : [i \in D |-> SegmentFrom(g, a, end, i[1], i[2])] = Follow(g, D, T, K, J)
  BY <1>6 DEF Follow
<1>9. C = [i \in D |-> SegmentFrom(C, a, end, i[1], i[2])]
  <2>1. PICK f \in [D -> V] : f = Follow(f, D, T, K, J)
    BY <1>7 DEF Linked
  <2>2. f = [i \in D |-> SegmentFrom(f, a, end, i[1], i[2])]
    BY <1>8, <2>1
  <2> QED
    BY <2>2 DEF SegmentOf, D
<1> HIDE DEF C
<1>10. \A i \in D : C[i] = SegmentFrom(C, a, end, i[1], i[2])
  BY <1>9
<1>11. \A p \in PatternOffsets(a), n \in lo..end :
         <<p, n>> \in D /\ <<p, n>>[1] = p /\ <<p, n>>[2] = n
  BY DEF D
<1>12. \A p \in PatternOffsets(a), n \in lo..end : C[<<p, n>>] = SegmentFrom(C, a, end, p, n)
  BY <1>10, <1>11
<1> QED
  BY <1>12 DEF C

(* What a segment leaves of the pattern from p on.                         *)
Leaves(a, lo, end, p, n, r) ==
  /\ r.ok => r.p \in PatternOffsets(a) /\ r.p >= p /\ r.n \in lo..end
  /\ P(a, p) = EOS \/ AtSlash(a, p) => r = [ok |-> TRUE, p |-> p, n |-> n]
  /\ Match(a)[<<p, n>>] <=>
       r.ok /\ (P(a, r.p) = EOS \/ AtSlash(a, r.p)) /\ Match(a)[<<r.p, r.n>>]

(* What match_segment leaves of the pattern decides the match.             *)
LEMMA SegmentMeans ==
  ASSUME NEW a, IsCall(a), OpenBSDFollows(a), NEW lo, NEW end, Window(a, lo, end),
         NEW p \in PatternOffsets(a)
  PROVE  Leaves(a, lo, end, p, lo, MatchSegment(a, p, lo, end))
PROOF
<1> DEFINE M == Match(a)
           C == SegmentOf(a, lo, end)
           L == PatternEnd(a)
           T == {i \in 0..L : \A n \in lo..end : Leaves(a, lo, end, i, n, C[<<i, n>>])}
<1>1. L \in Nat /\ PatternOffsets(a) = 0..L /\ PlainBrackets(a)
  BY Bytes DEF OpenBSDFollows
<1>2. /\ lo \in Nat /\ end \in Nat /\ lo <= end /\ end \in StringOffsets(a)
      /\ lo..end \subseteq StringOffsets(a) /\ lo \in lo..end
  BY Bytes DEF Window
<1>3. MatchSegment(a, p, lo, end) = C[<<p, lo>>]
  BY DEF MatchSegment, SegmentOf
<1> HIDE DEF L, C
<1>4. ASSUME NEW i \in 0..L, \A j \in i + 1..L : j \in T
      PROVE  i \in T
  <2> SUFFICES ASSUME NEW n \in lo..end PROVE Leaves(a, lo, end, i, n, C[<<i, n>>])
    OBVIOUS
  <2>0. i \in PatternOffsets(a) /\ i \in Nat /\ n \in Nat /\ n \in StringOffsets(a)
    BY <1>1, <1>2
  <2>1. C[<<i, n>>] = SegmentFrom(C, a, end, i, n)
    BY <2>0, SegmentExists DEF C
  <2>4. RoundsTo(a, end, i, n)
    BY Rounds
  <2>2. CASE Over(a, end, i, n)
    <3>1. C[<<i, n>>] = [ok |-> TRUE, p |-> i, n |-> n]
      BY <2>1, <2>2, <2>4 DEF RoundsTo
    <3>2. C[<<i, n>>].ok /\ C[<<i, n>>].p = i /\ C[<<i, n>>].n = n
      BY <3>1
    <3>3. ~(P(a, i) = EOS \/ AtSlash(a, i)) => ~Match(a)[<<i, n>>]
      <4> SUFFICES ASSUME ~(P(a, i) = EOS \/ AtSlash(a, i)) PROVE ~Match(a)[<<i, n>>]
        OBVIOUS
      <4>1. n = end /\ P(a, i) # Star
        BY <1>2, <2>0, <2>2 DEF Over
      <4>2. ~Stops(a, i) /\ P(a, i) \notin {EOS, Star}
        BY <4>1 DEF Stops
      <4>3. ~Takes1(a, i, n)
        BY <1>1, <2>0, <4>1, <4>2, TakesInside DEF Window
      <4> QED
        BY <1>1, <2>0, <4>2, <4>3, Steps
    <3>4. i >= i
      BY <2>0
    <3> HIDE DEF M
    <3> QED
      BY <2>0, <3>1, <3>2, <3>3, <3>4 DEF Leaves
  <2>3. CASE ~Over(a, end, i, n)
    <3> DEFINE r == Round(a, end, i, n)
    <3>1. /\ r.ok \in BOOLEAN
          /\ r.ok => r.p \in PatternOffsets(a) /\ r.p > i /\ r.n \in n..end
          /\ Match(a)[<<i, n>>] <=> r.ok /\ Match(a)[<<r.p, r.n>>]
      BY <2>0, <2>3, RoundMeans
    <3>2. C[<<i, n>>] = IF r.ok THEN C[<<r.p, r.n>>] ELSE Failed
      BY <2>1, <2>3, <2>4 DEF RoundsTo
    <3>3. ~(P(a, i) = EOS \/ AtSlash(a, i))
      BY <2>3 DEF Over
    <3> HIDE DEF r
    <3>4. CASE ~r.ok
      <4>1. ~C[<<i, n>>].ok
        BY <3>2, <3>4 DEF Failed
      <4> QED
        BY <3>1, <3>3, <3>4, <4>1 DEF Leaves
    <3>5. CASE r.ok
      <4>1. r.p \in Nat /\ r.p \in i + 1..L /\ r.n \in lo..end /\ r.p > i
        BY <1>1, <1>2, <2>0, <3>1, <3>5
      <4>2. Leaves(a, lo, end, r.p, r.n, C[<<r.p, r.n>>])
        BY <1>4, <4>1
      <4>3. C[<<i, n>>] = C[<<r.p, r.n>>]
        BY <3>2, <3>5
      <4> DEFINE x == C[<<r.p, r.n>>]
      <4>4. /\ x.ok => x.p \in PatternOffsets(a) /\ x.p >= r.p /\ x.n \in lo..end
            /\ Match(a)[<<r.p, r.n>>] <=>
                 x.ok /\ (P(a, x.p) = EOS \/ AtSlash(a, x.p)) /\ Match(a)[<<x.p, x.n>>]
        BY <4>2 DEF Leaves
      <4> HIDE DEF x
      <4>5. ASSUME x.ok PROVE x.p >= i
        <5>1. x.p \in Nat
          BY <1>1, <4>4, <4>5
        <5> QED
          BY <2>0, <4>1, <4>4, <4>5, <5>1
      <4>6. Leaves(a, lo, end, i, n, x)
        BY <3>1, <3>3, <3>5, <4>4, <4>5 DEF Leaves
      <4> QED
        BY <4>3, <4>6 DEF x
    <3> QED
      BY <3>1, <3>4, <3>5
  <2> QED
    BY <2>2, <2>3
<1> HIDE DEF T
<1>5. 0..L \subseteq T
  BY <1>1, <1>4, AllDownward
<1>6. p \in T
  BY <1>1, <1>5
<1> QED
  BY <1>2, <1>3, <1>6 DEF T
-----------------------------------------------------------------------------
(* A slash that ends a segment of the pattern takes a slash.               *)
SlashEnd(a, p) == IF P(a, p) = Backslash THEN p + 2 ELSE p + 1

(* A slash that PATHNAME protects takes a slash and nothing else.          *)
LEMMA SlashTakes ==
  ASSUME NEW a, IsCall(a), PlainBrackets(a), NEW p \in PatternOffsets(a), AtSlash(a, p),
         NEW n \in StringOffsets(a)
  PROVE  /\ P(a, p) \notin {EOS, Star} /\ SlashEnd(a, p) \in PatternOffsets(a) /\ slash(a)
         /\ P(a, SlashEnd(a, p) - 1) = Slash
         /\ Match(a)[<<p, n>>] <=> S(a, n) = Slash /\ Match(a)[<<SlashEnd(a, p), n + 1>>]
PROOF
<1> DEFINE l == IF Escape(a, p) THEN p + 1 ELSE p
<1>1. P(a, p) \notin {EOS, Star, Question, Open} /\ slash(a)
  BY DEF AtSlash, EOS, Star, Question, Open, Slash, Backslash
<1>2. P(a, l) = Slash
  BY DEF AtSlash, Escape, escape, Slash, EOS, Backslash
<1>3. l + 1 = SlashEnd(a, p) /\ TokenEnd(a, p) = SlashEnd(a, p) /\ l = SlashEnd(a, p) - 1
  <2>1. p \in Nat
    BY Bytes
  <2>2. Escape(a, p) <=> P(a, p) = Backslash
    BY DEF AtSlash, Escape, escape, Slash, EOS, Backslash
  <2> QED
    BY <1>1, <2>1, <2>2 DEF TokenEnd, SlashEnd
<1>4. TokenEnd(a, p) \in PatternOffsets(a)
  BY <1>1, TokenEnds
<1>5. Takes1(a, p, n) <=> S(a, n) # EOS /\ Fold(a, P(a, l)) = Fold(a, S(a, n))
  BY <1>1, TakesCases
<1>6. n \in Int
  BY Bytes
<1>7. S(a, n) \in 0..127
  BY <1>6, Bytes
<1> HIDE DEF l
<1>8. (Fold(a, Slash) = Slash <=> Slash = Slash) /\ (Fold(a, S(a, n)) = Slash <=> S(a, n) = Slash)
  <2>1. Slash \in 0..127
    BY DEF Slash
  <2> QED
    BY <1>7, <2>1, Folded
<1>9. Takes1(a, p, n) <=> S(a, n) = Slash
  BY <1>2, <1>5, <1>8 DEF Slash, EOS
<1>10. Match(a)[<<p, n>>] <=> Takes1(a, p, n) /\ Match(a)[<<TokenEnd(a, p), n + 1>>]
  BY <1>1, Steps
<1> QED
  BY <1>1, <1>2, <1>3, <1>4, <1>9, <1>10

(* The end of a segment for OpenBSD.                                       *)
EndOf(a, n) == IF slash(a) THEN SegmentEnd(a, n) ELSE StringEnd(a)

(* The rest of a segment has no leading period.                            *)
LEMMA WindowHere ==
  ASSUME NEW a, IsCall(a), NEW n \in StringOffsets(a), ~LeadingPeriod(a, n)
  PROVE  Window(a, n, EndOf(a, n))
PROOF
<1> DEFINE e == EndOf(a, n)
<1>1. n \in Nat /\ StringEnd(a) \in Nat /\ StringOffsets(a) = 0..StringEnd(a) /\ n <= StringEnd(a)
  BY Bytes
<1>2. /\ SegmentEnd(a, n) \in n..StringEnd(a) /\ S(a, SegmentEnd(a, n)) \in {Slash, EOS}
      /\ \A m \in n..SegmentEnd(a, n) - 1 : S(a, m) \notin {Slash, EOS}
  BY SegmentEnds
<1>3. e \in n..StringEnd(a)
  BY <1>1, <1>2 DEF EndOf
<1>4. ~Inside(a, e)
  <2>1. S(a, StringEnd(a)) = EOS
    BY <1>1, Bytes
  <2> QED
    BY <1>2, <2>1 DEF EndOf, Inside, slash
<1>5. ASSUME NEW m \in n..e, m < e PROVE Inside(a, m)
  <2>1. ~slash(a) => m \in 0..StringEnd(a) - 1
    BY <1>1, <1>3, <1>5 DEF EndOf
  <2>2. ~slash(a) => S(a, m) # EOS
    BY <1>1, <1>3, <2>1, Bytes
  <2>3. slash(a) => m \in n..SegmentEnd(a, n) - 1
    BY <1>1, <1>2, <1>5 DEF EndOf
  <2> QED
    BY <1>2, <2>2, <2>3 DEF Inside, slash
<1> HIDE DEF e
<1>6. ASSUME NEW m \in n..e PROVE ~LeadingPeriod(a, m)
  <2>1. \A k \in n..m - 1 : Inside(a, k)
    <3> SUFFICES ASSUME NEW k \in n..m - 1 PROVE Inside(a, k)
      OBVIOUS
    <3>1. k \in n..e /\ k < e
      BY <1>1, <1>3
    <3> QED
      BY <1>5, <3>1
  <2>2. m \in StringOffsets(a) /\ n <= m
    BY <1>1, <1>3
  <2>3. Span(a, n, m)
    BY <2>1 DEF Span
  <2> QED
    BY <2>2, <2>3, SpanNext
<1>7. n <= e /\ e \in StringOffsets(a)
  BY <1>1, <1>3
<1>8. Window(a, n, e)
  BY <1>4, <1>5, <1>6, <1>7 DEF Window
<1> QED
  BY <1>8 DEF e

(* The parts of a first segment: a leading period, what is left of the     *)
(* segment, and whether that suits the string.                             *)
Dot(a, n) == "PERIOD" \in a.flags /\ S(a, n) = Period
Dotted(a, p, n) ==
  Dot(a, n) => P(a, p) = Period \/ (escape(a) /\ P(a, p) = Backslash /\ P(a, p + 1) = Period)
PastDot(a, p, n) == IF ~Dot(a, n) THEN p ELSE IF P(a, p) = Period THEN p + 1 ELSE p + 2
AfterDot(a, n) == IF Dot(a, n) THEN n + 1 ELSE n
Left(a, p, n) == MatchSegment(a, PastDot(a, p, n), AfterDot(a, n), EndOf(a, AfterDot(a, n)))
Suits(a, r) ==
  /\ r.ok
  /\ S(a, r.n) = EOS \/ (S(a, r.n) = Slash /\ (slash(a) \/ "LEADING_DIR" \in a.flags))
  /\ P(a, r.p) = EOS \/ AtSlash(a, r.p)
Led(a, r) == "LEADING_DIR" \in a.flags /\ P(a, r.p) = EOS /\ S(a, r.n) = Slash
FirstTo(a, p, n) ==
  \A O : FirstSegment(O, a, p, n) <=>
    Dotted(a, p, n) /\ Suits(a, Left(a, p, n))
      /\ (Led(a, Left(a, p, n)) \/ O[<<Left(a, p, n).p, Left(a, p, n).n>>])

(* The first segment of a path, its cases.                                 *)
LEMMA FirstIs ==
  ASSUME NEW a, NEW p, NEW n
  PROVE  FirstTo(a, p, n)
PROOF
<1> SUFFICES ASSUME NEW O
             PROVE  FirstSegment(O, a, p, n) <=>
                      Dotted(a, p, n) /\ Suits(a, Left(a, p, n))
                        /\ (Led(a, Left(a, p, n)) \/ O[<<Left(a, p, n).p, Left(a, p, n).n>>])
  BY DEF FirstTo
<1> DEFINE dot   == "PERIOD" \in a.flags /\ S(a, n) = Period
           plain == P(a, p) = Period
           p1    == IF ~dot THEN p ELSE IF plain THEN p + 1 ELSE p + 2
           n1    == IF dot THEN n + 1 ELSE n
           r     == MatchSegment(a, p1, n1, IF slash(a) THEN SegmentEnd(a, n1) ELSE StringEnd(a))
<1>1. FirstSegment(O, a, p, n) <=>
        /\ dot => plain \/ (escape(a) /\ P(a, p) = Backslash /\ P(a, p + 1) = Period)
        /\ r.ok
        /\ S(a, r.n) = EOS \/ (S(a, r.n) = Slash /\ (slash(a) \/ "LEADING_DIR" \in a.flags))
        /\ P(a, r.p) = EOS \/ AtSlash(a, r.p)
        /\ \/ "LEADING_DIR" \in a.flags /\ P(a, r.p) = EOS /\ S(a, r.n) = Slash
           \/ O[<<r.p, r.n>>]
  BY DEF FirstSegment, SegmentDone, StringEnd
<1>2. r = Left(a, p, n)
  BY DEF Left, Dot, PastDot, AfterDot, EndOf
<1> HIDE DEF r
<1> QED
  BY <1>1, <1>2 DEF Dotted, Dot, Suits, Led

(* The first segment behind its period stays in the arguments, and goes    *)
(* on.                                                                     *)
LEMMA FirstLeaves ==
  ASSUME NEW a, IsCall(a), OpenBSDFollows(a),
         NEW p \in PatternOffsets(a), NEW n \in StringOffsets(a), Dotted(a, p, n)
  PROVE  /\ PastDot(a, p, n) \in PatternOffsets(a) /\ AfterDot(a, n) \in StringOffsets(a)
         /\ PastDot(a, p, n) >= p /\ (Dot(a, n) => PastDot(a, p, n) > p)
         /\ Leaves(a, AfterDot(a, n), EndOf(a, AfterDot(a, n)), PastDot(a, p, n), AfterDot(a, n), Left(a, p, n))
         /\ Left(a, p, n).ok =>
              /\ Left(a, p, n).p \in PatternOffsets(a) /\ Left(a, p, n).p >= PastDot(a, p, n)
              /\ Left(a, p, n).n \in StringOffsets(a)
PROOF
<1>1. /\ p \in Nat /\ PatternEnd(a) \in Nat /\ PatternOffsets(a) = 0..PatternEnd(a)
      /\ n \in Nat /\ StringEnd(a) \in Nat /\ StringOffsets(a) = 0..StringEnd(a)
  BY Bytes
<1>2. Dot(a, n) => n + 1 \in StringOffsets(a) /\ ~LeadingPeriod(a, n + 1)
  <2>1. Dot(a, n) => Inside(a, n)
    BY DEF Dot, Inside, Period, EOS, Slash
  <2> QED
    BY <2>1, InsideBound, InsideNext DEF Inside
<1>3. ~Dot(a, n) => ~LeadingPeriod(a, n)
  BY DEF Dot, LeadingPeriod
<1>4. AfterDot(a, n) \in StringOffsets(a) /\ ~LeadingPeriod(a, AfterDot(a, n))
  BY <1>2, <1>3 DEF AfterDot
<1>5. PastDot(a, p, n) \in PatternOffsets(a) /\ PastDot(a, p, n) >= p
        /\ (Dot(a, n) => PastDot(a, p, n) > p)
  <2>1. P(a, p) = Period => p + 1 \in PatternOffsets(a)
    <3>1. P(a, p) = Period => p \in 0..PatternEnd(a) - 1
      BY <1>1, Bytes DEF Period, EOS
    <3> QED
      BY <1>1, <3>1
  <2>2. P(a, p + 1) = Period => p + 2 \in PatternOffsets(a)
    <3>1. P(a, p + 1) = Period => p + 1 \in 0..PatternEnd(a) - 1
      BY <1>1, Bytes DEF Period, EOS
    <3> QED
      BY <1>1, <3>1
  <2> QED
    BY <1>1, <2>1, <2>2 DEF PastDot, Dotted
<1>6. Window(a, AfterDot(a, n), EndOf(a, AfterDot(a, n)))
  BY <1>4, WindowHere
<1>7. Leaves(a, AfterDot(a, n), EndOf(a, AfterDot(a, n)), PastDot(a, p, n), AfterDot(a, n), Left(a, p, n))
  BY <1>5, <1>6, SegmentMeans DEF Left
<1>8. AfterDot(a, n)..EndOf(a, AfterDot(a, n)) \subseteq StringOffsets(a)
  BY <1>1, <1>6 DEF Window
<1> QED
  BY <1>4, <1>5, <1>7, <1>8 DEF Leaves

(* Where OpenBSDFrom has its first segment begin.                          *)
Escaped(a, p) == IF AtSlash(a, p) /\ P(a, p) = Backslash THEN p + 1 ELSE p
Step(a, p, n) == IF slash(a) /\ P(a, Escaped(a, p)) = Slash /\ S(a, n) = Slash THEN 1 ELSE 0
OpenFrom(a, p, n) ==
  \A O : OpenBSDFrom(O, a, p, n) =
           IF P(a, p) = EOS \/ S(a, n) = EOS THEN P(a, p) = EOS /\ S(a, n) = EOS
           ELSE FirstSegment(O, a, Escaped(a, p) + Step(a, p, n), n + Step(a, p, n))

(* A call from some place on, its cases.                                   *)
LEMMA OpenIs ==
  ASSUME NEW a, NEW p, NEW n
  PROVE  OpenFrom(a, p, n)
BY DEF OpenFrom, OpenBSDFrom, Escaped, Step

OpenOf(a) ==
  CHOOSE O : O = [i \in PatternOffsets(a) \X StringOffsets(a) |-> OpenBSDFrom(O, a, i[1], i[2])]

(* A first segment asks only about what stands further on.                 *)
LEMMA OpenOnward ==
  ASSUME NEW a, IsCall(a), OpenBSDFollows(a),
         NEW p \in PatternOffsets(a), NEW n \in StringOffsets(a), P(a, p) # EOS, S(a, n) # EOS
  PROVE  LET q == Escaped(a, p) + Step(a, p, n)
             m == n + Step(a, p, n)
             r == Left(a, q, m)
         IN /\ q \in PatternOffsets(a) /\ m \in StringOffsets(a) /\ q >= p
            /\ Dotted(a, q, m) /\ Suits(a, r) =>
                 r.p \in PatternOffsets(a) /\ r.p > p /\ r.n \in StringOffsets(a)
PROOF
<1> DEFINE q == Escaped(a, p) + Step(a, p, n)
           m == n + Step(a, p, n)
           r == Left(a, q, m)
<1>1. /\ p \in Nat /\ PatternEnd(a) \in Nat /\ PatternOffsets(a) = 0..PatternEnd(a)
      /\ n \in Nat /\ StringEnd(a) \in Nat /\ StringOffsets(a) = 0..StringEnd(a)
      /\ p \in 0..PatternEnd(a) - 1 /\ n \in 0..StringEnd(a) - 1
  BY Bytes
<1>2. Escaped(a, p) \in PatternOffsets(a) /\ Escaped(a, p) >= p
        /\ (P(a, Escaped(a, p)) = Slash => Escaped(a, p) + 1 \in PatternOffsets(a))
  <2>1. Escaped(a, p) \in {p, p + 1}
    BY DEF Escaped
  <2>2. P(a, Escaped(a, p)) = Slash => Escaped(a, p) \in 0..PatternEnd(a) - 1
    BY <1>1, <2>1, Bytes DEF Slash, EOS
  <2> QED
    BY <1>1, <2>1, <2>2
<1>3. q \in PatternOffsets(a) /\ m \in StringOffsets(a) /\ q >= p /\ q \in Nat
        /\ (Step(a, p, n) = 1 => q > p)
  <2>1. CASE Step(a, p, n) = 1
    <3>1. P(a, Escaped(a, p)) = Slash
      BY <2>1 DEF Step
    <3> QED
      BY <1>1, <1>2, <2>1, <3>1
  <2>2. CASE Step(a, p, n) = 0
    BY <1>1, <1>2, <2>2
  <2> QED
    BY <2>1, <2>2 DEF Step
<1>4. ASSUME Dotted(a, q, m), Suits(a, r)
      PROVE  r.p \in PatternOffsets(a) /\ r.p > p /\ r.n \in StringOffsets(a)
  <2> HIDE DEF q, m
  <2>1. /\ PastDot(a, q, m) \in PatternOffsets(a) /\ AfterDot(a, m) \in StringOffsets(a)
        /\ PastDot(a, q, m) >= q /\ (Dot(a, m) => PastDot(a, q, m) > q)
        /\ Leaves(a, AfterDot(a, m), EndOf(a, AfterDot(a, m)), PastDot(a, q, m), AfterDot(a, m), r)
        /\ r.ok =>
              /\ r.p \in PatternOffsets(a) /\ r.p >= PastDot(a, q, m)
              /\ r.n \in StringOffsets(a)
    BY <1>3, <1>4, FirstLeaves
  <2>2. r.p \in PatternOffsets(a) /\ r.p >= PastDot(a, q, m) /\ r.n \in StringOffsets(a)
    BY <1>4, <2>1 DEF Suits
  <2>3. r.p \in Nat /\ PastDot(a, q, m) \in Nat
    BY <1>1, <2>1, <2>2
  <2>4. ASSUME r.p = p PROVE FALSE
    <3>1. PastDot(a, q, m) = p /\ q = p /\ ~Dot(a, m)
      BY <1>1, <1>3, <2>1, <2>2, <2>3, <2>4
    <3>2. Step(a, p, n) = 0 /\ Escaped(a, p) = p
      <4>1. Step(a, p, n) \in {0, 1} /\ Escaped(a, p) \in {p, p + 1}
        BY DEF Step, Escaped
      <4> QED
        BY <1>1, <3>1, <4>1 DEF q
    <3>3. m = n /\ AfterDot(a, m) = n
      BY <1>1, <3>1, <3>2 DEF AfterDot, m
    <3>4. AtSlash(a, p)
      BY <1>4, <2>4 DEF Suits
    <3>5. P(a, p) # Backslash
      BY <1>1, <3>2, <3>4 DEF Escaped
    <3>6. P(a, p) = Slash /\ slash(a)
      BY <3>4, <3>5 DEF AtSlash
    <3>7. r = [ok |-> TRUE, p |-> p, n |-> n]
      BY <2>1, <3>1, <3>3, <3>4 DEF Leaves
    <3>8. r.n = n
      BY <3>7
    <3>9. S(a, n) = Slash
      BY <1>4, <3>8 DEF Suits
    <3> QED
      BY <3>2, <3>6, <3>9 DEF Step
  <2> QED
    BY <1>1, <1>3, <2>1, <2>2, <2>3, <2>4
<1> QED
  BY <1>3, <1>4

(* OpenBSD's segments are asked about one after the other.                 *)
LEMMA OpenExists ==
  ASSUME NEW a, IsCall(a), OpenBSDFollows(a)
  PROVE  \A p \in PatternOffsets(a), n \in StringOffsets(a) :
           OpenOf(a)[<<p, n>>] = OpenBSDFrom(OpenOf(a), a, p, n)
PROOF
<1> DEFINE D == PatternOffsets(a) \X StringOffsets(a)
           V == BOOLEAN
           place == [i \in D |-> i[1]]
           C == OpenOf(a)
           Ends(i) == P(a, i[1]) = EOS \/ S(a, i[2]) = EOS
           q(i) == Escaped(a, i[1]) + Step(a, i[1], i[2])
           m(i) == i[2] + Step(a, i[1], i[2])
           R(i) == Left(a, q(i), m(i))
           T == {i \in D : Ends(i) \/ ~(Dotted(a, q(i), m(i)) /\ Suits(a, R(i))) \/ Led(a, R(i))}
           K == [i \in D |-> IF Ends(i) THEN P(a, i[1]) = EOS /\ S(a, i[2]) = EOS
                             ELSE Dotted(a, q(i), m(i)) /\ Suits(a, R(i))]
           J == [i \in D |-> IF i \in T THEN i ELSE <<R(i).p, R(i).n>>]
<1>1. PatternEnd(a) \in Nat /\ PatternOffsets(a) = 0..PatternEnd(a)
  BY Bytes
<1>2. ASSUME NEW i \in D
      PROVE  i[1] \in PatternOffsets(a) /\ i[2] \in StringOffsets(a) /\ i[1] \in Nat
  BY <1>1
<1>3. ASSUME NEW i \in D, i \notin T
      PROVE  R(i).p \in PatternOffsets(a) /\ R(i).p > i[1] /\ R(i).n \in StringOffsets(a)
  <2>1. P(a, i[1]) # EOS /\ S(a, i[2]) # EOS /\ Dotted(a, q(i), m(i)) /\ Suits(a, R(i))
    BY <1>3
  <2> QED
    BY <1>2, <2>1, OpenOnward
<1> HIDE DEF D
<1>4. K \in [D -> V]
  <2>1. \A i \in D : K[i] \in BOOLEAN
    BY DEF Dotted, Suits
  <2> QED
    BY <2>1
<1>5. ASSUME NEW g \in [D -> V], NEW i \in D
      PROVE  OpenBSDFrom(g, a, i[1], i[2]) = IF i \in T THEN K[i] ELSE g[J[i]]
  <2>1. OpenFrom(a, i[1], i[2]) /\ FirstTo(a, q(i), m(i))
    BY OpenIs, FirstIs
  <2>2. OpenBSDFrom(g, a, i[1], i[2]) =
          IF Ends(i) THEN P(a, i[1]) = EOS /\ S(a, i[2]) = EOS ELSE FirstSegment(g, a, q(i), m(i))
    BY <2>1 DEF OpenFrom
  <2>3. FirstSegment(g, a, q(i), m(i)) <=>
          Dotted(a, q(i), m(i)) /\ Suits(a, R(i)) /\ (Led(a, R(i)) \/ g[<<R(i).p, R(i).n>>])
    BY <2>1 DEF FirstTo
  <2>4. FirstSegment(g, a, q(i), m(i)) \in BOOLEAN
    BY DEF FirstSegment, SegmentDone
  <2> HIDE DEF q, m, R
  <2>5. CASE Ends(i)
    <3>1. i \in T /\ K[i] = (P(a, i[1]) = EOS /\ S(a, i[2]) = EOS)
      BY <2>5
    <3> QED
      BY <2>2, <2>5, <3>1
  <2>6. CASE ~Ends(i) /\ ~(Dotted(a, q(i), m(i)) /\ Suits(a, R(i)))
    <3>1. i \in T /\ K[i] = FALSE
      BY <2>6 DEF Dotted, Suits
    <3>2. FirstSegment(g, a, q(i), m(i)) = FALSE
      BY <2>3, <2>4, <2>6
    <3> QED
      BY <2>2, <2>6, <3>1, <3>2
  <2>7. CASE ~Ends(i) /\ Dotted(a, q(i), m(i)) /\ Suits(a, R(i)) /\ Led(a, R(i))
    <3>1. i \in T /\ K[i] = TRUE
      BY <2>7 DEF Dotted, Suits
    <3>2. FirstSegment(g, a, q(i), m(i)) = TRUE
      BY <2>3, <2>4, <2>7
    <3> QED
      BY <2>2, <2>7, <3>1, <3>2
  <2>8. CASE ~Ends(i) /\ Dotted(a, q(i), m(i)) /\ Suits(a, R(i)) /\ ~Led(a, R(i))
    <3>1. i \notin T
      BY <2>8
    <3>2. J[i] = <<R(i).p, R(i).n>>
      BY <3>1
    <3>3. <<R(i).p, R(i).n>> \in D
      BY <1>3, <3>1 DEF D
    <3>4. g[<<R(i).p, R(i).n>>] \in BOOLEAN
      BY <3>3
    <3>5. FirstSegment(g, a, q(i), m(i)) = g[<<R(i).p, R(i).n>>]
      BY <2>3, <2>4, <2>8, <3>4
    <3> QED
      BY <2>2, <2>8, <3>1, <3>2, <3>5
  <2> QED
    BY <2>5, <2>6, <2>7, <2>8
<1>6. ASSUME NEW i \in D
      PROVE  J[i] \in D /\ (i \notin T => place[J[i]] > place[i]) /\ place[i] \in 0..PatternEnd(a)
  <2>1. place[i] = i[1] /\ place[i] \in 0..PatternEnd(a)
    BY <1>1, <1>2
  <2>2. CASE i \in T
    BY <2>1, <2>2
  <2>3. CASE i \notin T
    <3>1. J[i] = <<R(i).p, R(i).n>>
      BY <2>3
    <3>2. R(i).p \in PatternOffsets(a) /\ R(i).p > i[1] /\ R(i).n \in StringOffsets(a)
      BY <1>3, <2>3
    <3> HIDE DEF R, T
    <3>3. J[i] \in D
      BY <3>1, <3>2 DEF D
    <3>4. place[J[i]] = R(i).p
      BY <3>1, <3>3
    <3> QED
      BY <2>1, <3>2, <3>3, <3>4
  <2> QED
    BY <2>2, <2>3
<1> HIDE DEF T, K, J, R, q, m, Ends
<1>7. Linked(D, V, T, K, J)
  <2>1. V # {} /\ PatternEnd(a) \in Nat
    BY <1>1
  <2>2. place \in [D -> 0..PatternEnd(a)] /\ J \in [D -> D]
    <3>1. \A i \in D : place[i] \in 0..PatternEnd(a) /\ J[i] \in D
      BY <1>6
    <3>2. J = [i \in D |-> J[i]]
      BY DEF J
    <3> QED
      BY <3>1, <3>2
  <2>3. \A i \in D : i \notin T => place[J[i]] > place[i]
    BY <1>6
  <2> HIDE DEF place
  <2>4. Chain(D, V, PatternEnd(a), place, T, K, J)
    BY <1>4, <2>1, <2>2, <2>3 DEF Chain
  <2> QED
    BY <2>4, Chained
<1>8. \A g \in [D -> V] : [i \in D |-> OpenBSDFrom(g, a, i[1], i[2])] = Follow(g, D, T, K, J)
  BY <1>5 DEF Follow
<1>9. C = [i \in D |-> OpenBSDFrom(C, a, i[1], i[2])]
  <2>1. PICK f \in [D -> V] : f = Follow(f, D, T, K, J)
    BY <1>7 DEF Linked
  <2>2. f = [i \in D |-> OpenBSDFrom(f, a, i[1], i[2])]
    BY <1>8, <2>1
  <2> QED
    BY <2>2 DEF OpenOf, D
<1> HIDE DEF C
<1>10. \A i \in D : C[i] = OpenBSDFrom(C, a, i[1], i[2])
  BY <1>9
<1>11. \A p \in PatternOffsets(a), n \in StringOffsets(a) :
         <<p, n>> \in D /\ <<p, n>>[1] = p /\ <<p, n>>[2] = n
  BY DEF D
<1>12. \A p \in PatternOffsets(a), n \in StringOffsets(a) : C[<<p, n>>] = OpenBSDFrom(C, a, p, n)
  BY <1>10, <1>11
<1> QED
  BY <1>12 DEF C

(* At the beginning of a segment a first segment decides as the reference  *)
(* does when what it consults does so.                                     *)
Starts(a, n) == n = 0 \/ ("PATHNAME" \in a.flags /\ S(a, n - 1) = Slash)
Consults(a, O, p) ==
  \A x \in PatternOffsets(a), n \in StringOffsets(a) :
    /\ P(a, x) = EOS => (O[<<x, n>>] <=> S(a, n) = EOS)
    /\ x >= p /\ AtSlash(a, x) /\ S(a, n) \in {EOS, Slash} => (O[<<x, n>>] <=> Match(a)[<<x, n>>])

(* A segment matches as the reference says, when those that follow do.     *)
LEMMA FirstMeans ==
  ASSUME NEW a, IsCall(a), OpenBSDFollows(a), NEW O,
         NEW p \in PatternOffsets(a), NEW n \in StringOffsets(a), Starts(a, n), Consults(a, O, p)
  PROVE  FirstSegment(O, a, p, n) <=> Match(a)[<<p, n>>]
PROOF
<1> DEFINE M == Match(a)
           r == Left(a, p, n)
           p1 == PastDot(a, p, n)
           n1 == AfterDot(a, n)
<1>1. PlainBrackets(a)
  BY DEF OpenBSDFollows
<1>2. FirstSegment(O, a, p, n) <=>
        Dotted(a, p, n) /\ Suits(a, r) /\ (Led(a, r) \/ O[<<r.p, r.n>>])
  BY FirstIs DEF FirstTo
<1>3. p \in Nat /\ n \in Nat /\ p + 1 \in Int
  BY Bytes
<1>4. P(a, p) \in 0..127 /\ P(a, p + 1) \in 0..127 /\ S(a, n) \in 0..127
  BY <1>3, Bytes
<1>5. Dot(a, n) <=> LeadingPeriod(a, n)
  BY DEF Dot, Starts, LeadingPeriod
<1> DEFINE l == IF Escape(a, p) THEN p + 1 ELSE p
<1>6. ASSUME Dot(a, n), P(a, p) \notin {EOS, Star}
      PROVE  M[<<p, n>>] <=> Dotted(a, p, n) /\ M[<<p1, n + 1>>]
  <2>1. M[<<p, n>>] <=> Takes1(a, p, n) /\ M[<<TokenEnd(a, p), n + 1>>]
    BY <1>1, <1>6, Steps
  <2>2. CASE P(a, p) \in {Question, Open}
    <3>1. ~Takes1(a, p, n)
      BY <1>1, <1>5, <1>6, <2>2, TakesCases DEF Wild
    <3>2. ~Dotted(a, p, n)
      BY <1>6, <2>2 DEF Dotted, Question, Open, Period, Backslash
    <3> QED
      BY <2>1, <3>1, <3>2
  <2>3. CASE P(a, p) \notin {Question, Open}
    <3>1. Takes1(a, p, n) <=> S(a, n) # EOS /\ Fold(a, P(a, l)) = Fold(a, S(a, n))
      BY <1>1, <1>6, <2>3, TakesCases
    <3>2. S(a, n) = Period /\ S(a, n) # EOS /\ Fold(a, S(a, n)) = Period
      <4>1. S(a, n) = Period /\ S(a, n) # EOS
        BY <1>6 DEF Dot, Period, EOS
      <4> QED
        BY <1>4, <4>1, FoldedPeriod
    <3>3. P(a, l) \in 0..127
      BY <1>4
    <3>4. Takes1(a, p, n) <=> P(a, l) = Period
      <4> HIDE DEF l
      <4>1. Fold(a, P(a, l)) = Period <=> P(a, l) = Period
        BY <3>3, Folded
      <4> QED
        BY <3>1, <3>2, <4>1
    <3>5. Dotted(a, p, n) <=> P(a, l) = Period
      BY <1>6 DEF Dotted, Escape, escape, Period, EOS, Backslash
    <3>6. P(a, l) = Period => TokenEnd(a, p) = p1
      BY <1>6, <2>3 DEF TokenEnd, PastDot, Escape, Period, EOS, Backslash
    <3> QED
      BY <2>1, <3>4, <3>5, <3>6
  <2> QED
    BY <2>2, <2>3
<1>7. M[<<p, n>>] <=> Dotted(a, p, n) /\ M[<<p1, n1>>]
  <2>1. CASE ~Dot(a, n)
    BY <2>1 DEF Dotted, PastDot, AfterDot
  <2>2. CASE Dot(a, n) /\ P(a, p) \notin {EOS, Star}
    BY <1>6, <2>2 DEF AfterDot
  <2>3. CASE Dot(a, n) /\ P(a, p) \in {EOS, Star}
    <3>1. ~Dotted(a, p, n)
      BY <2>3 DEF Dotted, EOS, Star, Period, Backslash
    <3>2. S(a, n) = Period /\ S(a, n) \notin {EOS, Slash}
      BY <2>3 DEF Dot, Period, EOS, Slash
    <3>3. ~M[<<p, n>>]
      BY <1>1, <1>5, <2>3, <3>2, Steps
    <3> QED
      BY <3>1, <3>3
  <2> QED
    BY <2>1, <2>2, <2>3
<1> HIDE DEF p1, n1, r, M, l
<1>8. ASSUME Dotted(a, p, n)
      PROVE  /\ r.ok => r.p \in PatternOffsets(a) /\ r.n \in StringOffsets(a) /\ r.p >= p
             /\ M[<<p1, n1>>] <=> r.ok /\ (P(a, r.p) = EOS \/ AtSlash(a, r.p)) /\ M[<<r.p, r.n>>]
  <2>1. /\ PastDot(a, p, n) \in PatternOffsets(a) /\ PastDot(a, p, n) >= p
        /\ Leaves(a, AfterDot(a, n), EndOf(a, AfterDot(a, n)), PastDot(a, p, n), AfterDot(a, n), Left(a, p, n))
        /\ Left(a, p, n).ok =>
              /\ Left(a, p, n).p \in PatternOffsets(a) /\ Left(a, p, n).p >= PastDot(a, p, n)
              /\ Left(a, p, n).n \in StringOffsets(a)
    BY <1>8, FirstLeaves
  <2>2. ASSUME r.ok PROVE r.p \in PatternOffsets(a) /\ r.n \in StringOffsets(a) /\ r.p >= p
    <3>1. r.p \in PatternOffsets(a) /\ r.n \in StringOffsets(a) /\ r.p >= PastDot(a, p, n)
      BY <2>1, <2>2 DEF r
    <3>2. r.p \in Nat /\ PastDot(a, p, n) \in Nat
      BY <2>1, <3>1, Bytes
    <3> QED
      BY <1>3, <2>1, <3>1, <3>2
  <2>3. M[<<p1, n1>>] <=> r.ok /\ (P(a, r.p) = EOS \/ AtSlash(a, r.p)) /\ M[<<r.p, r.n>>]
    BY <2>1 DEF Leaves, M, p1, n1, r
  <2> QED
    BY <2>2, <2>3
<1>9. ASSUME Dotted(a, p, n), r.ok, P(a, r.p) = EOS \/ AtSlash(a, r.p)
      PROVE  M[<<r.p, r.n>>] <=> Suits(a, r) /\ (Led(a, r) \/ O[<<r.p, r.n>>])
  <2>1. r.p \in PatternOffsets(a) /\ r.n \in StringOffsets(a) /\ r.p >= p
    BY <1>8, <1>9
  <2>2. CASE P(a, r.p) = EOS
    <3>1. M[<<r.p, r.n>>] <=> S(a, r.n) = EOS \/ ("LEADING_DIR" \in a.flags /\ S(a, r.n) = Slash)
      BY <1>1, <2>1, <2>2, Steps DEF M
    <3>2. O[<<r.p, r.n>>] <=> S(a, r.n) = EOS
      BY <2>1, <2>2 DEF Consults
    <3> QED
      BY <1>9, <2>2, <3>1, <3>2 DEF Suits, Led, EOS, Slash
  <2>3. CASE P(a, r.p) # EOS
    <3>1. AtSlash(a, r.p)
      BY <1>9, <2>3
    <3>2. slash(a) /\ (M[<<r.p, r.n>>] => S(a, r.n) = Slash)
      BY <1>1, <2>1, <3>1, SlashTakes DEF M
    <3>3. S(a, r.n) \in {EOS, Slash} => (O[<<r.p, r.n>>] <=> M[<<r.p, r.n>>])
      BY <2>1, <3>1 DEF Consults, M
    <3> QED
      BY <1>9, <2>3, <3>1, <3>2, <3>3 DEF Suits, Led
  <2> QED
    BY <2>2, <2>3
<1> QED
  BY <1>2, <1>7, <1>8, <1>9 DEF M, Suits

(* OpenBSD's fnmatch answers as POSIX defines.                             *)
THEOREM OpenBSDMeans ==
  ASSUME NEW a, IsCall(a), OpenBSDFollows(a)
  PROVE  openbsd(a) <=> Matches(a)
PROOF
<1> DEFINE M == Match(a)
           O == OpenOf(a)
           L == PatternEnd(a)
           Right(x) == \A n \in StringOffsets(a) :
                         AtSlash(a, x) /\ S(a, n) \in {EOS, Slash} => (O[<<x, n>>] <=> M[<<x, n>>])
           T == {x \in 0..L : Right(x)}
<1>1. PlainBrackets(a)
  BY DEF OpenBSDFollows
<1>2. /\ L \in Nat /\ PatternOffsets(a) = 0..L /\ 0 \in PatternOffsets(a)
      /\ StringEnd(a) \in Nat /\ StringOffsets(a) = 0..StringEnd(a) /\ 0 \in StringOffsets(a)
  BY Bytes
<1>3. ASSUME NEW p \in PatternOffsets(a), NEW n \in StringOffsets(a)
      PROVE  O[<<p, n>>] =
               IF P(a, p) = EOS \/ S(a, n) = EOS THEN P(a, p) = EOS /\ S(a, n) = EOS
               ELSE FirstSegment(O, a, Escaped(a, p) + Step(a, p, n), n + Step(a, p, n))
  <2>1. O[<<p, n>>] = OpenBSDFrom(O, a, p, n)
    BY OpenExists
  <2> HIDE DEF O
  <2> QED
    BY <2>1, OpenIs DEF OpenFrom
<1>4. openbsd(a) = IF P(a, 0) = Star THEN FirstSegment(O, a, 0, 0) ELSE O[<<0, 0>>]
  BY DEF openbsd, OpenOf
<1> HIDE DEF L, O, M
<1>5. ASSUME NEW x \in 0..L, \A y \in x + 1..L : y \in T
      PROVE  x \in T
  <2> SUFFICES ASSUME NEW n \in StringOffsets(a), AtSlash(a, x), S(a, n) \in {EOS, Slash}
               PROVE  O[<<x, n>>] <=> M[<<x, n>>]
    OBVIOUS
  <2>1. /\ x \in PatternOffsets(a) /\ P(a, x) \notin {EOS, Star} /\ slash(a)
        /\ SlashEnd(a, x) \in PatternOffsets(a) /\ P(a, SlashEnd(a, x) - 1) = Slash
        /\ M[<<x, n>>] <=> S(a, n) = Slash /\ M[<<SlashEnd(a, x), n + 1>>]
    BY <1>1, <1>2, SlashTakes DEF M
  <2>2. CASE S(a, n) = EOS
    <3>1. O[<<x, n>>] = FALSE
      BY <1>3, <2>1, <2>2
    <3>2. ~(S(a, n) = Slash)
      BY <2>2 DEF EOS, Slash
    <3> QED
      BY <2>1, <3>1, <3>2
  <2>3. CASE S(a, n) = Slash
    <3>1. x \in Nat
      BY <1>2
    <3>2. Escaped(a, x) = SlashEnd(a, x) - 1
      BY <3>1 DEF Escaped, SlashEnd
    <3>3. Step(a, x, n) = 1
      BY <2>1, <2>3, <3>2 DEF Step
    <3>4. S(a, n) # EOS /\ n \in Nat
      BY <1>2, <2>3 DEF EOS, Slash
    <3>5. SlashEnd(a, x) \in Nat /\ SlashEnd(a, x) > x
      BY <1>2, <2>1, <3>1 DEF SlashEnd
    <3>6. Escaped(a, x) + 1 = SlashEnd(a, x)
      BY <3>2, <3>5
    <3>7. O[<<x, n>>] = FirstSegment(O, a, SlashEnd(a, x), n + 1)
      BY <1>3, <2>1, <3>3, <3>4, <3>6
    <3>8. n + 1 \in StringOffsets(a) /\ Starts(a, n + 1)
      <4>1. n + 1 \in StringOffsets(a)
        BY <3>4, InsideBound
      <4>2. (n + 1) - 1 = n
        BY <3>4
      <4> QED
        BY <2>1, <2>3, <4>1, <4>2 DEF Starts, slash
    <3>9. Consults(a, O, SlashEnd(a, x))
      <4> SUFFICES ASSUME NEW y \in PatternOffsets(a), NEW k \in StringOffsets(a)
                   PROVE  /\ P(a, y) = EOS => (O[<<y, k>>] <=> S(a, k) = EOS)
                          /\ y >= SlashEnd(a, x) /\ AtSlash(a, y) /\ S(a, k) \in {EOS, Slash} =>
                               (O[<<y, k>>] <=> M[<<y, k>>])
        BY DEF Consults, M
      <4>1. P(a, y) = EOS => (O[<<y, k>>] <=> S(a, k) = EOS)
        BY <1>3
      <4>2. y >= SlashEnd(a, x) => y \in x + 1..L
        BY <1>2, <3>1, <3>5
      <4>3. y \in x + 1..L => Right(y)
        BY <1>5
      <4> QED
        BY <4>1, <4>2, <4>3
    <3>10. FirstSegment(O, a, SlashEnd(a, x), n + 1) <=> M[<<SlashEnd(a, x), n + 1>>]
      BY <2>1, <3>8, <3>9, FirstMeans DEF M
    <3> QED
      BY <2>1, <2>3, <3>7, <3>10
  <2> QED
    BY <2>2, <2>3
<1>6. 0..L \subseteq T
  <2> HIDE DEF T
  <2> QED
    BY <1>2, <1>5, AllDownward
<1>7. \A x \in PatternOffsets(a) : Right(x)
  BY <1>2, <1>6
<1>8. Consults(a, O, 0)
  <2> SUFFICES ASSUME NEW y \in PatternOffsets(a), NEW k \in StringOffsets(a)
               PROVE  /\ P(a, y) = EOS => (O[<<y, k>>] <=> S(a, k) = EOS)
                      /\ y >= 0 /\ AtSlash(a, y) /\ S(a, k) \in {EOS, Slash} =>
                           (O[<<y, k>>] <=> M[<<y, k>>])
    BY DEF Consults, M
  <2>1. P(a, y) = EOS => (O[<<y, k>>] <=> S(a, k) = EOS)
    BY <1>3
  <2> QED
    BY <1>7, <2>1
<1>9. FirstSegment(O, a, 0, 0) <=> M[<<0, 0>>]
  <2>1. Starts(a, 0)
    BY DEF Starts
  <2> QED
    BY <1>2, <1>8, <2>1, FirstMeans DEF M
<1>10. CASE P(a, 0) = Star
  BY <1>4, <1>9, <1>10 DEF Matches, M
<1>11. CASE P(a, 0) = EOS
  <2>1. O[<<0, 0>>] = (S(a, 0) = EOS)
    BY <1>2, <1>3, <1>11
  <2>2. M[<<0, 0>>] <=> S(a, 0) = EOS \/ ("LEADING_DIR" \in a.flags /\ S(a, 0) = Slash)
    BY <1>1, <1>2, <1>11, Steps DEF M
  <2>3. "LEADING_DIR" \notin a.flags
    <3>1. PatternEnd(a) = 0
      BY <1>2, <1>11, Bytes
    <3>2. a.pattern = <<>>
      BY <3>1 DEF PatternEnd, IsCall, Text
    <3> QED
      BY <3>2 DEF OpenBSDFollows
  <2>4. P(a, 0) # Star
    BY <1>11 DEF EOS, Star
  <2> QED
    BY <1>4, <2>1, <2>2, <2>3, <2>4 DEF Matches, M
<1>12. CASE P(a, 0) \notin {EOS, Star}
  <2>1. CASE S(a, 0) = EOS
    <3>1. O[<<0, 0>>] = FALSE
      BY <1>2, <1>3, <1>12, <2>1
    <3>2. ~M[<<0, 0>>]
      BY <1>1, <1>2, <1>12, <2>1, Steps, TakesCases DEF M
    <3> QED
      BY <1>4, <1>12, <3>1, <3>2 DEF Matches, M
  <2>2. CASE AtSlash(a, 0) /\ S(a, 0) = Slash
    <3>1. O[<<0, 0>>] <=> M[<<0, 0>>]
      BY <1>2, <1>7, <2>2
    <3> QED
      BY <1>4, <1>12, <3>1 DEF Matches, M
  <2>3. CASE AtSlash(a, 0) /\ S(a, 0) \notin {EOS, Slash}
    <3> DEFINE q == Escaped(a, 0)
    <3>1. q + Step(a, 0, 0) = q /\ 0 + Step(a, 0, 0) = 0
      BY <2>3 DEF Step, Escaped
    <3>2. O[<<0, 0>>] = FirstSegment(O, a, q, 0)
      BY <1>2, <1>3, <1>12, <2>3, <3>1
    <3>3. P(a, q) = Slash /\ AtSlash(a, q) /\ q \in PatternOffsets(a)
      <4>1. P(a, q) = Slash /\ q \in {0, 1}
        BY <2>3 DEF AtSlash, Escaped, escape, Slash, EOS, Backslash
      <4>2. q \in 0..PatternEnd(a) - 1
        BY <4>1, Bytes DEF Slash, EOS
      <4> QED
        BY <2>3, <4>1, <4>2, Bytes DEF AtSlash
    <3> HIDE DEF q
    <3>4. ~FirstSegment(O, a, q, 0)
      <4> SUFFICES ASSUME FirstSegment(O, a, q, 0) PROVE FALSE
        OBVIOUS
      <4>1. Dotted(a, q, 0) /\ Suits(a, Left(a, q, 0))
        BY FirstIs DEF FirstTo
      <4>2. ~Dot(a, 0)
        BY <3>3, <4>1 DEF Dotted, Slash, Period, Backslash
      <4>3. Leaves(a, AfterDot(a, 0), EndOf(a, AfterDot(a, 0)), PastDot(a, q, 0), AfterDot(a, 0), Left(a, q, 0))
        BY <1>2, <3>3, <4>1, FirstLeaves
      <4>4. AfterDot(a, 0) = 0 /\ PastDot(a, q, 0) = q
        BY <4>2 DEF AfterDot, PastDot
      <4>5. Left(a, q, 0) = [ok |-> TRUE, p |-> q, n |-> 0]
        BY <3>3, <4>3, <4>4 DEF Leaves
      <4>6. Left(a, q, 0).n = 0
        BY <4>5
      <4> QED
        BY <2>3, <4>1, <4>6 DEF Suits
    <3>5. ~M[<<0, 0>>]
      BY <1>1, <1>2, <2>3, SlashTakes DEF M
    <3> QED
      BY <1>4, <1>12, <3>2, <3>4, <3>5 DEF Matches, M
  <2>4. CASE ~AtSlash(a, 0) /\ S(a, 0) # EOS
    <3>1. Escaped(a, 0) = 0
      BY <2>4 DEF Escaped
    <3>2. Step(a, 0, 0) = 0
      BY <2>4, <3>1 DEF Step, AtSlash
    <3>3. O[<<0, 0>>] = FirstSegment(O, a, 0, 0)
      BY <1>2, <1>3, <1>12, <2>4, <3>1, <3>2
    <3> QED
      BY <1>4, <1>9, <1>12, <3>3 DEF Matches, M
  <2> QED
    BY <2>1, <2>2, <2>3, <2>4
<1> QED
  BY <1>10, <1>11, <1>12

=============================================================================
