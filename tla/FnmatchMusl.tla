----------------------------- MODULE FnmatchMusl -----------------------------
(***************************************************************************)
(* musl's fnmatch, the second of src/alt_impl.c: it reads the pattern one  *)
(* character at a time, matches what follows the last star at the end of   *)
(* the string, and searches for each component between two stars once.     *)
(*                                                                         *)
(* All bytes are ASCII.  What pat_next returns one after the other is a    *)
(* sequence, and a part of a pattern, from one pointer to another, are     *)
(* the characters i + 1 to j of it.                                        *)
(***************************************************************************)
EXTENDS FnmatchPosix

END      == 0
BRACKET  == 0 - 3
QUESTION == 0 - 4
STAR     == 0 - 5

Kinds == {58, 46, 61}   \* the : . and = of an item [:name:]

(* The offset of the ] that closes the item [:name:] at k.                 *)
ItemEnd(a, k) ==
  LET m    == Len(a.pattern)
      ends == {j \in k + 3..m - 1 : P(a, j - 1) = P(a, k + 1) /\ P(a, j) = Close}
  IN IF ends = {} THEN m ELSE CHOOSE j \in ends : \A i \in ends : j <= i
IsItem(a, k) == P(a, k) = Open /\ P(a, k + 1) \in Kinds

(* The offset of the ] that closes a list from k on, or the end.           *)
ListEndFrom(L, a, k) ==
  CASE P(a, k) \in {EOS, Close} -> k
    [] IsItem(a, k) -> LET e == ItemEnd(a, k) IN IF e = Len(a.pattern) THEN e ELSE L[e + 1]
    [] OTHER -> L[k + 1]
ListEnd(a, k) == LET L[j \in PatternOffsets(a)] == ListEndFrom(L, a, j) IN L[k]

(* The next character of the pattern: what it is, and its size.            *)
pat_next(a, p) ==
  LET k0 == IF P(a, p + 1) \in Negations THEN p + 2 ELSE p + 1
      k  == ListEnd(a, IF P(a, k0) = Close THEN k0 + 1 ELSE k0)
  IN CASE Escape(a, p) -> [c |-> P(a, p + 1), step |-> 2]
       [] P(a, p) = Open /\ P(a, k) # EOS -> [c |-> BRACKET, step |-> k + 1 - p]
       [] P(a, p) = Star -> [c |-> STAR, step |-> 1]
       [] P(a, p) = Question -> [c |-> QUESTION, step |-> 1]
       [] OTHER -> [c |-> P(a, p), step |-> 1]

(* All of them from p on, each with its offset.                            *)
CharsFrom(C, a, p) ==
  IF P(a, p) = EOS THEN <<>>
  ELSE LET t == pat_next(a, p) IN <<[c |-> t.c, at |-> p]>> \o C[p + t.step]
PatternChars(a) == LET C[p \in PatternOffsets(a)] == CharsFrom(C, a, p) IN C[0]

(* A list from q on has the byte k; wc is the last character it read.      *)
InListFrom(L, a, k, q, wc) ==
  CASE P(a, q) \in {EOS, Close} -> FALSE
    [] P(a, q) = Minus /\ P(a, q + 1) \notin {EOS, Close} ->
         (wc <= k /\ k <= P(a, q + 1)) \/ L[<<q + 1, wc>>]
    [] IsItem(a, q) ->
         LET e == ItemEnd(a, q)
         IN \/ /\ P(a, q + 1) = 58
               /\ \E class \in Classes : class.name = SubSeq(a.pattern, q + 3, e - 1)
                                           /\ k \in class.bytes
            \/ e < Len(a.pattern) /\ L[<<e + 1, wc>>]
    [] OTHER -> P(a, q) = k \/ L[<<q + 1, P(a, q)>>]

match_bracket(a, p, k) ==
  LET L[i \in PatternOffsets(a) \X (0..127)] == InListFrom(L, a, k, i[1], i[2])
      inv == P(a, p + 1) \in Negations
      q   == IF inv THEN p + 2 ELSE p + 1
  IN inv # (IF P(a, q) \in {Close, Minus} THEN P(a, q) = k \/ L[<<q + 1, P(a, q)>>]
                                          ELSE L[<<q, P(a, q - 1)>>])

(* The character t takes the byte k.                                       *)
Takes(a, t, k) ==
  IF t.c = BRACKET THEN match_bracket(a, t.at, k) ELSE t.c = QUESTION \/ t.c = k

(* The characters i + 1 to j take the bytes from n on.                     *)
TakeAll(a, T, i, j, n) == \A x \in i + 1..j : Takes(a, T[x], S(a, n + (x - i) - 1))

(* The component between the star i and the next one is tried at each      *)
(* place from n on.  The first place where nothing speaks against it       *)
(* commits it, unless the string ends there too early.                     *)
ComponentsFrom(C, a, T, last, e, i, n) ==
  LET j  == CHOOSE j \in i + 1..last : T[j].c = STAR /\ \A x \in i + 1..j - 1 : T[x].c # STAR
      at == CHOOSE s \in n..e :
              /\ \A x \in i + 1..j - 1 : s + (x - i) <= e => Takes(a, T[x], S(a, s + (x - i) - 1))
              /\ \A r \in n..s - 1 : \E x \in i + 1..j - 1 :
                   r + (x - i) <= e /\ ~Takes(a, T[x], S(a, r + (x - i) - 1))
  IN i = last \/ (at + (j - i) - 1 <= e /\ C[<<j, at + (j - i) - 1>>])
Components(a, T, i, last, n, e) ==
  LET C[x \in (0..last) \X (0..e)] == ComponentsFrom(C, a, T, last, e, x[1], x[2])
  IN C[<<i, n>>]

(* The characters i + 1 to j match the string from n to e: up to the first *)
(* star, behind the last one, and between them.                            *)
fnmatch_internal(a, T, i, j, n, e) ==
  LET stars == {x \in i + 1..j : T[x].c = STAR}
      first == CHOOSE x \in stars : \A y \in stars : x <= y
      last  == CHOOSE x \in stars : \A y \in stars : y <= x
  IN /\ "PERIOD" \in a.flags /\ S(a, n) = Period => i < j /\ P(a, T[i + 1].at) = Period
     /\ IF stars = {} THEN e - n = j - i /\ TakeAll(a, T, i, j, n)
        ELSE LET head == n + (first - i) - 1
                 tail == e - (j - last)
             IN /\ head <= tail /\ TakeAll(a, T, i, first - 1, n) /\ TakeAll(a, T, last, j, tail)
                /\ Components(a, T, first, last, head, tail)

(* A segment of the string and what the pattern has up to a slash, and the *)
(* segments that follow.                                                   *)
SegmentsFrom(G, a, T, i, n) ==
  LET e == SegmentEnd(a, n)
      j == CHOOSE j \in i..Len(T) : (j < Len(T) => T[j + 1].c = Slash)
                                    /\ \A x \in i + 1..j : T[x].c # Slash
      c == IF j < Len(T) THEN Slash ELSE END
  IN /\ c = S(a, e) \/ (S(a, e) = Slash /\ "LEADING_DIR" \in a.flags)
     /\ fnmatch_internal(a, T, i, j, n, e)
     /\ c = END \/ G[<<j + 1, e + 1>>]
Segments(a, T) ==
  LET G[x \in (0..Len(T)) \X StringOffsets(a)] == SegmentsFrom(G, a, T, x[1], x[2])
  IN G[<<0, 0>>]

musl(a) ==
  LET T == PatternChars(a)
  IN IF "PATHNAME" \in a.flags THEN Segments(a, T)
     ELSE \E e \in StringOffsets(a) :
            /\ e = Len(a.string) \/ (S(a, e) = Slash /\ "LEADING_DIR" \in a.flags)
            /\ fnmatch_internal(a, T, 0, Len(T), 0, e)

(* musl does not take an escaped period for a leading one.                 *)
MuslFollows(a) ==
  /\ PlainBrackets(a)
  /\ "PERIOD" \in a.flags =>
       \A p \in 0..Len(a.pattern) - 1 : P(a, p) = Backslash => P(a, p + 1) # Period

=============================================================================
