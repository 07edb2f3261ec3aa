----------------------- MODULE FnmatchCompilerProofs -----------------------
(***************************************************************************)
(* Theorems about fnmatch_compile, for every pattern and every bound of an *)
(* argument: each iteration reads something, the assertion fails for open  *)
(* bracket expressions only, the program can be walked both ways, is what  *)
(* the matching machine expects and says what the pattern says, and the    *)
(* statistics count that.                                                  *)
(*                                                                         *)
(* What buffer_read_escaped, fnmatch__vm_chars, the walk over a program    *)
(* and the meaning of a pattern return is defined by recursive functions.  *)
(* That such a function exists follows from Recursion (or, for a scan, is  *)
(* proved by building the function from its end), and facts about it are   *)
(* proved by the least element of a set of numbers (LeastNumber and what   *)
(* follows from it).                                                       *)
(*                                                                         *)
(* The invariant that carries the theorems about the program, CompilerInv, *)
(* says where its instructions begin, what stands between one and the      *)
(* next, and that what they say, followed by what the pattern says from    *)
(* the position reached on, is what the pattern says.                      *)
(***************************************************************************)
EXTENDS FnmatchCompiler, FiniteSetTheorems, WellFoundedInduction, SequenceTheorems, TLAPS

-----------------------------------------------------------------------------
(* Induction.                                                              *)

(* A set of numbers that is not empty has a least element.                 *)
LEMMA LeastNumber ==
  ASSUME NEW T, T \subseteq Nat, T # {}
  PROVE  \E x \in T : \A y \in T : x <= y
PROOF
<1> DEFINE R == {ss \in Nat \X Nat : ss[1] < ss[2]}
<1>1. IsWellFoundedOn(R, Nat)
  BY NatLessThanWellFounded DEF OpToRel
<1>2. \A y, x \in Nat : y < x => <<y, x>> \in R
  OBVIOUS
<1> HIDE DEF R
<1>3. PICK x \in T : \A y \in T : ~(<<y, x>> \in R)
  BY <1>1, WFMin
<1>4. \A y \in T : x \in Nat /\ y \in Nat
  OBVIOUS
<1>5. \A y \in T : ~(y < x)
  BY <1>2, <1>3, <1>4
<1> QED
  BY <1>4, <1>5

(* A set with 0 that holds with each number the next one holds them all.   *)
LEMMA AllNumbers ==
  ASSUME NEW T, 0 \in T, \A n \in Nat : n \in T => n + 1 \in T
  PROVE  \A n \in Nat : n \in T
PROOF
<1> DEFINE U == Nat \ T
<1>1. U \subseteq Nat
  OBVIOUS
<1> SUFFICES ASSUME U # {} PROVE FALSE
  OBVIOUS
<1> HIDE DEF U
<1>2. PICK x \in U : \A y \in U : x <= y
  BY <1>1, LeastNumber
<1>3. x \in Nat /\ x \notin T
  BY <1>2 DEF U
<1>4. x # 0 /\ x - 1 \in Nat /\ (x - 1) + 1 = x
  BY <1>3
<1>5. x - 1 \in T
  <2>1. x - 1 \notin U
    BY <1>2, <1>3, <1>4
  <2> QED
    BY <1>4, <2>1 DEF U
<1> QED
  BY <1>3, <1>4, <1>5

(* A set holds all numbers up to m if it holds each one whose greater ones *)
(* it holds.                                                               *)
LEMMA AllDownward ==
  ASSUME NEW T, NEW m \in Nat,
         \A i \in 0..m : (\A j \in i + 1..m : j \in T) => i \in T
  PROVE  0..m \subseteq T
PROOF
<1> DEFINE U == {n \in 0..m : m - n \notin T}
<1>1. U \subseteq Nat
  OBVIOUS
<1>2. CASE U # {}
  <2> HIDE DEF U
  <2>1. PICK x \in U : \A y \in U : x <= y
    BY <1>1, <1>2, LeastNumber
  <2>2. x \in 0..m /\ m - x \in 0..m /\ m - x \notin T
    BY <2>1 DEF U
  <2>3. ASSUME NEW j \in (m - x) + 1..m PROVE j \in T
    <3>1. m - j \in 0..m /\ m - j < x /\ m - (m - j) = j /\ x \in Nat /\ m - j \in Nat
      BY <2>2
    <3>2. m - j \notin U
      BY <2>1, <3>1
    <3> QED
      BY <3>1, <3>2 DEF U
  <2> QED
    BY <2>2, <2>3
<1>3. CASE U = {}
  <2> SUFFICES ASSUME NEW i \in 0..m PROVE i \in T
    OBVIOUS
  <2>1. m - i \in 0..m /\ m - (m - i) = i
    OBVIOUS
  <2> QED
    BY <1>3, <2>1
<1> QED
  BY <1>2, <1>3

-----------------------------------------------------------------------------
(* Recursive functions.                                                    *)

(* B computes the value of a function at i from its values at what is      *)
(* ranked below i.                                                         *)
Computes(B, D, V, rank, m) ==
  /\ V # {} /\ m \in Nat
  /\ rank \in [D -> Nat] /\ \A i \in D : rank[i] < m
  /\ B \in [[D -> V] -> [D -> V]]
  /\ \A f, g \in [D -> V] : \A i \in D :
       (\A j \in D : rank[j] < rank[i] => f[j] = g[j]) => B[f][i] = B[g][i]

(* There is a function with the values that are computed from it.          *)
LEMMA Recursion ==
  ASSUME NEW B, NEW D, NEW V, NEW rank, NEW m, Computes(B, D, V, rank, m)
  PROVE  \E f \in [D -> V] : f = B[f]
PROOF
<1> USE DEF Computes
<1>0. PICK v \in V : TRUE
  OBVIOUS
<1> DEFINE Below(f, n) == \A i \in D : rank[i] < n => f[i] = B[f][i]
           T == {n \in Nat : \E f \in [D -> V] : Below(f, n)}
<1>1. 0 \in T
  <2> DEFINE f == [i \in D |-> v]
  <2>1. f \in [D -> V]
    OBVIOUS
  <2>2. \A i \in D : ~(rank[i] < 0)
    OBVIOUS
  <2> HIDE DEF f
  <2>3. Below(f, 0)
    BY <2>2
  <2> HIDE DEF Below
  <2> QED
    BY <2>1, <2>3
<1>2. ASSUME NEW n \in Nat, n \in T
      PROVE  n + 1 \in T
  <2>1. PICK f \in [D -> V] : Below(f, n)
    BY <1>2
  <2> DEFINE g == [i \in D |-> IF rank[i] < n THEN f[i] ELSE B[f][i]]
  <2>2. B[f] \in [D -> V]
    BY <2>1
  <2>3. \A i \in D : B[f][i] \in V
    BY <2>2
  <2>4. g \in [D -> V]
    BY <2>1, <2>3
  <2>5. \A i \in D : g[i] = IF rank[i] < n THEN f[i] ELSE B[f][i]
    OBVIOUS
  <2> HIDE DEF g
  <2>6. ASSUME NEW i \in D, rank[i] < n + 1
        PROVE  g[i] = B[g][i]
    <3>1. \A j \in D : rank[j] < rank[i] => f[j] = g[j]
      <4>1. \A j \in D : rank[j] \in Nat
        OBVIOUS
      <4> QED
        BY <2>5, <2>6, <4>1
    <3>2. B[f][i] = B[g][i]
      BY <2>1, <2>4, <3>1
    <3>3. g[i] = B[f][i]
      BY <2>1, <2>5
    <3> QED
      BY <3>2, <3>3
  <2>7. Below(g, n + 1)
    BY <2>6
  <2> HIDE DEF Below
  <2> QED
    BY <2>4, <2>7
<1>3. m \in T
  <2> HIDE DEF T
  <2>1. \A n \in Nat : n \in T
    BY <1>1, <1>2, AllNumbers
  <2> QED
    BY <2>1
<1>4. PICK f \in [D -> V] : Below(f, m)
  BY <1>3
<1>5. f = B[f]
  <2>1. \A i \in D : f[i] = B[f][i]
    BY <1>4
  <2>2. B[f] \in [D -> V]
    BY <1>4
  <2> QED
    BY <1>4, <2>1, <2>2
<1> QED
  BY <1>4, <1>5

-----------------------------------------------------------------------------
(* Reading an argument: the recursive function of buffer_read_escaped.     *)

Scanned(scan, i, s, start, len, delim, esc) ==
  IF i >= len \/ Char(s, start + i) \in delim
    THEN [read |-> i, text |-> <<>>]
  ELSE IF Escapes(s, start + i, esc)
    THEN [scan[i + 2] EXCEPT !.text = <<Char(s, start + i + 1)>> \o @]
  ELSE [scan[i + 1] EXCEPT !.text = <<Char(s, start + i)>> \o @]

IsScan(scan, s, start, len, delim, esc) ==
  scan = [i \in 0..len + 1 |-> Scanned(scan, i, s, start, len, delim, esc)]

LEMMA ScannedSame ==
  ASSUME NEW s, NEW start, NEW len \in Nat, NEW delim, NEW esc, NEW f, NEW g,
         NEW i \in 0..len + 1, i < len => f[i + 1] = g[i + 1] /\ f[i + 2] = g[i + 2]
  PROVE  Scanned(f, i, s, start, len, delim, esc) = Scanned(g, i, s, start, len, delim, esc)
PROOF
<1>1. i < len \/ i >= len
  OBVIOUS
<1> QED
  BY <1>1 DEF Scanned

(* The function exists: it is built from its end, where it does not        *)
(* recur.                                                                  *)
LEMMA ScanExists ==
  ASSUME NEW s, NEW start, NEW len \in Nat, NEW delim, NEW esc
  PROVE  \E scan : IsScan(scan, s, start, len, delim, esc)
PROOF
<1> DEFINE Body(f, i) == Scanned(f, i, s, start, len, delim, esc)
           From(f, n) == \A i \in 0..len + 1 : i + n > len + 1 => f[i] = Body(f, i)
           T == {n \in Nat : n <= len + 2 => \E f : From(f, n)}
<1>1. \A f, g : \A i \in 0..len + 1 :
        (i < len => f[i + 1] = g[i + 1] /\ f[i + 2] = g[i + 2]) => Body(f, i) = Body(g, i)
  BY ScannedSame
<1> HIDE DEF Body
<1>2. 0 \in T
  <2>1. \A i \in 0..len + 1 : ~(i + 0 > len + 1)
    OBVIOUS
  <2>2. From(<<>>, 0)
    BY <2>1
  <2> QED
    BY <2>2
<1>3. ASSUME NEW n \in Nat, n \in T
      PROVE  n + 1 \in T
  <2> SUFFICES ASSUME n + 1 <= len + 2 PROVE \E f : From(f, n + 1)
    BY <1>3
  <2>1. n <= len + 2
    OBVIOUS
  <2>2. PICK f : From(f, n)
    BY <1>3, <2>1
  <2> DEFINE k == len + 1 - n
             g == [i \in 0..len + 1 |-> IF i = k THEN Body(f, k) ELSE f[i]]
  <2>3. k \in 0..len + 1
    OBVIOUS
  <2>5. g[k] = Body(f, k) /\ \A i \in 0..len + 1 : i # k => g[i] = f[i]
    BY <2>3
  <2> HIDE DEF g
  <2>6. ASSUME NEW i \in 0..len + 1, i + (n + 1) > len + 1
        PROVE  g[i] = Body(g, i)
    <3>1. i >= k /\ i + 1 # k /\ i + 2 # k
      BY <2>6, <2>3
    <3>2. i < len => f[i + 1] = g[i + 1] /\ f[i + 2] = g[i + 2]
      <4>1. i < len => i + 1 \in 0..len + 1 /\ i + 2 \in 0..len + 1
        OBVIOUS
      <4> QED
        BY <2>5, <3>1, <4>1
    <3>3. Body(f, i) = Body(g, i)
      BY <1>1, <3>2
    <3>4. CASE i = k
      BY <2>5, <3>3, <3>4
    <3>5. CASE i # k
      <4>1. i + n > len + 1
        BY <3>1, <3>5
      <4>2. f[i] = Body(f, i)
        BY <2>2, <4>1
      <4> QED
        BY <2>5, <3>3, <3>5, <4>2
    <3> QED
      BY <3>4, <3>5
  <2> QED
    BY <2>6
<1> HIDE DEF From
<1>4. len + 2 \in T
  <2> HIDE DEF T
  <2>1. \A n \in Nat : n \in T
    BY <1>2, <1>3, AllNumbers
  <2> QED
    BY <2>1
<1>5. PICK f : From(f, len + 2)
  BY <1>4
<1> DEFINE g == [i \in 0..len + 1 |-> Body(f, i)]
<1>6. \A i \in 0..len + 1 : g[i] = f[i]
  <2>1. \A i \in 0..len + 1 : i + (len + 2) > len + 1
    OBVIOUS
  <2> QED
    BY <1>5, <2>1 DEF From
<1>7. \A i \in 0..len + 1 : Body(f, i) = Body(g, i)
  <2> HIDE DEF g
  <2>1. \A i \in 0..len + 1 : i < len => i + 1 \in 0..len + 1 /\ i + 2 \in 0..len + 1
    OBVIOUS
  <2> QED
    BY <1>1, <1>6, <2>1
<1>8. g = [i \in 0..len + 1 |-> Body(g, i)]
  BY <1>7
<1> QED
  BY <1>8 DEF IsScan, Body

(* What buffer_read_escaped gives is where that function begins.           *)
LEMMA ScanFacts ==
  ASSUME NEW s, NEW start, NEW len \in Nat, NEW delim, NEW esc
  PROVE  \E scan :
           /\ buffer_read_escaped(s, start, len, delim, esc) = scan[0]
           /\ \A i \in 0..len + 1 : scan[i] = Scanned(scan, i, s, start, len, delim, esc)
PROOF
<1> DEFINE scan == CHOOSE f : IsScan(f, s, start, len, delim, esc)
<1>1. buffer_read_escaped(s, start, len, delim, esc) = scan[0]
  BY DEF buffer_read_escaped, IsScan, Scanned
<1>2. IsScan(scan, s, start, len, delim, esc)
  BY ScanExists
<1> HIDE DEF scan
<1> QED
  BY <1>1, <1>2 DEF IsScan

-----------------------------------------------------------------------------
(* What is read for an argument and what is written of it.                 *)

Text == Seq(Byte \ {Nul})

(* The bytes read from i on and what is written for them, which is shorter *)
(* by one for each escape.                                                 *)
IsCut(r, i, len) ==
  /\ r = [read |-> r.read, text |-> r.text]
  /\ r.read \in i..len + 1
  /\ r.text \in Text
  /\ Len(r.text) <= IF i <= len THEN len - i ELSE 0
  /\ r.read > i => r.text # <<>>

LEMMA CharFacts ==
  ASSUME NEW s \in Text, NEW i \in Nat
  PROVE  /\ Char(s, i) \in Nat
         /\ Char(s, i) # Nul => i < Len(s) /\ Char(s, i) \in Byte \ {Nul}
         /\ i < Len(s) => Char(s, i) # Nul
PROOF
<1>1. Len(s) \in Nat /\ \A k \in 1..Len(s) : s[k] \in Byte \ {Nul}
  BY DEF Text
<1>2. CASE i < Len(s)
  <2>1. i + 1 \in 1..Len(s)
    BY <1>1, <1>2
  <2> QED
    BY <1>1, <1>2, <2>1, ExprsAssumption DEF Char
<1>3. CASE ~(i < Len(s))
  BY <1>3 DEF Char, Nul
<1> QED
  BY <1>2, <1>3

LEMMA PutText ==
  ASSUME NEW r, r = [read |-> r.read, text |-> r.text], NEW t
  PROVE  [r EXCEPT !.text = t \o @] = [read |-> r.read, text |-> t \o r.text]
PROOF
<1> DEFINE a == r.read
           b == r.text
           c == t \o b
<1>1. r = [read |-> a, text |-> b]
  OBVIOUS
<1> HIDE DEF a, b, c
<1>2. r \in [read : {a}, text : {b}]
  BY <1>1
<1>3. [r EXCEPT !.text = c] = [read |-> a, text |-> c]
  BY <1>2
<1> QED
  BY <1>3 DEF a, b, c

LEMMA CutOfOne ==
  ASSUME NEW len \in Nat, NEW i \in Nat, i < len, NEW next \in {i + 1, i + 2},
         NEW r, IsCut(r, next, len), NEW c \in Byte \ {Nul}
  PROVE  IsCut([read |-> r.read, text |-> <<c>> \o r.text], i, len)
PROOF
<1> DEFINE q == [read |-> r.read, text |-> <<c>> \o r.text]
<1>1. /\ r = [read |-> r.read, text |-> r.text]
      /\ r.read \in next..len + 1
      /\ r.text \in Text
      /\ Len(r.text) <= IF next <= len THEN len - next ELSE 0
  BY DEF IsCut
<1>3. q.read = r.read /\ q.text = <<c>> \o r.text
  OBVIOUS
<1>4. /\ <<c>> \o r.text \in Text /\ Len(<<c>> \o r.text) = 1 + Len(r.text)
      /\ <<c>> \o r.text # <<>>
  <2>1. <<c>> \in Text /\ Len(<<c>>) = 1
    BY DEF Text
  <2>2. <<c>> \o r.text \in Text /\ Len(<<c>> \o r.text) = 1 + Len(r.text)
    BY <1>1, <2>1 DEF Text
  <2>3. Len(r.text) \in Nat
    BY <1>1 DEF Text
  <2>4. Len(<<>>) = 0
    OBVIOUS
  <2> QED
    BY <2>2, <2>3, <2>4
<1>5. q.read \in i..len + 1
  BY <1>1, <1>3
<1>6. Len(q.text) <= len - i
  <2>1. Len(r.text) \in Nat
    BY <1>1 DEF Text
  <2>2. CASE next <= len
    BY <1>1, <1>3, <1>4, <2>1, <2>2
  <2>3. CASE ~(next <= len)
    BY <1>1, <1>3, <1>4, <2>1, <2>3
  <2> QED
    BY <2>2, <2>3
<1>7. q = [read |-> q.read, text |-> q.text]
  OBVIOUS
<1> HIDE DEF q
<1> QED
  BY <1>3, <1>4, <1>5, <1>6, <1>7 DEF IsCut, q

LEMMA ScanCuts ==
  ASSUME NEW s \in Text, NEW start \in Nat, NEW len \in Nat,
         NEW delim, Nul \in delim, NEW esc, Nul \notin esc, NEW scan,
         \A i \in 0..len + 1 : scan[i] = Scanned(scan, i, s, start, len, delim, esc)
  PROVE  \A i \in 0..len + 1 : IsCut(scan[i], i, len)
PROOF
<1> DEFINE T == {i \in 0..len + 1 : IsCut(scan[i], i, len)}
<1>1. ASSUME NEW i \in 0..len + 1, \A j \in i + 1..len + 1 : j \in T
      PROVE  i \in T
  <2>1. scan[i] = Scanned(scan, i, s, start, len, delim, esc)
    OBVIOUS
  <2>2. CASE i >= len \/ Char(s, start + i) \in delim
    <3> DEFINE r == [read |-> i, text |-> <<>>]
    <3>1. scan[i] = r
      BY <2>1, <2>2 DEF Scanned
    <3>2. r = [read |-> r.read, text |-> r.text] /\ r.read = i /\ r.text = <<>>
      OBVIOUS
    <3> HIDE DEF r
    <3>3. i \in i..len + 1 /\ ~(i > i) /\ <<>> \in Text /\ Len(<<>>) = 0
      BY DEF Text
    <3>4. Len(r.text) <= IF i <= len THEN len - i ELSE 0
      BY <3>2, <3>3
    <3>5. IsCut(r, i, len)
      BY <3>2, <3>3, <3>4 DEF IsCut
    <3> QED
      BY <3>1, <3>5
  <2>3. CASE ~(i >= len \/ Char(s, start + i) \in delim)
    <3>1. i < len /\ i \in Nat /\ start + i \in Nat /\ start + i + 1 \in Nat
      BY <2>3
    <3>2. \E next \in {i + 1, i + 2} : \E c \in Byte \ {Nul} :
            scan[i] = [scan[next] EXCEPT !.text = <<c>> \o @]
      <4>1. CASE Escapes(s, start + i, esc)
        <5>1. Char(s, start + i + 1) # Nul
          BY <4>1 DEF Escapes
        <5>2. Char(s, start + i + 1) \in Byte \ {Nul}
          BY <3>1, <5>1, CharFacts
        <5>3. scan[i] = [scan[i + 2] EXCEPT !.text = <<Char(s, start + i + 1)>> \o @]
          BY <2>1, <2>3, <4>1 DEF Scanned
        <5> QED
          BY <5>2, <5>3
      <4>2. CASE ~Escapes(s, start + i, esc)
        <5>1. Char(s, start + i) \in Byte \ {Nul}
          BY <2>3, <3>1, CharFacts
        <5>2. scan[i] = [scan[i + 1] EXCEPT !.text = <<Char(s, start + i)>> \o @]
          BY <2>1, <2>3, <4>2 DEF Scanned
        <5> QED
          BY <5>1, <5>2
      <4> QED
        BY <4>1, <4>2
    <3>3. PICK next \in {i + 1, i + 2}, c \in Byte \ {Nul} :
            scan[i] = [scan[next] EXCEPT !.text = <<c>> \o @]
      BY <3>2
    <3> DEFINE r == scan[next]
    <3>4. IsCut(r, next, len)
      <4>1. next \in i + 1..len + 1
        BY <3>1
      <4> QED
        BY <1>1, <4>1
    <3>5. scan[i] = [r EXCEPT !.text = <<c>> \o @]
      BY <3>3
    <3> HIDE DEF r
    <3>6. scan[i] = [read |-> r.read, text |-> <<c>> \o r.text]
      <4>1. r = [read |-> r.read, text |-> r.text]
        BY <3>4 DEF IsCut
      <4> QED
        BY <3>5, <4>1, PutText
    <3>7. IsCut([read |-> r.read, text |-> <<c>> \o r.text], i, len)
      BY <3>1, <3>4, CutOfOne
    <3> QED
      BY <3>6, <3>7
  <2> QED
    BY <2>2, <2>3
<1>2. 0..len + 1 \subseteq T
  <2> HIDE DEF T
  <2>1. len + 1 \in Nat
    OBVIOUS
  <2> QED
    BY <1>1, <2>1, AllDownward
<1> QED
  BY <1>2

(* At a byte that ends nothing, the scan writes that byte or the one it    *)
(* escapes, and goes on behind it.                                         *)
Writes(scan, i, c, n) ==
  scan[i].read = scan[n].read /\ scan[i].text = <<c>> \o scan[n].text

LEMMA ScanStep ==
  ASSUME NEW s \in Text, NEW start \in Nat, NEW len \in Nat,
         NEW delim, Nul \in delim, NEW esc, Nul \notin esc, NEW scan,
         \A i \in 0..len + 1 : scan[i] = Scanned(scan, i, s, start, len, delim, esc),
         NEW i \in 0..len, i < len, Char(s, start + i) \notin delim
  PROVE  IF Escapes(s, start + i, esc) THEN Writes(scan, i, Char(s, start + i + 1), i + 2)
         ELSE Writes(scan, i, Char(s, start + i), i + 1)
PROOF
<1>1. i \in 0..len + 1 /\ i + 1 \in 0..len + 1 /\ i + 2 \in 0..len + 1 /\ ~(i >= len)
  OBVIOUS
<1>2. \A j \in 0..len + 1 : IsCut(scan[j], j, len)
  BY ScanCuts
<1>3. scan[i] = Scanned(scan, i, s, start, len, delim, esc)
  BY <1>1
<1>4. ASSUME NEW j \in {i + 1, i + 2}, NEW c, scan[i] = [scan[j] EXCEPT !.text = <<c>> \o @]
      PROVE  Writes(scan, i, c, j)
  <2> DEFINE r == scan[j]
  <2>1. r = [read |-> r.read, text |-> r.text]
    BY <1>1, <1>2 DEF IsCut
  <2>2. scan[i] = [r EXCEPT !.text = <<c>> \o @]
    BY <1>4
  <2> HIDE DEF r
  <2>3. scan[i] = [read |-> r.read, text |-> <<c>> \o r.text]
    BY <2>1, <2>2, PutText
  <2>4. scan[i].read = r.read /\ scan[i].text = <<c>> \o r.text
    BY <2>3
  <2> QED
    BY <2>4 DEF r, Writes
<1>5. CASE Escapes(s, start + i, esc)
  <2>1. scan[i] = [scan[i + 2] EXCEPT !.text = <<Char(s, start + i + 1)>> \o @]
    BY <1>1, <1>3, <1>5 DEF Scanned
  <2> QED
    BY <1>4, <1>5, <2>1
<1>6. CASE ~Escapes(s, start + i, esc)
  <2>1. scan[i] = [scan[i + 1] EXCEPT !.text = <<Char(s, start + i)>> \o @]
    BY <1>1, <1>3, <1>6 DEF Scanned
  <2> QED
    BY <1>4, <1>6, <2>1
<1> QED
  BY <1>5, <1>6

LEMMA ScanOn ==
  ASSUME NEW s \in Text, NEW start \in Nat, NEW len \in Nat,
         NEW delim, Nul \in delim, NEW esc, Nul \notin esc, NEW scan,
         \A i \in 0..len + 1 : scan[i] = Scanned(scan, i, s, start, len, delim, esc),
         NEW i \in 0..len, i < len, Char(s, start + i) \notin delim
  PROVE  scan[i].read = scan[IF Escapes(s, start + i, esc) THEN i + 2 ELSE i + 1].read
PROOF
<1>1. IF Escapes(s, start + i, esc) THEN Writes(scan, i, Char(s, start + i + 1), i + 2)
      ELSE Writes(scan, i, Char(s, start + i), i + 1)
  BY ScanStep
<1> QED
  BY <1>1 DEF Writes

LEMMA ReadCuts ==
  ASSUME NEW s \in Text, NEW start \in Nat, NEW len \in Nat,
         NEW delim, Nul \in delim, NEW esc, Nul \notin esc
  PROVE  IsCut(buffer_read_escaped(s, start, len, delim, esc), 0, len)
PROOF
<1>1. PICK scan : /\ buffer_read_escaped(s, start, len, delim, esc) = scan[0]
                  /\ \A i \in 0..len + 1 : scan[i] = Scanned(scan, i, s, start, len, delim, esc)
  BY ScanFacts
<1>2. 0 \in 0..len + 1
  OBVIOUS
<1>3. \A i \in 0..len + 1 : IsCut(scan[i], i, len)
  BY <1>1, ScanCuts
<1> QED
  BY <1>1, <1>2, <1>3

LEMMA ReadsSomething ==
  ASSUME NEW s \in Text, NEW start \in Nat, NEW len \in Nat, len > 0,
         NEW delim, Nul \in delim, NEW esc, Nul \notin esc, Char(s, start) \notin delim
  PROVE  buffer_read_escaped(s, start, len, delim, esc).read > 0
PROOF
<1>1. PICK scan : /\ buffer_read_escaped(s, start, len, delim, esc) = scan[0]
                  /\ \A i \in 0..len + 1 : scan[i] = Scanned(scan, i, s, start, len, delim, esc)
  BY ScanFacts
<1>2. /\ 0 \in 0..len /\ 0 < len /\ start + 0 = start
      /\ 0 + 1 = 1 /\ 0 + 2 = 2 /\ 1 \in 0..len + 1 /\ 2 \in 0..len + 1
  OBVIOUS
<1>3. IsCut(scan[1], 1, len) /\ IsCut(scan[2], 2, len)
  BY <1>1, <1>2, ScanCuts
<1>4. scan[1].read > 0 /\ scan[2].read > 0
  BY <1>3 DEF IsCut
<1>5. scan[0].read = scan[IF Escapes(s, start + 0, esc) THEN 0 + 2 ELSE 0 + 1].read
  BY <1>1, <1>2, ScanOn
<1> QED
  BY <1>1, <1>2, <1>4, <1>5

-----------------------------------------------------------------------------
(* Each iteration reads something.                                         *)

Reading == expr \in Text /\ at \in Nat

(* What the two kinds of argument are read with.                           *)
CharsArg == buffer_read_escaped(expr, at + 1, ArgMax, CharsDelimiters, CharsEscaped)
FixedArg == buffer_read_escaped(expr, at, FixedMax, FixedDelimiters, FixedEscaped)

LEMMA ArgCuts ==
  ASSUME Reading
  PROVE  /\ IsCut(CharsArg, 0, ArgMax)
         /\ IsCut(FixedArg, 0, ArgMax)
         /\ Char(expr, at) \notin FixedDelimiters => FixedArg.read > 0
PROOF
<1>1. ArgMax \in Nat /\ ArgMax > 0 /\ at + 1 \in Nat /\ at \in Nat /\ expr \in Text
  BY ArgMaxAssumption DEF Reading
<1>2. Nul \in CharsDelimiters /\ Nul \notin CharsEscaped
  BY DEF CharsDelimiters, CharsEscaped, Nul, FNMATCH_CHARS_START, FNMATCH_CHARS_END, FNMATCH_ESCAPE
<1>3. Nul \in FixedDelimiters /\ Nul \notin FixedEscaped
  BY DEF FixedDelimiters, FixedEscaped, Nul, FNMATCH_CHARS_START, FNMATCH_ESCAPE,
         FNMATCH_ONE, FNMATCH_ANY, FNMATCH_SEP
<1>4. IsCut(CharsArg, 0, ArgMax)
  BY <1>1, <1>2, ReadCuts DEF CharsArg
<1>5. IsCut(FixedArg, 0, ArgMax)
  BY <1>1, <1>3, ReadCuts DEF FixedArg, FixedMax
<1>6. ASSUME Char(expr, at) \notin FixedDelimiters
      PROVE  FixedArg.read > 0
  BY <1>1, <1>3, <1>6, ReadsSomething DEF FixedArg, FixedMax
<1> QED
  BY <1>4, <1>5, <1>6

LEMMA ReadingOn ==
  ASSUME Reading, CompilerNext
  PROVE  Reading' /\ (pc' = "loop" => (pc = "loop" /\ at' > at) \/ UNCHANGED compilerVars)
PROOF
<1>1. CASE CompileSep \/ CompileOne
  BY <1>1 DEF CompileSep, CompileOne, Iteration, At, Reading
<1>2. CASE CompileAny
  BY <1>2 DEF CompileAny, Iteration, At, Reading
<1>3. CASE CompileChars
  <2>1. CharsArg.read \in Nat
    BY ArgCuts, ArgMaxAssumption DEF IsCut
  <2>2. \/ UNCHANGED expr /\ at' = at + (CharsArg.read + 2) /\ pc = "loop"
        \/ UNCHANGED <<expr, at>> /\ pc' = "abort"
    BY <1>3 DEF CompileChars, CharsArg, Iteration, At
  <2> QED
    BY <2>1, <2>2 DEF Reading
<1>4. CASE CompileFixed
  <2>1. UNCHANGED expr /\ at' = at + FixedArg.read /\ pc = "loop"
        /\ Char(expr, at) \notin FixedDelimiters
    BY <1>4 DEF CompileFixed, FixedArg, Iteration
  <2>2. FixedArg.read \in Nat /\ FixedArg.read > 0
    BY <2>1, ArgCuts, ArgMaxAssumption DEF IsCut
  <2> QED
    BY <2>1, <2>2 DEF Reading
<1>5. CASE CompileEnd
  BY <1>5 DEF CompileEnd, Iteration, Reading
<1>6. CASE Compiled
  BY <1>6 DEF Compiled, compilerVars, Reading
<1> QED
  BY <1>1, <1>2, <1>3, <1>4, <1>5, <1>6 DEF CompilerNext

LEMMA ReadingInit == CompilerInit => Reading
PROOF
  BY ExprsAssumption DEF CompilerInit, Reading, Text

(* fnmatch_compile does not loop for ever: no iteration leaves the         *)
(* position where it was, however long the arguments may be.               *)
THEOREM IterationsRead == CompilerSpec => EveryIterationReads
PROOF
<1>1. Reading /\ [CompilerNext]_compilerVars
        => Reading' /\ [pc' = "loop" => at' > at]_compilerVars
  <2> SUFFICES ASSUME Reading, [CompilerNext]_compilerVars
               PROVE  Reading' /\ [pc' = "loop" => at' > at]_compilerVars
    OBVIOUS
  <2>1. CASE CompilerNext
    BY <2>1, ReadingOn
  <2>2. CASE UNCHANGED compilerVars
    BY <2>2 DEF compilerVars, Reading
  <2> QED
    BY <2>1, <2>2
<1> QED
  BY <1>1, ReadingInit, PTL DEF CompilerSpec, EveryIterationReads

-----------------------------------------------------------------------------
(* Which brackets close.                                                   *)

(* The n backslashes in front of j are all there are behind i.             *)
Run(i, j, n) ==
  /\ n \in 0..j - i - 1
  /\ \A k \in j - n..j - 1 : Char(expr, k) = FNMATCH_ESCAPE
  /\ n = j - i - 1 \/ Char(expr, j - n - 1) # FNMATCH_ESCAPE

(* The byte at j is not escaped.                                           *)
Even(i, j) == \E n \in Nat : n % 2 = 0 /\ Run(i, j, n)

LEMMA ClosesEven ==
  ASSUME NEW i \in Nat, NEW j \in Nat
  PROVE  Closes(expr, i, j) <=> Char(expr, j) = FNMATCH_CHARS_END /\ Even(i, j)
PROOF
  BY DEF Closes, Even, Run

LEMMA RunUnique ==
  ASSUME NEW i \in Nat, NEW j \in Nat, NEW m, Run(i, j, m), NEW n, Run(i, j, n)
  PROVE  m = n
PROOF
<1>1. ASSUME NEW a, Run(i, j, a), NEW b, Run(i, j, b), a < b
      PROVE  FALSE
  <2>1. a \in 0..j - i - 1 /\ b \in 0..j - i - 1
    BY <1>1 DEF Run
  <2>2. a # j - i - 1 /\ j - a - 1 \in j - b..j - 1
    BY <1>1, <2>1
  <2> QED
    BY <1>1, <2>2 DEF Run
<1>2. m \in 0..j - i - 1 /\ n \in 0..j - i - 1
  BY DEF Run
<1>3. ~(m < n) /\ ~(n < m)
  BY <1>1
<1> QED
  BY <1>2, <1>3

LEMMA EvenFirst ==
  ASSUME NEW i \in Nat
  PROVE  Even(i, i + 1)
PROOF
<1>1. Run(i, i + 1, 0)
  BY DEF Run
<1>2. 0 \in Nat /\ 0 % 2 = 0
  OBVIOUS
<1> QED
  BY <1>1, <1>2 DEF Even

LEMMA EvenBehind ==
  ASSUME NEW i \in Nat, NEW j \in Nat, i < j, Char(expr, j) # FNMATCH_ESCAPE
  PROVE  Even(i, j + 1)
PROOF
<1>1. 0 \in 0..(j + 1) - i - 1 /\ (j + 1) - 0 - 1 = j
  OBVIOUS
<1>2. Run(i, j + 1, 0)
  BY <1>1 DEF Run
<1>3. 0 \in Nat /\ 0 % 2 = 0
  OBVIOUS
<1> QED
  BY <1>2, <1>3 DEF Even

(* A backslash that is not escaped itself escapes the next byte.           *)
LEMMA EscapedRun ==
  ASSUME NEW i \in Nat, NEW j \in Nat, i < j, NEW n \in Nat, Run(i, j, n),
         Char(expr, j) = FNMATCH_ESCAPE
  PROVE  Run(i, j + 1, n + 1)
PROOF
<1>1. n \in 0..j - i - 1
  BY DEF Run
<1>2. n + 1 \in 0..(j + 1) - i - 1 /\ (j + 1) - (n + 1) = j - n /\ (j + 1) - 1 = j
      /\ (j + 1) - (n + 1) - 1 = j - n - 1 /\ (n = j - i - 1 => n + 1 = (j + 1) - i - 1)
  BY <1>1
<1>3. \A k \in j - n..j : k \in j - n..j - 1 \/ k = j
  BY <1>1
<1>4. \A k \in j - n..j : Char(expr, k) = FNMATCH_ESCAPE
  BY <1>3 DEF Run
<1> QED
  BY <1>2, <1>4 DEF Run

LEMMA EvenEscapes ==
  ASSUME NEW i \in Nat, NEW j \in Nat, i < j, Even(i, j), Char(expr, j) = FNMATCH_ESCAPE
  PROVE  /\ ~Even(i, j + 1)
         /\ Char(expr, j + 1) = FNMATCH_ESCAPE => Even(i, j + 2)
PROOF
<1>1. PICK n \in Nat : n % 2 = 0 /\ Run(i, j, n)
  BY DEF Even
<1>2. Run(i, j + 1, n + 1)
  BY <1>1, EscapedRun
<1>3. (n + 1) % 2 # 0 /\ (n + 2) % 2 = 0 /\ n + 2 \in Nat
  BY <1>1
<1>4. ~Even(i, j + 1)
  <2> SUFFICES ASSUME NEW m \in Nat, m % 2 = 0, Run(i, j + 1, m) PROVE FALSE
    BY DEF Even
  <2>1. j + 1 \in Nat
    OBVIOUS
  <2>2. m = n + 1
    BY <1>2, <2>1, RunUnique
  <2> QED
    BY <1>3, <2>2
<1>5. ASSUME Char(expr, j + 1) = FNMATCH_ESCAPE
      PROVE  Even(i, j + 2)
  <2>1. j + 1 \in Nat /\ i < j + 1 /\ n + 1 \in Nat /\ (j + 1) + 1 = j + 2 /\ (n + 1) + 1 = n + 2
    OBVIOUS
  <2>2. Run(i, j + 2, n + 2)
    BY <1>2, <1>5, <2>1, EscapedRun
  <2> QED
    BY <1>3, <2>2 DEF Even
<1> QED
  BY <1>4, <1>5

(* Where the scan of a bracket expression stops, from i on.                *)
StopsRight(i, read) ==
  /\ \A j \in at + 1 + i..at + read : ~Closes(expr, at, j)
  /\ read >= ArgMax \/ Char(expr, at + 1 + read) \in CharsDelimiters
  /\ Even(at, at + 1 + read) \/ Char(expr, at + 1 + read) \notin CharsEscaped

(* The scan of a bracket expression passes no bracket that closes it: at a *)
(* backslash that is not escaped it skips the byte it escapes, which then  *)
(* does not close.                                                         *)
LEMMA ScanStops ==
  ASSUME Reading, NEW scan,
         \A i \in 0..ArgMax + 1 :
           scan[i] = Scanned(scan, i, expr, at + 1, ArgMax, CharsDelimiters, CharsEscaped)
  PROVE  \A i \in 0..ArgMax + 1 :
           Even(at, at + 1 + i) \/ Char(expr, at + 1 + i) \notin CharsEscaped =>
             StopsRight(i, scan[i].read)
PROOF
<1> DEFINE Begins(i) == Even(at, at + 1 + i) \/ Char(expr, at + 1 + i) \notin CharsEscaped
           T == {i \in 0..ArgMax + 1 : Begins(i) => StopsRight(i, scan[i].read)}
<1>0. /\ ArgMax \in Nat /\ at \in Nat /\ at + 1 \in Nat /\ expr \in Text
      /\ Nul \in CharsDelimiters /\ Nul \notin CharsEscaped
  BY ArgMaxAssumption DEF Reading, CharsDelimiters, CharsEscaped, Nul, FNMATCH_CHARS_START,
                          FNMATCH_CHARS_END, FNMATCH_ESCAPE
<1>1. ASSUME NEW i \in 0..ArgMax + 1, \A j \in i + 1..ArgMax + 1 : j \in T, Begins(i)
      PROVE  StopsRight(i, scan[i].read)
  <2> DEFINE v == at + 1 + i
  <2>1. i \in Nat /\ v \in Nat /\ at < v
    BY <1>0
  <2>2. CASE i >= ArgMax \/ Char(expr, v) \in CharsDelimiters
    <3>1. scan[i] = [read |-> i, text |-> <<>>]
      BY <2>2 DEF Scanned
    <3>2. scan[i].read = i
      BY <3>1
    <3>3. \A j \in at + 1 + i..at + i : FALSE
      BY <1>0
    <3>4. Even(at, v) \/ Char(expr, v) \notin CharsEscaped
      BY <1>1
    <3> QED
      BY <2>2, <3>2, <3>3, <3>4 DEF StopsRight
  <2>3. CASE ~(i >= ArgMax \/ Char(expr, v) \in CharsDelimiters)
    <3>1. i < ArgMax /\ i \in 0..ArgMax /\ Char(expr, v) \notin CharsDelimiters
          /\ i + 1 \in i + 1..ArgMax + 1 /\ i + 2 \in i + 1..ArgMax + 1
      BY <1>0, <2>3
    <3>2. scan[i].read = scan[IF Escapes(expr, v, CharsEscaped) THEN i + 2 ELSE i + 1].read
      BY <1>0, <3>1, ScanOn
    <3>3. ~Closes(expr, at, v)
      BY <1>0, <2>1, <3>1, ClosesEven DEF CharsDelimiters
    <3>4. CASE Escapes(expr, v, CharsEscaped)
      <4>1. Char(expr, v) = FNMATCH_ESCAPE /\ Char(expr, v + 1) \in CharsEscaped
        BY <3>4 DEF Escapes
      <4>2. Even(at, v)
        BY <1>1, <4>1 DEF CharsEscaped
      <4>3. ~Closes(expr, at, v + 1)
        <5>1. v + 1 \in Nat
          BY <2>1
        <5> QED
          BY <1>0, <2>1, <4>1, <4>2, <5>1, EvenEscapes, ClosesEven
      <4>4. Even(at, v + 2)
        <5>1. CASE Char(expr, v + 1) = FNMATCH_ESCAPE
          BY <1>0, <2>1, <4>1, <4>2, <5>1, EvenEscapes
        <5>2. CASE Char(expr, v + 1) # FNMATCH_ESCAPE
          <6>1. v + 1 \in Nat /\ at < v + 1 /\ (v + 1) + 1 = v + 2
            BY <1>0, <2>1
          <6> QED
            BY <1>0, <5>2, <6>1, EvenBehind
        <5> QED
          BY <5>1, <5>2
      <4>5. Begins(i + 2)
        <5>1. at + 1 + (i + 2) = v + 2
          BY <1>0, <2>1
        <5> QED
          BY <4>4, <5>1
      <4>6. StopsRight(i + 2, scan[i + 2].read)
        <5>1. i + 2 \in T
          BY <1>1, <3>1
        <5> HIDE DEF Begins
        <5> QED
          BY <4>5, <5>1
      <4>7. scan[i].read = scan[i + 2].read
        BY <3>2, <3>4
      <4> QED
        <5> DEFINE r == scan[i + 2].read
        <5>1. scan[i].read = r /\ StopsRight(i + 2, r)
          BY <4>6, <4>7
        <5> HIDE DEF r
        <5>2. ASSUME NEW j \in at + 1 + i..at + r PROVE ~Closes(expr, at, j)
          <6>1. j = v \/ j = v + 1 \/ j \in at + 1 + (i + 2)..at + r
            BY <1>0, <2>1
          <6> QED
            BY <3>3, <4>3, <5>1, <6>1 DEF StopsRight
        <5> QED
          BY <5>1, <5>2 DEF StopsRight
    <3>5. CASE ~Escapes(expr, v, CharsEscaped)
      <4>1. Begins(i + 1)
        <5>1. at + 1 + (i + 1) = v + 1
          BY <1>0, <2>1
        <5>2. CASE Char(expr, v) = FNMATCH_ESCAPE
          BY <3>5, <5>1, <5>2 DEF Escapes
        <5>3. CASE Char(expr, v) # FNMATCH_ESCAPE
          BY <1>0, <2>1, <5>1, <5>3, EvenBehind
        <5> QED
          BY <5>2, <5>3
      <4>2. StopsRight(i + 1, scan[i + 1].read)
        <5>1. i + 1 \in T
          BY <1>1, <3>1
        <5> HIDE DEF Begins
        <5> QED
          BY <4>1, <5>1
      <4> DEFINE r == scan[i + 1].read
      <4>3. scan[i].read = r /\ StopsRight(i + 1, r)
        BY <3>2, <3>5, <4>2
      <4> HIDE DEF r
      <4>4. ASSUME NEW j \in at + 1 + i..at + r PROVE ~Closes(expr, at, j)
        <5>1. j = v \/ j \in at + 1 + (i + 1)..at + r
          BY <1>0, <2>1
        <5> QED
          BY <3>3, <4>3, <5>1 DEF StopsRight
      <4> QED
        BY <4>3, <4>4 DEF StopsRight
    <3> QED
      BY <3>4, <3>5
  <2> QED
    BY <2>2, <2>3
<1>2. 0..ArgMax + 1 \subseteq T
  <2>1. \A i \in 0..ArgMax + 1 : (\A j \in i + 1..ArgMax + 1 : j \in T) => i \in T
    BY <1>1
  <2>2. ArgMax + 1 \in Nat
    BY <1>0
  <2> HIDE DEF T
  <2> QED
    BY <2>1, <2>2, AllDownward
<1> QED
  BY <1>2

(* Behind a bracket that the scan finds open, nothing closes it.           *)
LEMMA OpenStaysOpen ==
  ASSUME Reading, ~CharsClosed(CharsArg.read)
  PROVE  \A j \in at + 1..at + 1 + ArgMax : ~Closes(expr, at, j)
PROOF
<1> DEFINE r == CharsArg.read
<1>1. PICK scan :
        /\ CharsArg = scan[0]
        /\ \A i \in 0..ArgMax + 1 :
             scan[i] = Scanned(scan, i, expr, at + 1, ArgMax, CharsDelimiters, CharsEscaped)
  BY ScanFacts, ArgMaxAssumption DEF CharsArg, Reading
<1>2. at \in Nat /\ expr \in Text /\ ArgMax \in Nat /\ r \in Nat
  BY ArgCuts, ArgMaxAssumption DEF IsCut, Reading
<1>3. StopsRight(0, r)
  <2>1. 0 \in 0..ArgMax + 1 /\ at + 1 + 0 = at + 1
    BY <1>2
  <2>2. Even(at, at + 1)
    BY <1>2, EvenFirst
  <2> QED
    BY <1>1, <2>1, <2>2, ScanStops
<1> HIDE DEF r
<1>4. Char(expr, at + 1 + r) # FNMATCH_CHARS_END
  BY DEF CharsClosed, r
<1> SUFFICES ASSUME NEW j \in at + 1..at + 1 + ArgMax, Char(expr, j) = FNMATCH_CHARS_END,
                    ~(j \in at + 1..at + r)
             PROVE  FALSE
  <2>1. at + 1 + 0 = at + 1
    BY <1>2
  <2> QED
    BY <1>2, <1>3, <2>1, ClosesEven DEF StopsRight
<1>5. j \in Nat /\ at + 1 + r < j /\ ~(r >= ArgMax)
  BY <1>2, <1>4
<1>6. Char(expr, at + 1 + r) = Nul
  BY <1>3, <1>4, <1>5 DEF StopsRight, CharsDelimiters
<1>7. j < Len(expr) /\ Len(expr) \in Nat
  BY <1>2, <1>5, CharFacts DEF FNMATCH_CHARS_END, Nul, Text
<1>8. expr[(at + 1 + r) + 1] # Nul
  <2>1. (at + 1 + r) + 1 \in 1..Len(expr)
    BY <1>2, <1>5, <1>7
  <2> QED
    BY <1>2, <2>1 DEF Text
<1> QED
  BY <1>2, <1>5, <1>6, <1>7, <1>8 DEF Char

(* The assertion of fnmatch__compiler_chars ends the process only for a    *)
(* bracket expression that no unescaped bracket closes within what an      *)
(* argument may hold, for every pattern and however its backslashes escape *)
(* one another.                                                            *)
THEOREM AbortsAtOpenBrackets == CompilerSpec => []AbortsOnlyOpenBracket
PROOF
<1> DEFINE Inv == Reading /\ AbortsOnlyOpenBracket
<1>1. CompilerInit => Inv
  BY ReadingInit DEF CompilerInit, AbortsOnlyOpenBracket
<1>2. Inv /\ [CompilerNext]_compilerVars => Inv'
  <2> SUFFICES ASSUME Inv, [CompilerNext]_compilerVars PROVE Inv'
    OBVIOUS
  <2>1. Reading'
    BY ReadingOn DEF Reading, compilerVars
  <2>2. CASE CompileChars
    <3>1. /\ Char(expr, at) = FNMATCH_CHARS_START
          /\ pc' = "abort" => UNCHANGED <<expr, at>> /\ ~CharsClosed(CharsArg.read)
      BY <2>2 DEF CompileChars, CharsArg, At, Iteration
    <3>2. AbortsOnlyOpenBracket'
      <4> SUFFICES ASSUME pc' = "abort"
                   PROVE  /\ Char(expr', at') = FNMATCH_CHARS_START
                          /\ \A j \in at' + 1..at' + 1 + ArgMax : ~Closes(expr, at, j)'
        BY DEF AbortsOnlyOpenBracket
      <4>1. expr' = expr /\ at' = at
        BY <3>1
      <4>2. \A j \in at + 1..at + 1 + ArgMax : ~Closes(expr, at, j)
        BY <3>1, OpenStaysOpen
      <4>3. \A j : Closes(expr, at, j)' <=> Closes(expr, at, j)
        BY <4>1 DEF Closes
      <4> QED
        BY <3>1, <4>1, <4>2, <4>3
    <3> QED
      BY <2>1, <3>2
  <2>3. CASE CompileSep \/ CompileOne \/ CompileAny \/ CompileFixed \/ CompileEnd
    <3>1. pc' # "abort"
      BY <2>3 DEF CompileSep, CompileOne, CompileAny, CompileFixed, CompileEnd, At, Iteration
    <3> QED
      BY <2>1, <3>1 DEF AbortsOnlyOpenBracket
  <2>4. CASE UNCHANGED compilerVars
    <3>1. expr' = expr /\ at' = at /\ pc' = pc
      BY <2>4 DEF compilerVars
    <3>2. \A i, j : Closes(expr, i, j)' <=> Closes(expr, i, j)
      BY <3>1 DEF Closes
    <3>3. AbortsOnlyOpenBracket'
      BY <3>1, <3>2 DEF AbortsOnlyOpenBracket
    <3> QED
      BY <2>1, <3>3
  <2> QED
    BY <2>2, <2>3, <2>4 DEF CompilerNext, Compiled
<1> QED
  BY <1>1, <1>2, PTL DEF CompilerSpec

-----------------------------------------------------------------------------
(* How the program is laid out.                                            *)

LEMMA OpCodes ==
  /\ Op("FIXED") = 0 /\ Op("CHARS") = 1 /\ Op("ONE") = 2 /\ Op("ANY") = 3
  /\ Op("DEEP") = 4 /\ Op("SEP") = 5 /\ Op("END") = 6
PROOF
<1>1. DOMAIN OpNames = 1..7
  BY DEF OpNames
<1>2. ASSUME NEW i \in 1..7
      PROVE  Op(OpNames[i]) = i - 1
  <2> DEFINE c == CHOOSE j \in DOMAIN OpNames : OpNames[j] = OpNames[i]
  <2>1. c \in DOMAIN OpNames /\ OpNames[c] = OpNames[i]
    BY <1>1
  <2>2. Op(OpNames[i]) = c - 1
    BY DEF Op
  <2> HIDE DEF c
  <2>3. c = i
    BY <1>1, <2>1 DEF OpNames
  <2> QED
    BY <2>2, <2>3
<1>3. /\ OpNames[1] = "FIXED" /\ OpNames[2] = "CHARS" /\ OpNames[3] = "ONE" /\ OpNames[4] = "ANY"
      /\ OpNames[5] = "DEEP" /\ OpNames[6] = "SEP" /\ OpNames[7] = "END"
  BY DEF OpNames
<1>4. 1 \in 1..7 /\ 2 \in 1..7 /\ 3 \in 1..7 /\ 4 \in 1..7 /\ 5 \in 1..7 /\ 6 \in 1..7 /\ 7 \in 1..7
  OBVIOUS
<1>5. Op("FIXED") = 1 - 1 /\ Op("CHARS") = 2 - 1 /\ Op("ONE") = 3 - 1 /\ Op("ANY") = 4 - 1
      /\ Op("DEEP") = 5 - 1 /\ Op("SEP") = 6 - 1 /\ Op("END") = 7 - 1
  BY <1>2, <1>3, <1>4
<1> QED
  BY <1>5

LEMMA SmallRemainder ==
  ASSUME NEW a \in Nat, NEW b \in Nat, a < b
  PROVE  a % b = a
PROOF
  OBVIOUS

(* A length up to ArgMax fits a signed char.                               *)
LEMMA AsCharFits ==
  ASSUME NEW n \in 0..ArgMax
  PROVE  AsChar(n) = n
PROOF
<1> DEFINE a == n + ArgMax + 1
           b == 2 * (ArgMax + 1)
<1>1. a \in Nat /\ b \in Nat /\ a < b /\ a - (ArgMax + 1) = n
  BY ArgMaxAssumption
<1>2. AsChar(n) = (a % b) - (ArgMax + 1)
  BY DEF AsChar
<1> HIDE DEF a, b
<1>3. a % b = a
  BY <1>1, SmallRemainder
<1> QED
  BY <1>1, <1>2, <1>3

(* The instruction of p at o ends in front of e: its length stands behind  *)
(* the opcode and behind the argument.                                     *)
Piece(p, o, e) ==
  LET n == e - o - 3
  IN /\ o \in Nat /\ e \in Nat
     /\ Char(p, o) \in 0..6
     /\ \/ n = -1 /\ Char(p, o + 1) = 0 /\ Char(p, o) # Op("FIXED")
        \/ /\ n \in 1..ArgMax
           /\ Char(p, o + 1) = n /\ Char(p, e - 1) = n
           /\ \A k \in o + 2..e - 2 : Char(p, k) \in Byte \ {Nul}
           /\ Char(p, o) \in {Op("FIXED"), Op("CHARS")}

(* The instruction there is called name and has the argument text.         *)
Holds(p, o, e, name, text) ==
  /\ o \in Nat /\ e = IF text = <<>> THEN o + 2 ELSE o + 3 + Len(text)
  /\ Char(p, o) = Op(name) /\ Char(p, o + 1) = Len(text)
  /\ \A k \in 1..Len(text) : Char(p, o + 1 + k) = text[k]

(* What the loop appends.                                                  *)
Appended(p, name, text) == compiler_oparg(compiler_opcode(p, name), text)

LEMMA JoinFacts ==
  ASSUME NEW p \in Seq(Nat), NEW q \in Seq(Nat)
  PROVE  p \o q \in Seq(Nat) /\ Len(p \o q) = Len(p) + Len(q)
PROOF
  OBVIOUS

LEMMA CharsOfJoin ==
  ASSUME NEW p \in Seq(Nat), NEW q \in Seq(Nat), NEW i \in Nat
  PROVE  /\ i < Len(p) => Char(p \o q, i) = Char(p, i)
         /\ i >= Len(p) => Char(p \o q, i) = Char(q, i - Len(p))
PROOF
<1>1. Len(p) \in Nat /\ Len(q) \in Nat /\ Len(p \o q) = Len(p) + Len(q)
  OBVIOUS
<1>2. CASE i < Len(p)
  <2>1. i + 1 \in 1..Len(p) /\ i < Len(p \o q)
    BY <1>1, <1>2
  <2>2. (p \o q)[i + 1] = p[i + 1]
    BY <2>1
  <2> QED
    BY <1>1, <1>2, <2>1, <2>2 DEF Char
<1>3. CASE i >= Len(p) /\ i < Len(p) + Len(q)
  <2>1. i + 1 \in Len(p) + 1..Len(p) + Len(q) /\ (i + 1) - Len(p) = (i - Len(p)) + 1
        /\ i < Len(p \o q) /\ i - Len(p) < Len(q)
    BY <1>1, <1>3
  <2>2. (p \o q)[i + 1] = q[(i + 1) - Len(p)]
    BY <1>1, <1>3
  <2> QED
    BY <1>1, <1>3, <2>1, <2>2 DEF Char
<1>4. CASE i >= Len(p) + Len(q)
  <2>1. ~(i < Len(p \o q)) /\ ~(i - Len(p) < Len(q)) /\ ~(i < Len(p))
    BY <1>1, <1>4
  <2> QED
    BY <1>1, <1>4, <2>1 DEF Char
<1> QED
  BY <1>1, <1>2, <1>3, <1>4

(* An instruction without an argument.                                     *)
LEMMA AppendsBare ==
  ASSUME NEW p \in Seq(Nat), NEW name, Op(name) \in 0..6, name # "FIXED", Op(name) # Op("FIXED")
  PROVE  LET q == Appended(p, name, <<>>)
         IN /\ q \in Seq(Nat) /\ Len(q) = Len(p) + 2
            /\ \A i \in Nat : i < Len(p) => Char(q, i) = Char(p, i)
            /\ Char(q, Len(p)) = Op(name)
            /\ Piece(q, Len(p), Len(q)) /\ Holds(q, Len(p), Len(q), name, <<>>)
PROOF
<1> DEFINE q == Appended(p, name, <<>>)
           m == Len(p)
           w == <<Op(name), 0>>
<1>1. q = p \o w
  BY DEF Appended, compiler_oparg, compiler_opcode
<1>2. m \in Nat /\ w \in Seq(Nat) /\ Len(w) = 2 /\ w[1] = Op(name) /\ w[2] = 0
  OBVIOUS
<1>3. Char(w, 0) = Op(name) /\ Char(w, 1) = 0
  BY <1>2 DEF Char
<1> HIDE DEF w, q
<1>4. q \in Seq(Nat) /\ Len(q) = m + 2
  BY <1>1, <1>2, JoinFacts
<1>5. \A i \in Nat : i < Len(p) => Char(q, i) = Char(p, i)
  BY <1>1, <1>2, CharsOfJoin
<1>6. Char(q, m) = Op(name) /\ Char(q, m + 1) = 0
  <2>1. m + 1 \in Nat /\ m >= Len(p) /\ m + 1 >= Len(p) /\ m - Len(p) = 0 /\ (m + 1) - Len(p) = 1
    BY <1>2
  <2> HIDE DEF m
  <2> QED
    BY <1>1, <1>2, <1>3, <2>1, CharsOfJoin
<1>7. Piece(q, m, m + 2)
  BY <1>2, <1>6 DEF Piece
<1>8. Holds(q, m, m + 2, name, <<>>)
  BY <1>2, <1>6 DEF Holds
<1> QED
  BY <1>4, <1>5, <1>6, <1>7, <1>8 DEF q

(* An instruction with one.                                                *)
LEMMA AppendsArgument ==
  ASSUME NEW p \in Seq(Nat), NEW name \in {"FIXED", "CHARS"},
         NEW text \in Text, text # <<>>, Len(text) <= ArgMax
  PROVE  LET q == Appended(p, name, text)
         IN /\ q \in Seq(Nat) /\ Len(q) = Len(p) + Len(text) + 3
            /\ \A i \in Nat : i < Len(p) => Char(q, i) = Char(p, i)
            /\ Char(q, Len(p)) = Op(name)
            /\ Piece(q, Len(p), Len(q)) /\ Holds(q, Len(p), Len(q), name, text)
PROOF
<1> DEFINE q == Appended(p, name, text)
           m == Len(p)
           n == Len(text)
           a == p \o <<Op(name), 0>>
           b == [a EXCEPT ![Len(a)] = n]
           c == Op(name)
<1>1. /\ m \in Nat /\ n \in Nat /\ n > 0 /\ n \in 0..ArgMax /\ n \in 1..ArgMax
      /\ \A k \in 1..n : text[k] \in Byte \ {Nul}
  BY ArgMaxAssumption DEF Text
<1>2. text \in Seq(Nat)
  <2>1. Byte \ {Nul} \subseteq Nat
    BY ExprsAssumption
  <2> QED
    BY <2>1, SeqMonotonic DEF Text
<1>3. c \in 0..6 /\ c \in {Op("FIXED"), Op("CHARS")} /\ c \in Nat
  BY OpCodes
<1>4. q = (b \o text) \o <<n>>
  BY <1>1, AsCharFits DEF Appended, compiler_oparg, compiler_opcode
<1>5. a \in Seq(Nat) /\ Len(a) = m + 2 /\ (\A i \in 1..m : a[i] = p[i]) /\ a[m + 1] = c
  BY <1>1, <1>3
<1> HIDE DEF a, q, n, c
<1>6. b \in Seq(Nat) /\ Len(b) = m + 2 /\ (\A i \in 1..m : b[i] = p[i]) /\ b[m + 1] = c
      /\ b[m + 2] = n
  BY <1>1, <1>5
<1> HIDE DEF b
<1>7. b \o text \in Seq(Nat) /\ <<n>> \in Seq(Nat) /\ Len(b \o text) = m + 2 + n
  <2>1. <<n>> \in Seq(Nat)
    BY <1>1
  <2> QED
    BY <1>1, <1>2, <1>6, <2>1, JoinFacts DEF n
<1>8. q \in Seq(Nat) /\ Len(q) = m + n + 3
  <2> DEFINE t == b \o text
  <2>1. Len(<<n>>) = 1 /\ t \in Seq(Nat) /\ <<n>> \in Seq(Nat) /\ Len(t) = m + 2 + n
        /\ q = t \o <<n>>
    BY <1>4, <1>7
  <2> HIDE DEF t
  <2>2. q \in Seq(Nat) /\ Len(q) = Len(t) + 1
    BY <2>1, JoinFacts
  <2> HIDE DEF m
  <2> QED
    BY <1>1, <2>1, <2>2
<1>9. \A i \in Nat : i < m + 2 => Char(q, i) = Char(b, i)
  <2> SUFFICES ASSUME NEW i \in Nat, i < m + 2 PROVE Char(q, i) = Char(b, i)
    OBVIOUS
  <2>1. i < Len(b) /\ i < Len(b \o text)
    BY <1>1, <1>6, <1>7
  <2>2. Char(b \o text, i) = Char(b, i)
    BY <1>2, <1>6, <2>1, CharsOfJoin
  <2>3. Char((b \o text) \o <<n>>, i) = Char(b \o text, i)
    BY <1>7, <2>1, CharsOfJoin
  <2> QED
    BY <1>4, <2>2, <2>3
<1>10. \A i \in Nat : i < m => Char(q, i) = Char(p, i)
  <2> SUFFICES ASSUME NEW i \in Nat, i < m PROVE Char(q, i) = Char(p, i)
    OBVIOUS
  <2>1. i < m + 2 /\ i + 1 \in 1..m
    BY <1>1
  <2> QED
    BY <1>1, <1>6, <1>9, <2>1 DEF Char
<1>11. Char(q, m) = c /\ Char(q, m + 1) = n
  <2>1. m < m + 2 /\ m + 1 < m + 2 /\ m + 1 \in Nat /\ (m + 1) + 1 = m + 2
    BY <1>1
  <2>2. Char(q, m) = Char(b, m) /\ Char(q, m + 1) = Char(b, m + 1)
    BY <1>1, <1>9, <2>1
  <2>3. Char(b, m) = c /\ Char(b, m + 1) = n
    BY <1>1, <1>6, <2>1 DEF Char
  <2> QED
    BY <2>2, <2>3
<1>12. ASSUME NEW k \in m + 2..m + n + 1
       PROVE  Char(q, k) \in Byte \ {Nul} /\ Char(q, k) = Char(text, k - (m + 2))
  <2>1. k \in Nat /\ k >= Len(b) /\ k < Len(b \o text) /\ k - Len(b) \in Nat
        /\ k - Len(b) < Len(text) /\ (k - Len(b)) + 1 \in 1..n
    BY <1>1, <1>6, <1>7 DEF n
  <2>2. Char(b \o text, k) = Char(text, k - Len(b))
    BY <1>2, <1>6, <2>1, CharsOfJoin
  <2>3. Char((b \o text) \o <<n>>, k) = Char(b \o text, k)
    BY <1>7, <2>1, CharsOfJoin
  <2>4. Char(text, k - Len(b)) \in Byte \ {Nul}
    BY <1>1, <2>1 DEF Char
  <2> QED
    BY <1>4, <1>6, <2>2, <2>3, <2>4
<1>13. Char(q, m + n + 2) = n
  <2>1. m + n + 2 \in Nat /\ m + n + 2 >= Len(b \o text) /\ (m + n + 2) - Len(b \o text) = 0
    BY <1>1, <1>7
  <2> DEFINE k == m + n + 2
             t == b \o text
  <2>4. k \in Nat /\ k >= Len(t) /\ k - Len(t) = 0 /\ t \in Seq(Nat)
    BY <1>7, <2>1
  <2> HIDE DEF k, t
  <2>5. Char(t \o <<n>>, k) = Char(<<n>>, 0)
    BY <1>7, <2>4, CharsOfJoin
  <2>2. Char((b \o text) \o <<n>>, m + n + 2) = Char(<<n>>, 0)
    BY <2>5 DEF k, t
  <2>3. Char(<<n>>, 0) = n
    BY DEF Char
  <2> QED
    BY <1>4, <2>2, <2>3
<1>14. Piece(q, m, m + n + 3)
  <2> DEFINE e == m + n + 3
  <2>1. e - m - 3 = n /\ e - 1 = m + n + 2 /\ e - 2 = m + n + 1 /\ e \in Nat
    BY <1>1
  <2> HIDE DEF e
  <2>2. Piece(q, m, e)
    BY <1>1, <1>3, <1>11, <1>12, <1>13, <2>1 DEF Piece
  <2> QED
    BY <2>2 DEF e
<1>15. ASSUME NEW i \in 1..n PROVE Char(q, m + 1 + i) = text[i]
  <2> DEFINE k == m + 1 + i
  <2>1. k \in m + 2..m + n + 1 /\ k - (m + 2) = i - 1 /\ i - 1 < n /\ (i - 1) + 1 = i
    BY <1>1
  <2> HIDE DEF k
  <2>2. Char(q, k) = Char(text, i - 1)
    BY <1>12, <2>1
  <2>3. Char(text, i - 1) = text[i]
    BY <2>1 DEF Char, n
  <2> QED
    BY <2>2, <2>3 DEF k
<1>16. Holds(q, m, m + n + 3, name, text)
  <2>1. m + n + 3 = m + 3 + n
    BY <1>1
  <2> QED
    BY <1>1, <1>11, <1>15, <2>1 DEF Holds, n, c
<1> QED
  BY <1>8, <1>10, <1>11, <1>14, <1>16 DEF q, n, c

(* What an instruction may have for an argument.                           *)
Argument(name, text) ==
  \/ name \in {"CHARS", "ONE", "ANY", "DEEP", "SEP", "END"} /\ text = <<>>
  \/ name \in {"FIXED", "CHARS"} /\ text \in Text /\ text # <<>> /\ Len(text) <= ArgMax

LEMMA AppendsPiece ==
  ASSUME NEW p \in Seq(Nat), NEW name, NEW text, Argument(name, text)
  PROVE  LET q == Appended(p, name, text)
         IN /\ q \in Seq(Nat) /\ Len(p) < Len(q)
            /\ \A i \in Nat : i < Len(p) => Char(q, i) = Char(p, i)
            /\ Char(q, Len(p)) = Op(name)
            /\ Piece(q, Len(p), Len(q)) /\ Holds(q, Len(p), Len(q), name, text)
PROOF
<1>1. Len(p) \in Nat
  OBVIOUS
<1>2. CASE name \in {"CHARS", "ONE", "ANY", "DEEP", "SEP", "END"} /\ text = <<>>
  <2>1. Op(name) \in 0..6 /\ name # "FIXED" /\ Op(name) # Op("FIXED")
    BY <1>2, OpCodes
  <2> QED
    BY SMTT(30), <1>1, <1>2, <2>1, AppendsBare
<1>3. CASE name \in {"FIXED", "CHARS"} /\ text \in Text /\ text # <<>> /\ Len(text) <= ArgMax
  <2> DEFINE q == Appended(p, name, text)
  <2>1. Len(text) \in Nat
    BY <1>3 DEF Text
  <2>2. /\ q \in Seq(Nat) /\ Len(q) = Len(p) + Len(text) + 3
        /\ \A i \in Nat : i < Len(p) => Char(q, i) = Char(p, i)
        /\ Char(q, Len(p)) = Op(name)
        /\ Piece(q, Len(p), Len(q)) /\ Holds(q, Len(p), Len(q), name, text)
    BY <1>3, AppendsArgument
  <2> HIDE DEF q
  <2>3. Len(p) < Len(q)
    BY <1>1, <2>1, <2>2
  <2> QED
    BY <2>2, <2>3 DEF q
<1> QED
  BY <1>2, <1>3 DEF Argument

(* The instructions of p begin at the offsets os, the last of which is     *)
(* where the next one will begin; what a walk would stop at, or take for   *)
(* the wrong star, does not occur on the way.                              *)
Laid(p, os) ==
  /\ p \in Seq(Nat) /\ os \in Seq(Nat)
  /\ Len(os) > 0 /\ os[1] = 0 /\ os[Len(os)] = Len(p)
  /\ \A k \in 1..Len(os) - 1 : Piece(p, os[k], os[k + 1]) /\ os[k] < os[k + 1] /\ os[k + 1] <= Len(p)
  /\ \A k \in 1..Len(os) - 2 :
       /\ Char(p, os[k]) # Op("END")
       /\ Char(p, os[k]) = Op("ANY") => Char(p, os[k + 1]) \notin {Op("ANY"), Op("DEEP")}

(* The opcode of the last instruction.                                     *)
LastOp(p, os) == Char(p, os[Len(os) - 1])

(* An instruction called name may follow the last one.                     *)
MayFollow(p, os, name) ==
  Len(os) > 1 =>
    /\ LastOp(p, os) # Op("END")
    /\ LastOp(p, os) = Op("ANY") => name \notin {"ANY", "DEEP"}

(* A piece stays one as long as its bytes do.                              *)
LEMMA PieceStays ==
  ASSUME NEW p, NEW q, NEW n \in Nat, \A i \in Nat : i < n => Char(q, i) = Char(p, i),
         NEW o, NEW e, Piece(p, o, e), o < e, e <= n
  PROVE  Piece(q, o, e)
PROOF
<1>1. o \in Nat /\ e \in Nat
  BY DEF Piece
<1> DEFINE m == e - o - 3
<1>2. m \in Int /\ e = o + m + 3
  BY <1>1
<1>3. m = -1 \/ m \in 1..ArgMax
  BY DEF Piece
<1>4. o + 1 \in Nat /\ o + 1 < n /\ o < n /\ e - 1 \in Nat /\ e - 1 < n
  BY <1>1, <1>2, <1>3, ArgMaxAssumption
<1>5. Char(q, o) = Char(p, o) /\ Char(q, o + 1) = Char(p, o + 1) /\ Char(q, e - 1) = Char(p, e - 1)
  BY <1>1, <1>4
<1>6. \A k \in o + 2..e - 2 : Char(q, k) = Char(p, k)
  <2>1. \A k \in o + 2..e - 2 : k \in Nat /\ k < n
    BY <1>1
  <2> QED
    BY <2>1
<1> QED
  BY <1>5, <1>6 DEF Piece

(* And an instruction keeps its name and its argument.                     *)
LEMMA HoldsStays ==
  ASSUME NEW p, NEW q, NEW n \in Nat, \A i \in Nat : i < n => Char(q, i) = Char(p, i),
         NEW o, NEW e, NEW name, NEW text, Len(text) \in Nat, Holds(p, o, e, name, text), e <= n
  PROVE  Holds(q, o, e, name, text)
PROOF
<1>1. o \in Nat /\ o < n /\ o + 1 \in Nat /\ o + 1 < n
  BY DEF Holds
<1>2. ASSUME NEW k \in 1..Len(text) PROVE Char(q, o + 1 + k) = Char(p, o + 1 + k)
  <2>1. e = o + 3 + Len(text) \/ text = <<>>
    BY DEF Holds
  <2>2. text # <<>>
    BY <1>2
  <2>3. o + 1 + k \in Nat /\ o + 1 + k < n
    BY <1>1, <2>1, <2>2
  <2> QED
    BY <2>3
<1> QED
  BY <1>1, <1>2 DEF Holds

LEMMA LaidOn ==
  ASSUME NEW p, NEW os, Laid(p, os), NEW name, NEW text, Argument(name, text),
         MayFollow(p, os, name)
  PROVE  LET q == Appended(p, name, text)
             qs == Append(os, Len(q))
         IN Laid(q, qs) /\ Len(qs) > 1 /\ LastOp(q, qs) = Op(name)
PROOF
<1> DEFINE q == Appended(p, name, text)
           qs == Append(os, Len(q))
           m == Len(p)
           n == Len(os)
<1>1. /\ p \in Seq(Nat) /\ os \in Seq(Nat) /\ m \in Nat /\ n \in Nat
      /\ n > 0 /\ os[1] = 0 /\ os[n] = m
  BY DEF Laid
<1>2. /\ \A k \in 1..n - 1 : Piece(p, os[k], os[k + 1]) /\ os[k] < os[k + 1] /\ os[k + 1] <= m
      /\ \A k \in 1..n - 2 :
           /\ Char(p, os[k]) # Op("END")
           /\ Char(p, os[k]) = Op("ANY") => Char(p, os[k + 1]) \notin {Op("ANY"), Op("DEEP")}
      /\ n > 1 => /\ Char(p, os[n - 1]) # Op("END")
                  /\ Char(p, os[n - 1]) = Op("ANY") => name \notin {"ANY", "DEEP"}
  BY DEF Laid, MayFollow, LastOp
<1>3. /\ q \in Seq(Nat) /\ m < Len(q) /\ Len(q) \in Nat
      /\ \A i \in Nat : i < m => Char(q, i) = Char(p, i)
      /\ Char(q, m) = Op(name)
      /\ Piece(q, m, Len(q))
  <2>1. /\ q \in Seq(Nat) /\ m < Len(q)
        /\ \A i \in Nat : i < m => Char(q, i) = Char(p, i)
        /\ Char(q, m) = Op(name)
        /\ Piece(q, m, Len(q))
    BY <1>1, AppendsPiece
  <2> QED
    BY <2>1
<1> HIDE DEF q
<1>4. /\ qs \in Seq(Nat) /\ Len(qs) = n + 1 /\ qs[n + 1] = Len(q)
      /\ \A k \in 1..n : qs[k] = os[k]
  BY <1>1, <1>3
<1> HIDE DEF qs, m, n
<1>5. \A k \in 1..n : os[k] \in Nat
  BY <1>1 DEF n
<1>6. ASSUME NEW k \in 1..n - 1
      PROVE  /\ Piece(q, qs[k], qs[k + 1]) /\ qs[k] < qs[k + 1] /\ qs[k + 1] <= Len(q)
             /\ Char(q, qs[k]) = Char(p, os[k]) /\ os[k] < m
  <2>1. k \in 1..n /\ k + 1 \in 1..n
    BY <1>1
  <2>2. qs[k] = os[k] /\ qs[k + 1] = os[k + 1] /\ os[k] \in Nat /\ os[k + 1] \in Nat
    BY <1>4, <1>5, <2>1
  <2>3. Piece(p, os[k], os[k + 1]) /\ os[k] < os[k + 1] /\ os[k + 1] <= m
    BY <1>2
  <2>4. Piece(q, os[k], os[k + 1])
    BY <1>1, <1>3, <2>3, PieceStays
  <2>5. os[k] < m /\ os[k + 1] <= Len(q)
    <3>1. m \in Nat /\ Len(q) \in Nat /\ m < Len(q)
      BY <1>1, <1>3
    <3> DEFINE x == os[k]
               y == os[k + 1]
    <3>2. x \in Nat /\ y \in Nat /\ x < y /\ y <= m
      BY <2>2, <2>3
    <3> HIDE DEF x, y
    <3>3. x < m /\ y <= Len(q)
      BY <3>1, <3>2
    <3> QED
      BY <3>3 DEF x, y
  <2> QED
    BY <1>3, <2>2, <2>3, <2>4, <2>5
<1>7. qs[n] = m /\ Char(q, qs[n]) = Op(name)
  BY <1>1, <1>3, <1>4
<1>8. ASSUME NEW k \in 1..n
      PROVE  Piece(q, qs[k], qs[k + 1]) /\ qs[k] < qs[k + 1] /\ qs[k + 1] <= Len(q)
  <2>1. CASE k = n
    BY <1>1, <1>3, <1>4, <1>7, <2>1
  <2>2. CASE k # n
    <3>1. k \in 1..n - 1
      BY <1>1, <2>2
    <3> QED
      BY <1>6, <3>1
  <2> QED
    BY <2>1, <2>2
<1>9. ASSUME NEW k \in 1..n - 1
      PROVE  /\ Char(q, qs[k]) # Op("END")
             /\ Char(q, qs[k]) = Op("ANY") => Char(q, qs[k + 1]) \notin {Op("ANY"), Op("DEEP")}
  <2>1. CASE k = n - 1
    <3>1. n > 1 /\ k + 1 = n
      BY <1>1, <2>1
    <3>2. Char(q, qs[k]) = Char(p, os[n - 1]) /\ Char(q, qs[k + 1]) = Op(name)
      BY <1>6, <1>7, <2>1, <3>1
    <3>3. name \notin {"ANY", "DEEP"} => Op(name) \notin {Op("ANY"), Op("DEEP")}
      BY OpCodes DEF Argument
    <3> QED
      BY <1>2, <3>1, <3>2, <3>3
  <2>2. CASE k # n - 1
    <3>1. k \in 1..n - 2 /\ k + 1 \in 1..n - 1
      BY <1>1, <2>2
    <3> QED
      BY <1>2, <1>6, <3>1
  <2> QED
    BY <2>1, <2>2
<1>10. qs[1] = 0
  BY <1>1, <1>4
<1>11. Len(qs) - 1 = n /\ Len(qs) - 2 = n - 1 /\ Len(qs) > 1
  BY <1>1, <1>4
<1>12. Laid(q, qs)
  BY SMTT(30), <1>3, <1>4, <1>8, <1>9, <1>10, <1>11 DEF Laid
<1>13. LastOp(q, qs) = Op(name)
  BY <1>7, <1>11 DEF LastOp
<1> QED
  BY <1>11, <1>12, <1>13 DEF q, qs

-----------------------------------------------------------------------------
(* Sequences of sequences: the recursive function of FlattenSeq.           *)
Flattened(f, ps, i) == IF i = 1 THEN ps[i] ELSE f[i - 1] \o ps[i]

(* The function exists.                                                    *)
LEMMA FlattenExists ==
  ASSUME NEW S, NEW ps \in Seq(Seq(S))
  PROVE  \E f : f = [i \in 1..Len(ps) |-> Flattened(f, ps, i)]
PROOF
<1> DEFINE n == Len(ps)
           D == 1..n
           V == Seq(S)
           rank == [i \in D |-> i]
           B == [f \in [D -> V] |-> [i \in D |-> Flattened(f, ps, i)]]
<1>1. n \in Nat /\ \A i \in D : ps[i] \in V
  OBVIOUS
<1> HIDE DEF n
<1>2. \A f \in [D -> V] : \A i \in D : Flattened(f, ps, i) \in V
  <2> SUFFICES ASSUME NEW f \in [D -> V], NEW i \in D PROVE Flattened(f, ps, i) \in V
    OBVIOUS
  <2>1. CASE i = 1
    BY <1>1, <2>1 DEF Flattened
  <2>2. CASE i # 1
    <3>1. i - 1 \in D
      BY <1>1, <2>2
    <3>2. f[i - 1] \in V /\ ps[i] \in V
      BY <1>1, <3>1
    <3>3. f[i - 1] \o ps[i] \in V
      BY <3>2
    <3> QED
      BY <2>2, <3>3 DEF Flattened
  <2> QED
    BY <2>1, <2>2
<1>3. B \in [[D -> V] -> [D -> V]]
  BY <1>2
<1>4. \A f, g \in [D -> V] : \A i \in D :
        (\A j \in D : rank[j] < rank[i] => f[j] = g[j]) => B[f][i] = B[g][i]
  <2> SUFFICES ASSUME NEW f \in [D -> V], NEW g \in [D -> V], NEW i \in D,
                      \A j \in D : rank[j] < rank[i] => f[j] = g[j]
               PROVE  Flattened(f, ps, i) = Flattened(g, ps, i)
    OBVIOUS
  <2>1. CASE i = 1
    BY <2>1 DEF Flattened
  <2>2. CASE i # 1
    <3>1. i - 1 \in D /\ i - 1 < i
      BY <1>1, <2>2
    <3>2. f[i - 1] = g[i - 1]
      BY <3>1
    <3> QED
      BY <2>2, <3>2 DEF Flattened
  <2> QED
    BY <2>1, <2>2
<1>5. rank \in [D -> Nat] /\ n + 1 \in Nat /\ \A i \in D : rank[i] < n + 1
  BY <1>1
<1>6. <<>> \in V
  OBVIOUS
<1>7. \A f \in [D -> V] : B[f] = [i \in D |-> Flattened(f, ps, i)]
  OBVIOUS
<1>8. \E f \in [D -> V] : f = B[f]
  <2> HIDE DEF D, V, rank, B
  <2>1. Computes(B, D, V, rank, n + 1)
    BY <1>3, <1>4, <1>5, <1>6 DEF Computes
  <2> QED
    BY <2>1, Recursion
<1> QED
  BY <1>7, <1>8 DEF n

(* FlattenSeq is its last value.                                           *)
LEMMA FlattenFacts ==
  ASSUME NEW S, NEW ps \in Seq(Seq(S)), Len(ps) > 0
  PROVE  \E f : /\ FlattenSeq(ps) = f[Len(ps)]
                /\ \A i \in 1..Len(ps) : f[i] = Flattened(f, ps, i) /\ f[i] \in Seq(S)
PROOF
<1> DEFINE n == Len(ps)
           f == CHOOSE h : h = [i \in 1..n |-> Flattened(h, ps, i)]
<1>1. n \in Nat /\ n > 0 /\ \A i \in 1..n : ps[i] \in Seq(S)
  OBVIOUS
<1>2. FlattenSeq(ps) = f[n]
  BY <1>1 DEF FlattenSeq, Flattened
<1>3. f = [i \in 1..n |-> Flattened(f, ps, i)]
  BY FlattenExists
<1> HIDE DEF f, n
<1>4. \A i \in 1..n : f[i] = Flattened(f, ps, i)
  BY <1>3
<1> DEFINE T == {k \in Nat : k + 1 <= n => f[k + 1] \in Seq(S)}
<1>5. 0 \in T
  <2>1. 1 \in 1..n
    BY <1>1
  <2> QED
    BY <1>1, <1>4, <2>1 DEF Flattened
<1>6. ASSUME NEW k \in Nat, k \in T
      PROVE  k + 1 \in T
  <2> SUFFICES ASSUME (k + 1) + 1 <= n PROVE f[(k + 1) + 1] \in Seq(S)
    OBVIOUS
  <2> DEFINE j == (k + 1) + 1
  <2>1. j \in 1..n /\ j # 1 /\ j - 1 = k + 1 /\ k + 1 <= n
    BY <1>1
  <2>2. f[k + 1] \in Seq(S)
    BY <1>6, <2>1
  <2>3. f[j] = f[k + 1] \o ps[j] /\ ps[j] \in Seq(S)
    BY <1>1, <1>4, <2>1 DEF Flattened
  <2> QED
    BY <2>2, <2>3
<1>7. ASSUME NEW i \in 1..n PROVE f[i] \in Seq(S)
  <2> HIDE DEF T
  <2>1. \A k \in Nat : k \in T
    BY <1>5, <1>6, AllNumbers
  <2>2. i - 1 \in Nat /\ (i - 1) + 1 = i /\ i <= n
    BY <1>1
  <2>3. i - 1 \in T
    BY <2>1, <2>2
  <2> QED
    BY <2>2, <2>3 DEF T
<1> QED
  BY <1>2, <1>4, <1>7 DEF n

LEMMA FlattenEmpty == FlattenSeq(<<>>) = <<>>
PROOF
  BY DEF FlattenSeq

LEMMA FlattenType ==
  ASSUME NEW S, NEW ps \in Seq(Seq(S))
  PROVE  FlattenSeq(ps) \in Seq(S)
PROOF
<1>1. Len(ps) \in Nat
  OBVIOUS
<1>2. CASE Len(ps) = 0
  <2>1. ps = <<>>
    BY <1>2
  <2>2. FlattenSeq(ps) = <<>>
    BY <2>1, FlattenEmpty
  <2> QED
    BY <2>2
<1>3. CASE Len(ps) > 0
  <2>1. Len(ps) \in 1..Len(ps)
    BY <1>1, <1>3
  <2> QED
    BY <1>3, <2>1, FlattenFacts
<1> QED
  BY <1>1, <1>2, <1>3

(* A sequence that is appended is joined to the end.                       *)
LEMMA FlattenAppend ==
  ASSUME NEW S, NEW ps \in Seq(Seq(S)), NEW t \in Seq(S)
  PROVE  FlattenSeq(Append(ps, t)) = FlattenSeq(ps) \o t
PROOF
<1> DEFINE n == Len(ps)
           qs == Append(ps, t)
<1>1. /\ n \in Nat /\ qs \in Seq(Seq(S)) /\ Len(qs) = n + 1 /\ qs[n + 1] = t
      /\ \A i \in 1..n : qs[i] = ps[i]
  OBVIOUS
<1> HIDE DEF qs
<1>2. PICK g : /\ FlattenSeq(qs) = g[n + 1]
               /\ \A i \in 1..n + 1 : g[i] = Flattened(g, qs, i)
  <2>1. Len(qs) > 0
    BY <1>1
  <2>2. PICK g : /\ FlattenSeq(qs) = g[Len(qs)]
                 /\ \A i \in 1..Len(qs) : g[i] = Flattened(g, qs, i) /\ g[i] \in Seq(S)
    BY <1>1, <2>1, FlattenFacts
  <2> QED
    BY <1>1, <2>2
<1>3. CASE n = 0
  <2>1. ps = <<>>
    BY <1>3
  <2>2. g[1] = t
    <3>1. 1 \in 1..n + 1
      BY <1>3
    <3> QED
      BY <1>1, <1>2, <1>3, <3>1 DEF Flattened
  <2>3. FlattenSeq(ps) \o t = t
    BY <2>1, FlattenEmpty, ConcatEmptySeq
  <2> QED
    BY <1>2, <1>3, <2>2, <2>3 DEF qs
<1>4. CASE n > 0
  <2>1. PICK f : /\ FlattenSeq(ps) = f[n]
                 /\ \A i \in 1..n : f[i] = Flattened(f, ps, i)
    <3>1. PICK f : /\ FlattenSeq(ps) = f[Len(ps)]
                   /\ \A i \in 1..Len(ps) : f[i] = Flattened(f, ps, i) /\ f[i] \in Seq(S)
      BY <1>4, FlattenFacts
    <3> QED
      BY <3>1
  <2> HIDE DEF n
  <2> DEFINE T == {k \in Nat : k + 1 <= n => f[k + 1] = g[k + 1]}
  <2>2. 0 \in T
    <3>1. 1 \in 1..n /\ 1 \in 1..n + 1
      BY <1>1, <1>4
    <3> QED
      BY <1>1, <1>2, <2>1, <3>1 DEF Flattened
  <2>3. ASSUME NEW k \in Nat, k \in T
        PROVE  k + 1 \in T
    <3> SUFFICES ASSUME (k + 1) + 1 <= n PROVE f[(k + 1) + 1] = g[(k + 1) + 1]
      OBVIOUS
    <3> DEFINE j == (k + 1) + 1
    <3>1. j \in 1..n /\ j \in 1..n + 1 /\ j # 1 /\ j - 1 = k + 1 /\ k + 1 <= n
      BY <1>1
    <3>2. f[k + 1] = g[k + 1]
      BY <2>3, <3>1
    <3>3. f[j] = f[k + 1] \o ps[j] /\ g[j] = g[k + 1] \o qs[j] /\ qs[j] = ps[j]
      BY <1>1, <1>2, <2>1, <3>1 DEF Flattened
    <3> QED
      BY <3>2, <3>3
  <2>4. f[n] = g[n]
    <3> HIDE DEF T
    <3>1. \A k \in Nat : k \in T
      BY <2>2, <2>3, AllNumbers
    <3>2. n - 1 \in Nat /\ (n - 1) + 1 = n /\ n <= n
      BY <1>1, <1>4
    <3>3. n - 1 \in T
      BY <3>1, <3>2
    <3> QED
      BY <3>2, <3>3 DEF T
  <2>5. g[n + 1] = g[n] \o t
    <3>1. n + 1 \in 1..n + 1 /\ n + 1 # 1 /\ (n + 1) - 1 = n
      BY <1>1, <1>4
    <3> QED
      BY <1>1, <1>2, <3>1 DEF Flattened
  <2> QED
    BY <1>2, <2>1, <2>4, <2>5 DEF qs
<1> QED
  BY <1>1, <1>3, <1>4

-----------------------------------------------------------------------------
(* What a bracket expression accepts: the recursive function of            *)
(* fnmatch__vm_chars.                                                      *)

Negated(arg) == arg # <<>> /\ arg[1] = FNMATCH_CHARS_NEGATE

Accepts(accepts, arg, c, i) ==
  IF i >= Len(arg) THEN Negated(arg)
  ELSE IF i < Len(arg) - 1 /\ arg[i + 1] = FNMATCH_ESCAPE
    THEN IF c = arg[i + 2] THEN ~Negated(arg) ELSE accepts[i + 2]
  ELSE IF i < Len(arg) - 1 /\ arg[i + 1] = Minus /\ i > 0 /\ c > arg[i] /\ c < arg[i + 2]
    THEN ~Negated(arg)
  ELSE IF c = arg[i + 1] THEN ~Negated(arg) ELSE accepts[i + 1]

LEMMA AcceptsExists ==
  ASSUME NEW arg, Len(arg) \in Nat, NEW c
  PROVE  \E accepts : accepts = [i \in 0..Len(arg) + 1 |-> Accepts(accepts, arg, c, i)]
PROOF
<1> DEFINE n == Len(arg)
           D == 0..n + 1
           V == BOOLEAN
           rank == [i \in D |-> (n + 1) - i]
           B == [f \in [D -> V] |-> [i \in D |-> Accepts(f, arg, c, i)]]
<1>0. Negated(arg) \in BOOLEAN
  BY DEF Negated
<1>1. n \in Nat /\ \A i \in D : i < n => i + 1 \in D /\ i + 2 \in D
  OBVIOUS
<1>2. \A f \in [D -> V] : \A i \in D : Accepts(f, arg, c, i) \in V
  <2> SUFFICES ASSUME NEW f \in [D -> V], NEW i \in D PROVE Accepts(f, arg, c, i) \in V
    OBVIOUS
  <2>1. CASE i >= n
    BY <1>0, <2>1 DEF Accepts
  <2>2. CASE ~(i >= n)
    <3>1. i + 1 \in D /\ i + 2 \in D
      BY <1>1, <2>2
    <3>2. f[i + 1] \in BOOLEAN /\ f[i + 2] \in BOOLEAN /\ ~Negated(arg) \in BOOLEAN
      BY <3>1
    <3> HIDE DEF D
    <3> QED
      BY <2>2, <3>2 DEF Accepts
  <2> QED
    BY <2>1, <2>2
<1>3. \A f, g \in [D -> V] : \A i \in D :
        (\A j \in D : rank[j] < rank[i] => f[j] = g[j]) => B[f][i] = B[g][i]
  <2> SUFFICES ASSUME NEW f \in [D -> V], NEW g \in [D -> V], NEW i \in D,
                      \A j \in D : rank[j] < rank[i] => f[j] = g[j]
               PROVE  Accepts(f, arg, c, i) = Accepts(g, arg, c, i)
    OBVIOUS
  <2>1. CASE i >= n
    BY <2>1 DEF Accepts
  <2>2. CASE ~(i >= n)
    <3>1. i + 1 \in D /\ i + 2 \in D /\ rank[i + 1] < rank[i] /\ rank[i + 2] < rank[i]
      BY <1>1, <2>2
    <3>2. f[i + 1] = g[i + 1] /\ f[i + 2] = g[i + 2]
      BY <3>1
    <3> QED
      BY <2>2, <3>2 DEF Accepts
  <2> QED
    BY <2>1, <2>2
<1>4. rank \in [D -> Nat] /\ n + 2 \in Nat /\ \A i \in D : rank[i] < n + 2
  BY <1>1
<1>5. \A f \in [D -> V] : B[f] = [i \in D |-> Accepts(f, arg, c, i)]
  OBVIOUS
<1>6. B \in [[D -> V] -> [D -> V]] /\ V # {}
  BY <1>2
<1>7. \E f \in [D -> V] : f = B[f]
  <2> HIDE DEF D, V, rank, B
  <2>1. Computes(B, D, V, rank, n + 2)
    BY <1>3, <1>4, <1>6 DEF Computes
  <2> QED
    BY <2>1, Recursion
<1> QED
  BY <1>5, <1>7

(* vm_chars(arg, c) is what fnmatch__vm_chars finds from the start of the  *)
(* set.                                                                    *)
LEMMA AcceptsFacts ==
  ASSUME NEW arg, Len(arg) \in Nat, NEW c
  PROVE  \E accepts : /\ vm_chars(arg, c) = accepts[IF Negated(arg) THEN 1 ELSE 0]
                      /\ \A i \in 0..Len(arg) + 1 : accepts[i] = Accepts(accepts, arg, c, i)
PROOF
<1> DEFINE f == CHOOSE h : h = [i \in 0..Len(arg) + 1 |-> Accepts(h, arg, c, i)]
<1>1. vm_chars(arg, c) = f[IF Negated(arg) THEN 1 ELSE 0]
  BY DEF vm_chars, Accepts, Negated
<1>2. f = [i \in 0..Len(arg) + 1 |-> Accepts(f, arg, c, i)]
  BY AcceptsExists
<1> HIDE DEF f
<1> QED
  BY <1>1, <1>2

(* The byte at k of the set is c, or makes a range c is in.                *)
Hits(arg, c, k) ==
  \/ c = arg[k]
  \/ k \in 2..Len(arg) - 1 /\ arg[k] = Minus /\ c > arg[k - 1] /\ c < arg[k + 1]

(* Without backslashes in the set, c is accepted from i on if a byte hits  *)
(* it, and the other way round if the set is negated.                      *)
LEMMA AcceptsHits ==
  ASSUME NEW arg, Len(arg) \in Nat, \A k \in 1..Len(arg) : arg[k] # FNMATCH_ESCAPE,
         NEW c, NEW accepts,
         \A i \in 0..Len(arg) + 1 : accepts[i] = Accepts(accepts, arg, c, i)
  PROVE  \A i \in 0..Len(arg) + 1 :
           accepts[i] = IF \E k \in i + 1..Len(arg) : Hits(arg, c, k)
                        THEN ~Negated(arg) ELSE Negated(arg)
PROOF
<1> DEFINE n == Len(arg)
           Hit(i) == \E k \in i + 1..n : Hits(arg, c, k)
           T == {i \in 0..n + 1 : accepts[i] = IF Hit(i) THEN ~Negated(arg) ELSE Negated(arg)}
<1>0. n \in Nat
  OBVIOUS
<1>1. ASSUME NEW i \in 0..n + 1, \A j \in i + 1..n + 1 : j \in T
      PROVE  i \in T
  <2>1. accepts[i] = Accepts(accepts, arg, c, i)
    OBVIOUS
  <2>2. CASE i >= n
    <3>1. ~Hit(i)
      BY <2>2, <1>0
    <3>2. accepts[i] = Negated(arg)
      BY <2>1, <2>2 DEF Accepts
    <3> QED
      BY <3>1, <3>2
  <2>3. CASE ~(i >= n)
    <3>1. i + 1 \in 1..n /\ i + 1 \in i + 1..n + 1 /\ (i > 0 /\ i < n - 1 <=> i + 1 \in 2..n - 1)
          /\ (i + 1) - 1 = i /\ (i + 1) + 1 = i + 2
      BY <1>0, <2>3
    <3>2. arg[i + 1] # FNMATCH_ESCAPE
      BY <3>1
    <3>3. Hits(arg, c, i + 1) <=>
            \/ i < n - 1 /\ arg[i + 1] = Minus /\ i > 0 /\ c > arg[i] /\ c < arg[i + 2]
            \/ c = arg[i + 1]
      BY <3>1 DEF Hits
    <3>4. accepts[i] = IF Hits(arg, c, i + 1) THEN ~Negated(arg) ELSE accepts[i + 1]
      <4>1. accepts[i] = IF i < n - 1 /\ arg[i + 1] = Minus /\ i > 0 /\ c > arg[i] /\ c < arg[i + 2]
                           THEN ~Negated(arg)
                         ELSE IF c = arg[i + 1] THEN ~Negated(arg) ELSE accepts[i + 1]
        BY <2>1, <2>3, <3>2 DEF Accepts
      <4> QED
        BY <3>3, <4>1
    <3>5. accepts[i + 1] = IF Hit(i + 1) THEN ~Negated(arg) ELSE Negated(arg)
      BY <1>1, <3>1
    <3>6. Hit(i) <=> Hits(arg, c, i + 1) \/ Hit(i + 1)
      <4>1. \A k : k \in i + 1..n <=> k = i + 1 \/ k \in (i + 1) + 1..n
        BY <1>0, <3>1
      <4> QED
        BY <4>1
    <3> HIDE DEF Hit
    <3>7. accepts[i] = IF Hit(i) THEN ~Negated(arg) ELSE Negated(arg)
      BY <3>4, <3>5, <3>6
    <3> QED
      BY <3>7
  <2> QED
    BY <2>2, <2>3
<1>2. 0..n + 1 \subseteq T
  <2> HIDE DEF T
  <2> QED
    <3>1. n + 1 \in Nat
      BY <1>0
    <3> QED
      BY <1>1, <3>1, AllDownward
<1> QED
  BY <1>2

(* Those are the bytes that the set lists.                                 *)
LEMMA ListedHits ==
  ASSUME NEW t \in Text, NEW c \in Byte
  PROVE  c \in Listed(t) <=> \E k \in 1..Len(t) : Hits(t, c, k)
PROOF
<1> DEFINE n == Len(t)
<1>1. n \in Nat /\ DOMAIN t = 1..n /\ c \in Nat /\ \A k \in 1..n : t[k] \in Nat
  <2>1. Byte \subseteq Nat
    BY ExprsAssumption
  <2>2. n \in Nat /\ DOMAIN t = 1..n /\ \A k \in 1..n : t[k] \in Byte
    BY DEF Text
  <2> QED
    BY <2>1, <2>2
<1>2. \A k \in 2..n - 1 : k \in 1..n /\ k - 1 \in 1..n /\ k + 1 \in 1..n
  BY <1>1
<1>3. ASSUME c \in Listed(t) PROVE \E k \in 1..n : Hits(t, c, k)
  <2>1. CASE \E k \in DOMAIN t : c = t[k]
    BY <1>1, <2>1 DEF Hits
  <2>2. CASE \E k \in 2..n - 1 : t[k] = Minus /\ t[k - 1] <= c /\ c <= t[k + 1]
    <3>1. PICK k \in 2..n - 1 : t[k] = Minus /\ t[k - 1] <= c /\ c <= t[k + 1]
      BY <2>2
    <3>2. k \in 1..n /\ k - 1 \in 1..n /\ k + 1 \in 1..n
      BY <1>2
    <3>3. t[k - 1] \in Nat /\ t[k + 1] \in Nat
      BY <1>1, <3>2
    <3>4. c = t[k - 1] \/ c = t[k + 1] \/ (c > t[k - 1] /\ c < t[k + 1])
      BY <1>1, <3>1, <3>3
    <3> QED
      BY <3>1, <3>2, <3>4 DEF Hits
  <2> QED
    BY <1>3, <2>1, <2>2 DEF Listed
<1>4. ASSUME NEW k \in 1..n, Hits(t, c, k) PROVE c \in Listed(t)
  <2>1. CASE c = t[k]
    BY <1>1, <2>1 DEF Listed
  <2>2. CASE k \in 2..n - 1 /\ t[k] = Minus /\ c > t[k - 1] /\ c < t[k + 1]
    <3>1. t[k - 1] \in Nat /\ t[k + 1] \in Nat
      BY <1>1, <1>2, <2>2
    <3>2. t[k - 1] <= c /\ c <= t[k + 1]
      BY <1>1, <2>2, <3>1
    <3> QED
      BY <2>2, <3>2 DEF Listed
  <2> QED
    BY <1>4, <2>1, <2>2 DEF Hits
<1> QED
  BY <1>3, <1>4

(* A bracket expression whose set is plain accepts what it lists.          *)
LEMMA CharsAccept ==
  ASSUME NEW arg \in Text, Plain(arg)
  PROVE  {c \in Byte : vm_chars(arg, c)} = BracketSet(arg)
PROOF
<1> DEFINE n == Len(arg)
<1>1. n \in Nat /\ DOMAIN arg = 1..n /\ arg \in Seq(Nat)
  <2>1. Byte \ {Nul} \subseteq Nat
    BY ExprsAssumption
  <2>2. arg \in Seq(Nat)
    BY <2>1, SeqMonotonic DEF Text
  <2> QED
    BY <2>2
<1>2. \A k \in 1..n : arg[k] # FNMATCH_ESCAPE
  BY <1>1 DEF Plain
<1>3. ASSUME NEW c \in Byte
      PROVE  vm_chars(arg, c) =
               IF Negated(arg) THEN IF \E k \in 2..n : Hits(arg, c, k) THEN FALSE ELSE TRUE
               ELSE IF \E k \in 1..n : Hits(arg, c, k) THEN TRUE ELSE FALSE
  <2>1. PICK accepts : /\ vm_chars(arg, c) = accepts[IF Negated(arg) THEN 1 ELSE 0]
                       /\ \A i \in 0..n + 1 : accepts[i] = Accepts(accepts, arg, c, i)
    BY <1>1, AcceptsFacts
  <2>2. \A i \in 0..n + 1 :
           accepts[i] = IF \E k \in i + 1..n : Hits(arg, c, k) THEN ~Negated(arg) ELSE Negated(arg)
    BY <1>1, <1>2, <2>1, AcceptsHits
  <2>3. 0 \in 0..n + 1 /\ 1 \in 0..n + 1 /\ 0 + 1 = 1 /\ 1 + 1 = 2
    BY <1>1
  <2>4. /\ accepts[0] = IF \E k \in 1..n : Hits(arg, c, k) THEN ~Negated(arg) ELSE Negated(arg)
        /\ accepts[1] = IF \E k \in 2..n : Hits(arg, c, k) THEN ~Negated(arg) ELSE Negated(arg)
    BY <2>2, <2>3
  <2>5. CASE Negated(arg)
    BY <2>1, <2>4, <2>5
  <2>6. CASE ~Negated(arg)
    <3>1. Negated(arg) = FALSE
      BY <2>6 DEF Negated
    <3>2. accepts[0] = IF \E k \in 1..n : Hits(arg, c, k) THEN TRUE ELSE FALSE
      BY <2>4, <3>1
    <3> QED
      BY <2>1, <2>6, <3>2
  <2> QED
    BY <2>5, <2>6
<1>4. CASE ~Negated(arg)
  <2>1. BracketSet(arg) = Listed(arg)
    <3>1. CASE arg = <<>>
      BY <3>1 DEF BracketSet
    <3>2. CASE arg # <<>>
      <4>1. Head(arg) = arg[1]
        BY <1>1, <3>2
      <4> QED
        BY <1>4, <3>2, <4>1 DEF Negated, BracketSet
    <3> QED
      BY <3>1, <3>2
  <2>2. \A c \in Byte : vm_chars(arg, c) <=> c \in Listed(arg)
    BY <1>3, <1>4, ListedHits
  <2> QED
    BY <2>1, <2>2 DEF Listed
<1>5. CASE Negated(arg)
  <2> DEFINE t == Tail(arg)
  <2>1. arg # <<>> /\ arg[1] = FNMATCH_CHARS_NEGATE /\ n > 0
    BY <1>1, <1>5 DEF Negated
  <2>2. Head(arg) = arg[1] /\ Len(t) = n - 1 /\ t \in Text /\ \A k \in 1..n - 1 : t[k] = arg[k + 1]
    BY <1>1, <2>1 DEF Text
  <2> HIDE DEF t
  <2>3. BracketSet(arg) = Byte \ Listed(t)
    BY <2>1, <2>2 DEF BracketSet, t
  <2>4. n > 1 => arg[2] # Minus
    <3> SUFFICES ASSUME n > 1, arg[2] = Minus PROVE FALSE
      OBVIOUS
    <3> DEFINE u == <<FNMATCH_CHARS_NEGATE, Minus>>
    <3>1. u \in Seq(Nat) /\ Len(u) = 2 /\ u[1] = FNMATCH_CHARS_NEGATE /\ u[2] = Minus
      BY DEF FNMATCH_CHARS_NEGATE, Minus
    <3>2. SubSeq(arg, 1, 2) \in Seq(Nat) /\ Len(SubSeq(arg, 1, 2)) = 2
          /\ SubSeq(arg, 1, 2)[1] = arg[1] /\ SubSeq(arg, 1, 2)[2] = arg[2]
      BY <1>1
    <3> HIDE DEF u
    <3>3. SubSeq(arg, 1, 2) = u
      BY <2>1, <3>1, <3>2, SeqEqual
    <3>4. IsPrefix(u, arg)
      BY <1>1, <3>1, <3>3 DEF IsPrefix
    <3> QED
      BY <3>4 DEF Plain, u
  <2>5. ASSUME NEW c \in Byte
        PROVE  (\E k \in 2..n : Hits(arg, c, k)) <=> (\E k \in 1..n - 1 : Hits(t, c, k))
    <3>1. ASSUME NEW k \in 1..n - 1 PROVE Hits(arg, c, k + 1) <=> Hits(t, c, k)
      <4>1. t[k] = arg[k + 1]
        BY <2>2
      <4>2. CASE k \in 2..(n - 1) - 1
        <5>1. k - 1 \in 1..n - 1 /\ k + 1 \in 1..n - 1 /\ (k + 1) - 1 = (k - 1) + 1
              /\ k + 1 \in 2..n - 1
          BY <1>1, <4>2
        <5>2. t[k - 1] = arg[(k + 1) - 1] /\ t[k + 1] = arg[(k + 1) + 1]
          BY <2>2, <5>1
        <5> QED
          BY <2>2, <4>1, <4>2, <5>1, <5>2 DEF Hits
      <4>3. CASE k = 1
        <5>1. k + 1 = 2 /\ n > 1 /\ k \notin 2..(n - 1) - 1
          BY <1>1, <4>3
        <5> QED
          BY <2>2, <2>4, <4>1, <5>1 DEF Hits
      <4>4. CASE k = n - 1
        <5>1. k \notin 2..(n - 1) - 1 /\ k + 1 \notin 2..n - 1
          BY <1>1, <4>4
        <5> QED
          BY <2>2, <4>1, <5>1 DEF Hits
      <4>5. k = 1 \/ k = n - 1 \/ k \in 2..(n - 1) - 1
        <5> HIDE DEF n
        <5>1. k \in Int /\ n \in Int /\ 1 <= k /\ k <= n - 1
          BY <1>1
        <5> QED
          BY <5>1
      <4> QED
        BY <4>2, <4>3, <4>4, <4>5
    <3>2. \A k \in 2..n : k - 1 \in 1..n - 1 /\ (k - 1) + 1 = k
      BY <1>1
    <3>3. \A k \in 1..n - 1 : k + 1 \in 2..n
      BY <1>1
    <3>4. ASSUME NEW k \in 2..n, Hits(arg, c, k) PROVE \E j \in 1..n - 1 : Hits(t, c, j)
      <4> DEFINE j == k - 1
      <4>1. j \in 1..n - 1 /\ j + 1 = k
        BY <3>2
      <4> HIDE DEF j
      <4>2. Hits(t, c, j)
        BY <3>1, <3>4, <4>1
      <4> QED
        BY <4>1, <4>2
    <3>5. ASSUME NEW k \in 1..n - 1, Hits(t, c, k) PROVE \E j \in 2..n : Hits(arg, c, j)
      BY <3>1, <3>3, <3>5
    <3> QED
      BY <3>4, <3>5
  <2>6. \A c \in Byte : vm_chars(arg, c) <=> c \notin Listed(t)
    BY <1>3, <1>5, <2>2, <2>5, ListedHits
  <2> QED
    BY <2>3, <2>6
<1> QED
  BY <1>4, <1>5

-----------------------------------------------------------------------------
(* Which bracket closes, and what is between the brackets.                 *)

(* The first bracket that closes is the closing one.                       *)
LEMMA ClosingIs ==
  ASSUME NEW s \in Text, NEW i \in Nat, NEW j \in Nat, i < j, Closes(s, i, j),
         \A k \in i + 1..j - 1 : ~Closes(s, i, k)
  PROVE  IsClosed(s, i) /\ Closing(s, i) = j /\ j < Len(s)
PROOF
<1>1. Len(s) \in Nat
  BY DEF Text
<1>2. j < Len(s)
  <2>1. Char(s, j) # Nul
    BY DEF Closes, FNMATCH_CHARS_END, Nul
  <2> QED
    BY <2>1, CharFacts
<1>3. j \in i + 1..Len(s)
  BY <1>1, <1>2
<1> DEFINE P(x) == x \in i + 1..Len(s) /\ Closes(s, i, x) /\ \A k \in i + 1..x - 1 : ~Closes(s, i, k)
<1>4. P(j)
  BY <1>3
<1>5. ASSUME NEW x, P(x) PROVE x = j
  <2>1. x \in Nat /\ x \in i + 1..Len(s)
    BY <1>5
  <2>2. ~(x < j)
    <3> SUFFICES ASSUME x < j PROVE FALSE
      OBVIOUS
    <3>1. x \in i + 1..j - 1
      BY <2>1
    <3> QED
      BY <1>5, <3>1
  <2>3. ~(j < x)
    <3> SUFFICES ASSUME j < x PROVE FALSE
      OBVIOUS
    <3>1. j \in i + 1..x - 1
      BY <2>1
    <3> QED
      BY <1>5, <3>1
  <2> QED
    BY <2>1, <2>2, <2>3
<1>6. Closing(s, i) = CHOOSE x \in i + 1..Len(s) :
                        Closes(s, i, x) /\ \A k \in i + 1..x - 1 : ~Closes(s, i, k)
  BY DEF Closing
<1> DEFINE c == CHOOSE x \in i + 1..Len(s) :
                  Closes(s, i, x) /\ \A k \in i + 1..x - 1 : ~Closes(s, i, k)
<1>7. P(c)
  BY <1>4
<1> HIDE DEF c, P
<1>8. c = j
  BY <1>5, <1>7
<1>9. IsClosed(s, i)
  BY <1>3 DEF IsClosed
<1> QED
  BY <1>2, <1>6, <1>8, <1>9 DEF c

(* A bracket that is closed has a closing one.                             *)
LEMMA ClosingFacts ==
  ASSUME NEW s \in Text, NEW i \in Nat, IsClosed(s, i)
  PROVE  Closing(s, i) \in Nat /\ i < Closing(s, i) /\ Closing(s, i) < Len(s)
PROOF
<1> DEFINE T == {k \in i + 1..Len(s) : Closes(s, i, k)}
<1>1. T \subseteq Nat /\ T # {}
  BY DEF IsClosed
<1>2. PICK j \in T : \A k \in T : j <= k
  BY <1>1, LeastNumber
<1>3. j \in Nat /\ i < j /\ Closes(s, i, j) /\ j <= Len(s) /\ Len(s) \in Nat
  BY DEF Text
<1>4. ASSUME NEW k \in i + 1..j - 1, Closes(s, i, k) PROVE FALSE
  <2>1. k \in i + 1..Len(s) /\ k < j /\ k \in Nat /\ j \in Nat
    BY <1>3
  <2>2. k \in T
    BY <1>4, <2>1
  <2>3. j <= k
    BY <1>2, <2>2
  <2> QED
    BY <2>1, <2>3
<1>5. Closing(s, i) = j /\ j < Len(s)
  BY <1>3, <1>4, ClosingIs
<1> QED
  BY <1>3, <1>5

Contained(from, s, j, k) ==
  IF k >= j THEN <<>>
  ELSE IF Char(s, k) = FNMATCH_ESCAPE /\ Char(s, k + 1) \in CharsEscaped
    THEN <<Char(s, k + 1)>> \o from[k + 2]
  ELSE <<Char(s, k)>> \o from[k + 1]

LEMMA ContentExists ==
  ASSUME NEW s \in Text, NEW i \in Nat, NEW j \in Nat
  PROVE  \E f : f = [k \in i + 1..j + 1 |-> Contained(f, s, j, k)]
PROOF
<1> DEFINE D == i + 1..j + 1
           V == Seq(Nat)
           rank == [k \in D |-> (j + 1) - k]
           B == [f \in [D -> V] |-> [k \in D |-> Contained(f, s, j, k)]]
<1>1. \A k \in D : k \in Nat /\ (k < j => k + 1 \in D /\ k + 2 \in D)
  OBVIOUS
<1>2. \A f \in [D -> V] : \A k \in D : Contained(f, s, j, k) \in V
  <2> SUFFICES ASSUME NEW f \in [D -> V], NEW k \in D PROVE Contained(f, s, j, k) \in V
    OBVIOUS
  <2>1. CASE k >= j
    BY <2>1 DEF Contained
  <2>2. CASE ~(k >= j)
    <3>1. k + 1 \in D /\ k + 2 \in D /\ k \in Nat /\ k + 1 \in Nat
      BY <1>1, <2>2
    <3>2. f[k + 1] \in V /\ f[k + 2] \in V /\ Char(s, k) \in Nat /\ Char(s, k + 1) \in Nat
      BY <3>1, CharFacts
    <3>3. <<Char(s, k)>> \o f[k + 1] \in V /\ <<Char(s, k + 1)>> \o f[k + 2] \in V
      BY <3>2
    <3> QED
      BY <2>2, <3>3 DEF Contained
  <2> QED
    BY <2>1, <2>2
<1>3. \A f, g \in [D -> V] : \A k \in D :
        (\A l \in D : rank[l] < rank[k] => f[l] = g[l]) => B[f][k] = B[g][k]
  <2> SUFFICES ASSUME NEW f \in [D -> V], NEW g \in [D -> V], NEW k \in D,
                      \A l \in D : rank[l] < rank[k] => f[l] = g[l]
               PROVE  Contained(f, s, j, k) = Contained(g, s, j, k)
    OBVIOUS
  <2>1. CASE k >= j
    BY <2>1 DEF Contained
  <2>2. CASE ~(k >= j)
    <3>1. k + 1 \in D /\ k + 2 \in D /\ rank[k + 1] < rank[k] /\ rank[k + 2] < rank[k]
      BY <1>1, <2>2
    <3>2. f[k + 1] = g[k + 1] /\ f[k + 2] = g[k + 2]
      BY <3>1
    <3> QED
      BY <2>2, <3>2 DEF Contained
  <2> QED
    BY <2>1, <2>2
<1>4. rank \in [D -> Nat] /\ j + 1 \in Nat /\ \A k \in D : rank[k] < j + 1
  OBVIOUS
<1>5. \A f \in [D -> V] : B[f] = [k \in D |-> Contained(f, s, j, k)]
  OBVIOUS
<1>6. B \in [[D -> V] -> [D -> V]] /\ V # {}
  <2>1. <<>> \in V
    OBVIOUS
  <2> QED
    BY <1>2, <2>1
<1>7. \E f \in [D -> V] : f = B[f]
  <2> HIDE DEF D, V, rank, B
  <2>1. Computes(B, D, V, rank, j + 1)
    BY <1>3, <1>4, <1>6 DEF Computes
  <2> QED
    BY <2>1, Recursion
<1> QED
  BY <1>5, <1>7

(* Content is the value at the first byte between the brackets.            *)
LEMMA ContentFacts ==
  ASSUME NEW s \in Text, NEW i \in Nat, NEW j \in Nat
  PROVE  \E f : Content(s, i, j) = f[i + 1]
                /\ \A k \in i + 1..j + 1 : f[k] = Contained(f, s, j, k)
PROOF
<1> DEFINE f == CHOOSE h : h = [k \in i + 1..j + 1 |-> Contained(h, s, j, k)]
<1>1. Content(s, i, j) = f[i + 1]
  BY DEF Content, Contained
<1>2. f = [k \in i + 1..j + 1 |-> Contained(f, s, j, k)]
  BY ContentExists
<1> HIDE DEF f
<1> QED
  BY <1>1, <1>2

-----------------------------------------------------------------------------
(* What the compiler takes a pattern to say: what Meaning(s) says, except  *)
(* that a backslash in front of a byte outside FixedEscaped stands for     *)
(* itself.                                                                 *)

Said(from, s, i) ==
  IF i = Len(s)                      THEN <<Element("END", <<>>, {})>>
  ELSE IF Char(s, i) = FNMATCH_SEP THEN <<Element("SEP", <<>>, {})>> \o from[i + 1]
  ELSE IF Char(s, i) = FNMATCH_ONE THEN <<Element("ONE", <<>>, {})>> \o from[i + 1]
  ELSE IF Char(s, i) = FNMATCH_ANY /\ Char(s, i + 1) = FNMATCH_DEEP
    THEN <<Element("DEEP", <<>>, {})>> \o from[i + 2]
  ELSE IF Char(s, i) = FNMATCH_ANY THEN <<Element("ANY", <<>>, {})>> \o from[i + 1]
  ELSE IF Char(s, i) = FNMATCH_CHARS_START /\ IsClosed(s, i)
    THEN <<Element("CHARS", <<>>, IF Plain(Bracket(s, i)) THEN BracketSet(Bracket(s, i)) ELSE {})>>
         \o from[Closing(s, i) + 1]
  ELSE IF Char(s, i) = FNMATCH_ESCAPE /\ Char(s, i + 1) \in FixedEscaped
    THEN <<Literal(Char(s, i + 1))>> \o from[i + 2]
  ELSE <<Literal(Char(s, i))>> \o from[i + 1]

Elements(s) == CHOOSE from : from = [i \in 0..Len(s) |-> Said(from, s, i)]

ElementsOfExpr == Elements(expr)[0]

Told == Seq(Programs!Instruction)

LEMMA ToldJoin ==
  ASSUME NEW p \in Told, NEW q \in Told
  PROVE  /\ p \o q \in Told /\ Len(p \o q) = Len(p) + Len(q)
         /\ \A k \in 1..Len(p) + Len(q) : (p \o q)[k] = IF k <= Len(p) THEN p[k] ELSE q[k - Len(p)]
         /\ \A r \in Told : (p \o q) \o r = p \o (q \o r)
PROOF
  BY SMTT(30), ConcatProperties, ConcatAssociative DEF Told

(* Elements are instructions as FnmatchProgram has them.                   *)
LEMMA ElementTypes ==
  /\ \A op \in {"FIXED", "CHARS", "ONE", "ANY", "DEEP", "SEP", "END"} :
       \A set \in SUBSET Byte : Element(op, <<>>, set) \in Programs!Instruction
  /\ \A c \in Byte : Literal(c) \in Programs!Instruction
  /\ \A content : BracketSet(content) \in SUBSET Byte
PROOF
<1>1. ASSUME NEW op \in {"FIXED", "CHARS", "ONE", "ANY", "DEEP", "SEP", "END"},
             NEW str \in Seq(Byte), NEW set \in SUBSET Byte
      PROVE  Element(op, str, set) \in Programs!Instruction
  BY DEF Element, Programs!Instruction, Programs!Opcode
<1>2. \A c \in Byte : <<c>> \in Seq(Byte) /\ {} \in SUBSET Byte
  OBVIOUS
<1>3. <<>> \in Seq(Byte)
  OBVIOUS
<1>4. \A content : BracketSet(content) \in SUBSET Byte
  BY DEF BracketSet, Listed
<1> QED
  BY <1>1, <1>2, <1>3, <1>4 DEF Literal

(* Before its end, a pattern says something and then what it says from     *)
(* further on.                                                             *)
LEMMA SaidSplits ==
  ASSUME NEW s \in Text, NEW i \in 0..Len(s), i # Len(s)
  PROVE  \E h \in Programs!Instruction : \E n \in i + 1..Len(s) :
           \A from : Said(from, s, i) = <<h>> \o from[n]
PROOF
<1> DEFINE Splits(h, n) == /\ h \in Programs!Instruction /\ n \in i + 1..Len(s)
                           /\ \A from : Said(from, s, i) = <<h>> \o from[n]
<1>1. Len(s) \in Nat /\ i \in Nat /\ i < Len(s) /\ i + 1 \in i + 1..Len(s) /\ i + 1 \in Nat
  BY DEF Text
<1>2. Char(s, i) \in Byte
  <2>1. i + 1 \in 1..Len(s)
    BY <1>1
  <2> QED
    BY <1>1, <2>1 DEF Char, Text
<1>3. ASSUME Char(s, i + 1) # Nul
      PROVE  i + 2 \in i + 1..Len(s) /\ Char(s, i + 1) \in Byte
  BY <1>1, <1>3, CharFacts
<1>4. {} \in SUBSET Byte
  OBVIOUS
<1>5. FNMATCH_SEP # FNMATCH_ONE /\ FNMATCH_DEEP # Nul /\ Nul \notin FixedEscaped
  BY DEF FNMATCH_SEP, FNMATCH_ONE, FNMATCH_DEEP, FNMATCH_ANY, Nul, FixedEscaped,
         FNMATCH_CHARS_START, FNMATCH_ESCAPE
<1>6. CASE Char(s, i) = FNMATCH_SEP
  <2>1. Splits(Element("SEP", <<>>, {}), i + 1)
    BY <1>1, <1>4, <1>6, ElementTypes DEF Said
  <2> QED
    BY <2>1
<1>7. CASE Char(s, i) # FNMATCH_SEP /\ Char(s, i) = FNMATCH_ONE
  <2>1. Splits(Element("ONE", <<>>, {}), i + 1)
    BY <1>1, <1>4, <1>7, ElementTypes DEF Said
  <2> QED
    BY <2>1
<1> DEFINE Other == Char(s, i) # FNMATCH_SEP /\ Char(s, i) # FNMATCH_ONE
           Deep == Char(s, i) = FNMATCH_ANY /\ Char(s, i + 1) = FNMATCH_DEEP
           Open == Char(s, i) = FNMATCH_CHARS_START /\ IsClosed(s, i)
           Escape == Char(s, i) = FNMATCH_ESCAPE /\ Char(s, i + 1) \in FixedEscaped
<1>8. CASE Other /\ Deep
  <2>1. Splits(Element("DEEP", <<>>, {}), i + 2)
    BY <1>1, <1>3, <1>4, <1>5, <1>8, ElementTypes DEF Said
  <2> QED
    BY <2>1
<1>9. CASE Other /\ ~Deep /\ Char(s, i) = FNMATCH_ANY
  <2>1. Splits(Element("ANY", <<>>, {}), i + 1)
    BY <1>1, <1>4, <1>9, ElementTypes DEF Said
  <2> QED
    BY <2>1
<1>10. CASE Other /\ Char(s, i) # FNMATCH_ANY /\ Open
  <2> DEFINE set == IF Plain(Bracket(s, i)) THEN BracketSet(Bracket(s, i)) ELSE {}
             n == Closing(s, i) + 1
  <2>1. set \in SUBSET Byte
    BY <1>4, ElementTypes
  <2>2. n \in i + 1..Len(s)
    BY <1>1, <1>10, ClosingFacts
  <2>3. Element("CHARS", <<>>, set) \in Programs!Instruction
    BY <2>1, ElementTypes
  <2>4. \A from : Said(from, s, i) = <<Element("CHARS", <<>>, set)>> \o from[n]
    BY <1>1, <1>10 DEF Said
  <2> QED
    BY <2>2, <2>3, <2>4
<1>11. CASE Other /\ Char(s, i) # FNMATCH_ANY /\ ~Open /\ Escape
  <2>1. Splits(Literal(Char(s, i + 1)), i + 2)
    BY <1>1, <1>3, <1>5, <1>11, ElementTypes DEF Said
  <2> QED
    BY <2>1
<1>12. CASE Other /\ Char(s, i) # FNMATCH_ANY /\ ~Open /\ ~Escape
  <2>1. Splits(Literal(Char(s, i)), i + 1)
    BY <1>1, <1>2, <1>12, ElementTypes DEF Said
  <2> QED
    BY <2>1
<1> QED
  BY <1>6, <1>7, <1>8, <1>9, <1>10, <1>11, <1>12

LEMMA ElementsExist ==
  ASSUME NEW s \in Text
  PROVE  \E f : f = [i \in 0..Len(s) |-> Said(f, s, i)]
PROOF
<1> DEFINE n == Len(s)
           D == 0..n
           V == Told
           rank == [i \in D |-> n - i]
           B == [f \in [D -> V] |-> [i \in D |-> Said(f, s, i)]]
<1>1. n \in Nat
  BY DEF Text
<1> HIDE DEF n
<1>2. \A f \in [D -> V] : \A i \in D : Said(f, s, i) \in V
  <2> SUFFICES ASSUME NEW f \in [D -> V], NEW i \in D PROVE Said(f, s, i) \in V
    OBVIOUS
  <2>1. CASE i = n
    <3>1. Said(f, s, i) = <<Element("END", <<>>, {})>>
      BY <2>1 DEF Said, n
    <3>2. Element("END", <<>>, {}) \in Programs!Instruction
      BY ElementTypes
    <3> QED
      BY <3>1, <3>2 DEF Told
  <2>2. CASE i # n
    <3>1. PICK h \in Programs!Instruction, m \in i + 1..n : \A from : Said(from, s, i) = <<h>> \o from[m]
      BY <2>2, SaidSplits DEF n
    <3>2. m \in D
      BY <1>1
    <3>3. <<h>> \o f[m] \in V
      BY <3>2 DEF Told
    <3> QED
      BY <3>1, <3>3
  <2> QED
    BY <2>1, <2>2
<1>3. \A f, g \in [D -> V] : \A i \in D :
        (\A j \in D : rank[j] < rank[i] => f[j] = g[j]) => B[f][i] = B[g][i]
  <2> SUFFICES ASSUME NEW f \in [D -> V], NEW g \in [D -> V], NEW i \in D,
                      \A j \in D : rank[j] < rank[i] => f[j] = g[j]
               PROVE  Said(f, s, i) = Said(g, s, i)
    OBVIOUS
  <2>1. CASE i = n
    BY <2>1 DEF Said, n
  <2>2. CASE i # n
    <3>1. PICK h \in Programs!Instruction, m \in i + 1..n : \A from : Said(from, s, i) = <<h>> \o from[m]
      BY <2>2, SaidSplits DEF n
    <3>2. m \in D /\ rank[m] < rank[i]
      BY <1>1
    <3>3. f[m] = g[m]
      BY <3>2
    <3>4. Said(f, s, i) = <<h>> \o f[m] /\ Said(g, s, i) = <<h>> \o g[m]
      BY <3>1
    <3> QED
      BY <3>3, <3>4
  <2> QED
    BY <2>1, <2>2
<1>4. rank \in [D -> Nat] /\ n + 1 \in Nat /\ \A i \in D : rank[i] < n + 1
  BY <1>1
<1>5. \A f \in [D -> V] : B[f] = [i \in D |-> Said(f, s, i)]
  OBVIOUS
<1>6. B \in [[D -> V] -> [D -> V]] /\ V # {}
  <2>1. <<>> \in V
    BY DEF Told
  <2> QED
    BY <1>2, <2>1
<1>7. \E f \in [D -> V] : f = B[f]
  <2> HIDE DEF D, V, rank, B
  <2>1. Computes(B, D, V, rank, n + 1)
    BY <1>3, <1>4, <1>6 DEF Computes
  <2> QED
    BY <2>1, Recursion
<1> QED
  BY <1>5, <1>7 DEF n

(* Elements(s) is that function, and gives sequences of instructions.      *)
LEMMA ElementsFacts ==
  ASSUME NEW s \in Text
  PROVE  \A i \in 0..Len(s) : Elements(s)[i] = Said(Elements(s), s, i) /\ Elements(s)[i] \in Told
PROOF
<1> DEFINE f == CHOOSE h : h = [i \in 0..Len(s) |-> Said(h, s, i)]
<1>1. Elements(s) = f
  BY DEF Elements
<1>2. f = [i \in 0..Len(s) |-> Said(f, s, i)]
  BY ElementsExist
<1> HIDE DEF f
<1> DEFINE n == Len(s)
           T == {i \in 0..n : f[i] \in Told}
<1>3. n \in Nat /\ \A i \in 0..n : f[i] = Said(f, s, i)
  BY <1>2 DEF Text
<1>4. ASSUME NEW i \in 0..n, \A j \in i + 1..n : j \in T
      PROVE  i \in T
  <2>1. CASE i = n
    <3>1. Said(f, s, i) = <<Element("END", <<>>, {})>>
      BY <2>1 DEF Said
    <3>2. Element("END", <<>>, {}) \in Programs!Instruction
      BY ElementTypes
    <3>3. <<Element("END", <<>>, {})>> \in Told
      BY <3>2 DEF Told
    <3> QED
      BY <1>3, <3>1, <3>3
  <2>2. CASE i # n
    <3>1. PICK h \in Programs!Instruction, m \in i + 1..n : \A from : Said(from, s, i) = <<h>> \o from[m]
      BY <2>2, SaidSplits
    <3>2. f[m] \in Told
      BY <1>4
    <3>3. f[i] = <<h>> \o f[m]
      BY <1>3, <3>1
    <3>4. <<h>> \o f[m] \in Told
      BY <3>2 DEF Told
    <3> QED
      BY <3>3, <3>4
  <2> QED
    BY <2>1, <2>2
<1>5. 0..n \subseteq T
  <2> HIDE DEF T
  <2> QED
    BY <1>3, <1>4, AllDownward
<1> QED
  BY <1>1, <1>3, <1>5

-----------------------------------------------------------------------------
(* What a pattern is documented to say: the recursive function of Meaning. *)

Meant(from, s, i) ==
  IF i = Len(s) THEN [says |-> <<Element("END", <<>>, {})>>, known |-> TRUE]
  ELSE IF Char(s, i) = FNMATCH_SEP THEN Then(Element("SEP", <<>>, {}), from[i + 1], TRUE)
  ELSE IF Char(s, i) = FNMATCH_ONE THEN Then(Element("ONE", <<>>, {}), from[i + 1], TRUE)
  ELSE IF Char(s, i) = FNMATCH_ANY /\ Char(s, i + 1) = FNMATCH_DEEP
    THEN Then(Element("DEEP", <<>>, {}), from[i + 2], TRUE)
  ELSE IF Char(s, i) = FNMATCH_ANY THEN Then(Element("ANY", <<>>, {}), from[i + 1], TRUE)
  ELSE IF Char(s, i) = FNMATCH_CHARS_START /\ IsClosed(s, i)
    THEN Then(Element("CHARS", <<>>,
                IF Plain(Bracket(s, i)) THEN BracketSet(Bracket(s, i)) ELSE {}),
              from[Closing(s, i) + 1],
              Bracket(s, i) \notin {<<>>, <<FNMATCH_CHARS_NEGATE>>})
  ELSE IF Char(s, i) = FNMATCH_ESCAPE /\ i + 1 < Len(s)
    THEN Then(Literal(Char(s, i + 1)), from[i + 2], Char(s, i + 1) \in FixedEscaped)
  ELSE IF Char(s, i) = FNMATCH_ESCAPE THEN Then(Element("CHARS", <<>>, {}), from[i + 1], FALSE)
  ELSE Then(Literal(Char(s, i)), from[i + 1], TRUE)

Meanings == [says : Told, known : BOOLEAN]

LEMMA ThenType ==
  ASSUME NEW h \in Programs!Instruction, NEW r \in Meanings, NEW known \in BOOLEAN
  PROVE  /\ Then(h, r, known) \in Meanings
         /\ Then(h, r, known).known <=> known /\ r.known
PROOF
<1>1. r.says \in Told /\ r.known \in BOOLEAN
  BY DEF Meanings
<1>2. <<h>> \o r.says \in Told
  BY <1>1 DEF Told
<1> QED
  BY <1>1, <1>2 DEF Then, Meanings

(* Before its end, a pattern means something and then what it means from   *)
(* further on, and where it is known the compiler takes it for the same.   *)
LEMMA MeantSplits ==
  ASSUME NEW s \in Text, NEW i \in 0..Len(s), i # Len(s)
  PROVE  \E h \in Programs!Instruction, n \in i + 1..Len(s), known \in BOOLEAN :
           \A from : /\ Meant(from, s, i) = Then(h, from[n], known)
                     /\ known => \A said : Said(said, s, i) = <<h>> \o said[n]
PROOF
<1> DEFINE Splits(h, n, known) ==
             /\ h \in Programs!Instruction /\ n \in i + 1..Len(s) /\ known \in BOOLEAN
             /\ \A from : Meant(from, s, i) = Then(h, from[n], known)
             /\ known => \A said : Said(said, s, i) = <<h>> \o said[n]
<1>1. Len(s) \in Nat /\ i \in Nat /\ i < Len(s) /\ i + 1 \in i + 1..Len(s) /\ i + 1 \in Nat
  BY DEF Text
<1>2. Char(s, i) \in Byte
  <2>1. i + 1 \in 1..Len(s)
    BY <1>1
  <2> QED
    BY <1>1, <2>1 DEF Char, Text
<1>3. ASSUME Char(s, i + 1) # Nul
      PROVE  i + 2 \in i + 1..Len(s) /\ Char(s, i + 1) \in Byte
  BY <1>1, <1>3, CharFacts
<1>4. ASSUME i + 1 < Len(s)
      PROVE  i + 2 \in i + 1..Len(s) /\ Char(s, i + 1) \in Byte
  <2>1. i + 2 \in 1..Len(s) /\ (i + 1) + 1 = i + 2 /\ i + 2 \in i + 1..Len(s)
    BY <1>1, <1>4
  <2> QED
    BY <1>1, <1>4, <2>1 DEF Char, Text
<1>5. {} \in SUBSET Byte
  OBVIOUS
<1>6. /\ FNMATCH_SEP # FNMATCH_ONE /\ FNMATCH_DEEP # Nul /\ Nul \notin FixedEscaped
      /\ FNMATCH_ESCAPE \notin {FNMATCH_SEP, FNMATCH_ONE, FNMATCH_ANY, FNMATCH_CHARS_START}
  BY DEF FNMATCH_SEP, FNMATCH_ONE, FNMATCH_DEEP, FNMATCH_ANY, Nul, FixedEscaped,
         FNMATCH_CHARS_START, FNMATCH_ESCAPE
<1> DEFINE Other == Char(s, i) # FNMATCH_SEP /\ Char(s, i) # FNMATCH_ONE
           Deep == Char(s, i) = FNMATCH_ANY /\ Char(s, i + 1) = FNMATCH_DEEP
           Open == Char(s, i) = FNMATCH_CHARS_START /\ IsClosed(s, i)
<1>7. CASE Char(s, i) = FNMATCH_SEP
  <2>1. Splits(Element("SEP", <<>>, {}), i + 1, TRUE)
    BY <1>1, <1>5, <1>7, ElementTypes DEF Said, Meant
  <2> QED
    BY <2>1
<1>8. CASE Char(s, i) # FNMATCH_SEP /\ Char(s, i) = FNMATCH_ONE
  <2>1. Splits(Element("ONE", <<>>, {}), i + 1, TRUE)
    BY <1>1, <1>5, <1>8, ElementTypes DEF Said, Meant
  <2> QED
    BY <2>1
<1>9. CASE Other /\ Deep
  <2>1. Splits(Element("DEEP", <<>>, {}), i + 2, TRUE)
    BY <1>1, <1>3, <1>5, <1>6, <1>9, ElementTypes DEF Said, Meant
  <2> QED
    BY <2>1
<1>10. CASE Other /\ ~Deep /\ Char(s, i) = FNMATCH_ANY
  <2>1. Splits(Element("ANY", <<>>, {}), i + 1, TRUE)
    BY <1>1, <1>5, <1>10, ElementTypes DEF Said, Meant
  <2> QED
    BY <2>1
<1>11. CASE Other /\ Char(s, i) # FNMATCH_ANY /\ Open
  <2> DEFINE set == IF Plain(Bracket(s, i)) THEN BracketSet(Bracket(s, i)) ELSE {}
             n == Closing(s, i) + 1
             known == Bracket(s, i) \notin {<<>>, <<FNMATCH_CHARS_NEGATE>>}
  <2>1. set \in SUBSET Byte
    BY <1>5, ElementTypes
  <2>2. n \in i + 1..Len(s)
    BY <1>1, <1>11, ClosingFacts
  <2>3. Element("CHARS", <<>>, set) \in Programs!Instruction
    BY <2>1, ElementTypes
  <2>4. \A said : Said(said, s, i) = <<Element("CHARS", <<>>, set)>> \o said[n]
    BY <1>1, <1>11 DEF Said
  <2>5. \A from : Meant(from, s, i) = Then(Element("CHARS", <<>>, set), from[n], known)
    BY <1>1, <1>11 DEF Meant
  <2>6. known \in BOOLEAN
    OBVIOUS
  <2> HIDE DEF set, n, known
  <2> QED
    BY <2>2, <2>3, <2>4, <2>5, <2>6
<1>12. CASE Other /\ ~Open /\ Char(s, i) # FNMATCH_ANY /\ Char(s, i) # FNMATCH_ESCAPE
  <2>1. Splits(Literal(Char(s, i)), i + 1, TRUE)
    BY <1>1, <1>2, <1>12, ElementTypes DEF Said, Meant
  <2> QED
    BY <2>1
<1>13. CASE Char(s, i) = FNMATCH_ESCAPE /\ i + 1 < Len(s)
  <2> DEFINE next == Char(s, i + 1)
  <2> DEFINE known == next \in FixedEscaped
  <2>1. Literal(next) \in Programs!Instruction /\ i + 2 \in i + 1..Len(s)
    BY <1>4, <1>13, ElementTypes
  <2>2. \A from : Meant(from, s, i) = Then(Literal(next), from[i + 2], known)
    BY <1>1, <1>6, <1>13 DEF Meant
  <2>3. known => \A said : Said(said, s, i) = <<Literal(next)>> \o said[i + 2]
    BY <1>1, <1>6, <1>13 DEF Said
  <2>4. known \in BOOLEAN
    OBVIOUS
  <2> HIDE DEF known
  <2>5. Splits(Literal(next), i + 2, known)
    BY <2>1, <2>2, <2>3, <2>4
  <2> QED
    BY <2>5
<1>14. CASE Char(s, i) = FNMATCH_ESCAPE /\ ~(i + 1 < Len(s))
  <2>1. Splits(Element("CHARS", <<>>, {}), i + 1, FALSE)
    BY <1>1, <1>5, <1>6, <1>14, ElementTypes DEF Meant
  <2> QED
    BY <2>1
<1> QED
  BY <1>7, <1>8, <1>9, <1>10, <1>11, <1>12, <1>13, <1>14

LEMMA MeaningExists ==
  ASSUME NEW s \in Text
  PROVE  \E f \in [0..Len(s) -> Meanings] : f = [i \in 0..Len(s) |-> Meant(f, s, i)]
PROOF
<1> DEFINE n == Len(s)
           D == 0..n
           V == Meanings
           rank == [i \in D |-> n - i]
           B == [f \in [D -> V] |-> [i \in D |-> Meant(f, s, i)]]
<1>1. n \in Nat
  BY DEF Text
<1> HIDE DEF n
<1>2. ASSUME NEW i \in D, i = n
      PROVE  \A f : Meant(f, s, i) = [says |-> <<Element("END", <<>>, {})>>, known |-> TRUE]
  BY <1>2 DEF Meant, n
<1>3. [says |-> <<Element("END", <<>>, {})>>, known |-> TRUE] \in V
  <2>1. Element("END", <<>>, {}) \in Programs!Instruction
    BY ElementTypes
  <2> QED
    BY <2>1 DEF Meanings, Told
<1>4. \A f \in [D -> V] : \A i \in D : Meant(f, s, i) \in V
  <2> SUFFICES ASSUME NEW f \in [D -> V], NEW i \in D PROVE Meant(f, s, i) \in V
    OBVIOUS
  <2>1. CASE i = n
    BY <1>2, <1>3, <2>1
  <2>2. CASE i # n
    <3>1. PICK h \in Programs!Instruction, m \in i + 1..n, known \in BOOLEAN :
                 \A from : Meant(from, s, i) = Then(h, from[m], known)
      BY <2>2, MeantSplits DEF n
    <3>2. m \in D /\ f[m] \in Meanings
      BY <1>1
    <3>3. Then(h, f[m], known) \in Meanings
      BY ONLY <3>2, ThenType, Zenon
    <3> QED
      BY <3>1, <3>3
  <2> QED
    BY <2>1, <2>2
<1>5. \A f, g \in [D -> V] : \A i \in D :
        (\A j \in D : rank[j] < rank[i] => f[j] = g[j]) => B[f][i] = B[g][i]
  <2> SUFFICES ASSUME NEW f \in [D -> V], NEW g \in [D -> V], NEW i \in D,
                      \A j \in D : rank[j] < rank[i] => f[j] = g[j]
               PROVE  Meant(f, s, i) = Meant(g, s, i)
    OBVIOUS
  <2>1. CASE i = n
    BY <1>2, <2>1
  <2>2. CASE i # n
    <3>1. PICK h \in Programs!Instruction, m \in i + 1..n, known \in BOOLEAN :
                 \A from : Meant(from, s, i) = Then(h, from[m], known)
      BY <2>2, MeantSplits DEF n
    <3>2. m \in D /\ rank[m] < rank[i]
      BY <1>1
    <3>3. f[m] = g[m]
      BY <3>2
    <3> QED
      BY <3>1, <3>3
  <2> QED
    BY <2>1, <2>2
<1>6. rank \in [D -> Nat] /\ n + 1 \in Nat /\ \A i \in D : rank[i] < n + 1
  BY <1>1
<1>7. \A f \in [D -> V] : B[f] = [i \in D |-> Meant(f, s, i)]
  OBVIOUS
<1>8. B \in [[D -> V] -> [D -> V]] /\ V # {}
  BY <1>3, <1>4
<1>9. \E f \in [D -> V] : f = B[f]
  <2> HIDE DEF D, V, rank, B
  <2>1. Computes(B, D, V, rank, n + 1)
    BY <1>5, <1>6, <1>8 DEF Computes
  <2> QED
    BY <2>1, Recursion
<1> QED
  BY <1>7, <1>9 DEF n

(* Meaning(s) is that function.                                            *)
LEMMA MeaningFacts ==
  ASSUME NEW s \in Text
  PROVE  \A i \in 0..Len(s) : Meaning(s)[i] = Meant(Meaning(s), s, i)
PROOF
<1> DEFINE f == CHOOSE h : h = [i \in 0..Len(s) |-> Meant(h, s, i)]
<1>1. Meaning(s) = f
  BY DEF Meaning, Meant
<1>2. f = [i \in 0..Len(s) |-> Meant(f, s, i)]
  BY MeaningExists
<1> HIDE DEF f
<1> QED
  BY <1>1, <1>2

(* The compiler takes the patterns it knows for what they mean.            *)
LEMMA KnownIsSaid ==
  ASSUME NEW s \in Text
  PROVE  Meaning(s)[0].known => Meaning(s)[0].says = Elements(s)[0]
PROOF
<1> DEFINE n == Len(s)
           f == Meaning(s)
           e == Elements(s)
           T == {i \in 0..n : f[i] \in Meanings /\ (f[i].known => f[i].says = e[i])}
<1>1. n \in Nat
  BY DEF Text
<1>2. \A i \in 0..n : f[i] = Meant(f, s, i) /\ e[i] = Said(e, s, i)
  BY MeaningFacts, ElementsFacts
<1>3. ASSUME NEW i \in 0..n, \A j \in i + 1..n : j \in T
      PROVE  i \in T
  <2> HIDE DEF f, e
  <2>1. CASE i = n
    <3>1. /\ Meant(f, s, i) = [says |-> <<Element("END", <<>>, {})>>, known |-> TRUE]
          /\ Said(e, s, i) = <<Element("END", <<>>, {})>>
      BY <2>1 DEF Meant, Said
    <3>2. Element("END", <<>>, {}) \in Programs!Instruction
      BY ElementTypes
    <3>3. <<Element("END", <<>>, {})>> \in Told
      BY <3>2 DEF Told
    <3>4. f[i] = [says |-> <<Element("END", <<>>, {})>>, known |-> TRUE]
          /\ e[i] = <<Element("END", <<>>, {})>>
      BY <1>2, <3>1
    <3>5. f[i] \in Meanings /\ f[i].says = e[i]
      BY <3>3, <3>4 DEF Meanings
    <3> QED
      BY <3>5
  <2>2. CASE i # n
    <3>1. PICK h \in Programs!Instruction, m \in i + 1..n, known \in BOOLEAN :
                 \A from : /\ Meant(from, s, i) = Then(h, from[m], known)
                           /\ known => \A said : Said(said, s, i) = <<h>> \o said[m]
      BY <2>2, MeantSplits
    <3>2. f[m] \in Meanings /\ (f[m].known => f[m].says = e[m])
      BY <1>3
    <3>3. f[i] = Then(h, f[m], known) /\ (known => e[i] = <<h>> \o e[m])
      BY <1>2, <3>1
    <3>4. f[m] \in Meanings
      BY <3>2
    <3> HIDE DEF T
    <3>5. Then(h, f[m], known) \in Meanings
      BY ONLY <3>4, ThenType, Zenon
    <3>6. Then(h, f[m], known).says = <<h>> \o f[m].says
      BY DEF Then
    <3>7. Then(h, f[m], known).known <=> known /\ f[m].known
      BY ONLY <3>4, ThenType, Zenon
    <3>8. f[i] \in Meanings /\ (f[i].known => f[i].says = e[i])
      BY <3>2, <3>3, <3>5, <3>6, <3>7
    <3> QED
      BY <3>8 DEF T
  <2> QED
    BY <2>1, <2>2
<1>4. 0..n \subseteq T
  <2> HIDE DEF T
  <2> QED
    BY <1>1, <1>3, AllDownward
<1>5. 0 \in 0..n
  BY <1>1
<1> QED
  BY <1>4, <1>5

-----------------------------------------------------------------------------
(* What a literal is read and written for.                                 *)

Literals(t) == [m \in DOMAIN t |-> Literal(t[m])]

LEMMA LiteralsType ==
  ASSUME NEW t \in Text
  PROVE  Literals(t) \in Told /\ Len(Literals(t)) = Len(t)
PROOF
<1>1. Len(t) \in Nat /\ DOMAIN t = 1..Len(t) /\ \A m \in 1..Len(t) : t[m] \in Byte
  BY DEF Text
<1>2. \A m \in 1..Len(t) : Literal(t[m]) \in Programs!Instruction
  BY <1>1, ElementTypes
<1>3. Literals(t) \in [1..Len(t) -> Programs!Instruction]
  BY <1>1, <1>2 DEF Literals
<1> QED
  BY <1>1, <1>3 DEF Told

(* A byte in front is a literal in front.                                  *)
LEMMA LiteralsJoin ==
  ASSUME NEW c \in Byte \ {Nul}, NEW t \in Text
  PROVE  Literals(<<c>> \o t) = <<Literal(c)>> \o Literals(t)
PROOF
<1> DEFINE u == <<c>> \o t
           h == <<Literal(c)>>
           n == Len(t)
<1>1. /\ u \in Text /\ Len(u) = 1 + n /\ n \in Nat /\ u[1] = c
      /\ \A m \in 1..n : u[m + 1] = t[m]
  BY DEF Text
<1>2. Literals(t) \in Told /\ Len(Literals(t)) = n /\ Literals(u) \in Told /\ Len(Literals(u)) = 1 + n
  BY <1>1, LiteralsType
<1>3. DOMAIN u = 1..1 + n /\ DOMAIN t = 1..n
  BY <1>1 DEF Text
<1> HIDE DEF u
<1>4. Literals(u)[1] = Literal(c)
  <2>1. 1 \in 1..1 + n
    BY <1>1
  <2> QED
    BY <1>1, <1>3, <2>1 DEF Literals
<1>5. ASSUME NEW m \in 1..n PROVE Literals(u)[m + 1] = Literals(t)[m]
  <2>1. m + 1 \in 1..1 + n
    BY <1>1
  <2> QED
    BY <1>1, <1>3, <2>1 DEF Literals
<1>6. h \in Told /\ Len(h) = 1 /\ h[1] = Literal(c)
  <2>1. Literal(c) \in Programs!Instruction
    BY ElementTypes
  <2> QED
    BY <2>1 DEF Told
<1> HIDE DEF h
<1> DEFINE v == h \o Literals(t)
<1>7. v \in Told /\ Len(v) = 1 + n /\ v[1] = h[1] /\ \A m \in 1..n : v[m + 1] = Literals(t)[m]
  <2> DEFINE l == Literals(t)
  <2>1. h \in Told /\ l \in Told /\ Len(h) = 1 /\ Len(l) = n /\ n \in Nat
    BY <1>1, <1>2, <1>6
  <2> HIDE DEF l, n
  <2>2. /\ h \o l \in Told /\ Len(h \o l) = 1 + n
        /\ \A k \in 1..1 + n : (h \o l)[k] = IF k <= 1 THEN h[k] ELSE l[k - 1]
    <3>1. /\ h \o l \in Told /\ Len(h \o l) = Len(h) + Len(l)
          /\ \A k \in 1..Len(h) + Len(l) : (h \o l)[k] = IF k <= Len(h) THEN h[k] ELSE l[k - Len(h)]
      BY <2>1, ToldJoin
    <3> QED
      BY <2>1, <3>1
  <2>3. 1 \in 1..1 + n /\ \A m \in 1..n : m + 1 \in 1..1 + n /\ ~(m + 1 <= 1) /\ (m + 1) - 1 = m
    BY <1>1
  <2>4. (h \o l)[1] = h[1] /\ \A m \in 1..n : (h \o l)[m + 1] = l[m]
    BY <2>2, <2>3
  <2> QED
    BY <2>2, <2>4 DEF v, l
<1> HIDE DEF v
<1>8. ASSUME NEW k \in 1..1 + n PROVE Literals(u)[k] = v[k]
  <2>1. CASE k = 1
    BY <1>4, <1>6, <1>7, <2>1
  <2>2. CASE k # 1
    <3> DEFINE m == k - 1
    <3>1. m \in 1..n /\ k = m + 1
      BY <1>1, <2>2
    <3> HIDE DEF m
    <3> QED
      BY <1>5, <1>7, <3>1
  <2> QED
    BY <2>1, <2>2
<1>9. Literals(u) = v
  BY <1>2, <1>7, <1>8, SeqEqual DEF Told
<1> QED
  BY <1>9 DEF u, v, h

(* No byte of s is a backslash.                                            *)
Bare(s) == FNMATCH_ESCAPE \notin {s[k] : k \in DOMAIN s}

(* What a scan from i on writes is what the pattern says there, and the    *)
(* scan reads as many bytes as it writes, and one more for each escape.    *)
Tells(s, start, i, cut) ==
  /\ start + cut.read <= Len(s)
  /\ Elements(s)[start + i] = Literals(cut.text) \o Elements(s)[start + cut.read]
  /\ Len(cut.text) <= cut.read - i
  /\ Bare(s) => Len(cut.text) = cut.read - i

(* A scan that stops at i tells nothing.                                   *)
LEMMA TellsNothing ==
  ASSUME NEW s \in Text, NEW start \in Nat, NEW i \in Nat, start + i <= Len(s),
         NEW cut, cut.read = i, cut.text = <<>>
  PROVE  Tells(s, start, i, cut)
PROOF
<1>1. start + i \in 0..Len(s) /\ Len(s) \in Nat
  BY DEF Text
<1>2. Elements(s)[start + i] \in Told
  BY <1>1, ElementsFacts
<1>3. Literals(<<>>) \in Told /\ Len(Literals(<<>>)) = 0
  <2>1. <<>> \in Text /\ Len(<<>>) = 0
    BY DEF Text
  <2> QED
    BY <2>1, LiteralsType
<1>4. Literals(<<>>) = <<>>
  BY <1>3 DEF Told
<1>5. <<>> \o Elements(s)[start + i] = Elements(s)[start + i]
  BY <1>2, ConcatEmptySeq DEF Told
<1>6. Elements(s)[start + i] = Literals(cut.text) \o Elements(s)[start + cut.read]
  BY <1>4, <1>5
<1>7. Len(cut.text) = 0 /\ cut.read - i = 0 /\ start + cut.read <= Len(s)
  OBVIOUS
<1> QED
  BY <1>6, <1>7 DEF Tells

(* What the pattern says at a byte that does not end a literal.            *)
LEMMA LiteralSaid ==
  ASSUME NEW s \in Text, NEW i \in Nat, Char(s, i) \notin FixedDelimiters
  PROVE  /\ i < Len(s)
         /\ IF Escapes(s, i, FixedEscaped)
            THEN /\ i + 2 <= Len(s) /\ Char(s, i + 1) \in Byte \ {Nul}
                 /\ ~Bare(s)
                 /\ Elements(s)[i] = <<Literal(Char(s, i + 1))>> \o Elements(s)[i + 2]
            ELSE /\ Char(s, i) \in Byte \ {Nul}
                 /\ Elements(s)[i] = <<Literal(Char(s, i))>> \o Elements(s)[i + 1]
PROOF
<1>1. Len(s) \in Nat
  BY DEF Text
<1>2. Char(s, i) # Nul /\ Char(s, i) # FNMATCH_SEP /\ Char(s, i) # FNMATCH_ONE
      /\ Char(s, i) # FNMATCH_ANY /\ Char(s, i) # FNMATCH_CHARS_START
  BY DEF FixedDelimiters
<1>3. i < Len(s) /\ Char(s, i) \in Byte \ {Nul}
  BY <1>2, CharFacts
<1>4. i \in 0..Len(s) /\ i # Len(s)
  BY <1>1, <1>3
<1>5. Elements(s)[i] = Said(Elements(s), s, i)
  BY <1>4, ElementsFacts
<1>6. CASE Escapes(s, i, FixedEscaped)
  <2>1. Char(s, i) = FNMATCH_ESCAPE /\ Char(s, i + 1) \in FixedEscaped
    BY <1>6 DEF Escapes
  <2>2. Char(s, i + 1) # Nul
    BY <2>1 DEF FixedEscaped, Nul, FNMATCH_CHARS_START, FNMATCH_ESCAPE, FNMATCH_ONE, FNMATCH_ANY,
                FNMATCH_SEP
  <2>3. i + 1 < Len(s) /\ Char(s, i + 1) \in Byte \ {Nul}
    BY <2>2, CharFacts
  <2>4. Elements(s)[i] = <<Literal(Char(s, i + 1))>> \o Elements(s)[i + 2]
    BY <1>2, <1>4, <1>5, <2>1 DEF Said
  <2>5. ~Bare(s)
    <3>1. i + 1 \in 1..Len(s) /\ DOMAIN s = 1..Len(s)
      BY <1>1, <1>3 DEF Text
    <3>2. s[i + 1] = FNMATCH_ESCAPE
      BY <1>3, <2>1 DEF Char
    <3> QED
      BY <3>1, <3>2 DEF Bare
  <2> QED
    BY <1>1, <1>3, <1>6, <2>3, <2>4, <2>5
<1>7. CASE ~Escapes(s, i, FixedEscaped)
  <2>1. ~(Char(s, i) = FNMATCH_ESCAPE /\ Char(s, i + 1) \in FixedEscaped)
    BY <1>7 DEF Escapes
  <2>2. Elements(s)[i] = <<Literal(Char(s, i))>> \o Elements(s)[i + 1]
    BY <1>2, <1>4, <1>5, <2>1 DEF Said
  <2> QED
    BY <1>3, <1>7, <2>2
<1> QED
  BY <1>6, <1>7

(* A scan goes on telling when a byte is put in front of what it wrote.    *)
LEMMA TellsOn ==
  ASSUME NEW s \in Text, NEW start \in Nat, NEW i \in Nat, NEW n \in Nat, i < n,
         NEW c \in Byte \ {Nul}, NEW cut, cut.text \in Text, cut.read \in Nat,
         Tells(s, start, n, cut),
         Elements(s)[start + i] = <<Literal(c)>> \o Elements(s)[start + n],
         n = i + 1 \/ ~Bare(s),
         NEW longer, longer.read = cut.read, longer.text = <<c>> \o cut.text
  PROVE  Tells(s, start, i, longer)
PROOF
<1> DEFINE e == Elements(s)[start + cut.read]
           h == <<Literal(c)>>
<1>1. Len(s) \in Nat /\ start + cut.read \in 0..Len(s)
  BY DEF Text, Tells
<1>2. e \in Told
  BY <1>1, ElementsFacts
<1>3. Literals(cut.text) \in Told
  BY LiteralsType
<1>4. h \in Told
  <2>1. Literal(c) \in Programs!Instruction
    BY ElementTypes
  <2> QED
    BY <2>1 DEF Told
<1>5. Elements(s)[start + i] = h \o (Literals(cut.text) \o e)
  BY DEF Tells
<1>6. h \o (Literals(cut.text) \o e) = (h \o Literals(cut.text)) \o e
  <2> HIDE DEF h, e
  <2> QED
    BY <1>2, <1>3, <1>4, ToldJoin
<1>7. h \o Literals(cut.text) = Literals(longer.text)
  BY LiteralsJoin
<1>8. Elements(s)[start + i] = Literals(longer.text) \o Elements(s)[start + longer.read]
  <2> HIDE DEF h
  <2> QED
    BY <1>5, <1>6, <1>7
<1>9. Len(longer.text) = 1 + Len(cut.text) /\ Len(cut.text) \in Nat
  BY DEF Text
<1>10. Len(longer.text) <= longer.read - i /\ (Bare(s) => Len(longer.text) = longer.read - i)
  BY SMTT(30), <1>9 DEF Tells
<1> QED
  BY <1>8, <1>10 DEF Tells

(* From every byte on, a scan tells what the pattern says.                 *)
LEMMA ScanTells ==
  ASSUME NEW s \in Text, NEW start \in Nat, NEW len \in Nat, NEW scan,
         \A i \in 0..len + 1 : scan[i] = Scanned(scan, i, s, start, len, FixedDelimiters, FixedEscaped)
  PROVE  \A i \in 0..len + 1 : start + i <= Len(s) => Tells(s, start, i, scan[i])
PROOF
<1> DEFINE T == {i \in 0..len + 1 : start + i <= Len(s) => Tells(s, start, i, scan[i])}
<1>0. Nul \in FixedDelimiters /\ Nul \notin FixedEscaped
  BY DEF FixedDelimiters, FixedEscaped, Nul, FNMATCH_CHARS_START, FNMATCH_ESCAPE,
         FNMATCH_ONE, FNMATCH_ANY, FNMATCH_SEP
<1>1. \A j \in 0..len + 1 : IsCut(scan[j], j, len)
  BY <1>0, ScanCuts
<1>2. ASSUME NEW i \in 0..len + 1, \A j \in i + 1..len + 1 : j \in T, start + i <= Len(s)
      PROVE  Tells(s, start, i, scan[i])
  <2>1. i \in Nat /\ start + i \in Nat
    OBVIOUS
  <2>2. CASE i >= len \/ Char(s, start + i) \in FixedDelimiters
    <3>1. scan[i] = [read |-> i, text |-> <<>>]
      BY <2>2 DEF Scanned
    <3>2. scan[i].read = i /\ scan[i].text = <<>>
      BY <3>1
    <3> QED
      BY <1>2, <2>1, <3>2, TellsNothing
  <2>3. CASE ~(i >= len \/ Char(s, start + i) \in FixedDelimiters)
    <3>1. i \in 0..len /\ i < len
      BY <2>1, <2>3
    <3>2. IF Escapes(s, start + i, FixedEscaped) THEN Writes(scan, i, Char(s, start + i + 1), i + 2)
          ELSE Writes(scan, i, Char(s, start + i), i + 1)
      BY <1>0, <2>3, <3>1, ScanStep
    <3> DEFINE v == start + i
    <3>3. /\ v < Len(s)
          /\ IF Escapes(s, v, FixedEscaped)
             THEN /\ v + 2 <= Len(s) /\ Char(s, v + 1) \in Byte \ {Nul}
                  /\ ~Bare(s)
                  /\ Elements(s)[v] = <<Literal(Char(s, v + 1))>> \o Elements(s)[v + 2]
             ELSE /\ Char(s, v) \in Byte \ {Nul}
                  /\ Elements(s)[v] = <<Literal(Char(s, v))>> \o Elements(s)[v + 1]
      BY <2>1, <2>3, LiteralSaid
    <3>4. v + 1 = start + (i + 1) /\ v + 2 = start + (i + 2) /\ Len(s) \in Nat
          /\ i + 1 \in i + 1..len + 1 /\ i + 2 \in i + 1..len + 1
          /\ i + 1 \in 0..len + 1 /\ i + 2 \in 0..len + 1
          /\ i + 1 \in Nat /\ i + 2 \in Nat /\ i < i + 1 /\ i < i + 2
      BY <2>1, <3>1 DEF Text
    <3>5. CASE Escapes(s, v, FixedEscaped)
      <4>1. Tells(s, start, i + 2, scan[i + 2])
        BY <1>2, <3>3, <3>4, <3>5
      <4>2. scan[i + 2].text \in Text /\ scan[i + 2].read \in Nat
        <5>1. IsCut(scan[i + 2], i + 2, len)
          BY <1>1, <3>4
        <5>2. \A k \in i + 2..len + 1 : k \in Nat
          BY <2>1
        <5> QED
          BY <5>1, <5>2 DEF IsCut
      <4>3. scan[i].read = scan[i + 2].read /\ scan[i].text = <<Char(s, v + 1)>> \o scan[i + 2].text
        BY <3>2, <3>5 DEF Writes
      <4>4. Elements(s)[start + i] = <<Literal(Char(s, v + 1))>> \o Elements(s)[start + (i + 2)]
        BY <3>3, <3>4, <3>5
      <4>5. Char(s, v + 1) \in Byte \ {Nul} /\ ~Bare(s)
        BY <3>3, <3>5
      <4> HIDE DEF v
      <4> QED
        BY ZenonT(40), <2>1, <3>4, <4>1, <4>2, <4>3, <4>4, <4>5, TellsOn
    <3>6. CASE ~Escapes(s, v, FixedEscaped)
      <4>1. Tells(s, start, i + 1, scan[i + 1])
        <5>1. v + 1 <= Len(s)
          BY <2>1, <3>3, <3>4
        <5> QED
          BY <1>2, <3>4, <5>1
      <4>2. scan[i + 1].text \in Text /\ scan[i + 1].read \in Nat
        <5>1. IsCut(scan[i + 1], i + 1, len)
          BY <1>1, <3>4
        <5>2. \A k \in i + 1..len + 1 : k \in Nat
          BY <2>1
        <5> QED
          BY <5>1, <5>2 DEF IsCut
      <4>3. scan[i].read = scan[i + 1].read /\ scan[i].text = <<Char(s, v)>> \o scan[i + 1].text
        BY <3>2, <3>6 DEF Writes
      <4>4. Elements(s)[start + i] = <<Literal(Char(s, v))>> \o Elements(s)[start + (i + 1)]
        BY <3>3, <3>4, <3>6
      <4>5. Char(s, v) \in Byte \ {Nul}
        BY <3>3, <3>6
      <4> HIDE DEF v
      <4> QED
        BY ZenonT(40), <2>1, <3>4, <4>1, <4>2, <4>3, <4>4, <4>5, TellsOn
    <3> QED
      BY <3>5, <3>6
  <2> QED
    BY <2>2, <2>3
<1>3. 0..len + 1 \subseteq T
  <2>1. \A i \in 0..len + 1 : (\A j \in i + 1..len + 1 : j \in T) => i \in T
    BY <1>2
  <2>2. len + 1 \in Nat
    OBVIOUS
  <2> HIDE DEF T
  <2> QED
    BY <2>1, <2>2, AllDownward
<1> QED
  BY <1>3

(* What an iteration reads of a literal is what the pattern says there.    *)
LEMMA FixedTells ==
  ASSUME Reading, at <= Len(expr)
  PROVE  Tells(expr, at, 0, FixedArg)
PROOF
<1>1. PICK scan :
        /\ FixedArg = scan[0]
        /\ \A i \in 0..ArgMax + 1 :
             scan[i] = Scanned(scan, i, expr, at, ArgMax, FixedDelimiters, FixedEscaped)
  <2>1. FixedArg = buffer_read_escaped(expr, at, ArgMax, FixedDelimiters, FixedEscaped)
    BY DEF FixedArg, FixedMax
  <2>2. ArgMax \in Nat
    BY ArgMaxAssumption
  <2> QED
    BY <2>1, <2>2, ScanFacts
<1>2. at \in Nat /\ expr \in Text /\ ArgMax \in Nat /\ at + 0 = at /\ 0 \in 0..ArgMax + 1
  BY ArgMaxAssumption DEF Reading
<1>3. \A i \in 0..ArgMax + 1 : at + i <= Len(expr) => Tells(expr, at, i, scan[i])
  BY <1>1, <1>2, ScanTells
<1> QED
  BY <1>1, <1>2, <1>3

-----------------------------------------------------------------------------
(* What a bracket expression is read and written for.                      *)

(* scan reads up to len bytes of a set, and f what stands before byte r.   *)
ReadsSet(s, start, len, scan, r, f) ==
  /\ s \in Text /\ start \in Nat /\ len \in Nat /\ r \in Nat
  /\ \A i \in 0..len + 1 :
       scan[i] = Scanned(scan, i, s, start, len, CharsDelimiters, CharsEscaped)
  /\ \A k \in start..start + r + 1 : f[k] = Contained(f, s, start + r, k)

(* Where a scan of a set stops at byte r, it has written what is contained *)
(* in front of it.                                                         *)
LEMMA ScanContains ==
  ASSUME NEW s, NEW start, NEW len, NEW scan, NEW r, NEW f, ReadsSet(s, start, len, scan, r, f)
  PROVE  \A i \in 0..len + 1 : scan[i].read = r => f[start + i] = scan[i].text
PROOF
<1> USE DEF ReadsSet
<1> DEFINE T == {i \in 0..len + 1 : scan[i].read = r => f[start + i] = scan[i].text}
<1>0. Nul \in CharsDelimiters /\ Nul \notin CharsEscaped
  BY DEF CharsDelimiters, CharsEscaped, Nul, FNMATCH_CHARS_START, FNMATCH_CHARS_END, FNMATCH_ESCAPE
<1>1. \A j \in 0..len + 1 : scan[j].read \in j..len + 1
  <2>1. \A j \in 0..len + 1 : IsCut(scan[j], j, len)
    BY <1>0, ScanCuts
  <2> QED
    BY <2>1 DEF IsCut
<1>2. ASSUME NEW i \in 0..len + 1, \A j \in i + 1..len + 1 : j \in T, scan[i].read = r
      PROVE  f[start + i] = scan[i].text
  <2> DEFINE k == start + i
  <2>1. i \in Nat /\ k \in Nat
    OBVIOUS
  <2>2. CASE i >= len \/ Char(s, k) \in CharsDelimiters
    <3>1. scan[i] = [read |-> i, text |-> <<>>]
      BY <2>2 DEF Scanned
    <3>2. i = r /\ scan[i].text = <<>>
      BY <1>2, <3>1
    <3>3. k = start + r /\ k \in start..start + r + 1 /\ k >= start + r
      BY <3>2
    <3>4. f[k] = <<>>
      BY <3>3 DEF Contained
    <3> QED
      BY <3>2, <3>4
  <2>3. CASE ~(i >= len \/ Char(s, k) \in CharsDelimiters)
    <3>1. i \in 0..len /\ i < len
      BY <2>1, <2>3
    <3>2. IF Escapes(s, k, CharsEscaped) THEN Writes(scan, i, Char(s, k + 1), i + 2)
          ELSE Writes(scan, i, Char(s, k), i + 1)
      BY <1>0, <2>3, <3>1, ScanStep
    <3>3. /\ i + 1 \in i + 1..len + 1 /\ i + 2 \in i + 1..len + 1
          /\ i + 1 \in 0..len + 1 /\ i + 2 \in 0..len + 1
          /\ k + 1 = start + (i + 1) /\ k + 2 = start + (i + 2)
      BY <3>1
    <3>4. scan[i + 1].read \in i + 1..len + 1 /\ scan[i + 2].read \in i + 2..len + 1
      BY <1>1, <3>3
    <3>5. CASE Escapes(s, k, CharsEscaped)
      <4>1. scan[i + 2].read = r /\ scan[i].text = <<Char(s, k + 1)>> \o scan[i + 2].text
        BY <1>2, <3>2, <3>5 DEF Writes
      <4>2. k \in start..start + r + 1 /\ ~(k >= start + r)
        <5>1. r \in i + 2..len + 1
          BY <3>4, <4>1
        <5> QED
          BY <2>1, <5>1
      <4>3. f[k] = <<Char(s, k + 1)>> \o f[k + 2]
        BY <3>5, <4>2 DEF Contained, Escapes
      <4>4. f[k + 2] = scan[i + 2].text
        BY <1>2, <3>3, <4>1
      <4> QED
        BY <4>1, <4>3, <4>4
    <3>6. CASE ~Escapes(s, k, CharsEscaped)
      <4>1. scan[i + 1].read = r /\ scan[i].text = <<Char(s, k)>> \o scan[i + 1].text
        BY <1>2, <3>2, <3>6 DEF Writes
      <4>2. k \in start..start + r + 1 /\ ~(k >= start + r)
        <5>1. r \in i + 1..len + 1
          BY <3>4, <4>1
        <5> QED
          BY <2>1, <5>1
      <4>3. f[k] = <<Char(s, k)>> \o f[k + 1]
        BY <3>6, <4>2 DEF Contained, Escapes
      <4>4. f[k + 1] = scan[i + 1].text
        BY <1>2, <3>3, <4>1
      <4> QED
        BY <4>1, <4>3, <4>4
    <3> QED
      BY <3>5, <3>6
  <2> QED
    BY <2>2, <2>3
<1>3. 0..len + 1 \subseteq T
  <2>1. \A i \in 0..len + 1 : (\A j \in i + 1..len + 1 : j \in T) => i \in T
    BY <1>2
  <2>2. len + 1 \in Nat
    OBVIOUS
  <2> HIDE DEF T
  <2> QED
    BY <2>1, <2>2, AllDownward
<1> QED
  BY <1>3

(* An argument of CHARS reaches to the bracket that closes, and is what    *)
(* stands before it.                                                       *)
LEMMA CharsContains ==
  ASSUME Reading, CharsClosed(CharsArg.read)
  PROVE  /\ IsClosed(expr, at) /\ Closing(expr, at) = at + 1 + CharsArg.read
         /\ Bracket(expr, at) = CharsArg.text
         /\ at + 2 + CharsArg.read <= Len(expr)
PROOF
<1> DEFINE r == CharsArg.read
           j == at + 1 + r
<1>1. PICK scan :
        /\ CharsArg = scan[0]
        /\ \A i \in 0..ArgMax + 1 :
             scan[i] = Scanned(scan, i, expr, at + 1, ArgMax, CharsDelimiters, CharsEscaped)
  BY ScanFacts, ArgMaxAssumption DEF CharsArg, Reading
<1>2. at \in Nat /\ expr \in Text /\ ArgMax \in Nat /\ r \in Nat
  BY ArgCuts, ArgMaxAssumption DEF IsCut, Reading
<1>3. StopsRight(0, r)
  <2>1. 0 \in 0..ArgMax + 1 /\ at + 1 + 0 = at + 1
    BY <1>2
  <2>2. Even(at, at + 1)
    BY <1>2, EvenFirst
  <2> QED
    BY <1>1, <2>1, <2>2, ScanStops
<1>4. scan[0].read = r /\ scan[0].text = CharsArg.text
  BY <1>1
<1> HIDE DEF r
<1>5. Char(expr, j) = FNMATCH_CHARS_END
  BY DEF CharsClosed, r
<1>6. Closes(expr, at, j)
  <2>1. j \in Nat
    BY <1>2
  <2>2. Even(at, j)
    BY <1>3, <1>5 DEF StopsRight, CharsEscaped
  <2> QED
    BY <1>2, <1>5, <2>1, <2>2, ClosesEven
<1>7. \A k \in at + 1..j - 1 : ~Closes(expr, at, k)
  <2>1. \A k \in at + 1..j - 1 : k \in at + 1 + 0..at + r
    BY <1>2
  <2> QED
    BY <1>3, <2>1 DEF StopsRight
<1>8. IsClosed(expr, at) /\ Closing(expr, at) = j /\ j < Len(expr)
  <2>1. j \in Nat /\ at < j
    BY <1>2
  <2> QED
    BY <1>2, <1>6, <1>7, <2>1, ClosingIs
<1>9. Content(expr, at, j) = CharsArg.text
  <2> DEFINE start == at + 1
  <2>1. j \in Nat /\ j = start + r /\ start \in Nat /\ j + 1 = start + r + 1
        /\ start + 0 = start /\ 0 \in 0..ArgMax + 1
    BY <1>2
  <2>2. PICK f : Content(expr, at, j) = f[start]
                 /\ \A k \in start..j + 1 : f[k] = Contained(f, expr, j, k)
    BY <1>2, <2>1, ContentFacts
  <2>3. \A i \in 0..ArgMax + 1 :
          scan[i] = Scanned(scan, i, expr, start, ArgMax, CharsDelimiters, CharsEscaped)
    BY <1>1
  <2> HIDE DEF j, start
  <2>4. \A k \in start..start + r + 1 : f[k] = Contained(f, expr, start + r, k)
    BY <2>1, <2>2
  <2>5. \A i \in 0..ArgMax + 1 : scan[i].read = r => f[start + i] = scan[i].text
    <3>1. ReadsSet(expr, start, ArgMax, scan, r, f)
      BY <1>2, <2>1, <2>3, <2>4 DEF ReadsSet
    <3> QED
      BY <3>1, ScanContains
  <2>6. f[start + 0] = scan[0].text
    BY <1>4, <2>1, <2>5
  <2> QED
    BY <1>4, <2>1, <2>2, <2>6
<1>10. at + 2 + r <= Len(expr)
  <2>1. Len(expr) \in Nat
    BY <1>2 DEF Text
  <2> QED
    BY <1>2, <1>8, <2>1
<1> QED
  BY <1>8, <1>9, <1>10 DEF Bracket, r

-----------------------------------------------------------------------------
(* What an instruction says.                                               *)

Part(name, text) ==
  IF name = "FIXED" THEN Literals(text)
  ELSE <<Element(name, <<>>, IF name = "CHARS" /\ Plain(text) THEN BracketSet(text) ELSE {})>>

LEMMA PartType ==
  ASSUME NEW name, NEW text, Argument(name, text)
  PROVE  Part(name, text) \in Told
PROOF
<1>1. CASE name = "FIXED"
  <2>1. text \in Text
    BY <1>1 DEF Argument
  <2> QED
    BY <1>1, <2>1, LiteralsType DEF Part
<1>2. CASE name # "FIXED"
  <2> DEFINE set == IF name = "CHARS" /\ Plain(text) THEN BracketSet(text) ELSE {}
  <2>1. name \in {"FIXED", "CHARS", "ONE", "ANY", "DEEP", "SEP", "END"}
    BY DEF Argument
  <2>2. set \in SUBSET Byte
    BY ElementTypes
  <2> HIDE DEF set
  <2>3. Element(name, <<>>, set) \in Programs!Instruction
    BY <2>1, <2>2, ElementTypes
  <2>4. <<Element(name, <<>>, set)>> \in Told
    BY <2>3 DEF Told
  <2> QED
    BY <1>2, <2>4 DEF Part, set
<1> QED
  BY <1>1, <1>2

(* The instruction of p at o says part.                                    *)
Says(p, o, e, part) ==
  \E name, text : Argument(name, text) /\ Holds(p, o, e, name, text) /\ part = Part(name, text)

(* What ProgramElements takes an instruction for.                          *)
ReadAs(o) ==
  LET arg == SubSeq(program, o + 3, o + 2 + OPLEN(o))
      ins == Instruction(o)
  IN IF ins.op = "FIXED" THEN [m \in DOMAIN ins.str |-> Literal(ins.str[m])]
     ELSE IF ins.op = "CHARS" /\ ~Plain(arg) THEN <<Element("CHARS", <<>>, {})>>
     ELSE <<ins>>

(* The text of an argument.                                                *)
LEMMA ArgumentText ==
  ASSUME NEW name, NEW text, Argument(name, text)
  PROVE  text \in Text /\ Len(text) \in Nat /\ (text = <<>> <=> Len(text) = 0)
PROOF
<1>1. <<>> \in Text /\ Len(<<>>) = 0
  BY DEF Text
<1>2. text \in Text
  BY <1>1 DEF Argument
<1> QED
  BY <1>1, <1>2 DEF Text

(* An instruction is read for what it says.                                *)
LEMMA ReadsPart ==
  ASSUME NEW o, NEW e, NEW part, Says(program, o, e, part), program \in Seq(Nat), e <= Len(program)
  PROVE  ReadAs(o) = part
PROOF
<1>1. PICK name, text : Argument(name, text) /\ Holds(program, o, e, name, text)
                        /\ part = Part(name, text)
  BY DEF Says
<1> DEFINE n == Len(text)
           from == o + 3
           to == o + 2 + n
           arg == SubSeq(program, from, to)
           r == Instruction(o)
<1>2. text \in Text /\ n \in Nat /\ (text = <<>> <=> n = 0)
  BY <1>1, ArgumentText
<1>3. name \in {"FIXED", "CHARS", "ONE", "ANY", "DEEP", "SEP", "END"}
  BY <1>1 DEF Argument
<1>4. o \in Nat /\ e = (IF text = <<>> THEN o + 2 ELSE o + 3 + n) /\ Char(program, o) = Op(name)
      /\ OPLEN(o) = n /\ \A k \in 1..n : Char(program, o + 1 + k) = text[k]
  BY <1>1 DEF Holds, OPLEN
<1> HIDE DEF n
<1>5. OPCODE(o) = name
  <2>1. Op(name) \in 0..6 /\ OpNames[Op(name) + 1] = name
    BY <1>3, OpCodes DEF OpNames
  <2> QED
    BY <1>4, <2>1 DEF OPCODE
<1>6. arg = text
  <2>1. CASE n = 0
    <3>1. arg = <<>>
      <4>1. from > to /\ from \in Int /\ to \in Int
        BY <1>4, <2>1
      <4> HIDE DEF from, to
      <4> QED
        BY <4>1
    <3> QED
      BY <1>2, <2>1, <3>1
  <2>2. CASE n # 0
    <3>1. from \in Int /\ to \in Int /\ from <= to /\ to - from + 1 = n
      BY <1>2, <1>4, <2>2
    <3>2. ASSUME NEW i \in 1..n PROVE program[from + i - 1] = text[i]
      <4>1. o + 1 + i < Len(program) /\ (o + 1 + i) + 1 = from + i - 1
        <5>1. e = o + 3 + n /\ Len(program) \in Nat
          BY <1>2, <1>4, <2>2
        <5> QED
          BY <1>2, <1>4, <5>1
      <4>2. Char(program, o + 1 + i) = text[i]
        BY <1>4
      <4> QED
        BY <4>1, <4>2 DEF Char
    <3>3. \A i \in 1..n : text[i] \in Byte \ {Nul}
      BY <1>2 DEF n, Text
    <3>4. ASSUME NEW j \in from..to PROVE program[j] \in Byte \ {Nul}
      <4> DEFINE i == j - from + 1
      <4>1. i \in 1..n /\ from + i - 1 = j
        BY <3>1
      <4> HIDE DEF i
      <4> QED
        BY <3>2, <3>3, <4>1
    <3> HIDE DEF from, to
    <3>5. /\ arg \in Text /\ Len(arg) = n
          /\ \A i \in 1..n : arg[i] = program[from + i - 1]
      <4>1. /\ arg \in Seq(Byte \ {Nul}) /\ Len(arg) = to - from + 1
            /\ \A i \in 1..to - from + 1 : arg[i] = program[from + i - 1]
        BY <3>1, <3>4, SubSeqProperties
      <4> QED
        BY <3>1, <4>1 DEF Text
    <3> HIDE DEF arg
    <3>6. \A i \in 1..n : arg[i] = text[i]
      BY <3>2, <3>5
    <3> QED
      BY <1>2, <3>5, <3>6, SeqEqual DEF Text, n
  <2> QED
    BY <2>1, <2>2
<1>7. arg = SubSeq(program, o + 3, o + 2 + OPLEN(o))
  BY <1>4
<1> HIDE DEF arg, from, to
<1>8. r = [op  |-> name,
           str |-> IF name = "FIXED" THEN text ELSE <<>>,
           set |-> IF name = "CHARS" THEN {c \in Byte : vm_chars(text, c)} ELSE {}]
  BY <1>5, <1>6, <1>7 DEF Instruction
<1> HIDE DEF r
<1>9. ReadAs(o) = IF r.op = "FIXED" THEN [m \in DOMAIN r.str |-> Literal(r.str[m])]
                  ELSE IF r.op = "CHARS" /\ ~Plain(text) THEN <<Element("CHARS", <<>>, {})>>
                  ELSE <<r>>
  BY <1>6, <1>7 DEF ReadAs, r
<1>10. CASE name = "FIXED"
  BY <1>1, <1>8, <1>9, <1>10 DEF Part, Literals
<1>11. CASE name = "CHARS" /\ Plain(text)
  <2>1. {c \in Byte : vm_chars(text, c)} = BracketSet(text)
    BY <1>2, <1>11, CharsAccept
  <2>2. r = Element("CHARS", <<>>, BracketSet(text))
    BY <1>8, <1>11, <2>1 DEF Element
  <2>3. r.op = "CHARS"
    BY <1>8, <1>11
  <2> QED
    BY <1>1, <1>9, <1>11, <2>2, <2>3 DEF Part
<1>12. CASE name = "CHARS" /\ ~Plain(text)
  <2>1. r.op = "CHARS"
    BY <1>8, <1>12
  <2> QED
    BY <1>1, <1>9, <1>12, <2>1 DEF Part
<1>13. CASE name \notin {"FIXED", "CHARS"}
  <2>1. r = Element(name, <<>>, {}) /\ r.op = name
    BY <1>8, <1>13 DEF Element
  <2> QED
    BY <1>1, <1>9, <1>13, <2>1 DEF Part
<1> QED
  BY <1>10, <1>11, <1>12, <1>13

-----------------------------------------------------------------------------
(* Counting elements.                                                      *)

Named(q, ops) == {k \in DOMAIN q : q[k].op \in ops}
CountIn(q, ops) == Cardinality(Named(q, ops))

(* Counts are numbers.                                                     *)
LEMMA CountType ==
  ASSUME NEW q \in Told, NEW ops
  PROVE  IsFiniteSet(Named(q, ops)) /\ CountIn(q, ops) \in Nat /\ DOMAIN q = 1..Len(q)
PROOF
<1>1. DOMAIN q = 1..Len(q) /\ Len(q) \in Nat
  BY DEF Told
<1>2. IsFiniteSet(1..Len(q))
  BY <1>1, FS_Interval
<1>3. Named(q, ops) \in SUBSET (1..Len(q))
  BY <1>1 DEF Named
<1>4. IsFiniteSet(Named(q, ops))
  BY <1>2, <1>3, FS_Subset
<1> QED
  BY <1>1, <1>4, FS_CardinalityType DEF CountIn

(* They add up.                                                            *)
LEMMA CountJoin ==
  ASSUME NEW q \in Told, NEW r \in Told, NEW ops
  PROVE  CountIn(q \o r, ops) = CountIn(q, ops) + CountIn(r, ops)
PROOF
<1> DEFINE m == Len(q)
           n == Len(r)
           w == q \o r
           A == Named(q, ops)
           B == Named(r, ops)
           C == {k \in m + 1..m + n : r[k - m].op \in ops}
<1>1. m \in Nat /\ n \in Nat
  BY DEF Told
<1>2. w \in Told /\ Len(w) = m + n /\ \A k \in 1..m + n : w[k] = IF k <= m THEN q[k] ELSE r[k - m]
  BY ToldJoin
<1>3. DOMAIN q = 1..m /\ DOMAIN r = 1..n /\ DOMAIN w = 1..m + n
  BY <1>2, CountType
<1>4. IsFiniteSet(A) /\ IsFiniteSet(B) /\ CountIn(q, ops) = Cardinality(A)
      /\ CountIn(r, ops) = Cardinality(B) /\ CountIn(w, ops) = Cardinality(Named(w, ops))
      /\ Cardinality(A) \in Nat /\ Cardinality(B) \in Nat
  BY CountType DEF CountIn
<1>5. A = {k \in 1..m : q[k].op \in ops} /\ B = {k \in 1..n : r[k].op \in ops}
      /\ Named(w, ops) = {k \in 1..m + n : w[k].op \in ops}
  BY <1>3 DEF Named
<1> HIDE DEF w, m, n, A, B
<1>6. Named(w, ops) = A \cup C
  <2>1. ASSUME NEW k \in 1..m + n PROVE w[k].op \in ops <=> k \in A \cup C
    <3>1. CASE k <= m
      <4>1. k \in 1..m /\ k \notin m + 1..m + n
        BY <1>1, <3>1
      <4> QED
        BY <1>2, <1>5, <3>1, <4>1
    <3>2. CASE ~(k <= m)
      <4>1. k \in m + 1..m + n /\ k \notin 1..m
        BY <1>1, <3>2
      <4> QED
        BY <1>2, <1>5, <3>2, <4>1
    <3> QED
      BY <3>1, <3>2
  <2>2. A \cup C \subseteq 1..m + n
    BY <1>1, <1>5
  <2> HIDE DEF C
  <2> QED
    BY <1>5, <2>1, <2>2
<1>7. ExistsBijection(B, C)
  <2> DEFINE f == [k \in B |-> k + m]
  <2>1. ASSUME NEW k \in B PROVE k + m \in C
    <3>1. k \in 1..n /\ r[k].op \in ops
      BY <1>5
    <3>2. k + m \in m + 1..m + n /\ (k + m) - m = k
      BY <1>1, <3>1
    <3> QED
      BY <3>1, <3>2
  <2>2. ASSUME NEW k \in C PROVE k - m \in B /\ (k - m) + m = k
    <3>1. k \in m + 1..m + n /\ r[k - m].op \in ops
      OBVIOUS
    <3>2. k - m \in 1..n /\ (k - m) + m = k
      BY <1>1, <3>1
    <3> QED
      BY <1>5, <3>1, <3>2
  <2>3. \A k, l \in B : k + m = l + m => k = l
    BY <1>1, <1>5
  <2> HIDE DEF C
  <2>4. f \in [B -> C]
    BY <2>1
  <2>5. f \in Injection(B, C)
    BY <2>3, <2>4 DEF Injection, IsInjective
  <2>6. f \in Surjection(B, C)
    <3>1. ASSUME NEW t \in C PROVE \E b \in B : f[b] = t
      BY <2>2
    <3> QED
      BY <2>4, <3>1 DEF Surjection
  <2> QED
    BY <2>5, <2>6 DEF Bijection, ExistsBijection
<1>8. IsFiniteSet(C) /\ Cardinality(C) = Cardinality(B)
  BY <1>4, <1>7, FS_Bijection
<1>9. A \cap C = {}
  BY <1>1, <1>5
<1> HIDE DEF C
<1>10. Cardinality(A \cup C) = Cardinality(A) + Cardinality(C) - Cardinality(A \cap C)
  BY <1>4, <1>8, FS_Union
<1>11. Cardinality(A \cap C) = 0
  BY <1>9, FS_EmptySet
<1> QED
  BY <1>4, <1>6, <1>8, <1>10, <1>11 DEF w

(* One element counts once, for its own name.                              *)
LEMMA CountOne ==
  ASSUME NEW op, NEW set, NEW ops
  PROVE  CountIn(<<Element(op, <<>>, set)>>, ops) = IF op \in ops THEN 1 ELSE 0
PROOF
<1> DEFINE q == <<Element(op, <<>>, set)>>
<1>1. DOMAIN q = {1} /\ q[1].op = op
  <2>1. q[1] = Element(op, <<>>, set)
    OBVIOUS
  <2> QED
    BY <2>1 DEF Element
<1> HIDE DEF q
<1>2. Named(q, ops) = IF op \in ops THEN {1} ELSE {}
  BY <1>1 DEF Named
<1> QED
  BY <1>2, FS_EmptySet, FS_Singleton DEF CountIn, q

(* The elements of a literal are as many as its bytes.                     *)
LEMMA CountLiterals ==
  ASSUME NEW t \in Text, NEW ops
  PROVE  CountIn(Literals(t), ops) = IF "FIXED" \in ops THEN Len(t) ELSE 0
PROOF
<1>1. Len(t) \in Nat /\ DOMAIN t = 1..Len(t)
  BY DEF Text
<1>2. Literals(t) = [m \in 1..Len(t) |-> Literal(t[m])]
  BY <1>1 DEF Literals
<1>3. \A m \in 1..Len(t) : Literals(t)[m].op = "FIXED"
  BY <1>2 DEF Literal, Element
<1>4. DOMAIN Literals(t) = 1..Len(t)
  BY <1>2
<1>5. Named(Literals(t), ops) = IF "FIXED" \in ops THEN 1..Len(t) ELSE {}
  BY <1>3, <1>4 DEF Named
<1>6. Cardinality(1..Len(t)) = Len(t)
  <2> DEFINE n == Len(t)
  <2>1. n \in Nat /\ 1 \in Int /\ n \in Int
    BY <1>1
  <2> HIDE DEF n
  <2>2. Cardinality(1..n) = IF 1 > n THEN 0 ELSE n - 1 + 1
    BY <2>1, FS_Interval
  <2>3. Cardinality(1..n) = n
    BY <2>1, <2>2
  <2> QED
    BY <2>3 DEF n
<1> QED
  BY <1>5, <1>6, FS_EmptySet DEF CountIn

-----------------------------------------------------------------------------
(* The invariant of the loop.                                              *)

(* Whether the loop has come to its end, or what it goes on with.  A star  *)
(* is not followed by another one that is not read yet.                    *)
Closed(os) == Len(os) > 1 /\ LastOp(program, os) = Op("END")
Open(os) ==
  Len(os) > 1 =>
    /\ LastOp(program, os) # Op("END")
    /\ LastOp(program, os) = Op("ANY") => Char(expr, at) # FNMATCH_ANY


Characters == {"FIXED", "CHARS", "ONE", "SEP"}
Groups     == {"CHARS", "ONE", "ANY", "DEEP"}

(* st counts what is told: an escape is a character too many.              *)
Counts(st, told, bare) ==
  /\ st.mchars \in Nat /\ st.groups \in Nat /\ st.parts \in Nat
  /\ st.mchars >= CountIn(told, Characters)
  /\ bare => st.mchars = CountIn(told, Characters)
  /\ st.groups = CountIn(told, Groups)
  /\ st.parts = CountIn(told, {"SEP"})

(* The statistics keep counting when an iteration adds what its part       *)
(* counts.                                                                 *)
LEMMA CountsOn ==
  ASSUME NEW st, NEW now, NEW told \in Told, NEW part \in Told, NEW bare, Counts(st, told, bare),
         NEW mchars \in Nat, NEW groups \in Nat, NEW parts \in Nat,
         now = [mchars |-> st.mchars + mchars, groups |-> st.groups + groups,
                parts |-> st.parts + parts],
         Counts([mchars |-> mchars, groups |-> groups, parts |-> parts], part, bare)
  PROVE  Counts(now, told \o part, bare)
PROOF
<1>1. \A ops : /\ CountIn(told \o part, ops) = CountIn(told, ops) + CountIn(part, ops)
               /\ CountIn(told, ops) \in Nat /\ CountIn(part, ops) \in Nat
  BY CountJoin, CountType
<1>2. /\ st.mchars \in Nat /\ st.groups \in Nat /\ st.parts \in Nat
      /\ now.mchars = st.mchars + mchars /\ now.groups = st.groups + groups
      /\ now.parts = st.parts + parts
  BY DEF Counts
<1>3. /\ st.mchars >= CountIn(told, Characters)
      /\ bare => st.mchars = CountIn(told, Characters)
      /\ st.groups = CountIn(told, Groups)
      /\ st.parts = CountIn(told, {"SEP"})
  BY DEF Counts
<1>4. /\ mchars >= CountIn(part, Characters)
      /\ bare => mchars = CountIn(part, Characters)
      /\ groups = CountIn(part, Groups)
      /\ parts = CountIn(part, {"SEP"})
  BY DEF Counts
<1> DEFINE a == CountIn(told, Characters)
           b == CountIn(part, Characters)
           c == CountIn(told \o part, Characters)
<1>5. a \in Nat /\ b \in Nat /\ c = a + b
  BY <1>1
<1>6. st.mchars >= a /\ mchars >= b /\ (bare => st.mchars = a /\ mchars = b)
  BY <1>3, <1>4
<1> HIDE DEF a, b, c
<1>7. now.mchars >= c /\ (bare => now.mchars = c)
  BY <1>2, <1>5, <1>6
<1>8. now.groups = CountIn(told \o part, Groups) /\ now.parts = CountIn(told \o part, {"SEP"})
  BY <1>1, <1>2, <1>3, <1>4
<1>9. now.mchars \in Nat /\ now.groups \in Nat /\ now.parts \in Nat
  BY <1>2
<1> QED
  BY <1>7, <1>8, <1>9 DEF Counts, c

(* What is left to say of the pattern.                                     *)
Rest == IF pc = "done" THEN <<>> ELSE Elements(expr)[at]

(* The instructions of p at os say ps.                                     *)
Spelled(p, os, ps) ==
  /\ ps \in Seq(Told) /\ Len(ps) = Len(os) - 1
  /\ \A k \in 1..Len(ps) : Says(p, os[k], os[k + 1], ps[k])

(* The program is laid out, and what it says, with what is left to say, is *)
(* the pattern.                                                            *)
SaysPattern(os, ps) ==
  /\ Laid(program, os) /\ IF pc = "done" THEN Closed(os) ELSE Open(os)
  /\ Spelled(program, os, ps)
  /\ FlattenSeq(ps) \o Rest = ElementsOfExpr
  /\ Counts(stats, FlattenSeq(ps), Bare(expr))

CompilerInv ==
  /\ Reading /\ at <= Len(expr)
  /\ \E os, ps : SaysPattern(os, ps)

(* An iteration spells one part more.                                      *)
LEMMA SpelledOn ==
  ASSUME NEW p, NEW os, NEW ps, Laid(p, os), Spelled(p, os, ps),
         NEW name, NEW text, Argument(name, text)
  PROVE  LET q == Appended(p, name, text)
         IN Spelled(q, Append(os, Len(q)), Append(ps, Part(name, text)))
PROOF
<1> DEFINE q == Appended(p, name, text)
           qs == Append(os, Len(q))
           part == Part(name, text)
           ts == Append(ps, part)
           m == Len(ps)
<1>1. /\ p \in Seq(Nat) /\ os \in Seq(Nat) /\ Len(os) = m + 1 /\ os[m + 1] = Len(p)
      /\ ps \in Seq(Told) /\ m \in Nat /\ Len(p) \in Nat
      /\ \A k \in 1..m : os[k + 1] <= Len(p)
  <2>1. /\ p \in Seq(Nat) /\ os \in Seq(Nat) /\ Len(os) > 0 /\ os[Len(os)] = Len(p)
        /\ ps \in Seq(Told) /\ m = Len(os) - 1
        /\ \A k \in 1..Len(os) - 1 : os[k + 1] <= Len(p)
    BY DEF Laid, Spelled
  <2>2. Len(os) \in Nat /\ m \in Nat /\ Len(p) \in Nat
    BY <2>1
  <2> HIDE DEF m
  <2>3. Len(os) = m + 1
    BY <2>1, <2>2
  <2> QED
    BY <2>1, <2>2, <2>3
<1>2. /\ q \in Seq(Nat) /\ \A i \in Nat : i < Len(p) => Char(q, i) = Char(p, i)
      /\ Holds(q, Len(p), Len(q), name, text)
  BY <1>1, AppendsPiece
<1>3. part \in Told
  BY PartType
<1> HIDE DEF q, part
<1>4. /\ qs[m + 2] = Len(q) /\ \A k \in 1..m + 1 : qs[k] = os[k]
      /\ Len(qs) = m + 2
  BY <1>1
<1>5. ts \in Seq(Told) /\ Len(ts) = m + 1 /\ ts[m + 1] = part /\ \A k \in 1..m : ts[k] = ps[k]
  BY <1>1, <1>3
<1> HIDE DEF qs, ts, m
<1>6. ASSUME NEW k \in 1..m + 1 PROVE Says(q, qs[k], qs[k + 1], ts[k])
  <2>1. CASE k = m + 1
    <3>1. k + 1 = m + 2
      BY <1>1, <2>1
    <3>2. Says(q, Len(p), Len(q), part)
      BY <1>2 DEF Says, part
    <3> QED
      BY <1>1, <1>4, <1>5, <2>1, <3>1, <3>2
  <2>2. CASE k # m + 1
    <3>1. k \in 1..m /\ k + 1 \in 1..m + 1
      BY <1>1, <2>2
    <3>2. Says(p, os[k], os[k + 1], ps[k])
      BY <3>1 DEF Spelled, m
    <3>3. PICK nm, tx : Argument(nm, tx) /\ Holds(p, os[k], os[k + 1], nm, tx) /\ ps[k] = Part(nm, tx)
      BY <3>2 DEF Says
    <3>4. Len(tx) \in Nat /\ os[k + 1] <= Len(p)
      BY <1>1, <3>1, <3>3, ArgumentText
    <3>5. Holds(q, os[k], os[k + 1], nm, tx)
      BY <1>1, <1>2, <3>3, <3>4, HoldsStays
    <3>6. Says(q, os[k], os[k + 1], ps[k])
      BY <3>3, <3>5 DEF Says
    <3> QED
      BY <1>4, <1>5, <3>1, <3>6
  <2> QED
    BY <2>1, <2>2
<1>7. Len(ts) = Len(qs) - 1
  BY <1>1, <1>4, <1>5
<1>8. Spelled(q, qs, ts)
  BY <1>5, <1>6, <1>7 DEF Spelled
<1> QED
  BY <1>8 DEF q, qs, ts, part

(* An iteration that reads n bytes of the pattern writes what they say.    *)
Writing(name, text, mchars, groups, parts) ==
  /\ Argument(name, text)
  /\ program' = Appended(program, name, text)
  /\ expr' = expr /\ at' <= Len(expr)
  /\ name \in {"ANY", "DEEP"} => Char(expr, at) = FNMATCH_ANY
  /\ name = "ANY" => Char(expr', at') # FNMATCH_ANY
  /\ pc' = "done" <=> name = "END"
  /\ Rest = Part(name, text) \o Rest'
  /\ mchars \in Nat /\ groups \in Nat /\ parts \in Nat
  /\ stats' = [mchars |-> stats.mchars + mchars, groups |-> stats.groups + groups,
               parts |-> stats.parts + parts]
  /\ Counts([mchars |-> mchars, groups |-> groups, parts |-> parts], Part(name, text), Bare(expr))

LEMMA RestTold ==
  ASSUME Reading, at <= Len(expr)
  PROVE  Rest \in Told /\ Elements(expr)[at] \in Told
PROOF
<1>1. Len(expr) \in Nat /\ expr \in Text /\ at \in 0..Len(expr)
  BY DEF Reading, Text
<1>2. Elements(expr)[at] \in Told
  BY <1>1, ElementsFacts
<1>3. <<>> \in Told
  BY DEF Told
<1> QED
  BY <1>2, <1>3 DEF Rest

(* What an iteration writes is taken from the front of what is left to     *)
(* say.                                                                    *)
LEMMA CompilerOn ==
  ASSUME CompilerInv, pc # "done", Reading', NEW name, NEW text, NEW mchars, NEW groups, NEW parts,
         Writing(name, text, mchars, groups, parts)
  PROVE  CompilerInv'
PROOF
<1>1. PICK os, ps : SaysPattern(os, ps)
  BY DEF CompilerInv
<1>2. /\ Laid(program, os) /\ Open(os) /\ Spelled(program, os, ps)
      /\ FlattenSeq(ps) \o Rest = ElementsOfExpr
      /\ Counts(stats, FlattenSeq(ps), Bare(expr))
  BY <1>1 DEF SaysPattern
<1>3. MayFollow(program, os, name)
  BY <1>2 DEF MayFollow, Open, Writing
<1> DEFINE part == Part(name, text)
<1>4. Argument(name, text) /\ program' = Appended(program, name, text)
  BY DEF Writing
<1>5. PICK qs, ts : /\ Laid(program', qs) /\ Len(qs) > 1 /\ LastOp(program', qs) = Op(name)
                    /\ Spelled(program', qs, ts) /\ ts = Append(ps, part)
  <2> DEFINE vs == Append(os, Len(program'))
  <2>1. Laid(program', vs) /\ Len(vs) > 1 /\ LastOp(program', vs) = Op(name)
    BY <1>2, <1>3, <1>4, LaidOn
  <2>2. Spelled(program', vs, Append(ps, part))
    BY <1>2, <1>4, SpelledOn
  <2> HIDE DEF vs
  <2> QED
    BY <2>1, <2>2
<1>7. ps \in Seq(Told) /\ part \in Told /\ FlattenSeq(ps) \in Told
  <2>1. ps \in Seq(Told) /\ part \in Told
    BY <1>2, <1>4, PartType DEF Spelled
  <2> QED
    BY <2>1, FlattenType DEF Told
<1>8. FlattenSeq(ts) = FlattenSeq(ps) \o part
  BY <1>5, <1>7, FlattenAppend DEF Told
<1>9. expr' = expr /\ Bare(expr)' = Bare(expr) /\ ElementsOfExpr' = ElementsOfExpr /\ at' <= Len(expr')
  BY DEF Writing, ElementsOfExpr, Bare
<1>10. FlattenSeq(ts) \o Rest' = ElementsOfExpr'
  <2>1. Rest' \in Told
    <3>1. (Reading /\ at <= Len(expr) => Rest \in Told)'
      BY RestTold, PTL
    <3> QED
      BY <1>9, <3>1
  <2>2. (FlattenSeq(ps) \o part) \o Rest' = FlattenSeq(ps) \o (part \o Rest')
    BY <1>7, <2>1, ToldJoin
  <2>3. part \o Rest' = Rest
    BY DEF Writing
  <2> QED
    BY <1>2, <1>8, <1>9, <2>2, <2>3
<1>11. Counts(stats', FlattenSeq(ps) \o part, Bare(expr))
  <2>1. /\ mchars \in Nat /\ groups \in Nat /\ parts \in Nat
        /\ stats' = [mchars |-> stats.mchars + mchars, groups |-> stats.groups + groups,
                     parts |-> stats.parts + parts]
        /\ Counts([mchars |-> mchars, groups |-> groups, parts |-> parts], part, Bare(expr))
    BY DEF Writing
  <2> HIDE DEF part
  <2> QED
    BY <1>2, <1>7, <2>1, CountsOn
<1>12. IF pc' = "done" THEN Closed(qs)' ELSE Open(qs)'
  <2>1. CASE pc' = "done"
    <3>1. name = "END"
      BY <2>1 DEF Writing
    <3> QED
      BY <1>5, <2>1, <3>1 DEF Closed
  <2>2. CASE pc' # "done"
    <3>1. name # "END"
      BY <2>2 DEF Writing
    <3>2. Op(name) # Op("END") /\ (Op(name) = Op("ANY") => name = "ANY")
      BY <1>4, <3>1, OpCodes DEF Argument
    <3>3. name = "ANY" => Char(expr', at') # FNMATCH_ANY
      BY DEF Writing
    <3>4. Open(qs)'
      BY <1>5, <3>2, <3>3 DEF Open
    <3> QED
      BY <2>2, <3>4
  <2> QED
    BY <2>1, <2>2
<1>13. SaysPattern(qs, ts)'
  BY <1>5, <1>8, <1>9, <1>10, <1>11, <1>12 DEF SaysPattern
<1> QED
  BY <1>9, <1>13 DEF CompilerInv

(* What is said at the characters that stand for themselves alone.         *)
LEMMA SaidAt ==
  ASSUME Reading, at <= Len(expr)
  PROVE  /\ Char(expr, at) \in {FNMATCH_SEP, FNMATCH_ONE, FNMATCH_ANY, FNMATCH_CHARS_START} =>
              at + 1 <= Len(expr)
         /\ Char(expr, at) = FNMATCH_SEP =>
              Elements(expr)[at] = <<Element("SEP", <<>>, {})>> \o Elements(expr)[at + 1]
         /\ Char(expr, at) = FNMATCH_ONE =>
              Elements(expr)[at] = <<Element("ONE", <<>>, {})>> \o Elements(expr)[at + 1]
         /\ Char(expr, at) = FNMATCH_ANY =>
              IF IsDeep
              THEN /\ at + 2 <= Len(expr)
                   /\ Elements(expr)[at] = <<Element("DEEP", <<>>, {})>> \o Elements(expr)[at + 2]
              ELSE Elements(expr)[at] = <<Element("ANY", <<>>, {})>> \o Elements(expr)[at + 1]
         /\ Char(expr, at) = Nul =>
              at = Len(expr) /\ Elements(expr)[at] = <<Element("END", <<>>, {})>>
PROOF
<1>1. at \in Nat /\ Len(expr) \in Nat /\ expr \in Text /\ at \in 0..Len(expr) /\ at + 1 \in Nat
  BY DEF Reading, Text
<1>2. Elements(expr)[at] = Said(Elements(expr), expr, at)
  BY <1>1, ElementsFacts
<1>3. /\ Char(expr, at) # Nul <=> at < Len(expr)
      /\ Char(expr, at + 1) # Nul <=> at + 1 < Len(expr)
  BY <1>1, CharFacts
<1>4. /\ FNMATCH_SEP # Nul /\ FNMATCH_ONE # Nul /\ FNMATCH_ANY # Nul /\ FNMATCH_CHARS_START # Nul
      /\ FNMATCH_SEP # FNMATCH_ONE /\ FNMATCH_SEP # FNMATCH_ANY /\ FNMATCH_ONE # FNMATCH_ANY
      /\ FNMATCH_DEEP # Nul
  BY DEF FNMATCH_SEP, FNMATCH_ONE, FNMATCH_ANY, FNMATCH_CHARS_START, FNMATCH_DEEP, Nul
<1>5. CASE Char(expr, at) = Nul
  <2>1. at = Len(expr)
    BY <1>1, <1>3, <1>5
  <2> QED
    BY <1>2, <1>4, <1>5, <2>1 DEF Said
<1>6. CASE Char(expr, at) # Nul
  <2>1. at # Len(expr) /\ at + 1 <= Len(expr)
    BY <1>1, <1>3, <1>6
  <2>2. IsDeep => at + 2 <= Len(expr)
    BY <1>1, <1>3, <1>4 DEF IsDeep
  <2> QED
    BY <1>2, <1>4, <1>6, <2>1, <2>2 DEF Said, IsDeep
<1> QED
  BY <1>5, <1>6

(* What an iteration counts for an instruction other than a literal.       *)
LEMMA PartCounts ==
  ASSUME NEW name \in {"CHARS", "ONE", "ANY", "DEEP", "SEP", "END"}, NEW text, NEW bare
  PROVE  Counts([mchars |-> IF name \in {"CHARS", "ONE", "SEP"} THEN 1 ELSE 0,
                 groups |-> IF name \in Groups THEN 1 ELSE 0,
                 parts  |-> IF name = "SEP" THEN 1 ELSE 0], Part(name, text), bare)
PROOF
<1>1. \A ops : CountIn(Part(name, text), ops) = IF name \in ops THEN 1 ELSE 0
  <2>1. name # "FIXED"
    OBVIOUS
  <2> QED
    BY <2>1, CountOne DEF Part
<1>2. name \in Characters <=> name \in {"CHARS", "ONE", "SEP"}
  BY DEF Characters
<1>3. name \in {"SEP"} <=> name = "SEP"
  OBVIOUS
<1> QED
  BY <1>1, <1>2, <1>3 DEF Counts

(* At first nothing is said and everything is left to say.                 *)
LEMMA CompilerStarts == CompilerInit => CompilerInv
PROOF
<1> SUFFICES ASSUME CompilerInit PROVE CompilerInv
  OBVIOUS
<1> DEFINE os == <<0>>
           ps == <<>>
<1>1. os \in Seq(Nat) /\ Len(os) = 1 /\ os[1] = 0 /\ <<>> \in Seq(Nat) /\ Len(<<>>) = 0
      /\ ps \in Seq(Told) /\ Len(ps) = 0
  OBVIOUS
<1>2. program = <<>> /\ pc # "done" /\ at = 0
      /\ stats = [mchars |-> 0, groups |-> 0, parts |-> 0]
  BY DEF CompilerInit
<1>3. Reading /\ at <= Len(expr)
  <2>1. Reading
    BY ReadingInit
  <2> QED
    BY <1>2, <2>1 DEF Reading, Text
<1>4. FlattenSeq(ps) = <<>>
  BY FlattenEmpty
<1> HIDE DEF os, ps
<1>5. Laid(program, os)
  <2>1. 1..Len(os) - 1 = {} /\ 1..Len(os) - 2 = {}
    BY <1>1
  <2> QED
    BY <1>1, <1>2, <2>1 DEF Laid
<1>6. Open(os)
  BY <1>1 DEF Open
<1>7. Spelled(program, os, ps)
  <2>1. 1..Len(ps) = {} /\ Len(ps) = Len(os) - 1
    BY <1>1
  <2> QED
    BY <1>1, <2>1 DEF Spelled
<1>8. FlattenSeq(ps) \o Rest = ElementsOfExpr
  <2>1. Rest = ElementsOfExpr /\ Rest \in Told
    BY <1>2, <1>3, RestTold DEF Rest, ElementsOfExpr
  <2> QED
    BY <1>4, <2>1, ConcatEmptySeq DEF Told
<1>9. Counts(stats, FlattenSeq(ps), Bare(expr))
  <2>1. \A ops : CountIn(<<>>, ops) = 0
    BY FS_EmptySet DEF CountIn, Named
  <2> QED
    BY <1>2, <1>4, <2>1 DEF Counts
<1> QED
  BY <1>2, <1>3, <1>5, <1>6, <1>7, <1>8, <1>9 DEF CompilerInv, SaysPattern

(* An iteration that writes an instruction without an argument.            *)
LEMMA WritesBare ==
  ASSUME CompilerInv, pc = "loop", NEW name \in {"ONE", "ANY", "DEEP", "SEP"}, NEW n \in Nat,
         Iteration(n, compiler_opcode(program, name),
                   IF name \in {"CHARS", "ONE", "SEP"} THEN 1 ELSE 0,
                   IF name \in Groups THEN 1 ELSE 0, IF name = "SEP" THEN 1 ELSE 0),
         UNCHANGED pc,
         name \in {"ANY", "DEEP"} => Char(expr, at) = FNMATCH_ANY,
         name = "ANY" => Char(expr, at + n) # FNMATCH_ANY,
         at + n <= Len(expr),
         Elements(expr)[at] = <<Element(name, <<>>, {})>> \o Elements(expr)[at + n]
  PROVE  CompilerInv'
PROOF
<1>1. /\ at' = at + n /\ program' = compiler_opcode(program, name) /\ expr' = expr
      /\ stats' = [mchars |-> stats.mchars + (IF name \in {"CHARS", "ONE", "SEP"} THEN 1 ELSE 0),
                   groups |-> stats.groups + (IF name \in Groups THEN 1 ELSE 0),
                   parts |-> stats.parts + (IF name = "SEP" THEN 1 ELSE 0)]
  BY DEF Iteration
<1>2. Reading'
  BY <1>1 DEF CompilerInv, Reading
<1>3. Argument(name, <<>>) /\ Appended(program, name, <<>>) = compiler_opcode(program, name)
  BY DEF Argument, Appended, compiler_oparg
<1>4. Rest = Part(name, <<>>) \o Rest'
  <2>1. Rest = Elements(expr)[at] /\ Rest' = Elements(expr)[at + n]
    BY <1>1 DEF Rest
  <2>2. Part(name, <<>>) = <<Element(name, <<>>, {})>>
    BY DEF Part
  <2> QED
    BY <2>1, <2>2
<1> DEFINE mchars == IF name \in {"CHARS", "ONE", "SEP"} THEN 1 ELSE 0
           groups == IF name \in Groups THEN 1 ELSE 0
           parts == IF name = "SEP" THEN 1 ELSE 0
<1>5. mchars \in Nat /\ groups \in Nat /\ parts \in Nat
  OBVIOUS
<1>6. Counts([mchars |-> mchars, groups |-> groups, parts |-> parts], Part(name, <<>>), Bare(expr))
  BY PartCounts
<1>7. stats' = [mchars |-> stats.mchars + mchars, groups |-> stats.groups + groups,
                parts |-> stats.parts + parts]
  BY <1>1
<1> HIDE DEF mchars, groups, parts
<1>8. Writing(name, <<>>, mchars, groups, parts)
  BY <1>1, <1>3, <1>4, <1>5, <1>6, <1>7 DEF Writing
<1> QED
  BY <1>2, <1>8, CompilerOn

(* Each action writes what the pattern says at the bytes it reads.         *)
LEMMA CompilerSteps == CompilerInv /\ [CompilerNext]_compilerVars => CompilerInv'
PROOF
<1> SUFFICES ASSUME CompilerInv, [CompilerNext]_compilerVars PROVE CompilerInv'
  OBVIOUS
<1>1. Reading /\ Reading' /\ at <= Len(expr)
  BY ReadingOn DEF Reading, compilerVars, CompilerInv
<1>2. at \in Nat /\ expr \in Text /\ ArgMax \in Nat /\ Len(expr) \in Nat
  BY <1>1, ArgMaxAssumption DEF Reading, Text
<1>3. CASE CompileSep
  <2>1. pc = "loop" /\ UNCHANGED pc /\ Char(expr, at) = FNMATCH_SEP
        /\ Iteration(1, compiler_opcode(program, "SEP"), 1, 0, 1)
    BY <1>3 DEF CompileSep, At
  <2>2. at + 1 <= Len(expr) /\ Elements(expr)[at] = <<Element("SEP", <<>>, {})>> \o Elements(expr)[at + 1]
    BY <1>1, <2>1, SaidAt
  <2>3. "SEP" \notin Groups
    BY DEF Groups
  <2> QED
    BY <2>1, <2>2, <2>3, WritesBare
<1>4. CASE CompileOne
  <2>1. pc = "loop" /\ UNCHANGED pc /\ Char(expr, at) = FNMATCH_ONE
        /\ Iteration(1, compiler_opcode(program, "ONE"), 1, 1, 0)
    BY <1>4 DEF CompileOne, At
  <2>2. at + 1 <= Len(expr) /\ Elements(expr)[at] = <<Element("ONE", <<>>, {})>> \o Elements(expr)[at + 1]
    BY <1>1, <2>1, SaidAt
  <2>3. "ONE" \in Groups
    BY DEF Groups
  <2> QED
    BY <2>1, <2>2, <2>3, WritesBare
<1>5. CASE CompileAny
  <2>1. pc = "loop" /\ UNCHANGED pc /\ Char(expr, at) = FNMATCH_ANY
    BY <1>5 DEF CompileAny, At
  <2>2. CASE IsDeep
    <3>1. Iteration(2, compiler_opcode(program, "DEEP"), 0, 1, 0)
      BY <1>5, <2>2 DEF CompileAny
    <3>2. at + 2 <= Len(expr) /\ Elements(expr)[at] = <<Element("DEEP", <<>>, {})>> \o Elements(expr)[at + 2]
      BY <1>1, <2>1, <2>2, SaidAt
    <3>3. "DEEP" \in Groups
      BY DEF Groups
    <3> QED
      BY <2>1, <3>1, <3>2, <3>3, WritesBare
  <2>3. CASE ~IsDeep
    <3>1. Iteration(1, compiler_opcode(program, "ANY"), 0, 1, 0)
      BY <1>5, <2>3 DEF CompileAny
    <3>2. at + 1 <= Len(expr) /\ Elements(expr)[at] = <<Element("ANY", <<>>, {})>> \o Elements(expr)[at + 1]
      BY <1>1, <2>1, <2>3, SaidAt
    <3>3. "ANY" \in Groups /\ Char(expr, at + 1) # FNMATCH_ANY
      BY <2>3 DEF Groups, IsDeep, FNMATCH_DEEP
    <3> QED
      BY <2>1, <3>1, <3>2, <3>3, WritesBare
  <2> QED
    BY <2>2, <2>3
<1>6. CASE CompileChars
  <2> DEFINE text == CharsArg.text
             read == CharsArg.read
  <2>1. text \in Text /\ Len(text) <= ArgMax /\ read \in Nat
    BY <1>1, <1>2, ArgCuts DEF IsCut
  <2>2. Argument("CHARS", text)
    BY <2>1 DEF Argument
  <2>3. pc = "loop" /\ Char(expr, at) = FNMATCH_CHARS_START
    BY <1>6 DEF CompileChars, At
  <2>4. CASE CharsClosed(read)
    <3>1. /\ pc' = pc /\ expr' = expr /\ at' = at + (read + 2)
          /\ program' = Appended(program, "CHARS", text)
          /\ stats' = [mchars |-> stats.mchars + 1, groups |-> stats.groups + 1,
                       parts |-> stats.parts + 0]
      BY <1>6, <2>4 DEF CompileChars, CharsArg, Iteration, Appended
    <3>2. /\ IsClosed(expr, at) /\ Closing(expr, at) = at + 1 + read
          /\ Bracket(expr, at) = text /\ at + 2 + read <= Len(expr)
      BY <1>1, <2>4, CharsContains
    <3>3. at' = Closing(expr, at) + 1 /\ at' <= Len(expr)
      BY <1>2, <2>1, <3>1, <3>2
    <3> HIDE DEF text, read
    <3>4. Rest = Part("CHARS", text) \o Rest'
      <4>1. at \in 0..Len(expr) /\ at # Len(expr)
        <5>1. at < Len(expr)
          BY <1>2, <2>1, <3>2
        <5> QED
          BY <1>2, <5>1
      <4>2. Elements(expr)[at] = Said(Elements(expr), expr, at)
        BY <1>2, <4>1, ElementsFacts
      <4>3. Char(expr, at) \notin {FNMATCH_SEP, FNMATCH_ONE, FNMATCH_ANY}
        BY <2>3 DEF FNMATCH_CHARS_START, FNMATCH_SEP, FNMATCH_ONE, FNMATCH_ANY
      <4>4. Elements(expr)[at] =
              <<Element("CHARS", <<>>, IF Plain(text) THEN BracketSet(text) ELSE {})>>
              \o Elements(expr)[Closing(expr, at) + 1]
        BY <2>3, <3>2, <4>1, <4>2, <4>3 DEF Said
      <4>5. Rest = Elements(expr)[at] /\ Rest' = Elements(expr)[Closing(expr, at) + 1]
        BY <2>3, <3>1, <3>3 DEF Rest
      <4>6. Part("CHARS", text) = <<Element("CHARS", <<>>, IF Plain(text) THEN BracketSet(text) ELSE {})>>
        BY DEF Part
      <4> QED
        BY <4>4, <4>5, <4>6
    <3>5. Counts([mchars |-> 1, groups |-> 1, parts |-> 0], Part("CHARS", text), Bare(expr))
      <4>1. "CHARS" \in Groups
        BY DEF Groups
      <4>2. Counts([mchars |-> IF "CHARS" \in {"CHARS", "ONE", "SEP"} THEN 1 ELSE 0,
                    groups |-> IF "CHARS" \in Groups THEN 1 ELSE 0,
                    parts  |-> IF "CHARS" = "SEP" THEN 1 ELSE 0], Part("CHARS", text), Bare(expr))
        BY PartCounts
      <4> QED
        BY <4>1, <4>2
    <3>6. Writing("CHARS", text, 1, 1, 0)
      BY <2>2, <2>3, <3>1, <3>3, <3>4, <3>5 DEF Writing
    <3> QED
      BY <1>1, <2>3, <3>6, CompilerOn
  <2>5. CASE ~CharsClosed(read)
    <3>1. pc' = "abort" /\ UNCHANGED <<expr, at, program, stats>>
      BY <1>6, <2>5 DEF CompileChars, CharsArg
    <3> QED
      BY <1>1, <2>3, <3>1 DEF CompilerInv, SaysPattern, Open, Rest, ElementsOfExpr
  <2> QED
    BY <2>4, <2>5
<1>7. CASE CompileFixed
  <2> DEFINE text == FixedArg.text
             read == FixedArg.read
  <2>1. /\ pc = "loop" /\ pc' = pc /\ Char(expr, at) \notin FixedDelimiters
        /\ expr' = expr /\ at' = at + read /\ program' = Appended(program, "FIXED", text)
        /\ stats' = [mchars |-> stats.mchars + read, groups |-> stats.groups + 0,
                     parts |-> stats.parts + 0]
    BY <1>7 DEF CompileFixed, FixedArg, Iteration, Appended
  <2>2. text \in Text /\ Len(text) <= ArgMax /\ text # <<>> /\ read \in Nat
    BY <1>1, <1>2, <2>1, ArgCuts DEF IsCut
  <2>3. Argument("FIXED", text)
    BY <2>2 DEF Argument
  <2>4. /\ at + read <= Len(expr)
        /\ Elements(expr)[at] = Literals(text) \o Elements(expr)[at + read]
        /\ Len(text) <= read /\ (Bare(expr) => Len(text) = read)
    <3>1. Tells(expr, at, 0, FixedArg)
      BY <1>1, FixedTells
    <3>2. at + 0 = at /\ read - 0 = read
      BY <1>2, <2>2
    <3> QED
      BY <3>1, <3>2 DEF Tells
  <2> HIDE DEF text, read
  <2>5. Rest = Part("FIXED", text) \o Rest'
    <3>1. Rest = Elements(expr)[at] /\ Rest' = Elements(expr)[at + read]
      BY <2>1 DEF Rest
    <3>2. Part("FIXED", text) = Literals(text)
      BY DEF Part
    <3> QED
      BY <2>4, <3>1, <3>2
  <2>6. Counts([mchars |-> read, groups |-> 0, parts |-> 0], Part("FIXED", text), Bare(expr))
    <3>1. \A ops : CountIn(Part("FIXED", text), ops) = IF "FIXED" \in ops THEN Len(text) ELSE 0
      BY <2>2, CountLiterals DEF Part
    <3>2. "FIXED" \in Characters /\ "FIXED" \notin Groups /\ "FIXED" \notin {"SEP"}
      BY DEF Characters, Groups
    <3>3. Len(text) \in Nat
      BY <2>2 DEF Text
    <3> QED
      BY <2>2, <2>4, <3>1, <3>2, <3>3 DEF Counts
  <2>7. at' <= Len(expr) /\ (pc' = "done" <=> "FIXED" = "END")
    BY <2>1, <2>4
  <2>8. Writing("FIXED", text, read, 0, 0)
    BY <2>1, <2>2, <2>3, <2>5, <2>6, <2>7 DEF Writing
  <2> QED
    BY <1>1, <2>1, <2>8, CompilerOn
<1>8. CASE CompileEnd
  <2>1. /\ pc = "loop" /\ pc' = "done" /\ Char(expr, at) = Nul
        /\ expr' = expr /\ at' = at + 0 /\ program' = Appended(program, "END", <<>>)
        /\ stats' = [mchars |-> stats.mchars + 0, groups |-> stats.groups + 0,
                     parts |-> stats.parts + 0]
    BY <1>8 DEF CompileEnd, At, Iteration, Appended, compiler_oparg
  <2>2. Argument("END", <<>>) /\ at' <= Len(expr)
    BY <1>1, <1>2, <2>1 DEF Argument
  <2>3. Rest = Part("END", <<>>) \o Rest'
    <3>1. Rest = <<Element("END", <<>>, {})>> /\ Rest' = <<>>
      BY <1>1, <2>1, SaidAt DEF Rest
    <3>2. Part("END", <<>>) = <<Element("END", <<>>, {})>>
      BY DEF Part
    <3>3. Part("END", <<>>) \in Told
      BY <2>2, PartType
    <3> QED
      BY <3>1, <3>2, <3>3, ConcatEmptySeq DEF Told
  <2>4. Counts([mchars |-> 0, groups |-> 0, parts |-> 0], Part("END", <<>>), Bare(expr))
    <3>1. "END" \notin Groups
      BY DEF Groups
    <3>2. Counts([mchars |-> IF "END" \in {"CHARS", "ONE", "SEP"} THEN 1 ELSE 0,
                  groups |-> IF "END" \in Groups THEN 1 ELSE 0,
                  parts  |-> IF "END" = "SEP" THEN 1 ELSE 0], Part("END", <<>>), Bare(expr))
      BY PartCounts
    <3> QED
      BY <3>1, <3>2
  <2>5. Writing("END", <<>>, 0, 0, 0)
    BY <2>1, <2>2, <2>3, <2>4 DEF Writing
  <2> QED
    BY <1>1, <2>1, <2>5, CompilerOn
<1>9. CASE Compiled \/ UNCHANGED compilerVars
  <2>1. UNCHANGED <<expr, at, program, stats, pc>>
    BY <1>9 DEF Compiled, compilerVars
  <2> QED
    BY <1>1, <2>1 DEF CompilerInv, SaysPattern, Open, Closed, Rest, ElementsOfExpr
<1> QED
  BY <1>3, <1>4, <1>5, <1>6, <1>7, <1>8, <1>9 DEF CompilerNext

-----------------------------------------------------------------------------
(* Walking over the program: the recursive function of Offsets.            *)

GoesOn(o) == OPCODE(o) # "END" /\ vm_next(o) \in o + 1..Len(program) - 1
Walked(from, o) == IF GoesOn(o) THEN <<o>> \o from[vm_next(o)] ELSE <<o>>

LEMMA WalkExists ==
  ASSUME Len(program) \in Nat
  PROVE  \E from : from = [o \in 0..Len(program) |-> Walked(from, o)]
PROOF
<1> DEFINE m == Len(program)
           D == 0..m
           V == Seq(Nat)
           rank == [o \in D |-> m - o]
           B == [f \in [D -> V] |-> [o \in D |-> Walked(f, o)]]
<1>1. m \in Nat
  OBVIOUS
<1> HIDE DEF m
<1>2. ASSUME NEW o \in D, GoesOn(o) PROVE vm_next(o) \in D /\ rank[vm_next(o)] < rank[o]
  <2> DEFINE e == vm_next(o)
  <2>1. e \in o + 1..m - 1
    BY <1>2 DEF GoesOn, m
  <2> HIDE DEF e
  <2>2. e \in D /\ rank[e] < rank[o]
    BY <1>1, <2>1
  <2> QED
    BY <2>2 DEF e
<1>3. \A f \in [D -> V] : \A o \in D : Walked(f, o) \in V
  <2> SUFFICES ASSUME NEW f \in [D -> V], NEW o \in D PROVE Walked(f, o) \in V
    OBVIOUS
  <2>1. <<o>> \in V
    BY <1>1
  <2>2. GoesOn(o) => f[vm_next(o)] \in V
    BY <1>2
  <2>3. GoesOn(o) => <<o>> \o f[vm_next(o)] \in V
    BY <2>1, <2>2
  <2> QED
    BY <2>1, <2>3 DEF Walked
<1>4. \A f, g \in [D -> V] : \A o \in D :
        (\A v \in D : rank[v] < rank[o] => f[v] = g[v]) => B[f][o] = B[g][o]
  <2> SUFFICES ASSUME NEW f \in [D -> V], NEW g \in [D -> V], NEW o \in D,
                      \A v \in D : rank[v] < rank[o] => f[v] = g[v]
               PROVE  Walked(f, o) = Walked(g, o)
    OBVIOUS
  <2>1. GoesOn(o) => f[vm_next(o)] = g[vm_next(o)]
    BY <1>2
  <2> QED
    BY <2>1 DEF Walked
<1>5. rank \in [D -> Nat] /\ m + 1 \in Nat /\ \A o \in D : rank[o] < m + 1
  BY <1>1
<1>6. \A f \in [D -> V] : B[f] = [o \in D |-> Walked(f, o)]
  OBVIOUS
<1>7. B \in [[D -> V] -> [D -> V]] /\ V # {}
  <2>1. <<>> \in V
    OBVIOUS
  <2> QED
    BY <1>3, <2>1
<1>8. \E f \in [D -> V] : f = B[f]
  <2> HIDE DEF D, V, rank, B
  <2>1. Computes(B, D, V, rank, m + 1)
    BY <1>4, <1>5, <1>7 DEF Computes
  <2> QED
    BY <2>1, Recursion
<1> QED
  BY <1>6, <1>8 DEF m

LEMMA WalkFacts ==
  ASSUME Len(program) \in Nat
  PROVE  \E from : Offsets = from[0] /\ \A o \in 0..Len(program) : from[o] = Walked(from, o)
PROOF
<1> DEFINE from == CHOOSE f : f = [o \in 0..Len(program) |-> Walked(f, o)]
<1>1. Offsets = from[0]
  BY DEF Offsets, Walked, GoesOn
<1>2. from = [o \in 0..Len(program) |-> Walked(from, o)]
  BY WalkExists
<1> HIDE DEF from
<1> QED
  BY <1>1, <1>2

(* What the walk meets at an instruction.                                  *)
LEMMA PieceRead ==
  ASSUME NEW o, NEW e, Piece(program, o, e)
  PROVE  /\ vm_next(o) = e /\ vm_prev(e) = o
         /\ OPLEN(o) \in 0..ArgMax
         /\ Char(program, o) \in 0..6 /\ OPCODE(o) = OpNames[Char(program, o) + 1]
         /\ Char(program, o) = Op("FIXED") => OPLEN(o) > 0
         /\ Char(program, o) = Op("END") => e = o + 2
         /\ o \in Nat /\ e \in Nat
         /\ OPLEN(o) > 0 => OPLEN(o) = e - o - 3
                            /\ \A k \in o + 2..e - 2 : Char(program, k) \in Byte \ {Nul}
PROOF
<1>1. o \in Nat /\ e \in Nat /\ ArgMax \in Nat
  BY ArgMaxAssumption DEF Piece
<1>2. Char(program, o) \in 0..6
  BY DEF Piece
<1> DEFINE n == e - o - 3
<1>3. CASE n = -1 /\ Char(program, o + 1) = 0 /\ Char(program, o) # Op("FIXED")
  <2>1. e = o + 2 /\ e - 1 = o + 1
    BY <1>1, <1>3
  <2>2. OPLEN(o) = 0 /\ OPRLEN(e) = 0
    BY <1>3, <2>1 DEF OPLEN, OPRLEN
  <2>3. vm_next(o) = e /\ vm_prev(e) = o
    BY <1>1, <2>1, <2>2 DEF vm_next, vm_prev
  <2> QED
    BY <1>1, <1>2, <1>3, <2>1, <2>2, <2>3 DEF OPCODE
<1>4. CASE /\ n \in 1..ArgMax
           /\ Char(program, o + 1) = n /\ Char(program, e - 1) = n
           /\ \A k \in o + 2..e - 2 : Char(program, k) \in Byte \ {Nul}
           /\ Char(program, o) \in {Op("FIXED"), Op("CHARS")}
  <2>1. OPLEN(o) = n /\ OPRLEN(e) = n /\ n > 0 /\ n \in Nat /\ n \in 0..ArgMax
    BY <1>1, <1>4 DEF OPLEN, OPRLEN
  <2>2. vm_next(o) = e /\ vm_prev(e) = o
    BY <1>1, <2>1 DEF vm_next, vm_prev
  <2>3. Char(program, o) # Op("END")
    BY <1>4, OpCodes
  <2> QED
    BY <1>1, <1>2, <1>4, <2>1, <2>2, <2>3 DEF OPCODE
<1> QED
  BY <1>3, <1>4 DEF Piece

(* A finished program, and its instructions one by one.                    *)
Done(os) == Laid(program, os) /\ Closed(os)

LEMMA DoneFacts ==
  ASSUME NEW os, Done(os)
  PROVE  LET n == Len(os) - 1
         IN /\ n \in Nat /\ n > 0 /\ Len(program) \in Nat
            /\ os[1] = 0 /\ os[n + 1] = Len(program)
            /\ \A k \in 1..n :
                 /\ Piece(program, os[k], os[k + 1])
                 /\ os[k] \in Nat /\ os[k + 1] \in Nat
                 /\ os[k] < os[k + 1] /\ os[k + 1] <= Len(program)
                 /\ Char(program, os[k]) = Op("END") <=> k = n
            /\ \A k \in 1..n - 1 :
                 Char(program, os[k]) = Op("ANY") => Char(program, os[k + 1]) \notin {Op("ANY"), Op("DEEP")}
PROOF
<1> DEFINE n == Len(os) - 1
<1>1. /\ os \in Seq(Nat) /\ Len(os) \in Nat /\ Len(os) > 1 /\ program \in Seq(Nat)
      /\ os[1] = 0 /\ os[Len(os)] = Len(program) /\ Char(program, os[n]) = Op("END")
      /\ \A k \in 1..n : Piece(program, os[k], os[k + 1]) /\ os[k] < os[k + 1]
                         /\ os[k + 1] <= Len(program)
      /\ \A k \in 1..Len(os) - 2 :
           /\ Char(program, os[k]) # Op("END")
           /\ Char(program, os[k]) = Op("ANY") => Char(program, os[k + 1]) \notin {Op("ANY"), Op("DEEP")}
  BY DEF Done, Laid, Closed, LastOp
<1>2. n \in Nat /\ n > 0 /\ n + 1 = Len(os) /\ n - 1 = Len(os) - 2 /\ Len(program) \in Nat
  BY <1>1
<1>3. \A k \in 1..n : os[k] \in Nat /\ os[k + 1] \in Nat
  <2>1. \A k \in 1..n : k \in 1..Len(os) /\ k + 1 \in 1..Len(os)
    BY <1>1
  <2>2. os \in Seq(Nat)
    BY <1>1
  <2>3. \A i \in 1..Len(os) : os[i] \in Nat
    BY <2>2
  <2> HIDE DEF n
  <2> QED
    BY <2>1, <2>3
<1> HIDE DEF n
<1>4. ASSUME NEW k \in 1..n PROVE Char(program, os[k]) = Op("END") <=> k = n
  <2>1. k = n \/ k \in 1..n - 1
    BY <1>2
  <2>2. n \notin 1..n - 1
    BY <1>2
  <2> QED
    BY <1>1, <1>2, <2>1, <2>2
<1> QED
  BY <1>1, <1>2, <1>3, <1>4 DEF n

(* Walking forth meets the instructions one by one.                        *)
LEMMA WalkMeets ==
  ASSUME NEW os, Done(os)
  PROVE  /\ Offsets \in Seq(Nat) /\ Len(Offsets) = Len(os) - 1
         /\ \A k \in 1..Len(os) - 1 : Offsets[k] = os[k]
PROOF
<1> DEFINE n == Len(os) - 1
<1>1. /\ n \in Nat /\ n > 0 /\ Len(program) \in Nat
      /\ os[1] = 0 /\ os[n + 1] = Len(program)
      /\ \A k \in 1..n :
           /\ Piece(program, os[k], os[k + 1])
           /\ os[k] \in Nat /\ os[k + 1] \in Nat
           /\ os[k] < os[k + 1] /\ os[k + 1] <= Len(program)
           /\ Char(program, os[k]) = Op("END") <=> k = n
  BY DoneFacts
<1>2. PICK from : Offsets = from[0] /\ \A o \in 0..Len(program) : from[o] = Walked(from, o)
  BY <1>1, WalkFacts
<1> HIDE DEF n
<1> DEFINE Meets(w, k) == w \in Seq(Nat) /\ Len(w) = n - k + 1 /\ \A j \in 1..n - k + 1 : w[j] = os[k + j - 1]
           T == {k \in 0..n : k > 0 => Meets(from[os[k]], k)}
<1>3. ASSUME NEW k \in 0..n, \A j \in k + 1..n : j \in T, k > 0
      PROVE  Meets(from[os[k]], k)
  <2> DEFINE o == os[k]
             e == os[k + 1]
  <2>1. /\ k \in 1..n /\ k + 1 \in 1..n + 1
        /\ o \in Nat /\ e \in Nat /\ o < e /\ e <= Len(program)
        /\ Piece(program, o, e) /\ (Char(program, o) = Op("END") <=> k = n)
    <3>1. k \in 1..n /\ k + 1 \in 1..n + 1
      BY <1>1, <1>3
    <3> QED
      BY <1>1, <3>1
  <2>2. from[o] = Walked(from, o)
    <3>1. o \in 0..Len(program)
      BY <1>1, <2>1
    <3> QED
      BY <1>2, <3>1
  <2>3. vm_next(o) = e /\ (OPCODE(o) = "END" <=> k = n)
    <3>1. Char(program, o) \in 0..6 /\ OPCODE(o) = OpNames[Char(program, o) + 1]
      BY <2>1, PieceRead
    <3>2. OPCODE(o) = "END" <=> Char(program, o) = 6
      BY <3>1 DEF OpNames
    <3> QED
      BY <2>1, <3>2, PieceRead, OpCodes
  <2>4. CASE k = n
    <3>1. from[o] = <<o>>
      BY <2>2, <2>3, <2>4 DEF Walked, GoesOn
    <3>2. n - k + 1 = 1 /\ <<o>> \in Seq(Nat) /\ Len(<<o>>) = 1 /\ k + 1 - 1 = k
      BY <1>1, <2>1, <2>4
    <3>3. Meets(<<o>>, k)
      BY <3>2
    <3> QED
      BY <3>1, <3>3
  <2>5. CASE k # n
    <3>1. k + 1 \in 1..n /\ k + 1 \in k + 1..n /\ n - k \in Nat /\ n - (k + 1) + 1 = n - k
      BY <1>1, <2>1, <2>5
    <3>2. e \in o + 1..Len(program) - 1
      <4> DEFINE x == os[(k + 1) + 1]
      <4>1. x \in Nat /\ e < x /\ x <= Len(program)
        BY <1>1, <3>1
      <4> HIDE DEF x, e, o
      <4> QED
        BY <1>1, <2>1, <4>1
    <3> DEFINE w == from[e]
    <3>3. from[o] = <<o>> \o w
      BY <2>2, <2>3, <2>5, <3>2 DEF Walked, GoesOn
    <3>4. Meets(w, k + 1)
      <4>1. k + 1 \in T
        BY <1>3, <3>1
      <4>2. k + 1 > 0
        BY <3>1
      <4> HIDE DEF Meets
      <4> QED
        BY <4>1, <4>2
    <3>5. w \in Seq(Nat) /\ Len(w) = n - k /\ \A j \in 1..n - k : w[j] = os[(k + 1) + j - 1]
      BY <3>1, <3>4
    <3> HIDE DEF w, o
    <3> DEFINE v == <<o>> \o w
    <3>6. v \in Seq(Nat) /\ Len(v) = 1 + (n - k) /\ v[1] = o
          /\ \A j \in 1..n - k : v[j + 1] = w[j]
      BY <2>1, <3>1, <3>5
    <3> HIDE DEF v
    <3>7. ASSUME NEW j \in 1..n - k + 1 PROVE v[j] = os[k + j - 1]
      <4>1. CASE j = 1
        BY <2>1, <3>6, <4>1 DEF o
      <4>2. CASE j # 1
        <5> DEFINE i == j - 1
        <5>1. i \in 1..n - k /\ j = i + 1 /\ k + j - 1 = (k + 1) + i - 1
          BY <3>1, <4>2, <2>1, <1>1
        <5> HIDE DEF i
        <5>2. v[i + 1] = w[i] /\ w[i] = os[(k + 1) + i - 1]
          BY <3>5, <3>6, <5>1
        <5> QED
          BY <5>1, <5>2
      <4> QED
        BY <4>1, <4>2
    <3>8. Len(v) = n - k + 1
      BY <3>1, <3>6
    <3>9. Meets(v, k)
      BY <3>6, <3>7, <3>8
    <3> QED
      BY <3>3, <3>9 DEF o, v
  <2> QED
    BY <2>4, <2>5
<1>4. 1 \in T
  <2>1. \A k \in 0..n : (\A j \in k + 1..n : j \in T) => k \in T
    BY <1>3
  <2> HIDE DEF T
  <2>2. 0..n \subseteq T
    BY <1>1, <2>1, AllDownward
  <2>3. 1 \in 0..n
    BY <1>1
  <2> QED
    BY <2>2, <2>3
<1>5. Meets(from[0], 1)
  BY SMTT(30), <1>1, <1>4
<1>6. n - 1 + 1 = n /\ \A j \in 1..n : 1 + j - 1 = j
  BY <1>1
<1>7. Offsets \in Seq(Nat) /\ Len(Offsets) = n /\ \A j \in 1..n : Offsets[j] = os[j]
  BY <1>2, <1>5, <1>6
<1> QED
  BY <1>7 DEF n

(* Walking back over a compiled program by the lengths behind the          *)
(* arguments finds what walking forth over it found, and walking forth     *)
(* ends where the program does: for every pattern, with literals of any    *)
(* length and any escapes at the places where they are cut.                *)
THEOREM WalksAgree == CompilerSpec => []PrevUndoesNext
PROOF
<1>1. CompilerInv => PrevUndoesNext
  <2> SUFFICES ASSUME CompilerInv, pc = "done"
               PROVE  /\ \A k \in DOMAIN Offsets : OPLEN(Offsets[k]) \in 0..ArgMax
                      /\ \A k \in 2..Len(Offsets) : vm_prev(Offsets[k]) = Offsets[k - 1]
                      /\ Offsets[Len(Offsets)] + 2 = Len(program)
    BY DEF PrevUndoesNext
  <2>1. PICK os : Done(os)
    BY DEF CompilerInv, SaysPattern, Done
  <2> DEFINE n == Len(os) - 1
  <2>2. /\ n \in Nat /\ n > 0 /\ os[n + 1] = Len(program)
        /\ \A k \in 1..n : Piece(program, os[k], os[k + 1])
                           /\ (Char(program, os[k]) = Op("END") <=> k = n)
    BY <2>1, DoneFacts
  <2>3. Offsets \in Seq(Nat) /\ Len(Offsets) = n /\ \A k \in 1..n : Offsets[k] = os[k]
    BY <2>1, WalkMeets
  <2>4. DOMAIN Offsets = 1..n
    BY <2>3
  <2> HIDE DEF n
  <2>5. ASSUME NEW k \in 1..n PROVE OPLEN(Offsets[k]) \in 0..ArgMax
    BY <2>2, <2>3, PieceRead
  <2>6. ASSUME NEW k \in 2..n PROVE vm_prev(Offsets[k]) = Offsets[k - 1]
    <3> DEFINE j == k - 1
    <3>1. j \in 1..n /\ k \in 1..n /\ k = j + 1
      BY <2>2
    <3> HIDE DEF j
    <3>2. Piece(program, os[j], os[j + 1]) /\ Offsets[j] = os[j] /\ Offsets[k] = os[j + 1]
      BY <2>2, <2>3, <3>1
    <3>3. vm_prev(os[j + 1]) = os[j]
      BY <3>2, PieceRead
    <3> QED
      BY <3>2, <3>3 DEF j
  <2>7. Offsets[n] + 2 = Len(program)
    <3>1. n \in 1..n
      BY <2>2
    <3>2. Piece(program, os[n], os[n + 1]) /\ Char(program, os[n]) = Op("END")
      BY <2>2, <3>1
    <3>3. os[n + 1] = os[n] + 2
      BY <3>2, PieceRead
    <3> QED
      BY <2>2, <2>3, <3>1, <3>3
  <2> QED
    BY <2>3, <2>4, <2>5, <2>6, <2>7
<1> QED
  BY <1>1, CompilerStarts, CompilerSteps, PTL DEF CompilerSpec

(* The instruction at o, as FnmatchProgram has it.                         *)
LEMMA InstructionOK ==
  ASSUME NEW o, NEW e, Piece(program, o, e), program \in Seq(Nat), e <= Len(program)
  PROVE  /\ Instruction(o) \in Programs!Instruction
         /\ Instruction(o).op = OPCODE(o)
         /\ OPCODE(o) = OpNames[Char(program, o) + 1] /\ Char(program, o) \in 0..6
         /\ OPCODE(o) = "FIXED" =>
              /\ Len(Instruction(o).str) > 0
              /\ \A k \in 1..Len(Instruction(o).str) : Instruction(o).str[k] # Nul
PROOF
<1> DEFINE n == OPLEN(o)
           arg == SubSeq(program, o + 3, o + 2 + n)
           r == Instruction(o)
<1>1. /\ o \in Nat /\ e \in Nat /\ n \in 0..ArgMax /\ ArgMax \in Nat /\ n \in Nat
      /\ Char(program, o) \in 0..6 /\ OPCODE(o) = OpNames[Char(program, o) + 1]
      /\ Char(program, o) = Op("FIXED") => n > 0
      /\ n > 0 => n = e - o - 3 /\ \A k \in o + 2..e - 2 : Char(program, k) \in Byte \ {Nul}
  BY PieceRead, ArgMaxAssumption
<1>2. OPCODE(o) \in {"FIXED", "CHARS", "ONE", "ANY", "DEEP", "SEP", "END"}
  BY <1>1 DEF OpNames
<1>3. OPCODE(o) = "FIXED" => n > 0
  <2>1. OPCODE(o) = "FIXED" => Char(program, o) = 0
    BY <1>1 DEF OpNames
  <2> QED
    BY <1>1, <2>1, OpCodes
<1>4. /\ r.op = OPCODE(o)
      /\ r.str = IF OPCODE(o) = "FIXED" THEN arg ELSE <<>>
      /\ r.set = IF OPCODE(o) = "CHARS" THEN {c \in Byte : vm_chars(arg, c)} ELSE {}
      /\ r = [op |-> r.op, str |-> r.str, set |-> r.set]
  BY DEF Instruction
<1>5. Len(program) \in Nat
  OBVIOUS
<1> HIDE DEF n
<1>6. ASSUME n > 0
      PROVE  arg \in Seq(Byte \ {Nul}) /\ Len(arg) = n
  <2> DEFINE from == o + 3
             to == o + 2 + n
  <2>1. n = e - o - 3 /\ from \in Int /\ to \in Int /\ from <= to /\ to - from + 1 = n
    BY <1>1, <1>6
  <2>2. ASSUME NEW i \in from..to PROVE program[i] \in Byte \ {Nul}
    <3> DEFINE k == i - 1
    <3>1. k \in o + 2..e - 2 /\ k < Len(program) /\ k + 1 = i
      BY <1>1, <1>5, <2>1
    <3> HIDE DEF k
    <3>2. Char(program, k) \in Byte \ {Nul}
      BY <1>1, <1>6, <3>1
    <3> QED
      BY <3>1, <3>2 DEF Char
  <2>3. arg = SubSeq(program, from, to)
    OBVIOUS
  <2> HIDE DEF arg, from, to
  <2> QED
    BY <2>1, <2>2, <2>3, SubSeqProperties
<1> HIDE DEF arg, r
<1>7. r.str \in Seq(Byte) /\ r.set \in SUBSET Byte
  <2>1. Seq(Byte \ {Nul}) \subseteq Seq(Byte)
    BY SeqMonotonic
  <2>2. <<>> \in Seq(Byte)
    OBVIOUS
  <2> QED
    BY <1>3, <1>4, <1>6, <2>1, <2>2
<1>8. r \in Programs!Instruction
  BY <1>2, <1>4, <1>7 DEF Programs!Instruction, Programs!Opcode
<1>9. ASSUME OPCODE(o) = "FIXED"
      PROVE  Len(r.str) > 0 /\ \A k \in 1..Len(r.str) : r.str[k] # Nul
  BY SMTT(30), <1>1, <1>3, <1>4, <1>6, <1>9
<1> QED
  BY <1>1, <1>4, <1>8, <1>9 DEF r

(* What the machine assumes of a program holds for what fnmatch_compile    *)
(* makes of every pattern, and so do the theorems about the machine.       *)
THEOREM CompiledIsWellFormed == CompilerSpec => []ProgramWellFormed
PROOF
<1>1. CompilerInv => ProgramWellFormed
  <2> SUFFICES ASSUME CompilerInv, pc = "done" PROVE Programs!WellFormed(Instructions)
    BY DEF ProgramWellFormed
  <2>1. PICK os : Done(os)
    BY DEF CompilerInv, SaysPattern, Done
  <2> DEFINE n == Len(os) - 1
             p == Instructions
  <2>2. /\ n \in Nat /\ n > 0 /\ os[n + 1] = Len(program)
        /\ \A k \in 1..n : /\ Piece(program, os[k], os[k + 1]) /\ os[k + 1] <= Len(program)
                           /\ Char(program, os[k]) = Op("END") <=> k = n
        /\ \A k \in 1..n - 1 :
             Char(program, os[k]) = Op("ANY") => Char(program, os[k + 1]) \notin {Op("ANY"), Op("DEEP")}
    BY <2>1, DoneFacts
  <2>3. Offsets \in Seq(Nat) /\ Len(Offsets) = n /\ \A k \in 1..n : Offsets[k] = os[k]
    BY <2>1, WalkMeets
  <2>4. DOMAIN Offsets = 1..n /\ program \in Seq(Nat)
    BY <2>1, <2>3 DEF Done, Laid
  <2> HIDE DEF n
  <2>5. p = [k \in 1..n |-> Instruction(os[k])]
    BY <2>3, <2>4 DEF Instructions
  <2>6. \A k \in 1..n : p[k] = Instruction(os[k])
    BY <2>5
  <2>7. ASSUME NEW k \in 1..n
        PROVE  /\ p[k] \in Programs!Instruction
               /\ p[k].op = OpNames[Char(program, os[k]) + 1] /\ Char(program, os[k]) \in 0..6
               /\ p[k].op = "FIXED" => Len(p[k].str) > 0 /\ \A j \in 1..Len(p[k].str) : p[k].str[j] # Nul
    <3> DEFINE o == os[k]
               e == os[k + 1]
    <3>1. Piece(program, o, e) /\ e <= Len(program)
      BY <2>2
    <3>2. p[k] = Instruction(o)
      BY <2>6
    <3> HIDE DEF o, e
    <3>3. /\ Instruction(o) \in Programs!Instruction
          /\ Instruction(o).op = OPCODE(o)
          /\ OPCODE(o) = OpNames[Char(program, o) + 1] /\ Char(program, o) \in 0..6
          /\ OPCODE(o) = "FIXED" =>
               /\ Len(Instruction(o).str) > 0
               /\ \A j \in 1..Len(Instruction(o).str) : Instruction(o).str[j] # Nul
      BY <2>4, <3>1, InstructionOK
    <3>4. /\ p[k] \in Programs!Instruction
          /\ p[k].op = OpNames[Char(program, o) + 1] /\ Char(program, o) \in 0..6
          /\ p[k].op = "FIXED" => Len(p[k].str) > 0 /\ \A j \in 1..Len(p[k].str) : p[k].str[j] # Nul
      BY <3>2, <3>3
    <3> QED
      BY <3>4 DEF o
  <2>8. p \in [1..n -> Programs!Instruction]
    BY <2>5, <2>6, <2>7
  <2> HIDE DEF p
  <2>9. p \in Seq(Programs!Instruction) /\ Len(p) = n
    BY <2>2, <2>8
  <2>10. ASSUME NEW k \in 1..n
         PROVE  /\ p[k].op = "END" <=> k = n
                /\ p[k].op = "ANY" <=> Char(program, os[k]) = Op("ANY")
                /\ p[k].op = "DEEP" <=> Char(program, os[k]) = Op("DEEP")
    <3>1. /\ p[k].op = "END" <=> Char(program, os[k]) = 6
          /\ p[k].op = "ANY" <=> Char(program, os[k]) = 3
          /\ p[k].op = "DEEP" <=> Char(program, os[k]) = 4
      BY <2>7 DEF OpNames
    <3> QED
      BY <2>2, <3>1, OpCodes
  <2>11. ASSUME NEW k \in 1..n, p[k].op = "ANY"
         PROVE  p[k + 1].op \notin {"ANY", "DEEP"}
    <3>1. k # n
      BY <2>10, <2>11
    <3>2. k \in 1..n - 1 /\ k + 1 \in 1..n
      BY <2>2, <3>1
    <3> QED
      BY <2>2, <2>10, <2>11, <3>2
  <2>12. ASSUME NEW k \in 1..n
         PROVE  /\ p[k].op = "END" <=> k = n
                /\ p[k].op = "FIXED" => Len(p[k].str) > 0 /\ \A j \in 1..Len(p[k].str) : p[k].str[j] # Nul
                /\ p[k].op = "ANY" => p[k + 1].op \notin {"ANY", "DEEP"}
    BY <2>7, <2>10, <2>11
  <2>13. Len(p) > 0
    BY <2>2, <2>9
  <2>14. Programs!WellFormed(p)
    BY <2>9, <2>12, <2>13 DEF Programs!WellFormed
  <2> QED
    BY <2>14 DEF p
<1> QED
  BY <1>1, CompilerStarts, CompilerSteps, PTL DEF CompilerSpec

(* At the end nothing is left to say, so the program says the pattern.     *)
LEMMA ProgramSays ==
  ASSUME CompilerInv, pc = "done"
  PROVE  ProgramElements = ElementsOfExpr /\ Counts(stats, ProgramElements, Bare(expr))
PROOF
<1>1. PICK os, ps : SaysPattern(os, ps)
  BY DEF CompilerInv
<1>2. /\ Done(os) /\ Spelled(program, os, ps) /\ FlattenSeq(ps) \o <<>> = ElementsOfExpr
      /\ Counts(stats, FlattenSeq(ps), Bare(expr))
  BY <1>1 DEF SaysPattern, Done, Rest
<1> DEFINE n == Len(os) - 1
<1>3. n \in Nat /\ program \in Seq(Nat) /\ \A k \in 1..n : os[k + 1] <= Len(program)
  BY <1>2, DoneFacts DEF Done, Laid
<1>4. Offsets \in Seq(Nat) /\ Len(Offsets) = n /\ \A k \in 1..n : Offsets[k] = os[k]
  BY <1>2, WalkMeets
<1>5. ps \in Seq(Told) /\ Len(ps) = n /\ \A k \in 1..n : Says(program, os[k], os[k + 1], ps[k])
  BY <1>2 DEF Spelled
<1> HIDE DEF n
<1>6. DOMAIN Offsets = 1..n
  BY <1>4
<1>7. DOMAIN Instructions = 1..n /\ \A k \in 1..n : Instructions[k] = Instruction(os[k])
  BY <1>4, <1>6 DEF Instructions
<1>8. ASSUME NEW k \in 1..n PROVE ReadAs(os[k]) = ps[k]
  BY <1>3, <1>5, ReadsPart
<1> DEFINE Arg(o) == SubSeq(program, o + 3, o + 2 + OPLEN(o))
           Split(k) ==
             IF Instructions[k].op = "FIXED"
             THEN [m \in DOMAIN Instructions[k].str |-> Literal(Instructions[k].str[m])]
             ELSE IF Instructions[k].op = "CHARS" /\ ~Plain(Arg(Offsets[k]))
             THEN <<Element("CHARS", <<>>, {})>>
             ELSE <<Instructions[k]>>
<1>9. \A k \in 1..n : Split(k) = ReadAs(os[k])
  BY <1>4, <1>7 DEF ReadAs
<1>10. ProgramElements = FlattenSeq([k \in DOMAIN Instructions |-> Split(k)])
  BY DEF ProgramElements
<1> HIDE DEF Split, Arg
<1>11. [k \in DOMAIN Instructions |-> Split(k)] = ps
  <2>1. \A k \in 1..n : Split(k) = ps[k]
    BY <1>8, <1>9
  <2>2. ps = [k \in 1..n |-> ps[k]]
    BY <1>5
  <2> QED
    BY <1>7, <2>1, <2>2
<1>12. ProgramElements = FlattenSeq(ps)
  BY <1>10, <1>11
<1>13. FlattenSeq(ps) \o <<>> = FlattenSeq(ps)
  <2>1. FlattenSeq(ps) \in Seq(Programs!Instruction)
    BY <1>5, FlattenType DEF Told
  <2> QED
    BY <2>1, ConcatEmptySeq
<1> QED
  BY <1>2, <1>12, <1>13

(* However a literal is cut and its escapes removed, and wherever brackets *)
(* close, the program spells out what src/README.md has the pattern say,   *)
(* as long as the compiler knows all its escapes.                          *)
THEOREM CompiledMeansPattern == CompilerSpec => []ProgramMeansPattern
PROOF
<1>1. CompilerInv => ProgramMeansPattern
  <2> SUFFICES ASSUME CompilerInv, pc = "done", Meaning(expr)[0].known
               PROVE  ProgramElements = PatternElements
    BY DEF ProgramMeansPattern
  <2>1. ProgramElements = ElementsOfExpr
    BY ProgramSays
  <2>2. expr \in Text
    BY DEF CompilerInv, Reading, Text
  <2> QED
    BY <2>1, <2>2, KnownIsSaid DEF PatternElements, ElementsOfExpr
<1> QED
  BY <1>1, CompilerStarts, CompilerSteps, PTL DEF CompilerSpec

(* The statistics count what the program says, whatever is escaped.        *)
THEOREM StatsCountElements == CompilerSpec => []StatsCount
PROOF
<1>1. CompilerInv => StatsCount
  <2> SUFFICES ASSUME CompilerInv, pc = "done" PROVE StatsCount
    BY DEF StatsCount
  <2>1. Counts(stats, ProgramElements, Bare(expr))
    BY ProgramSays
  <2>2. \A ops : Count(ops) = CountIn(ProgramElements, ops)
    BY DEF Count, CountIn, Named
  <2> QED
    BY <2>1, <2>2 DEF Counts, StatsCount, Bare, Characters, Groups
<1> QED
  BY <1>1, CompilerStarts, CompilerSteps, PTL DEF CompilerSpec

=============================================================================
