------------------------- MODULE MemStringsProofs -------------------------
(***************************************************************************)
(* Proofs about the string stack and its array of pointers, for every      *)
(* alphabet, every set of strings, and wherever the allocator puts the     *)
(* buffer.                                                                 *)
(***************************************************************************)
EXTENDS MemStrings, MemBufferProofs

-----------------------------------------------------------------------------
(* The array of pointers.                                                  *)

Slots(a) == a.alloc \div PointerSize

(* A block of a number of pointers, with the length inside of it.          *)
PointerArray(a) ==
  a \in [data : [0..Slots(a) - 1 -> Int \cup {Junk}], length : 0..Slots(a), alloc : Nat]

PointersStored(a) == \A k \in 0..a.length - 1 : a.data[k] \in Int

LEMMA SlotsHold ==
  ASSUME NEW n \in Nat, NEW size \in Nat, n * PointerSize <= size
  PROVE  size \div PointerSize \in Nat /\ n <= size \div PointerSize
PROOF
<1> DEFINE P == PointerSize
           q == size \div P
<1>1. P \in Nat /\ P > 0
  BY BasesAssumption
<1> HIDE DEF P
<1>2. q \in Int /\ size < (q + 1) * P /\ q * P <= size
  BY <1>1
<1> HIDE DEF q
<1>3. 0 <= q
  BY <1>1, <1>2
<1>4. ~(q + 1 <= n)
  <2> SUFFICES ASSUME q + 1 <= n
               PROVE  FALSE
    OBVIOUS
  <2>1. (q + 1) * P <= n * P
    BY <1>1, <1>2
  <2> QED
    BY <1>1, <1>2, <2>1 DEF P
<1> QED
  BY <1>2, <1>3, <1>4 DEF q, P

LEMMA ArrayFields ==
  ASSUME NEW a, PointerArray(a)
  PROVE  /\ a.length \in Nat /\ a.alloc \in Nat /\ a.length <= Slots(a) /\ Slots(a) \in Int
         /\ a.data \in [0..Slots(a) - 1 -> Int \cup {Junk}]
PROOF
<1>1. a.length \in 0..Slots(a) /\ a.alloc \in Nat
  BY DEF PointerArray
<1>2. a.data \in [0..Slots(a) - 1 -> Int \cup {Junk}]
  BY DEF PointerArray
<1>3. Slots(a) \in Int
  BY <1>1, BasesAssumption DEF Slots
<1> QED
  BY <1>1, <1>2, <1>3

(* What growing the array leaves.                                          *)
PointersKept(a, len, g) ==
  /\ PointerArray(g) /\ g.length = a.length /\ len + 1 <= Slots(g)
  /\ \A k \in 0..a.length - 1 : g.data[k] = a.data[k]

LEMMA GrownPointers ==
  ASSUME jemalloc \in BOOLEAN, NEW a, PointerArray(a), NEW len \in Nat
  PROVE  PointersKept(a, len, PointersGrown(a, len))
PROOF
<1> DEFINE longer == IF len > a.length THEN len ELSE a.length
           needed == (longer + 1) * PointerSize
           size == BlockSize(REALLOC_SIZE(needed))
           g == PointersGrown(a, len)
<1>1. PointerSize \in Nat /\ a.length \in Nat /\ a.alloc \in Nat /\ Slots(a) \in Int
  BY BasesAssumption DEF PointerArray, Slots
<1>2. longer \in Nat /\ longer + 1 \in Nat /\ len + 1 <= longer + 1 /\ a.length <= longer
  BY <1>1
<1>3. needed \in Nat
  <2> HIDE DEF longer
  <2> QED
    BY <1>1, <1>2
<1> HIDE DEF longer
<1>4. CASE needed <= a.alloc
  <2>1. longer + 1 <= Slots(a)
    BY <1>1, <1>2, <1>4, SlotsHold DEF Slots
  <2>2. g = a
    BY <1>4 DEF PointersGrown, longer
  <2> QED
    BY <1>1, <1>2, <2>1, <2>2 DEF PointersKept
<1>5. CASE ~(needed <= a.alloc)
  <2> DEFINE d == [i \in 0..size \div PointerSize - 1 |-> IF i < a.length THEN a.data[i] ELSE Junk]
  <2>1. g = [a EXCEPT !.alloc = size, !.data = d]
    BY <1>5 DEF PointersGrown, longer
  <2>2. size \in Nat /\ needed <= size
    <3> HIDE DEF needed
    <3> QED
      BY <1>3, BlockSizes
  <2>3. longer + 1 <= size \div PointerSize /\ size \div PointerSize \in Nat
    <3> HIDE DEF size
    <3> QED
      BY <1>2, <2>2, SlotsHold
  <2> HIDE DEF size, needed
  <2>4. g.alloc = size /\ g.length = a.length /\ g.data = d /\ Slots(g) = size \div PointerSize
    <3> HIDE DEF d
    <3> QED
      BY <2>1 DEF PointerArray, Slots
  <2>5. g = [data |-> d, length |-> a.length, alloc |-> size]
    <3> HIDE DEF d
    <3> QED
      BY <2>1 DEF PointerArray
  <2> DEFINE m == size \div PointerSize
  <2>6. a.length \in 0..m /\ m \in Nat
    BY <1>1, <1>2, <2>3
  <2> HIDE DEF m
  <2>7. d \in [0..m - 1 -> Int \cup {Junk}]
    <3>1. ASSUME NEW i \in 0..m - 1, i < a.length
          PROVE  a.data[i] \in Int \cup {Junk}
      <4>1. i \in 0..Slots(a) - 1
        BY <1>1, <3>1 DEF PointerArray
      <4> QED
        BY <4>1 DEF PointerArray
    <3> QED
      BY <3>1 DEF m
  <2>8. PointerArray(g)
    <3> HIDE DEF d
    <3> QED
      BY <2>2, <2>4, <2>5, <2>6, <2>7 DEF PointerArray, m
  <2>9. ASSUME NEW k \in 0..a.length - 1
        PROVE  g.data[k] = a.data[k]
    <3>1. k \in 0..m - 1 /\ k < a.length
      BY <1>1, <2>6
    <3> QED
      BY <2>4, <3>1 DEF m
  <2>10. len + 1 <= Slots(g)
    BY <1>2, <2>3, <2>4
  <2> QED
    BY <2>4, <2>8, <2>9, <2>10 DEF PointersKept
<1> QED
  BY <1>4, <1>5

PointerPushed(a, p, r) ==
  /\ PointerArray(r) /\ r.length = a.length + 1
  /\ r.data[a.length] = p
  /\ \A k \in 0..a.length - 1 : r.data[k] = a.data[k]

LEMMA PushedPointer ==
  ASSUME jemalloc \in BOOLEAN, NEW a, PointerArray(a), NEW p \in Int
  PROVE  PointerPushed(a, p, array_push(a, p))
PROOF
<1> DEFINE n == a.length
           g == PointersGrown(a, n + 1)
           r == array_push(a, p)
<1>1. n \in Nat /\ n + 1 \in Nat
  BY DEF PointerArray, Slots
<1>2. PointersKept(a, n + 1, g)
  BY <1>1, GrownPointers
<1>3. r = [g EXCEPT !.data[n] = p, !.length = n + 1]
  BY DEF array_push
<1> HIDE DEF n, g, r
<1>4. /\ PointerArray(g) /\ g.length = n /\ n + 1 + 1 <= Slots(g)
      /\ \A k \in 0..n - 1 : g.data[k] = a.data[k]
  BY <1>2 DEF PointersKept, n
<1>5. g.data \in [0..Slots(g) - 1 -> Int \cup {Junk}] /\ g.alloc \in Nat
      /\ Slots(g) \in Int
  BY <1>4, ArrayFields
<1> DEFINE d == [g.data EXCEPT ![n] = p]
<1>6. n \in 0..Slots(g) - 1 /\ n + 1 \in 0..Slots(g)
      /\ \A k \in 0..n - 1 : k \in 0..Slots(g) - 1 /\ k # n
  <2>1. Slots(g) \in Int /\ n + 1 + 1 <= Slots(g)
    BY <1>4, <1>5
  <2> QED
    BY <1>1, <2>1
<1>7. /\ d \in [0..Slots(g) - 1 -> Int \cup {Junk}]
      /\ d[n] = p /\ \A k \in 0..n - 1 : d[k] = g.data[k]
  BY <1>5, <1>6
<1> HIDE DEF d
<1>8. r = [data |-> d, length |-> n + 1, alloc |-> g.alloc]
  BY <1>3, <1>4 DEF PointerArray, d
<1>9. Slots(r) = Slots(g) /\ r.data = d /\ r.length = n + 1
  BY <1>8 DEF Slots
<1>10. PointerArray(r)
  BY <1>5, <1>6, <1>7, <1>8, <1>9 DEF PointerArray
<1> QED
  BY <1>4, <1>7, <1>9, <1>10 DEF PointerPushed, n, r

(* The pointers of an array with a first pointer follow it.                *)
LEMMA RebuiltPointers ==
  ASSUME NEW a, PointerArray(a), PointersStored(a), NEW ba \in Int
  PROVE  /\ PointerArray(strarray__rebuild(a, ba)) /\ PointersStored(strarray__rebuild(a, ba))
         /\ strarray__rebuild(a, ba).length = a.length
         /\ \A k \in 0..a.length - 1 : strarray__rebuild(a, ba).data[k]
                                         = a.data[k] - (a.data[0] - (ba + 1))
PROOF
<1> DEFINE r == strarray__rebuild(a, ba)
           offset == a.data[0] - (ba + 1)
           d == [i \in DOMAIN a.data |-> IF i < a.length THEN a.data[i] - offset ELSE a.data[i]]
<1>1. /\ a.length \in Nat /\ a.alloc \in Nat /\ a.length <= Slots(a) /\ Slots(a) \in Int
      /\ a.data \in [0..Slots(a) - 1 -> Int \cup {Junk}]
  BY ArrayFields
<1>2. CASE a.length = 0
  <2>1. r = a
    BY <1>2 DEF strarray__rebuild
  <2>2. \A k \in 0..a.length - 1 : FALSE
    BY <1>2
  <2> QED
    BY <2>1, <2>2
<1>3. CASE a.length # 0
  <2>1. r = [a EXCEPT !.data = d]
    BY <1>3 DEF strarray__rebuild
  <2>2. offset \in Int
    <3>1. 0 \in 0..a.length - 1
      BY <1>1, <1>3
    <3> QED
      BY <3>1 DEF PointersStored
  <2> HIDE DEF offset
  <2>3. \A k \in 0..a.length - 1 : a.data[k] - offset \in Int
    BY <2>2 DEF PointersStored
  <2>4. DOMAIN a.data = 0..Slots(a) - 1 /\ \A k \in 0..Slots(a) - 1 : a.data[k] \in Int \cup {Junk}
    BY <1>1
  <2>5. \A k \in 0..Slots(a) - 1 : k < a.length => k \in 0..a.length - 1
    BY <1>1
  <2>6. d \in [0..Slots(a) - 1 -> Int \cup {Junk}]
    BY <2>3, <2>4, <2>5
  <2>7. \A k \in 0..a.length - 1 : d[k] = a.data[k] - offset
    <3>1. \A k \in 0..a.length - 1 : k \in 0..Slots(a) - 1 /\ k < a.length
      BY <1>1
    <3> QED
      BY <2>4, <3>1
  <2> HIDE DEF d
  <2>8. r = [data |-> d, length |-> a.length, alloc |-> a.alloc]
    BY <2>1 DEF PointerArray
  <2>9. Slots(r) = Slots(a) /\ r.data = d /\ r.length = a.length
    BY <2>8 DEF Slots
  <2>10. a.length \in 0..Slots(a)
    BY <1>1
  <2>11. PointerArray(r)
    BY <1>1, <2>6, <2>8, <2>9, <2>10 DEF PointerArray
  <2>12. PointersStored(r)
    BY <2>3, <2>7, <2>9 DEF PointersStored
  <2> QED
    BY <2>7, <2>9, <2>11, <2>12 DEF offset
<1> QED
  BY <1>2, <1>3


-----------------------------------------------------------------------------
(* The entries of the buffer.                                              *)

(* n entries begin at the offsets o, each behind a terminator; o[n] is     *)
(* where the next one would begin.                                         *)
Layout(b, n, o) ==
  /\ n \in Nat /\ o \in [0..n -> Nat]
  /\ o[0] = 1 /\ o[n] = b.length
  /\ \A j, k \in 0..n : j < k => o[j] < o[k]
  /\ b.data[0] = Nul
  /\ \A k \in 0..n - 1 : b.data[o[k + 1] - 1] = Nul
  /\ \A k \in 0..n - 1 : \A p \in o[k]..o[k + 1] - 2 : b.data[p] # Nul

LEMMA LayoutBounds ==
  ASSUME NEW b, NEW n, NEW o, Layout(b, n, o)
  PROVE  /\ n \in Nat
         /\ \A k \in 0..n : o[k] \in 1..b.length
         /\ \A k \in 0..n - 1 : o[k] \in 1..b.length - 1 /\ o[k + 1] \in o[k] + 1..b.length
PROOF
<1>1. n \in Nat /\ \A k \in 0..n : o[k] \in Nat
  BY DEF Layout
<1>2. o[0] = 1 /\ o[n] = b.length /\ \A j, k \in 0..n : j < k => o[j] < o[k]
  BY DEF Layout
<1>3. ASSUME NEW k \in 0..n
      PROVE  o[k] \in 1..b.length
  <2>1. o[k] \in Nat /\ o[n] \in Nat
    BY <1>1
  <2>2. 1 <= o[k]
    <3>1. CASE k = 0
      BY <1>2, <3>1
    <3>2. CASE k # 0
      <4>1. 0 \in 0..n /\ 0 < k
        BY <1>1, <3>2
      <4>2. o[0] < o[k]
        BY <1>2, <4>1
      <4> QED
        BY <1>2, <2>1, <4>2
    <3> QED
      BY <3>1, <3>2
  <2>3. o[k] <= o[n]
    <3>1. CASE k = n
      BY <2>1, <3>1
    <3>2. CASE k # n
      <4>1. n \in 0..n /\ k < n
        BY <1>1, <3>2
      <4>2. o[k] < o[n]
        BY <1>2, <4>1
      <4> QED
        BY <2>1, <4>2
    <3> QED
      BY <3>1, <3>2
  <2> QED
    BY <1>2, <2>1, <2>2, <2>3
<1>4. ASSUME NEW k \in 0..n - 1
      PROVE  o[k] \in 1..b.length - 1 /\ o[k + 1] \in o[k] + 1..b.length
  <2>1. k \in 0..n /\ k + 1 \in 0..n /\ k < k + 1
    BY <1>1
  <2>2. o[k] < o[k + 1]
    BY <1>2, <2>1
  <2>3. o[k] \in 1..b.length /\ o[k + 1] \in 1..b.length /\ o[k] \in Nat /\ o[k + 1] \in Nat
    BY <1>1, <1>3, <2>1
  <2>4. b.length \in Nat
    <3>1. n \in 0..n
      BY <1>1
    <3> QED
      BY <1>1, <1>2, <3>1
  <2> QED
    BY <2>2, <2>3, <2>4
<1> QED
  BY <1>1, <1>3, <1>4

(* A string and its terminator stand behind the text of b.                 *)
Appended(b, s, r) ==
  /\ r.length = b.length + Len(s) + 1
  /\ \A i \in 0..b.length - 1 : r.data[i] = b.data[i]
  /\ \A i \in 1..Len(s) : r.data[b.length + i - 1] = s[i]
  /\ r.data[b.length + Len(s)] = Nul

(* The offsets with one entry more, or one less.                           *)
Longer(o, n, end) == [k \in 0..n + 1 |-> IF k <= n THEN o[k] ELSE end]
Shorter(o, n) == [k \in 0..n - 1 |-> o[k]]

LEMMA PushLayout ==
  ASSUME NEW b, NEW n, NEW o, Layout(b, n, o),
         NEW s \in Seq(Byte \ {Nul}), NEW r, Appended(b, s, r)
  PROVE  Layout(r, n + 1, Longer(o, n, r.length))
PROOF
<1> DEFINE q == [k \in 0..n + 1 |-> IF k <= n THEN o[k] ELSE r.length]
           len == b.length
           m == Len(s)
<1>1. n \in Nat /\ n + 1 \in Nat /\ m \in Nat /\ \A i \in 1..m : s[i] # Nul
  BY LenProperties, ElementOfSeq DEF Layout
<1>2. \A k \in 0..n : o[k] \in 1..len
  BY LayoutBounds
<1>3. len \in Nat /\ o[n] = len /\ o[0] = 1 /\ 0 < len
  <2>1. n \in 0..n
    BY <1>1
  <2> QED
    BY <1>2, <2>1 DEF Layout
<1> HIDE DEF m, len
<1>4. /\ r.length = len + m + 1
      /\ \A i \in 0..len - 1 : r.data[i] = b.data[i]
      /\ \A i \in 1..m : r.data[len + i - 1] = s[i]
      /\ r.data[len + m] = Nul
  BY DEF Appended, len, m
<1>5. r.length \in Nat /\ len < r.length
  BY <1>1, <1>3, <1>4
<1>6. /\ q \in [0..n + 1 -> Nat]
      /\ \A k \in 0..n : q[k] = o[k]
      /\ q[n + 1] = r.length
  <2>1. \A k \in 0..n : k \in 0..n + 1 /\ k <= n
    BY <1>1
  <2>2. n + 1 \in 0..n + 1 /\ ~(n + 1 <= n)
    BY <1>1
  <2>3. \A k \in 0..n + 1 : k <= n => o[k] \in Nat
    BY <1>1 DEF Layout
  <2> QED
    BY <1>5, <2>1, <2>2, <2>3
<1> HIDE DEF q
<1>7. ASSUME NEW j \in 0..n + 1, NEW k \in 0..n + 1, j < k
      PROVE  q[j] < q[k]
  <2>1. j \in 0..n
    BY <1>1, <1>7
  <2>2. CASE k = n + 1
    <3>1. o[j] \in 1..len
      BY <1>2, <2>1
    <3> QED
      BY <1>3, <1>5, <1>6, <2>1, <2>2, <3>1
  <2>3. CASE k # n + 1
    <3>1. k \in 0..n
      BY <1>1, <2>3
    <3> QED
      BY <1>6, <1>7, <2>1, <3>1 DEF Layout
  <2> QED
    BY <2>2, <2>3
<1>8. r.data[0] = Nul
  <2>1. 0 \in 0..len - 1
    BY <1>3
  <2> QED
    BY <1>4, <2>1 DEF Layout
<1>9. ASSUME NEW k \in 0..n
      PROVE  /\ r.data[q[k + 1] - 1] = Nul
             /\ \A p \in q[k]..q[k + 1] - 2 : r.data[p] # Nul
  <2>1. CASE k = n
    <3>1. q[k + 1] = len + m + 1 /\ q[k] = len
      BY <1>3, <1>4, <1>6, <2>1
    <3>2. q[k + 1] - 1 = len + m /\ q[k + 1] - 2 = len + m - 1
      BY <1>1, <1>3, <3>1
    <3>3. ASSUME NEW p \in len..len + m - 1
          PROVE  r.data[p] # Nul
      <4>1. p - len + 1 \in 1..m /\ len + (p - len + 1) - 1 = p
        BY <1>1, <1>3
      <4> QED
        BY <1>1, <1>4, <4>1
    <3> QED
      BY <1>4, <3>1, <3>2, <3>3
  <2>2. CASE k # n
    <3>1. k \in 0..n - 1 /\ k + 1 \in 0..n
      BY <1>1, <2>2
    <3>2. q[k] = o[k] /\ q[k + 1] = o[k + 1]
      BY <1>6, <3>1
    <3>3. o[k] \in 1..len /\ o[k + 1] \in 1..len
      BY <1>2, <3>1
    <3>4. /\ b.data[o[k + 1] - 1] = Nul
          /\ \A p \in o[k]..o[k + 1] - 2 : b.data[p] # Nul
      BY <3>1 DEF Layout
    <3>5. /\ o[k + 1] - 1 \in 0..len - 1
          /\ \A p \in o[k]..o[k + 1] - 2 : p \in 0..len - 1
      BY SMTT(30), <1>3, <3>3
    <3> QED
      BY <1>4, <3>2, <3>4, <3>5
  <2> QED
    BY <2>1, <2>2
<1>10. q[0] = 1
  <2>1. 0 \in 0..n
    BY <1>1
  <2> QED
    BY <1>3, <1>6, <2>1
<1>11. \A k \in 0..(n + 1) - 1 : k \in 0..n
  BY <1>1
<1>12. Layout(r, n + 1, q)
  BY <1>1, <1>6, <1>7, <1>8, <1>9, <1>10, <1>11 DEF Layout
<1> QED
  BY <1>12 DEF q, Longer

LEMMA PopLayout ==
  ASSUME NEW b, NEW n, NEW o, Layout(b, n, o), n # 0,
         NEW r, r.data = b.data, r.length = o[n - 1]
  PROVE  Layout(r, n - 1, Shorter(o, n))
PROOF
<1> DEFINE q == [k \in 0..n - 1 |-> o[k]]
<1>1. n \in Nat /\ n - 1 \in Nat
  BY DEF Layout
<1>2. \A k \in 0..n - 1 : k \in 0..n /\ q[k] = o[k]
  BY <1>1
<1>3. q \in [0..n - 1 -> Nat]
  BY <1>2 DEF Layout
<1> HIDE DEF q
<1>4. 0 \in 0..n - 1 /\ n - 1 \in 0..n - 1
  BY <1>1
<1>5. \A k \in 0..(n - 1) - 1 : k \in 0..n - 1 /\ k + 1 \in 0..n - 1
  BY <1>1
<1>6. \A k \in 0..(n - 1) - 1 :
        /\ r.data[q[k + 1] - 1] = Nul
        /\ \A p \in q[k]..q[k + 1] - 2 : r.data[p] # Nul
  BY <1>2, <1>5 DEF Layout
<1>7. Layout(r, n - 1, q)
  BY <1>1, <1>2, <1>3, <1>4, <1>6 DEF Layout
<1> QED
  BY <1>7 DEF q, Shorter


-----------------------------------------------------------------------------
(* What strstack_push does to the buffer: the string, if it is not empty,  *)
(* and its terminator stand behind the old text, in a block of its own.    *)
LEMMA PushedAppends ==
  ASSUME jemalloc = TRUE, Held(buf), buf.ok, NEW s \in Seq(Byte)
  PROVE  /\ Sound(Pushed(s)) /\ Pushed(s).ok /\ Pushed(s).alloc > 0
         /\ Appended(buf, s, Pushed(s))
PROOF
<1> DEFINE m == IF s = <<>> THEN buf ELSE buffer_append(buf, s)
           len == buf.length
           n == Len(s)
           r == Pushed(s)
<1>1. len \in Nat /\ n \in Nat
  BY LenProperties DEF Held, Allocated
<1>2. /\ Held(m) /\ m.ok /\ m.length = len + n
      /\ \A i \in 0..len - 1 : m.data[i] = buf.data[i]
      /\ \A i \in 1..n : m.data[len + i - 1] = s[i]
  <2>1. CASE s = <<>>
    <3>1. m = buf /\ n = 0 /\ len + n = len
      BY <1>1, <2>1
    <3> QED
      BY <1>1, <3>1
  <2>2. CASE s # <<>>
    <3> HIDE DEF n, len
    <3>1. n # 0
      BY <2>2, EmptySeq DEF n
    <3>2. len \in 0..len /\ 0 \in 0..len - len /\ len + n - 0 = len + n
      BY <1>1
    <3> DEFINE w == buffer_splice(buf, len, 0, s)
    <3>3. m = w
      BY <2>2 DEF buffer_append, len
    <3>4. /\ jemalloc \in BOOLEAN /\ len \in 0..buf.length /\ 0 \in 0..buf.length - len
      BY <3>2 DEF len
    <3>5. /\ Edited(buf, w)
          /\ w.ok =>
               /\ w.length = buf.length + Len(s) - 0
               /\ \A i \in 0..len - 1 : w.data[i] = buf.data[i]
               /\ \A i \in 1..Len(s) : w.data[len + i - 1] = s[i]
          /\ w.ok <=> w.alloc > 0 \/ buf.length + Len(s) - 0 = 0
          /\ jemalloc /\ Len(s) # 0 => w.alloc > 0
      BY <3>4, SpliceEdits
    <3> HIDE DEF w, m
    <3>6. w.ok /\ Sound(w)
      BY <3>1, <3>5 DEF n, Edited
    <3>7. w.length = len + n
      BY <3>2, <3>5, <3>6 DEF n, len
    <3> QED
      BY <3>3, <3>5, <3>6, <3>7, SoundIsHeld DEF n
  <2> QED
    BY <2>1, <2>2
<1> DEFINE w == buffer_appendc(m, Nul)
<1>3. r = w
  BY DEF Pushed
<1> HIDE DEF m, r, n, len
<1>4. /\ Edited(m, w) /\ w.ok
      /\ Text(w) = Append(Text(m), Nul)
      /\ w.alloc > m.length + 1
  BY <1>2, ByteAssumption, AppendcEdits
<1>5. /\ Text(m) \in Seq(Byte) /\ Len(Text(m)) = len + n
      /\ \A i \in 1..len + n : Text(m)[i] = m.data[i - 1]
  BY <1>2, TextIsSeq DEF Held
<1> HIDE DEF w
<1>6. Sound(w)
  BY <1>4 DEF Edited
<1>7. /\ Len(Text(w)) = w.length
      /\ \A i \in 1..w.length : Text(w)[i] = w.data[i - 1]
  BY <1>6, TextIsSeq DEF Sound
<1>8. /\ Len(Append(Text(m), Nul)) = len + n + 1
      /\ \A i \in 1..len + n : Append(Text(m), Nul)[i] = Text(m)[i]
      /\ Append(Text(m), Nul)[len + n + 1] = Nul
  BY <1>5, ByteAssumption, AppendProperties
<1>9. w.length = len + n + 1
  BY <1>4, <1>7, <1>8
<1>10. ASSUME NEW i \in 0..len + n - 1
       PROVE  w.data[i] = m.data[i]
  <2>1. i + 1 \in 1..len + n /\ i + 1 \in 1..w.length /\ (i + 1) - 1 = i
    BY <1>1, <1>9
  <2>2. Text(w)[i + 1] = Text(m)[i + 1]
    BY <1>4, <1>8, <2>1
  <2>3. Text(w)[i + 1] = w.data[(i + 1) - 1] /\ Text(m)[i + 1] = m.data[(i + 1) - 1]
    BY <1>5, <1>7, <2>1
  <2> QED
    BY <2>1, <2>2, <2>3
<1>11. w.data[len + n] = Nul
  <2>1. len + n + 1 \in 1..w.length /\ (len + n + 1) - 1 = len + n
    BY <1>1, <1>9
  <2>2. Text(w)[len + n + 1] = Nul
    BY <1>4, <1>8
  <2>3. Text(w)[len + n + 1] = w.data[(len + n + 1) - 1]
    BY <1>7, <2>1
  <2> QED
    BY <2>1, <2>2, <2>3
<1>12. \A i \in 0..len - 1 : w.data[i] = buf.data[i]
  <2>1. \A i \in 0..len - 1 : i \in 0..len + n - 1
    BY <1>1
  <2> QED
    BY <1>2, <1>10, <2>1
<1>13. \A i \in 1..n : w.data[len + i - 1] = s[i]
  <2>1. \A i \in 1..n : len + i - 1 \in 0..len + n - 1
    BY <1>1
  <2> QED
    BY <1>2, <1>10, <2>1
<1>14. w.alloc > 0
  <2>1. m.length + 1 \in Nat
    BY <1>1, <1>2
  <2>2. w.alloc \in Int
    BY <1>6 DEF Sound, Allocated
  <2> QED
    BY <1>4, <2>1, <2>2
<1> QED
  BY <1>3, <1>4, <1>6, <1>9, <1>11, <1>12, <1>13, <1>14 DEF Appended, r, len, n

-----------------------------------------------------------------------------
(* What is read at an address, of any buffer at any base.                  *)

TerminatorsIn(b, ba, p) == {e \in DOMAIN b.data : p - ba <= e /\ b.data[e] = Nul}
ReadableIn(b, ba, p) == p >= ba /\ TerminatorsIn(b, ba, p) # {}
CStringIn(b, ba, p) ==
  LET end == CHOOSE e \in TerminatorsIn(b, ba, p) : \A f \in TerminatorsIn(b, ba, p) : e <= f
  IN [i \in 1..ba + end - p |-> b.data[p - ba + i - 1]]

(* The string that begins at the offset from ends at e.                    *)
ReadsTo(b, ba, from, e) ==
  /\ ReadableIn(b, ba, ba + from)
  /\ CStringIn(b, ba, ba + from) = [i \in 1..e - from |-> b.data[from + i - 1]]

LEMMA StringRead ==
  ASSUME NEW b, Allocated(b), NEW ba \in Int, NEW from \in Nat,
         NEW e \in 0..b.size - 1, from <= e, b.data[e] = Nul,
         \A f \in from..e - 1 : b.data[f] # Nul
  PROVE  ReadsTo(b, ba, from, e)
PROOF
<1> DEFINE p == ba + from
           T == TerminatorsIn(b, ba, p)
           end == CHOOSE x \in T : \A f \in T : x <= f
<1>1. p \in Int /\ p - ba = from /\ p >= ba /\ e \in Int /\ ba + e - p = e - from
  BY DEF Allocated
<1>2. DOMAIN b.data = 0..b.size - 1 /\ b.size \in Nat
  BY DEF Allocated
<1> HIDE DEF p
<1>3. \A x \in T : x \in Int /\ from <= x /\ b.data[x] = Nul
  BY <1>1, <1>2 DEF TerminatorsIn
<1>4. e \in T
  BY <1>1, <1>2 DEF TerminatorsIn
<1> HIDE DEF T
<1>5. \A f \in T : e <= f
  <2> SUFFICES ASSUME NEW f \in T, ~(e <= f)
               PROVE  FALSE
    OBVIOUS
  <2>1. f \in from..e - 1
    BY <1>1, <1>3
  <2> QED
    BY <1>3, <2>1
<1>6. end \in T /\ \A f \in T : end <= f
  BY <1>4, <1>5
<1>7. end = e
  <2>1. end \in Int /\ end <= e /\ e <= end
    BY <1>3, <1>4, <1>5, <1>6
  <2> QED
    BY <1>1, <2>1
<1>8. ReadableIn(b, ba, p)
  BY <1>1, <1>4 DEF ReadableIn, T
<1>9. CStringIn(b, ba, p) = [i \in 1..ba + end - p |-> b.data[p - ba + i - 1]]
  BY DEF CStringIn, T
<1> HIDE DEF end
<1>10. CStringIn(b, ba, p) = [i \in 1..e - from |-> b.data[from + i - 1]]
  BY <1>1, <1>7, <1>9
<1> QED
  BY <1>8, <1>10 DEF p, ReadsTo

Entry(b, o, k) == [i \in 1..o[k + 1] - 1 - o[k] |-> b.data[o[k] + i - 1]]

LEMMA EntryRead ==
  ASSUME NEW b, Allocated(b), NEW ba \in Int, NEW n, NEW o, Layout(b, n, o), NEW k \in 0..n - 1
  PROVE  /\ ReadableIn(b, ba, ba + o[k])
         /\ CStringIn(b, ba, ba + o[k]) = Entry(b, o, k)
PROOF
<1> DEFINE from == o[k]
           e == o[k + 1] - 1
<1>1. from \in 1..b.length - 1 /\ o[k + 1] \in from + 1..b.length
  BY LayoutBounds
<1>2. b.size \in Nat /\ b.length \in 0..b.size - 1
  BY DEF Allocated
<1>3. from \in Nat /\ e \in 0..b.size - 1 /\ from <= e /\ e - 1 = o[k + 1] - 2
      /\ e - from = o[k + 1] - 1 - o[k]
  BY <1>1, <1>2
<1>4. b.data[e] = Nul /\ \A f \in from..e - 1 : b.data[f] # Nul
  BY <1>3 DEF Layout
<1> HIDE DEF e, from
<1>5. ReadsTo(b, ba, from, e)
  BY <1>3, <1>4, StringRead
<1> QED
  BY <1>5 DEF ReadsTo, Entry, from, e


-----------------------------------------------------------------------------
(* The invariant.                                                          *)

(* Where the entries begin, and where the next one would.                  *)
Offsets(b, ba, a) ==
  [k \in 0..a.length |-> IF k < a.length THEN a.data[k] - ba ELSE b.length]

(* The top is the last pointer; of an empty stack it is the last byte      *)
(* strstack_pop looked at, or the literal of STRSTACK_INIT.                *)
TopOfPointers ==
  IF arr.length > 0 THEN top = arr.data[arr.length - 1] ELSE top \in {base, Elsewhere}

IInv ==
  /\ jemalloc = TRUE
  /\ base \in Nat
  /\ Held(buf) /\ buf.ok /\ (arr.length > 0 => buf.alloc > 0)
  /\ PointerArray(arr) /\ PointersStored(arr)
  /\ Layout(buf, arr.length, Offsets(buf, base, arr))
  /\ TopOfPointers
  /\ PoppedReadable

(* The pointers of a point to the offsets o.                               *)
Pointing(b, ba, a, o) ==
  /\ \A k \in 0..a.length - 1 : o[k] = a.data[k] - ba
  /\ \A k \in 0..a.length - 1 : a.data[k] = ba + o[k]
  /\ o[a.length] = b.length

LEMMA OffsetsPoint ==
  ASSUME NEW b, NEW ba \in Int, NEW a, PointerArray(a), PointersStored(a)
  PROVE  Pointing(b, ba, a, Offsets(b, ba, a))
PROOF
<1> DEFINE o == Offsets(b, ba, a)
<1>1. a.length \in Nat
  BY ArrayFields
<1>2. a.length \in 0..a.length /\ ~(a.length < a.length)
      /\ \A k \in 0..a.length - 1 : k \in 0..a.length /\ k < a.length
  BY <1>1
<1>3. o[a.length] = b.length /\ \A k \in 0..a.length - 1 : o[k] = a.data[k] - ba
  BY <1>2 DEF Offsets
<1> HIDE DEF o
<1>4. ASSUME NEW k \in 0..a.length - 1
      PROVE  a.data[k] = ba + o[k]
  <2>1. a.data[k] \in Int
    BY DEF PointersStored
  <2> QED
    BY <1>3, <2>1
<1> QED
  BY <1>3, <1>4 DEF o, Pointing

(* The pointers of a have moved with the buffer to bb, and one to the end  *)
(* of the text in b follows.                                               *)
PointersMoved(b, ba, a, r, bb, c) ==
  /\ PointerArray(c) /\ PointersStored(c) /\ c.length = a.length + 1
  /\ c.data[a.length] = bb + b.length
  /\ Offsets(r, bb, c) = Longer(Offsets(b, ba, a), a.length, r.length)

LEMMA OffsetsPushed ==
  ASSUME NEW b, NEW ba \in Int, NEW a, PointerArray(a), PointersStored(a),
         Layout(b, a.length, Offsets(b, ba, a)),
         NEW r, NEW bb \in Int, NEW c,
         c = array_push(strarray__rebuild(a, bb), bb + b.length), jemalloc \in BOOLEAN
  PROVE  PointersMoved(b, ba, a, r, bb, c)
PROOF
<1> DEFINE n == a.length
           o == Offsets(b, ba, a)
           x == strarray__rebuild(a, bb)
           p == bb + b.length
<1>1. n \in Nat
  BY ArrayFields
<1>2. o[n] = b.length /\ \A k \in 0..n - 1 : a.data[k] = ba + o[k]
  <2>1. Pointing(b, ba, a, o)
    BY OffsetsPoint
  <2> QED
    BY <2>1 DEF Pointing
<1>3. o[0] = 1 /\ \A k \in 0..n : o[k] \in Nat
  BY DEF Layout
<1>4. b.length \in Nat /\ p \in Int
  <2>1. n \in 0..n
    BY <1>1
  <2> QED
    BY <1>2, <1>3, <2>1
<1>5. /\ PointerArray(x) /\ PointersStored(x) /\ x.length = n
      /\ \A k \in 0..n - 1 : x.data[k] = a.data[k] - (a.data[0] - (bb + 1))
  BY RebuiltPointers
<1> HIDE DEF o, x
<1>6. \A k \in 0..n - 1 : x.data[k] = bb + o[k]
  <2> SUFFICES ASSUME NEW k \in 0..n - 1
               PROVE  x.data[k] = bb + o[k]
    OBVIOUS
  <2>1. 0 \in 0..n - 1 /\ k \in 0..n
    BY <1>1
  <2>2. a.data[0] = ba + 1 /\ a.data[k] = ba + o[k] /\ o[k] \in Nat
    BY <1>2, <1>3, <2>1
  <2>3. x.data[k] = (ba + o[k]) - ((ba + 1) - (bb + 1))
    BY <1>5, <2>2
  <2> QED
    BY <2>2, <2>3
<1>7. PointerPushed(x, p, c)
  BY <1>4, <1>5, PushedPointer DEF x
<1> HIDE DEF n, p
<1>8. /\ PointerArray(c) /\ c.length = n + 1 /\ c.data[n] = p
      /\ \A k \in 0..n - 1 : c.data[k] = bb + o[k]
  BY <1>5, <1>6, <1>7 DEF PointerPushed
<1>9. ASSUME NEW k \in 0..n
      PROVE  c.data[k] = bb + o[k]
  <2>1. CASE k = n
    BY <1>2, <1>8, <2>1 DEF p
  <2>2. CASE k # n
    <3>1. k \in 0..n - 1
      BY <1>1, <2>2
    <3> QED
      BY <1>8, <3>1
  <2> QED
    BY <2>1, <2>2
<1>10. PointersStored(c)
  <2>1. \A k \in 0..c.length - 1 : k \in 0..n
    BY <1>1, <1>8
  <2>2. \A k \in 0..n : bb + o[k] \in Int
    BY <1>3 DEF n
  <2> QED
    BY <1>9, <2>1, <2>2 DEF PointersStored
<1>11. Offsets(r, bb, c) = [k \in 0..n + 1 |-> IF k <= n THEN o[k] ELSE r.length]
  <2>1. ASSUME NEW k \in 0..n + 1
        PROVE  (IF k < n + 1 THEN c.data[k] - bb ELSE r.length)
                 = (IF k <= n THEN o[k] ELSE r.length)
    <3>1. CASE k <= n
      <4>1. k \in 0..n /\ k < n + 1
        BY <1>1, <3>1
      <4>2. c.data[k] = bb + o[k] /\ o[k] \in Nat
        BY <1>3, <1>9, <4>1 DEF n
      <4>3. c.data[k] - bb = o[k]
        BY <4>2
      <4> QED
        BY <3>1, <4>1, <4>3
    <3>2. CASE ~(k <= n)
      <4>1. ~(k < n + 1)
        BY <1>1, <3>2
      <4> QED
        BY <3>2, <4>1
    <3> QED
      BY <3>1, <3>2
  <2>2. Offsets(r, bb, c) = [k \in 0..n + 1 |-> IF k < n + 1 THEN c.data[k] - bb ELSE r.length]
    BY <1>8 DEF Offsets
  <2> QED
    BY <2>1, <2>2
<1> QED
  BY <1>8, <1>10, <1>11 DEF n, o, p, PointersMoved, Longer

LEMMA OffsetsPopped ==
  ASSUME NEW b, NEW ba \in Int, NEW a, PointerArray(a), PointersStored(a), a.length # 0,
         NEW r, r.length = Offsets(b, ba, a)[a.length - 1]
  PROVE  /\ PointerArray(array_pop(a)) /\ PointersStored(array_pop(a))
         /\ array_pop(a).length = a.length - 1 /\ array_pop(a).data = a.data
         /\ Offsets(r, ba, array_pop(a)) = Shorter(Offsets(b, ba, a), a.length)
PROOF
<1> DEFINE n == a.length
           o == Offsets(b, ba, a)
           c == array_pop(a)
<1>1. n \in Nat /\ n - 1 \in Nat /\ n <= Slots(a) /\ Slots(a) \in Int
  BY ArrayFields
<1>2. c = [data |-> a.data, length |-> n - 1, alloc |-> a.alloc]
  BY DEF array_pop, PointerArray
<1>3. c.length = n - 1 /\ c.data = a.data /\ Slots(c) = Slots(a)
  BY <1>2 DEF Slots
<1>4. PointerArray(c)
  <2>1. n - 1 \in 0..Slots(a)
    BY <1>1
  <2>2. a.data \in [0..Slots(a) - 1 -> Int \cup {Junk}] /\ a.alloc \in Nat
    BY ArrayFields
  <2> HIDE DEF c, n
  <2> QED
    BY <1>2, <1>3, <2>1, <2>2 DEF PointerArray
<1>5. PointersStored(c)
  <2>1. \A k \in 0..(n - 1) - 1 : k \in 0..n - 1
    BY <1>1
  <2> HIDE DEF c
  <2> QED
    BY <1>3, <2>1 DEF PointersStored, n
<1>6. \A k \in 0..n - 1 : o[k] = a.data[k] - ba
  <2>1. Pointing(b, ba, a, o)
    BY OffsetsPoint
  <2> QED
    BY <2>1 DEF Pointing
<1> HIDE DEF o, n, c
<1>7. Offsets(r, ba, c) = [k \in 0..n - 1 |-> o[k]]
  <2>1. ASSUME NEW k \in 0..n - 1
        PROVE  (IF k < n - 1 THEN c.data[k] - ba ELSE r.length) = o[k]
    <3>1. CASE k < n - 1
      BY <1>3, <1>6, <3>1
    <3>2. CASE ~(k < n - 1)
      <4>1. k = n - 1
        BY <1>1, <3>2
      <4> QED
        BY <3>2, <4>1 DEF n, o
    <3> QED
      BY <3>1, <3>2
  <2>2. Offsets(r, ba, c) = [k \in 0..n - 1 |-> IF k < n - 1 THEN c.data[k] - ba ELSE r.length]
    BY <1>3 DEF Offsets
  <2> QED
    BY <2>1, <2>2
<1> QED
  BY <1>3, <1>4, <1>5, <1>7 DEF n, o, c, Shorter

(* The entries of the array cover the buffer.                              *)
LEMMA EntriesCovered == IInv => EntriesCover
PROOF
<1> SUFFICES ASSUME IInv
             PROVE  EntriesCover
  OBVIOUS
<1> DEFINE n == arr.length
           o == Offsets(buf, base, arr)
<1>1. base \in Int /\ PointerArray(arr) /\ PointersStored(arr) /\ Layout(buf, n, o)
  BY DEF IInv
<1>2. o[n] = buf.length /\ \A k \in 0..n - 1 : arr.data[k] = base + o[k]
  <2>1. Pointing(buf, base, arr, o)
    BY <1>1, OffsetsPoint
  <2> QED
    BY <2>1 DEF Pointing
<1>3. /\ n \in Nat
      /\ \A k \in 0..n : o[k] \in 1..buf.length
      /\ \A k \in 0..n - 1 : o[k] \in 1..buf.length - 1 /\ o[k + 1] \in o[k] + 1..buf.length
  BY <1>1, LayoutBounds
<1> HIDE DEF o
<1>4. o[0] = 1 /\ buf.data[0] = Nul
  BY <1>1 DEF Layout
<1>5. buf.length \in Int
  <2>1. n \in 0..n
    BY <1>3
  <2> QED
    BY <1>2, <1>3, <2>1
<1>6. \A k \in 0..n - 1 : EntryEnd(k) = base + o[k + 1]
  <2> SUFFICES ASSUME NEW k \in 0..n - 1
               PROVE  EntryEnd(k) = base + o[k + 1]
    OBVIOUS
  <2>1. CASE k < n - 1
    <3>1. k + 1 \in 0..n - 1
      BY <1>3, <2>1
    <3> QED
      BY <1>2, <2>1, <3>1 DEF EntryEnd
  <2>2. CASE ~(k < n - 1)
    <3>1. k + 1 = n
      BY <1>3, <2>2
    <3> QED
      BY <1>2, <2>2, <3>1 DEF EntryEnd
  <2> QED
    BY <2>1, <2>2
<1>7. n = 0 => buf.length = 1
  BY <1>2, <1>4
<1>8. n > 0 => arr.data[0] = base + 1
  <2>1. n > 0 => 0 \in 0..n - 1
    BY <1>3
  <2> QED
    BY <1>2, <1>4, <2>1
<1>9. ASSUME NEW k \in 0..n - 1
      PROVE  /\ arr.data[k] < EntryEnd(k)
             /\ buf.data[EntryEnd(k) - 1 - base] = Nul
             /\ \A p \in arr.data[k]..EntryEnd(k) - 2 : buf.data[p - base] # Nul
  <2>1. arr.data[k] = base + o[k] /\ EntryEnd(k) = base + o[k + 1]
    BY <1>2, <1>6
  <2>2. o[k] \in Int /\ o[k + 1] \in Int /\ o[k] < o[k + 1]
    BY <1>3, <1>5
  <2>3. /\ base + o[k] < base + o[k + 1]
        /\ (base + o[k + 1]) - 1 - base = o[k + 1] - 1
        /\ \A p \in base + o[k]..(base + o[k + 1]) - 2 : p - base \in o[k]..o[k + 1] - 2
    BY <1>1, <2>2
  <2>4. /\ buf.data[o[k + 1] - 1] = Nul
        /\ \A p \in o[k]..o[k + 1] - 2 : buf.data[p] # Nul
    BY <1>1 DEF Layout
  <2> QED
    BY <2>1, <2>3, <2>4
<1> QED
  BY <1>4, <1>7, <1>8, <1>9 DEF EntriesCover, IInv, TopOfPointers


LEMMA FirstLayout ==
  ASSUME NEW b, b.length = 1, b.data[0] = Nul, NEW ba, NEW a, a.length = 0
  PROVE  Layout(b, a.length, Offsets(b, ba, a))
PROOF
<1> DEFINE o == Offsets(b, ba, a)
<1>1. o = [k \in 0..0 |-> 1]
  <2>1. \A k \in 0..0 : (IF k < a.length THEN a.data[k] - ba ELSE b.length) = 1
    OBVIOUS
  <2> QED
    BY <2>1 DEF Offsets
<1> HIDE DEF o
<1>2. o \in [0..0 -> Nat] /\ o[0] = 1
  BY <1>1
<1>3. \A j, k \in 0..0 : ~(j < k)
  OBVIOUS
<1>4. \A k \in 0..0 - 1 : FALSE
  OBVIOUS
<1>5. Layout(b, 0, o)
  BY <1>2, <1>3, <1>4 DEF Layout
<1> QED
  BY <1>5 DEF o

LEMMA EmptyArray == PointerArray(ARRAY_INIT) /\ ARRAY_INIT.length = 0
PROOF
<1> DEFINE a == ARRAY_INIT
<1>1. a.alloc = 0 /\ a.length = 0 /\ a.data = <<>>
  BY DEF ARRAY_INIT
<1>2. 0 \div PointerSize = 0
  <2>1. PointerSize \in Nat /\ PointerSize > 0
    BY BasesAssumption
  <2> QED
    BY <2>1
<1>3. Slots(a) = 0
  BY <1>1, <1>2 DEF Slots
<1>4. <<>> \in [0..0 - 1 -> Int \cup {Junk}]
  <2>1. 0..0 - 1 = {} /\ 1..0 = {}
    OBVIOUS
  <2>2. <<>> = [i \in 1..0 |-> 0]
    OBVIOUS
  <2> QED
    BY <2>1, <2>2
<1>5. PointerArray(a)
  <2>1. a = [data |-> <<>>, length |-> 0, alloc |-> 0]
    BY DEF ARRAY_INIT
  <2>2. 0 \in 0..0 /\ 0 \in Nat
    OBVIOUS
  <2> HIDE DEF a
  <2> QED
    BY <1>3, <1>4, <2>1, <2>2 DEF PointerArray
<1> QED
  BY <1>1, <1>5

LEMMA InitEstablishes == StringsInit => IInv
PROOF
<1> SUFFICES ASSUME StringsInit
             PROVE  IInv
  OBVIOUS
<1>1. jemalloc = TRUE /\ base \in Nat /\ PoppedReadable
  BY BasesAssumption DEF StringsInit, PoppedReadable
<1>2. ASSUME Sound(buf), buf.ok, buf.length = 1, buf.data[0] = Nul,
             PointerArray(arr), arr.length = 0, top \in {base, Elsewhere}
      PROVE  IInv
  <2>1. Layout(buf, arr.length, Offsets(buf, base, arr))
    BY <1>2, FirstLayout
  <2>2. PointersStored(arr)
    BY <1>2 DEF PointersStored
  <2>3. ~(arr.length > 0)
    BY <1>2
  <2> QED
    BY <1>1, <1>2, <2>1, <2>2, <2>3, SoundIsHeld DEF IInv, TopOfPointers
<1>3. CASE strstack_init
  <2> DEFINE g == array_grow(BUFFER_INIT, 8)
  <2>1. <<>> \in Seq(Byte) /\ Len(<<>>) = 0
    OBVIOUS
  <2>2. /\ Sound(BUFFER_INIT) /\ BUFFER_INIT.ok /\ BUFFER_INIT.length = 0
        /\ BUFFER_INIT.alloc = 0 /\ BUFFER_INIT.data = Block(<<>>)
    BY <2>1, LiteralSound DEF BUFFER_INIT
  <2>3. BUFFER_INIT.data[0] = Nul
    BY <2>1, <2>2 DEF Block
  <2>4. Grown(BUFFER_INIT, 8, g)
    BY <1>1, <2>2, GrowKeeps DEF Sound
  <2>5. buf = buffer_setlen(g, 1)
    BY <1>3 DEF strstack_init, buffer_init
  <2> HIDE DEF g
  <2>6. /\ Allocated(g) /\ g.ok /\ g.data[0] = Nul /\ g.alloc > 8
    BY <1>1, <2>2, <2>3, <2>4 DEF Grown
  <2>7. g.size \in Nat /\ g.alloc = g.size /\ 1 < g.size /\ g.alloc > 0
    <3>1. g.size \in Nat /\ g.alloc \in {0, g.size}
      BY <2>6 DEF Allocated
    <3> QED
      BY <2>6, <3>1
  <2> DEFINE r == buffer_setlen(g, 1)
  <2>8. /\ Allocated(r) /\ r.alloc = g.alloc /\ r.size = g.size
        /\ IF g.alloc > 0 \/ 1 = 0
           THEN /\ r.ok = g.ok /\ r.length = 1 /\ Terminated(r)
                /\ \A i \in 0..g.size - 1 : i # 1 => r.data[i] = g.data[i]
           ELSE ~r.ok /\ r.length = g.length /\ r.data = g.data
    BY <2>6, <2>7, SetlenSets
  <2> HIDE DEF r
  <2>9. /\ Allocated(r) /\ r.ok /\ r.length = 1 /\ Terminated(r) /\ r.data[0] = Nul
    <3>1. 0 \in 0..g.size - 1 /\ 0 # 1
      BY <2>7
    <3> QED
      BY <2>6, <2>7, <2>8, <3>1
  <2>10. Sound(r)
    <3>1. \A i \in 0..1 - 1 : i = 0
      OBVIOUS
    <3> QED
      BY <1>1, <2>9, <3>1, ByteAssumption DEF Sound, TextStored
  <2>11. PointerArray(arr) /\ arr.length = 0
    <3>1. PointersKept(ARRAY_INIT, 1, PointersGrown(ARRAY_INIT, 1))
      BY <1>1, EmptyArray, GrownPointers
    <3> QED
      BY <1>3, <3>1, EmptyArray DEF PointersKept, strstack_init
  <2> QED
    BY <1>2, <1>3, <2>5, <2>9, <2>10, <2>11 DEF strstack_init, r
<1>4. CASE STRSTACK_INIT
  <2>1. <<Nul>> \in Seq(Byte) /\ Len(<<Nul>>) = 1
    BY ByteAssumption
  <2>2. /\ Sound(buf) /\ buf.ok /\ buf.length = 1 /\ buf.data = Block(<<Nul>>)
    BY <1>4, <2>1, LiteralSound DEF STRSTACK_INIT
  <2>3. buf.data[0] = Nul
    <3>1. 0 \in 0..1 /\ 0 < 1 /\ <<Nul>>[0 + 1] = Nul
      OBVIOUS
    <3> QED
      BY <2>1, <2>2, <3>1 DEF Block
  <2> QED
    BY <1>2, <1>4, <2>2, <2>3, EmptyArray DEF STRSTACK_INIT
<1> QED
  BY <1>3, <1>4 DEF StringsInit

LEMMA PushKeeps ==
  ASSUME IInv, NEW s \in Strings, Push(s)
  PROVE  IInv'
PROOF
<1> DEFINE n == arr.length
           o == Offsets(buf, base, arr)
<1>1. s \in Seq(Byte \ {Nul}) /\ s \in Seq(Byte)
  BY StringsAssumption, SeqMonotonic
<1>2. /\ jemalloc = TRUE /\ base \in Nat /\ Held(buf) /\ buf.ok
      /\ PointerArray(arr) /\ PointersStored(arr) /\ Layout(buf, n, o)
  BY DEF IInv
<1>3. /\ Sound(Pushed(s)) /\ Pushed(s).ok /\ Pushed(s).alloc > 0
      /\ Appended(buf, s, Pushed(s))
  BY <1>1, <1>2, PushedAppends
<1>4. /\ buf' = Pushed(s) /\ jemalloc' = jemalloc /\ base' \in Nat
      /\ last'.call # "pop"
  BY <1>2, BasesAssumption DEF Push
<1>5. top' = base' + buf.length /\ arr' = array_push(strarray__rebuild(arr, base'), top')
  BY DEF Push, PushedTop
<1> HIDE DEF o
<1>6. /\ PointerArray(arr') /\ PointersStored(arr') /\ arr'.length = n + 1
      /\ arr'.data[n] = base' + buf.length
      /\ Offsets(buf', base', arr') = Longer(o, n, buf'.length)
  <2>1. base \in Int /\ base' \in Int /\ jemalloc \in BOOLEAN
    BY <1>2, <1>4
  <2>2. arr' = array_push(strarray__rebuild(arr, base'), base' + buf.length)
    BY <1>5
  <2>3. Layout(buf, arr.length, Offsets(buf, base, arr))
    BY <1>2 DEF o
  <2>4. PointersMoved(buf, base, arr, buf', base', arr')
    BY <1>2, <2>1, <2>2, <2>3, OffsetsPushed
  <2> QED
    BY <2>4 DEF PointersMoved, o
<1>7. Layout(buf', n + 1, Offsets(buf', base', arr'))
  <2>1. Appended(buf, s, buf')
    BY <1>3, <1>4
  <2>2. Layout(buf', n + 1, Longer(o, n, buf'.length))
    BY <1>1, <1>2, <2>1, PushLayout
  <2> QED
    BY <1>6, <2>2
<1>8. n \in Nat /\ arr'.length - 1 = n /\ arr'.length > 0
  BY <1>2, <1>6, ArrayFields
<1>9. PointerArray(arr)' /\ PointersStored(arr)'
  BY <1>6 DEF PointerArray, PointersStored, Slots
<1>10. Layout(buf, arr.length, Offsets(buf, base, arr))'
  BY <1>6, <1>7 DEF Layout, Offsets
<1>11. TopOfPointers'
  BY <1>5, <1>6, <1>8 DEF TopOfPointers
<1>12. PoppedReadable'
  BY <1>4 DEF PoppedReadable
<1>13. Held(buf)' /\ buf'.ok /\ buf'.alloc > 0
  BY <1>2, <1>3, <1>4, SoundIsHeld DEF Held
<1> QED
  BY <1>2, <1>4, <1>9, <1>10, <1>11, <1>12, <1>13 DEF IInv


LEMMA EntryIsString ==
  ASSUME NEW b, Allocated(b), TextStored(b), NEW n, NEW o, Layout(b, n, o), NEW k \in 0..n - 1
  PROVE  /\ Entry(b, o, k) \in Seq(Byte)
         /\ Len(Entry(b, o, k)) = o[k + 1] - 1 - o[k]
PROOF
<1> DEFINE m == o[k + 1] - 1 - o[k]
<1>1. o[k] \in 1..b.length - 1 /\ o[k + 1] \in o[k] + 1..b.length
  BY LayoutBounds
<1>2. b.length \in Nat
  BY DEF Allocated
<1>3. m \in Nat
  BY <1>1, <1>2
<1>4. ASSUME NEW i \in 1..m
      PROVE  b.data[o[k] + i - 1] \in Byte
  <2>1. o[k] + i - 1 \in 0..b.length - 1
    BY <1>1, <1>2
  <2> QED
    BY <2>1 DEF TextStored
<1> HIDE DEF m
<1>5. Entry(b, o, k) = [i \in 1..m |-> b.data[o[k] + i - 1]]
  BY DEF Entry, m
<1>6. [i \in 1..m |-> b.data[o[k] + i - 1]] \in Seq(Byte)
  BY <1>3, <1>4
<1>7. Len([i \in 1..m |-> b.data[o[k] + i - 1]]) = m
  BY <1>3
<1> QED
  BY <1>5, <1>6, <1>7 DEF m

(* strstack_pop seeks back to where the previous entry begins.             *)
LEMMA PreviousEntryFound ==
  ASSUME NEW n, NEW o, Layout(buf, n, o), n # 0
  PROVE  PreviousEntry(o[n - 1]) = IF n > 1 THEN o[n - 2] ELSE 0
PROOF
<1> DEFINE offset == o[n - 1]
           prev == IF n > 1 THEN o[n - 2] ELSE 0
           Begins(x) == /\ x = 0 \/ buf.data[x - 1] = Nul
                        /\ \A p \in x + 1..offset - 1 : buf.data[p - 1] # Nul
<1>1. /\ n \in Nat
      /\ \A k \in 0..n : o[k] \in 1..buf.length
      /\ \A k \in 0..n - 1 : o[k] \in 1..buf.length - 1 /\ o[k + 1] \in o[k] + 1..buf.length
  BY LayoutBounds
<1>2. buf.data[0] = Nul /\ o[0] = 1 /\ \A k \in 0..n : o[k] \in Nat
  BY DEF Layout
<1>3. offset \in Nat
  <2>1. n - 1 \in 0..n
    BY <1>1
  <2> QED
    BY <1>2, <2>1
<1>4. prev \in 0..offset - 1 /\ Begins(prev)
  <2>1. CASE n > 1
    <3>1. n - 2 \in 0..n - 1 /\ (n - 2) + 1 = n - 1 /\ n - 2 \in 0..n
      BY <1>1, <2>1
    <3>2. o[n - 2] \in Nat /\ offset \in o[n - 2] + 1..buf.length
      BY <1>1, <1>2, <3>1
    <3>3. o[n - 2] \in 0..offset - 1
      BY <1>3, <3>2
    <3>4. \A p \in o[n - 2]..offset - 2 : buf.data[p] # Nul
      BY <3>1 DEF Layout
    <3>5. \A p \in o[n - 2] + 1..offset - 1 : p - 1 \in o[n - 2]..offset - 2
      BY <1>3, <3>2
    <3>6. buf.data[o[n - 2] - 1] = Nul
      <4>1. CASE n = 2
        <5>1. o[n - 2] - 1 = 0
          BY <1>2, <4>1
        <5> QED
          BY <1>2, <5>1
      <4>2. CASE n # 2
        <5>1. n - 3 \in 0..n - 1 /\ (n - 3) + 1 = n - 2
          BY <1>1, <2>1, <4>2
        <5> QED
          BY <5>1 DEF Layout
      <4> QED
        BY <4>1, <4>2
    <3> QED
      BY <2>1, <3>3, <3>4, <3>5, <3>6
  <2>2. CASE ~(n > 1)
    <3>1. n - 1 = 0 /\ offset = 1
      BY <1>1, <1>2, <2>2
    <3>2. \A p \in 0 + 1..offset - 1 : FALSE
      BY <3>1
    <3>3. 0 \in 0..offset - 1
      BY <3>1
    <3> QED
      BY <2>2, <3>2, <3>3
  <2> QED
    BY <2>1, <2>2
<1> HIDE DEF prev, offset
<1>5. ASSUME NEW x \in 0..offset - 1, Begins(x)
      PROVE  x = prev
  <2>1. ASSUME NEW y \in 0..offset - 1, NEW z \in 0..offset - 1, y < z, Begins(y), Begins(z)
        PROVE  FALSE
    <3>1. z \in y + 1..offset - 1 /\ z # 0
      BY <1>3, <2>1
    <3> QED
      BY <2>1, <3>1
  <2>2. x \in Int /\ prev \in Int /\ ~(x < prev) /\ ~(prev < x)
    BY <1>3, <1>4, <1>5, <2>1
  <2> QED
    BY <2>2
<1>6. PreviousEntry(offset) = CHOOSE x \in 0..offset - 1 : Begins(x)
  BY DEF PreviousEntry
<1>7. PreviousEntry(offset) \in 0..offset - 1 /\ Begins(PreviousEntry(offset))
  BY <1>4, <1>6
<1>8. PreviousEntry(offset) = prev
  BY <1>5, <1>7
<1> QED
  BY <1>8 DEF prev, offset

(* Where the top of a stack that is not empty stands, and what a pop       *)
(* returns.                                                                *)
LEMMA TopEntry ==
  ASSUME IInv, arr.length # 0
  PROVE  LET n == arr.length
             o == Offsets(buf, base, arr)
         IN /\ top - base = o[n - 1] /\ top = base + o[n - 1]
            /\ o[n - 1] \in 1..buf.length - 1 /\ o[n] = buf.length /\ buf.length \in Nat
            /\ [i \in 1..buf.length - (top - base) - 1 |-> buf.data[(top - base) + i - 1]]
                 = Entry(buf, o, n - 1)
PROOF
<1> DEFINE n == arr.length
           o == Offsets(buf, base, arr)
<1>1. base \in Int /\ PointerArray(arr) /\ PointersStored(arr) /\ Layout(buf, n, o)
  BY DEF IInv
<1>2. n \in Nat /\ n - 1 \in 0..n - 1 /\ (n - 1) + 1 = n /\ n > 0
  BY <1>1, ArrayFields
<1>3. o[n] = buf.length /\ arr.data[n - 1] = base + o[n - 1]
  <2>1. Pointing(buf, base, arr, o)
    BY <1>1, OffsetsPoint
  <2>2. o[n] = buf.length /\ \A k \in 0..n - 1 : arr.data[k] = base + o[k]
    BY <2>1 DEF Pointing
  <2> HIDE DEF o
  <2> QED
    BY <1>2, <2>2
<1>4. o[n - 1] \in 1..buf.length - 1
  BY <1>1, <1>2, LayoutBounds
<1>5. buf.length \in Nat
  BY DEF IInv, Held, Allocated
<1>6. top = base + o[n - 1]
  BY <1>2, <1>3 DEF IInv, TopOfPointers
<1> HIDE DEF o
<1>7. top - base = o[n - 1]
  BY <1>1, <1>4, <1>5, <1>6
<1>8. Entry(buf, o, n - 1) = [i \in 1..o[n] - 1 - o[n - 1] |-> buf.data[o[n - 1] + i - 1]]
  BY <1>2 DEF Entry
<1>9. buf.length - o[n - 1] - 1 = o[n] - 1 - o[n - 1]
  BY <1>3, <1>4, <1>5
<1> HIDE DEF n
<1> QED
  BY <1>3, <1>4, <1>5, <1>6, <1>7, <1>8, <1>9 DEF o, n

LEMMA PopKeeps ==
  ASSUME IInv, Pop
  PROVE  IInv'
PROOF
<1> DEFINE n == arr.length
           o == Offsets(buf, base, arr)
           offset == top - base
<1>1. /\ jemalloc = TRUE /\ base \in Nat /\ Held(buf) /\ buf.ok
      /\ PointerArray(arr) /\ PointersStored(arr) /\ Layout(buf, n, o)
      /\ (n > 0 => buf.alloc > 0)
  BY DEF IInv
<1>2. n \in Nat /\ n # 0 /\ n > 0 /\ n - 1 \in 0..n - 1 /\ (n - 1) + 1 = n
  BY <1>1, ArrayFields DEF Pop
<1>3. /\ offset = o[n - 1] /\ top = base + o[n - 1]
      /\ o[n - 1] \in 1..buf.length - 1 /\ o[n] = buf.length /\ buf.length \in Nat
      /\ [i \in 1..buf.length - offset - 1 |-> buf.data[offset + i - 1]] = Entry(buf, o, n - 1)
  BY <1>2, TopEntry
<1>4. /\ buf' = Shortened(offset) /\ top' = base + PreviousEntry(offset)
      /\ popped' = top /\ arr' = array_pop(arr)
      /\ last'.str = Entry(buf, o, n - 1)
      /\ jemalloc' = jemalloc /\ base' = base
  BY <1>3 DEF Pop
<1> HIDE DEF o, offset
<1>5. Allocated(buf) /\ TextStored(buf)
  BY <1>1 DEF Held
<1>6. buf' = [data |-> buf.data, length |-> offset, alloc |-> buf.alloc,
              size |-> buf.size, ok |-> buf.ok]
  BY <1>4, <1>5 DEF Shortened, Allocated
<1>7. /\ buf'.data = buf.data /\ buf'.length = o[n - 1] /\ buf'.alloc = buf.alloc
      /\ buf'.size = buf.size /\ buf'.ok = buf.ok
  BY <1>3, <1>6
<1>8. buf.length \in 0..buf.size - 1 /\ buf.size \in Nat
      /\ buf.data \in [0..buf.size - 1 -> Cell] /\ buf.alloc \in {0, buf.size}
      /\ buf.ok \in BOOLEAN
  BY <1>5 DEF Allocated
<1>9. o[n - 1] \in 0..buf.size - 1
  <2>1. buf.length \in 0..buf.size - 1 /\ buf.size \in Nat
    BY <1>8
  <2> QED
    BY <1>3, <2>1
<1>10. Allocated(buf')
  BY <1>3, <1>6, <1>7, <1>8, <1>9 DEF Allocated
<1>11. TextStored(buf')
  <2>1. \A i \in 0..o[n - 1] - 1 : i \in 0..buf.length - 1
    BY <1>3
  <2> QED
    BY <1>5, <1>7, <2>1 DEF TextStored
<1>12. Held(buf)' /\ buf'.ok /\ buf'.alloc > 0
  BY <1>1, <1>2, <1>4, <1>7, <1>10, <1>11 DEF Held, Allocated, TextStored
<1>13. /\ PointerArray(arr') /\ PointersStored(arr') /\ arr'.length = n - 1
       /\ arr'.data = arr.data
       /\ Offsets(buf', base', arr') = Shorter(o, n)
  <2>1. base \in Int /\ buf'.length = Offsets(buf, base, arr)[arr.length - 1]
    BY <1>1, <1>7 DEF o
  <2> QED
    BY <1>1, <1>2, <1>4, <2>1, OffsetsPopped DEF o
<1>14. PointerArray(arr)' /\ PointersStored(arr)'
  BY <1>13 DEF PointerArray, PointersStored, Slots
<1>15. Layout(buf, arr.length, Offsets(buf, base, arr))'
  <2>1. Layout(buf', n - 1, Shorter(o, n))
    BY <1>1, <1>2, <1>7, PopLayout
  <2> QED
    BY <1>13, <2>1 DEF Layout, Offsets
<1>16. TopOfPointers'
  <2>1. PreviousEntry(offset) = IF n > 1 THEN o[n - 2] ELSE 0
    BY <1>1, <1>2, <1>3, PreviousEntryFound
  <2>2. CASE n > 1
    <3>1. n - 2 \in 0..n - 1 /\ (n - 1) - 1 = n - 2 /\ n - 1 > 0
      BY <1>2, <2>2
    <3>2. arr.data[n - 2] = base + o[n - 2]
      <4>1. base \in Int
        BY <1>1
      <4>2. Pointing(buf, base, arr, o)
        BY <1>1, <4>1, OffsetsPoint DEF o
      <4> QED
        BY <3>1, <4>2 DEF Pointing
    <3> QED
      BY <1>4, <1>13, <2>1, <2>2, <3>1, <3>2 DEF TopOfPointers
  <2>3. CASE ~(n > 1)
    <3>1. ~(n - 1 > 0) /\ base + 0 = base
      BY <1>1, <1>2, <2>3
    <3> QED
      BY <1>4, <1>13, <2>1, <2>3, <3>1 DEF TopOfPointers
  <2> QED
    BY <2>2, <2>3
<1>17. PoppedReadable'
  <2>1. /\ ReadableIn(buf, base, base + o[n - 1])
        /\ CStringIn(buf, base, base + o[n - 1]) = Entry(buf, o, n - 1)
    <3>1. base \in Int
      BY <1>1
    <3> QED
      BY <1>1, <1>2, <1>5, <3>1, EntryRead
  <2>2. Readable(popped)' /\ CString(popped)' = last'.str
    BY <1>3, <1>4, <1>7, <2>1
    DEF ReadableIn, CStringIn, TerminatorsIn, Readable, CString, TerminatorsFrom
  <2>3. Len(last'.str) = buf.length - 1 - o[n - 1]
    <3>1. Len(Entry(buf, o, n - 1)) = o[(n - 1) + 1] - 1 - o[n - 1]
      BY <1>1, <1>2, <1>5, EntryIsString
    <3> QED
      BY <1>2, <1>3, <1>4, <3>1
  <2>4. o[n - 1] + (buf.length - 1 - o[n - 1]) + 1 < buf.alloc
    <3>1. buf.length < buf.size /\ buf.alloc = buf.size /\ buf.size \in Nat
      BY <1>1, <1>2, <1>8
    <3> QED
      BY <1>3, <3>1
  <2> QED
    BY <1>7, <2>2, <2>3, <2>4 DEF PoppedReadable
<1> QED
  BY <1>1, <1>4, <1>12, <1>14, <1>15, <1>16, <1>17 DEF IInv

LEMMA NextKeeps == IInv /\ [StringsNext]_stringsVars => IInv'
PROOF
<1> SUFFICES ASSUME IInv, [StringsNext]_stringsVars
             PROVE  IInv'
  OBVIOUS
<1>1. CASE \E s \in Strings : Push(s)
  BY <1>1, PushKeeps
<1>2. CASE Pop
  BY <1>2, PopKeeps
<1>3. CASE UNCHANGED stringsVars
  <2> USE DEF stringsVars
  <2>1. Held(buf)'
    BY <1>3 DEF IInv, Held, Allocated, TextStored, Terminated
  <2>2. PointerArray(arr)' /\ PointersStored(arr)'
    BY <1>3 DEF IInv, PointerArray, PointersStored, Slots
  <2>3. Layout(buf, arr.length, Offsets(buf, base, arr))'
    BY ZenonT(40), <1>3 DEF IInv, Layout, Offsets
  <2>4. TopOfPointers'
    BY <1>3 DEF IInv, TopOfPointers
  <2>5. PoppedReadable'
    BY <1>3 DEF IInv, PoppedReadable, Readable, CString, TerminatorsFrom
  <2> QED
    BY <1>3, <2>1, <2>2, <2>3, <2>4, <2>5 DEF IInv
<1> QED
  BY <1>1, <1>2, <1>3 DEF StringsNext, Finished

(* The layout of the buffer and the pointers into it survive every push    *)
(* and pop.                                                                *)
THEOREM StringsInvariant == StringsSpec => []IInv
PROOF
  BY InitEstablishes, NextKeeps, PTL DEF StringsSpec

(* However often the buffer moves, strarray__rebuild and the seek of       *)
(* strstack_pop leave the pointers on consecutive entries that cover the   *)
(* buffer, and the top on the last of them.                                *)
THEOREM StackEntriesCover == StringsSpec => []EntriesCover
PROOF
  BY EntriesCovered, StringsInvariant, PTL

(* The string strstack_pop returns stands behind the length, and nothing   *)
(* writes there before the next push.                                      *)
THEOREM PoppedStaysReadable == StringsSpec => []PoppedReadable
PROOF
<1>1. IInv => PoppedReadable
  BY DEF IInv
<1> QED
  BY <1>1, StringsInvariant, PTL


-----------------------------------------------------------------------------
(* The stack of strings.                                                   *)

(* What the pointers of a read, and the entries they point to.             *)
StringsOf(b, ba, a) ==
  [k \in 1..a.length |-> IF ReadableIn(b, ba, a.data[k - 1])
                         THEN CStringIn(b, ba, a.data[k - 1]) ELSE <<Junk>>]
Entries(b, o, n) == [k \in 1..n |-> Entry(b, o, k - 1)]

LEMMA StringsAreEntries ==
  ASSUME NEW b, Allocated(b), TextStored(b), NEW ba \in Int,
         NEW a, PointerArray(a), PointersStored(a),
         Layout(b, a.length, Offsets(b, ba, a))
  PROVE  StringsOf(b, ba, a) = Entries(b, Offsets(b, ba, a), a.length)
PROOF
<1> DEFINE n == a.length
           o == Offsets(b, ba, a)
<1>1. n \in Nat
  BY ArrayFields
<1>2. \A k \in 0..n - 1 : a.data[k] = ba + o[k]
  <2>1. Pointing(b, ba, a, o)
    BY OffsetsPoint
  <2> QED
    BY <2>1 DEF Pointing
<1> HIDE DEF o
<1>3. ASSUME NEW k \in 1..n
      PROVE  (IF ReadableIn(b, ba, a.data[k - 1]) THEN CStringIn(b, ba, a.data[k - 1])
              ELSE <<Junk>>) = Entry(b, o, k - 1)
  <2>1. k - 1 \in 0..n - 1
    BY <1>1
  <2>2. a.data[k - 1] = ba + o[k - 1]
    BY <1>2, <2>1
  <2>3. /\ ReadableIn(b, ba, ba + o[k - 1])
        /\ CStringIn(b, ba, ba + o[k - 1]) = Entry(b, o, k - 1)
    BY <2>1, EntryRead DEF o
  <2> QED
    BY <2>2, <2>3
<1>4. StringsOf(b, ba, a) = Entries(b, o, n)
  BY <1>3 DEF StringsOf, Entries
<1> QED
  BY <1>4 DEF n, o

LEMMA EntriesAreStrings ==
  ASSUME NEW b, Allocated(b), TextStored(b), NEW n, NEW o, Layout(b, n, o)
  PROVE  /\ Entries(b, o, n) \in Seq(Seq(Byte)) /\ Len(Entries(b, o, n)) = n
         /\ \A k \in 1..n : Entries(b, o, n)[k] = Entry(b, o, k - 1)
PROOF
<1>1. n \in Nat
  BY DEF Layout
<1>2. ASSUME NEW k \in 1..n
      PROVE  Entry(b, o, k - 1) \in Seq(Byte)
  <2>1. k - 1 \in 0..n - 1
    BY <1>1
  <2> QED
    BY <2>1, EntryIsString
<1> QED
  BY <1>1, <1>2 DEF Entries

(* An entry is the same in any buffer that holds it.                       *)
LEMMA EntryKept ==
  ASSUME NEW b, NEW r, NEW o, NEW q, NEW k,
         q[k] = o[k], q[k + 1] = o[k + 1],
         \A i \in 1..o[k + 1] - 1 - o[k] : r.data[o[k] + i - 1] = b.data[o[k] + i - 1]
  PROVE  Entry(r, q, k) = Entry(b, o, k)
PROOF
<1>1. Entry(r, q, k) = [i \in 1..o[k + 1] - 1 - o[k] |-> r.data[o[k] + i - 1]]
  BY DEF Entry
<1> QED
  BY <1>1 DEF Entry

LEMMA PushedEntries ==
  ASSUME NEW b, Allocated(b), TextStored(b), NEW n, NEW o, Layout(b, n, o),
         NEW s \in Seq(Byte \ {Nul}), NEW r, Allocated(r), TextStored(r), Appended(b, s, r)
  PROVE  Entries(r, Longer(o, n, r.length), n + 1) = Append(Entries(b, o, n), s)
PROOF
<1> DEFINE q == Longer(o, n, r.length)
           len == b.length
           E == Entries(b, o, n)
           F == Entries(r, q, n + 1)
<1>1. n \in Nat /\ s \in Seq(Byte) /\ Len(s) \in Nat /\ len \in Nat
  BY SeqMonotonic, LenProperties DEF Layout, Allocated
<1>2. Layout(r, n + 1, q)
  BY PushLayout
<1>3. (\A k \in 0..n : q[k] = o[k]) /\ q[n + 1] = r.length
  <2>1. /\ \A k \in 0..n : k \in 0..n + 1 /\ k <= n
        /\ n + 1 \in 0..n + 1 /\ ~(n + 1 <= n)
    BY <1>1
  <2> QED
    BY <2>1 DEF Longer
<1>4. \A k \in 0..n - 1 : o[k] \in 1..len - 1 /\ o[k + 1] \in o[k] + 1..len
  BY LayoutBounds
<1>5. o[n] = len
  BY DEF Layout
<1> HIDE DEF q, len
<1>6. /\ r.length = len + Len(s) + 1
      /\ \A i \in 0..len - 1 : r.data[i] = b.data[i]
      /\ \A i \in 1..Len(s) : r.data[len + i - 1] = s[i]
  BY DEF Appended, len
<1>7. ASSUME NEW k \in 0..n - 1
      PROVE  Entry(r, q, k) = Entry(b, o, k)
  <2>1. k \in 0..n /\ k + 1 \in 0..n
    BY <1>1
  <2>2. q[k] = o[k] /\ q[k + 1] = o[k + 1]
    BY <1>3, <2>1
  <2>3. ASSUME NEW i \in 1..o[k + 1] - 1 - o[k]
        PROVE  r.data[o[k] + i - 1] = b.data[o[k] + i - 1]
    <3>1. o[k] \in Int /\ o[k + 1] \in Int /\ 1 <= o[k] /\ o[k + 1] <= len /\ len \in Int
      <4>1. len \in Nat /\ o[k] \in 1..len - 1 /\ o[k + 1] \in o[k] + 1..len
        BY <1>1, <1>4
      <4> QED
        BY <4>1
    <3>2. o[k] + i - 1 \in 0..len - 1
      BY SMTT(30), <3>1
    <3> QED
      BY <1>6, <3>2
  <2> QED
    BY <2>2, <2>3, EntryKept
<1>8. Entry(r, q, n) = s
  <2>1. q[n] = len /\ q[n + 1] = len + Len(s) + 1
    <3>1. n \in 0..n
      BY <1>1
    <3> QED
      BY <1>3, <1>5, <1>6, <3>1
  <2>2. q[n + 1] - 1 - q[n] = Len(s)
    BY <1>1, <2>1
  <2>3. Entry(r, q, n) = [i \in 1..Len(s) |-> r.data[len + i - 1]]
    BY <2>1, <2>2 DEF Entry
  <2>4. n \in 0..(n + 1) - 1
    BY <1>1
  <2>5. Entry(r, q, n) \in Seq(Byte) /\ Len(Entry(r, q, n)) = q[n + 1] - 1 - q[n]
    BY <1>2, <2>4, EntryIsString
  <2>6. \A i \in 1..Len(s) : Entry(r, q, n)[i] = s[i]
    BY <1>6, <2>3
  <2> QED
    BY <1>1, <2>2, <2>5, <2>6, SeqEqual
<1>9. /\ E \in Seq(Seq(Byte)) /\ Len(E) = n
      /\ \A k \in 1..n : E[k] = Entry(b, o, k - 1)
  BY EntriesAreStrings
<1>10. /\ F \in Seq(Seq(Byte)) /\ Len(F) = n + 1
       /\ \A k \in 1..n + 1 : F[k] = Entry(r, q, k - 1)
  BY <1>2, EntriesAreStrings
<1> HIDE DEF E, F
<1>11. /\ Append(E, s) \in Seq(Seq(Byte)) /\ Len(Append(E, s)) = n + 1
       /\ \A k \in 1..n : Append(E, s)[k] = E[k]
       /\ Append(E, s)[n + 1] = s
  BY <1>1, <1>9, AppendProperties
<1>12. ASSUME NEW k \in 1..n + 1
       PROVE  F[k] = Append(E, s)[k]
  <2>1. CASE k = n + 1
    <3>1. k - 1 = n
      BY <1>1, <2>1
    <3> QED
      BY <1>8, <1>10, <1>11, <2>1, <3>1
  <2>2. CASE k # n + 1
    <3>1. k \in 1..n /\ k - 1 \in 0..n - 1
      BY <1>1, <2>2
    <3> QED
      BY <1>7, <1>9, <1>10, <1>11, <3>1
  <2> QED
    BY <2>1, <2>2
<1>13. F = Append(E, s)
  BY <1>10, <1>11, <1>12, SeqEqual
<1> QED
  BY <1>13 DEF E, F, q

LEMMA PoppedEntries ==
  ASSUME NEW b, Allocated(b), TextStored(b), NEW n, NEW o, Layout(b, n, o), n # 0,
         NEW r, r.data = b.data
  PROVE  Entries(r, Shorter(o, n), n - 1) = SubSeq(Entries(b, o, n), 1, n - 1)
PROOF
<1> DEFINE q == Shorter(o, n)
           E == Entries(b, o, n)
           F == Entries(r, q, n - 1)
<1>1. n \in Nat /\ n - 1 \in Nat
  BY DEF Layout
<1>2. \A k \in 0..n - 1 : q[k] = o[k]
  BY DEF Shorter
<1> HIDE DEF q
<1>3. ASSUME NEW k \in 1..n - 1
      PROVE  Entry(r, q, k - 1) = Entry(b, o, k - 1)
  <2>1. k - 1 \in 0..n - 1 /\ (k - 1) + 1 \in 0..n - 1
    BY <1>1
  <2> QED
    BY <1>2, <2>1, EntryKept
<1>4. /\ E \in Seq(Seq(Byte)) /\ Len(E) = n
      /\ \A k \in 1..n : E[k] = Entry(b, o, k - 1)
  BY EntriesAreStrings
<1> HIDE DEF E
<1>5. SubSeq(E, 1, n - 1) = [k \in 1..n - 1 |-> E[k]]
  <2>1. \A k \in 1..n - 1 : E[k] \in Seq(Byte)
    <3>1. \A k \in 1..n - 1 : k \in 1..Len(E)
      BY <1>1, <1>4
    <3> QED
      BY <1>4, <3>1, ElementOfSeq
  <2>2. /\ SubSeq(E, 1, n - 1) \in Seq(Seq(Byte))
        /\ Len(SubSeq(E, 1, n - 1)) = IF 1 <= n - 1 THEN n - 1 - 1 + 1 ELSE 0
        /\ \A k \in 1..n - 1 - 1 + 1 : SubSeq(E, 1, n - 1)[k] = E[1 + k - 1]
    BY <1>1, <2>1, SubSeqProperties
  <2>3. Len(SubSeq(E, 1, n - 1)) = n - 1
    <3>1. (IF 1 <= n - 1 THEN n - 1 - 1 + 1 ELSE 0) = n - 1
      BY <1>1
    <3> QED
      BY <2>2, <3>1
  <2>4. \A k \in 1..n - 1 : SubSeq(E, 1, n - 1)[k] = E[k]
    <3>1. \A k \in 1..n - 1 : k \in 1..n - 1 - 1 + 1 /\ 1 + k - 1 = k
      BY <1>1
    <3> QED
      BY <2>2, <3>1
  <2>5. SubSeq(E, 1, n - 1) = [k \in 1..Len(SubSeq(E, 1, n - 1)) |-> SubSeq(E, 1, n - 1)[k]]
    BY <2>2
  <2> QED
    BY <2>3, <2>4, <2>5
<1>6. \A k \in 1..n - 1 : k \in 1..n
  BY <1>1
<1>7. F = [k \in 1..n - 1 |-> E[k]]
  BY <1>3, <1>4, <1>6 DEF Entries
<1> QED
  BY <1>5, <1>7 DEF E, F, q


LEMMA InitIsStack == StringsInit => EntryStack!StackInit
PROOF
<1> SUFFICES ASSUME StringsInit
             PROVE  EntryStack!StackInit
  OBVIOUS
<1>1. arr.length = 0
  <2>1. CASE strstack_init
    <3>1. jemalloc \in BOOLEAN
      BY DEF StringsInit
    <3>2. PointersKept(ARRAY_INIT, 1, PointersGrown(ARRAY_INIT, 1))
      BY <3>1, EmptyArray, GrownPointers
    <3> QED
      BY <2>1, <3>2, EmptyArray DEF PointersKept, strstack_init
  <2>2. CASE STRSTACK_INIT
    BY <2>2, EmptyArray DEF STRSTACK_INIT
  <2> QED
    BY <2>1, <2>2 DEF StringsInit
<1>2. \A f : [k \in 1..0 |-> f[k]] = <<>>
  OBVIOUS
<1>3. last = [call |-> "init", str |-> <<>>]
  BY DEF StringsInit
<1> QED
  BY <1>1, <1>2, <1>3 DEF EntryStack!StackInit

(* The strings of the refinement, in this state and in the next.           *)
LEMMA ReadStrings ==
  /\ [k \in 1..arr.length |->
        IF Readable(arr.data[k - 1]) THEN CString(arr.data[k - 1]) ELSE <<Junk>>]
       = StringsOf(buf, base, arr)
  /\ [k \in 1..arr.length |->
        IF Readable(arr.data[k - 1]) THEN CString(arr.data[k - 1]) ELSE <<Junk>>]'
       = StringsOf(buf', base', arr')
PROOF
  BY DEF StringsOf, Readable, CString, TerminatorsFrom, ReadableIn, CStringIn, TerminatorsIn

LEMMA PushIsStackPush ==
  ASSUME IInv, NEW s \in Strings, Push(s)
  PROVE  EntryStack!StackPush(s)
PROOF
<1> DEFINE n == arr.length
           o == Offsets(buf, base, arr)
<1>1. s \in Seq(Byte \ {Nul}) /\ s \in Seq(Byte)
  BY StringsAssumption, SeqMonotonic
<1>2. /\ jemalloc = TRUE /\ base \in Nat /\ Held(buf) /\ buf.ok
      /\ PointerArray(arr) /\ PointersStored(arr) /\ Layout(buf, n, o)
  BY DEF IInv
<1>3. base \in Int /\ base' \in Int /\ jemalloc \in BOOLEAN
  BY <1>2, BasesAssumption DEF Push
<1>4. /\ Sound(buf') /\ Appended(buf, s, buf')
  BY <1>1, <1>2, PushedAppends DEF Push
<1>5. arr' = array_push(strarray__rebuild(arr, base'), base' + buf.length)
      /\ last' = [call |-> "push", str |-> s]
  BY DEF Push, PushedTop
<1>6. PointersMoved(buf, base, arr, buf', base', arr')
  BY <1>2, <1>3, <1>5, OffsetsPushed
<1> HIDE DEF o
<1>7. /\ PointerArray(arr') /\ PointersStored(arr') /\ arr'.length = n + 1
      /\ Offsets(buf', base', arr') = Longer(o, n, buf'.length)
  BY <1>6 DEF PointersMoved, o
<1>8. Layout(buf', n + 1, Longer(o, n, buf'.length))
  BY <1>1, <1>2, <1>4, PushLayout
<1>9. Allocated(buf) /\ TextStored(buf) /\ Allocated(buf') /\ TextStored(buf')
  BY <1>2, <1>4 DEF Held, Sound
<1>10. StringsOf(buf', base', arr') = Entries(buf', Longer(o, n, buf'.length), n + 1)
  <2>1. Layout(buf', arr'.length, Offsets(buf', base', arr'))
    BY <1>7, <1>8
  <2>2. StringsOf(buf', base', arr') = Entries(buf', Offsets(buf', base', arr'), arr'.length)
    BY <1>3, <1>7, <1>9, <2>1, StringsAreEntries
  <2> QED
    BY <1>7, <2>2
<1>11. StringsOf(buf, base, arr) = Entries(buf, o, n)
  BY <1>2, <1>3, <1>9, StringsAreEntries DEF o
<1>12. StringsOf(buf', base', arr') = Append(StringsOf(buf, base, arr), s)
  <2>1. Entries(buf', Longer(o, n, buf'.length), n + 1) = Append(Entries(buf, o, n), s)
    BY ZenonT(40), <1>1, <1>2, <1>4, <1>9, PushedEntries
  <2> QED
    BY <1>10, <1>11, <2>1
<1> QED
  BY <1>5, <1>12, ReadStrings DEF EntryStack!StackPush

LEMMA PopIsStackPop ==
  ASSUME IInv, Pop
  PROVE  EntryStack!StackPop
PROOF
<1> DEFINE n == arr.length
           o == Offsets(buf, base, arr)
           offset == top - base
<1>1. /\ base \in Int /\ Allocated(buf) /\ TextStored(buf)
      /\ PointerArray(arr) /\ PointersStored(arr) /\ Layout(buf, n, o)
  BY DEF IInv, Held
<1>2. n \in Nat /\ n # 0 /\ n \in 1..n /\ n - 1 \in Nat
  BY <1>1, ArrayFields DEF Pop
<1>3. /\ offset = o[n - 1]
      /\ [i \in 1..buf.length - offset - 1 |-> buf.data[offset + i - 1]] = Entry(buf, o, n - 1)
  BY <1>2, TopEntry
<1>4. /\ buf' = Shortened(offset) /\ arr' = array_pop(arr) /\ base' = base
      /\ last' = [call |-> "pop", str |-> Entry(buf, o, n - 1)]
  BY <1>3 DEF Pop
<1> HIDE DEF o, offset
<1>5. buf'.data = buf.data /\ buf'.length = o[n - 1]
  BY <1>1, <1>3, <1>4 DEF Shortened, Allocated
<1>6. /\ PointerArray(arr') /\ PointersStored(arr') /\ arr'.length = n - 1
      /\ Offsets(buf', base', arr') = Shorter(o, n)
  <2>1. buf'.length = Offsets(buf, base, arr)[arr.length - 1]
    BY <1>5 DEF o
  <2> QED
    BY <1>1, <1>2, <1>4, <2>1, OffsetsPopped DEF o
<1>7. IInv'
  BY PopKeeps
<1>8. Allocated(buf') /\ TextStored(buf') /\ Layout(buf', n - 1, Shorter(o, n)) /\ base' \in Int
  <2>1. Allocated(buf)' /\ TextStored(buf)'
    BY <1>7 DEF IInv, Held
  <2>2. Layout(buf', n - 1, Shorter(o, n))
    BY <1>1, <1>2, <1>5, PopLayout
  <2> QED
    BY <1>1, <1>4, <2>1, <2>2 DEF Allocated, TextStored
<1>9. StringsOf(buf', base', arr') = Entries(buf', Shorter(o, n), n - 1)
  <2>1. Layout(buf', arr'.length, Offsets(buf', base', arr'))
    BY <1>6, <1>8
  <2>2. StringsOf(buf', base', arr') = Entries(buf', Offsets(buf', base', arr'), arr'.length)
    BY <1>6, <1>8, <2>1, StringsAreEntries
  <2> QED
    BY <1>6, <2>2
<1>10. StringsOf(buf, base, arr) = Entries(buf, o, n)
  BY <1>1, StringsAreEntries DEF o
<1>11. /\ Entries(buf, o, n) \in Seq(Seq(Byte)) /\ Len(Entries(buf, o, n)) = n
       /\ Entries(buf, o, n)[n] = Entry(buf, o, n - 1)
  BY <1>1, <1>2, EntriesAreStrings
<1>12. Entries(buf, o, n) # <<>>
  <2>1. Len(<<>>) = 0
    OBVIOUS
  <2> QED
    BY <1>2, <1>11, <2>1
<1>13. Entries(buf', Shorter(o, n), n - 1) = SubSeq(Entries(buf, o, n), 1, n - 1)
  BY <1>1, <1>2, <1>5, PoppedEntries
<1> DEFINE S == StringsOf(buf, base, arr)
           T == StringsOf(buf', base', arr')
<1>14. /\ S # <<>> /\ T = SubSeq(S, 1, Len(S) - 1)
       /\ last' = [call |-> "pop", str |-> S[Len(S)]]
  BY <1>4, <1>9, <1>10, <1>11, <1>12, <1>13
<1> HIDE DEF S, T
<1> QED
  BY <1>14, ReadStrings DEF EntryStack!StackPop, S, T

LEMMA StepIsStack ==
  ASSUME IInv, [StringsNext]_stringsVars
  PROVE  [EntryStack!StackNext]_(EntryStack!stackVars)
PROOF
<1>1. CASE \E s \in Strings : Push(s)
  BY <1>1, PushIsStackPush DEF EntryStack!StackNext
<1>2. CASE Pop
  BY <1>2, PopIsStackPop DEF EntryStack!StackNext
<1>3. CASE UNCHANGED stringsVars
  BY <1>3 DEF stringsVars, EntryStack!stackVars, Readable, CString, TerminatorsFrom
<1> QED
  BY <1>1, <1>2, <1>3 DEF StringsNext, Finished

(* The pointers of a strarray read a stack: a push leaves every string     *)
(* under it as it was wherever the buffer moves, and a pop returns the     *)
(* last one.                                                               *)
THEOREM StringsImplementStack == StringsSpec => ImplementsStack
PROOF
<1>1. StringsInit => EntryStack!StackInit
  BY InitIsStack
<1>2. IInv /\ [StringsNext]_stringsVars => [EntryStack!StackNext]_(EntryStack!stackVars)
  BY StepIsStack
<1> QED
  BY <1>1, <1>2, StringsInvariant, PTL DEF StringsSpec, ImplementsStack, EntryStack!StackSpec

=============================================================================
