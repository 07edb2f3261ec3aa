-------------------------- MODULE MemBufferProofs --------------------------
(***************************************************************************)
(* What every operation of the byte buffer does to its block, its text and *)
(* its terminator, for every alphabet, block and text, in either build.    *)
(* MemEditorProofs and MemStringsProofs rest on these lemmas.              *)
(***************************************************************************)
EXTENDS MemBuffer, SequenceTheorems, WellFoundedInduction, TLAPS

Cell == Byte \cup {Junk}

(* A block of the size the allocator gave, with the length inside of it.   *)
Allocated(b) ==
  b \in [data : [0..b.size - 1 -> Cell], length : 0..b.size - 1,
         alloc : {0, b.size}, size : Nat, ok : BOOLEAN]

TextStored(b) == \A i \in 0..b.length - 1 : b.data[i] \in Byte
Terminated(b) == b.data[b.length] = Nul

(* The buffer is in order: only a failed assertion leaves it without a     *)
(* terminator, and without the allocator's sizes it owns no block.         *)
Sound(b) ==
  /\ Allocated(b) /\ TextStored(b)
  /\ b.ok => Terminated(b)
  /\ ~jemalloc => b.alloc = 0

(* The same of a buffer whose length a caller may have cut: an own block   *)
(* need not hold a terminator there.                                       *)
Held(b) ==
  /\ Allocated(b) /\ TextStored(b)
  /\ b.ok /\ b.alloc = 0 => Terminated(b)
  /\ ~jemalloc => b.alloc = 0

LEMMA SoundIsHeld ==
  ASSUME NEW b, Sound(b)
  PROVE  Held(b)
PROOF
  BY DEF Sound, Held

(* What every call that edits b leaves behind.  An assertion fails only    *)
(* over a block that is not owned, a literal is left as it is, and without *)
(* the allocator's sizes no byte survives.                                 *)
Edited(b, r) ==
  /\ Sound(r)
  /\ ~jemalloc /\ r.ok => r.length = 0
  /\ jemalloc /\ r.ok /\ r.alloc = 0 => r = b
  /\ ~r.ok => r.alloc = 0 /\ (jemalloc => r.length > 0)

-----------------------------------------------------------------------------
(* Memory.                                                                 *)

(* A block is larger than what is asked of it.                             *)
LEMMA BlockSizes ==
  ASSUME jemalloc \in BOOLEAN, NEW n \in Nat
  PROVE  /\ BlockSize(REALLOC_SIZE(n)) \in Nat
         /\ BlockSize(REALLOC_SIZE(n)) > n
         /\ je_malloc_usable_size(REALLOC_SIZE(n))
              = IF jemalloc THEN BlockSize(REALLOC_SIZE(n)) ELSE 0
PROOF
<1>1. REALLOC_SIZE(n) \in Nat /\ REALLOC_SIZE(n) > n
  BY DEF REALLOC_SIZE
<1>2. \A m \in Nat : UsableSize(m) \in Nat /\ UsableSize(m) >= m
  BY DEF UsableSize
<1> QED
  BY <1>1, <1>2 DEF BlockSize, je_malloc_usable_size

LEMMA WriteInBlock ==
  ASSUME NEW n \in Nat, NEW d \in [0..n - 1 -> Cell], NEW pos \in Nat,
         NEW s \in Seq(Cell), pos + Len(s) <= n
  PROVE  /\ Write(d, pos, s) \in [0..n - 1 -> Cell]
         /\ \A i \in 0..n - 1 : Write(d, pos, s)[i] =
              IF pos <= i /\ i < pos + Len(s) THEN s[i - pos + 1] ELSE d[i]
PROOF
<1>1. Len(s) \in Nat /\ \A i \in 1..Len(s) : s[i] \in Cell
  BY LenProperties, ElementOfSeq
<1>2. DOMAIN d \cup pos..pos + Len(s) - 1 = 0..n - 1
  BY <1>1
<1>3. ASSUME NEW i \in 0..n - 1, pos <= i, i < pos + Len(s)
      PROVE  s[i - pos + 1] \in Cell
  BY <1>1, <1>3
<1> QED
  BY <1>2, <1>3 DEF Write

LEMMA MemmoveInBlock ==
  ASSUME NEW n \in Nat, NEW d \in [0..n - 1 -> Cell],
         NEW to \in Nat, NEW from \in Nat, NEW count \in Nat,
         to + count <= n, from + count <= n
  PROVE  /\ memmove(d, to, from, count) \in [0..n - 1 -> Cell]
         /\ \A i \in 0..n - 1 : memmove(d, to, from, count)[i] =
              IF to <= i /\ i < to + count THEN d[from + i - to] ELSE d[i]
PROOF
<1>1. DOMAIN d \cup to..to + count - 1 = 0..n - 1
  OBVIOUS
<1> QED
  BY <1>1 DEF memmove

LEMMA LiteralSound ==
  ASSUME NEW s \in Seq(Byte)
  PROVE  /\ Sound(BUFFER_INITSTR(s))
         /\ BUFFER_INITSTR(s).alloc = 0 /\ BUFFER_INITSTR(s).ok
         /\ BUFFER_INITSTR(s).data = Block(s)
         /\ BUFFER_INITSTR(s).length = Len(s)
         /\ Text(BUFFER_INITSTR(s)) = s
PROOF
<1>1. Len(s) \in Nat /\ \A i \in 1..Len(s) : s[i] \in Byte
  BY LenProperties, ElementOfSeq
<1>2. Block(s) \in [0..Len(s) -> Cell]
  BY <1>1, ByteAssumption DEF Block, Cell
<1>3. Block(s)[Len(s)] = Nul /\ \A i \in 0..Len(s) - 1 : Block(s)[i] = s[i + 1]
  BY <1>1 DEF Block
<1>4. Allocated(BUFFER_INITSTR(s))
  BY <1>1, <1>2 DEF Allocated, BUFFER_INITSTR
<1>5. s = [i \in 1..Len(s) |-> s[i]]
  BY LenProperties
<1>6. Text(BUFFER_INITSTR(s)) = s
  BY <1>1, <1>3, <1>5 DEF Text, BUFFER_INITSTR
<1> QED
  BY <1>1, <1>3, <1>4, <1>6 DEF Sound, TextStored, Terminated, BUFFER_INITSTR

-----------------------------------------------------------------------------
(* Growing, and setting the length.                                        *)

(* What array_grow makes of b: it keeps the text and its terminator, and   *)
(* leaves room for one of a text of len bytes.                             *)
Grown(b, len, g) ==
  /\ Allocated(g) /\ g.length = b.length /\ g.ok = b.ok
  /\ len < g.size
  /\ \A i \in 0..b.length : g.data[i] = b.data[i]
  /\ jemalloc => g.alloc > len
  /\ ~jemalloc /\ b.alloc = 0 => g.alloc = 0
  /\ len < b.alloc => g = b

LEMMA GrowKeeps ==
  ASSUME jemalloc \in BOOLEAN, NEW b, Allocated(b), NEW len \in Nat
  PROVE  Grown(b, len, array_grow(b, len))
PROOF
<1> DEFINE need == Needed(b, len)
           kept == IF b.alloc = 0 THEN b.length + 1 ELSE b.size
           size == BlockSize(REALLOC_SIZE(need))
           d == [i \in 0..size - 1 |-> IF i < kept THEN b.data[i] ELSE Junk]
<1>1. /\ b.length \in Nat /\ b.size \in Nat /\ b.length < b.size
      /\ b.alloc \in {0, b.size} /\ b.data \in [0..b.size - 1 -> Cell]
      /\ b.ok \in BOOLEAN
  BY DEF Allocated
<1>2. need \in Nat /\ need > len /\ need > b.length
  BY <1>1 DEF Needed
<1>3. CASE need <= b.alloc
  BY <1>1, <1>2, <1>3 DEF array_grow, Grown
<1>4. CASE ~(need <= b.alloc)
  <2> DEFINE usable == je_malloc_usable_size(REALLOC_SIZE(need))
             g == [b EXCEPT !.size = size, !.alloc = usable, !.data = d]
  <2>1. array_grow(b, len) = g
    BY <1>4 DEF array_grow
  <2>2. size \in Nat /\ size > need
        /\ usable = IF jemalloc THEN size ELSE 0
    BY <1>2, BlockSizes
  <2>3. kept \in Nat /\ b.length < kept /\ kept <= b.size
    BY <1>1
  <2>4. d \in [0..size - 1 -> Cell]
    BY <1>1, <2>2, <2>3 DEF Cell
  <2>5. \A i \in 0..b.length : d[i] = b.data[i]
    BY <1>1, <1>2, <2>2, <2>3
  <2>6. g = [data |-> d, length |-> b.length, alloc |-> IF jemalloc THEN size ELSE 0,
             size |-> size, ok |-> b.ok]
    <3> HIDE DEF d, size, usable
    <3>1. g = [data |-> d, length |-> b.length, alloc |-> usable, size |-> size, ok |-> b.ok]
      <4> DEFINE g1 == [b EXCEPT !.size = size]
                 g2 == [g1 EXCEPT !.alloc = usable]
      <4>1. g1 = [data |-> b.data, length |-> b.length, alloc |-> b.alloc, size |-> size,
                  ok |-> b.ok]
        BY DEF Allocated
      <4>2. g = [g2 EXCEPT !.data = d]
        OBVIOUS
      <4> HIDE DEF g1, g
      <4>3. g2 = [data |-> b.data, length |-> b.length, alloc |-> usable, size |-> size,
                  ok |-> b.ok]
        BY <4>1
      <4> HIDE DEF g2
      <4> QED
        BY <4>2, <4>3
    <3> QED
      BY <2>2, <3>1 DEF usable
  <2> HIDE DEF g, d, size, need
  <2>7. Allocated(g)
    BY <1>1, <1>2, <2>2, <2>4, <2>6 DEF Allocated
  <2>8. /\ g.length = b.length /\ g.ok = b.ok /\ len < g.size
        /\ \A i \in 0..b.length : g.data[i] = b.data[i]
        /\ jemalloc => g.alloc > len
        /\ ~jemalloc => g.alloc = 0
    BY <1>2, <2>2, <2>5, <2>6
  <2>9. ~(len < b.alloc /\ b.alloc > b.length)
    BY <1>1, <1>4 DEF Needed, need
  <2> QED
    BY <1>1, <2>1, <2>7, <2>8, <2>9 DEF Grown
<1> QED
  BY <1>3, <1>4

(* A length that is smaller than the block is set, with its terminator, if *)
(* the block is owned or the length is 0; or else the assertion fails.     *)
LEMMA SetlenSets ==
  ASSUME NEW b, Allocated(b), NEW len \in Nat, len < b.size
  PROVE  LET r == buffer_setlen(b, len)
         IN /\ Allocated(r) /\ r.alloc = b.alloc /\ r.size = b.size
            /\ IF b.alloc > 0 \/ len = 0
               THEN /\ r.ok = b.ok /\ r.length = len /\ Terminated(r)
                    /\ \A i \in 0..b.size - 1 : i # len => r.data[i] = b.data[i]
               ELSE ~r.ok /\ r.length = b.length /\ r.data = b.data
PROOF
<1> DEFINE d == Write(b.data, len, <<Nul>>)
           r == buffer_setlen(b, len)
<1>1. /\ b.length \in Nat /\ b.size \in Nat /\ b.length < b.size
      /\ b.alloc \in {0, b.size} /\ b.data \in [0..b.size - 1 -> Cell]
      /\ b.ok \in BOOLEAN
  BY DEF Allocated
<1>2. <<Nul>> \in Seq(Cell) /\ Len(<<Nul>>) = 1 /\ <<Nul>>[1] = Nul
  BY ByteAssumption DEF Cell
<1>3. d \in [0..b.size - 1 -> Cell] /\ d[len] = Nul
      /\ \A i \in 0..b.size - 1 : i # len => d[i] = b.data[i]
  <2>1. /\ d \in [0..b.size - 1 -> Cell]
        /\ \A i \in 0..b.size - 1 : d[i] =
              IF len <= i /\ i < len + 1 THEN <<Nul>>[i - len + 1] ELSE b.data[i]
    <3>1. \A s \in Seq(Cell) : len + Len(s) <= b.size =>
            /\ Write(b.data, len, s) \in [0..b.size - 1 -> Cell]
            /\ \A i \in 0..b.size - 1 : Write(b.data, len, s)[i] =
                 IF len <= i /\ i < len + Len(s) THEN s[i - len + 1] ELSE b.data[i]
      BY <1>1, WriteInBlock
    <3> QED
      BY <1>1, <1>2, <3>1
  <2>2. ASSUME NEW i \in 0..b.size - 1
        PROVE  d[i] = IF i = len THEN Nul ELSE b.data[i]
    <3>1. CASE i = len
      <4>1. i - len + 1 = 1
        BY <3>1
      <4> QED
        BY <1>1, <1>2, <2>1, <3>1, <4>1
    <3>2. CASE i # len
      BY <1>1, <2>1, <3>2
    <3> QED
      BY <3>1, <3>2
  <2> HIDE DEF d
  <2> QED
    BY <1>1, <2>1, <2>2
<1> HIDE DEF d
<1>4. CASE b.alloc > 0 \/ len = 0
  <2>1. r = [b EXCEPT !.length = len, !.data = d]
    BY <1>1, <1>4 DEF buffer_setlen, d
  <2>2. r = [data |-> d, length |-> len, alloc |-> b.alloc, size |-> b.size, ok |-> b.ok]
    BY <2>1 DEF Allocated
  <2> HIDE DEF r
  <2>3. Allocated(r)
    BY <1>1, <1>3, <2>2 DEF Allocated
  <2> QED
    BY <1>1, <1>3, <1>4, <2>2, <2>3 DEF Terminated, r
<1>5. CASE ~(b.alloc > 0 \/ len = 0)
  <2>1. r = [b EXCEPT !.ok = FALSE]
    BY <1>1, <1>5 DEF buffer_setlen
  <2>2. r = [data |-> b.data, length |-> b.length, alloc |-> b.alloc, size |-> b.size,
             ok |-> FALSE]
    BY <2>1 DEF Allocated
  <2> HIDE DEF r
  <2>3. Allocated(r)
    BY <1>1, <2>2 DEF Allocated
  <2> QED
    BY <1>5, <2>2, <2>3 DEF r
<1> QED
  BY <1>4, <1>5

-----------------------------------------------------------------------------
(* Replacing the middle of the text.                                       *)

LEMMA DataReplaced ==
  ASSUME NEW b, Allocated(b), NEW d \in [0..b.size - 1 -> Cell]
  PROVE  LET r == [b EXCEPT !.data = d]
         IN /\ Allocated(r) /\ r.data = d /\ r.length = b.length /\ r.alloc = b.alloc
            /\ r.size = b.size /\ r.ok = b.ok
PROOF
<1> DEFINE r == [b EXCEPT !.data = d]
<1>1. r = [data |-> d, length |-> b.length, alloc |-> b.alloc, size |-> b.size, ok |-> b.ok]
  BY DEF Allocated
<1> HIDE DEF r
<1>2. Allocated(r)
  BY <1>1 DEF Allocated
<1> QED
  BY <1>1, <1>2 DEF r

LEMMA BytesMoved ==
  ASSUME NEW b, Allocated(b), NEW to \in Nat, NEW from \in Nat, NEW count \in Nat,
         to + count <= b.size, from + count <= b.size
  PROVE  LET r == [b EXCEPT !.data = memmove(b.data, to, from, count)]
         IN /\ Allocated(r) /\ r.length = b.length /\ r.alloc = b.alloc
            /\ r.size = b.size /\ r.ok = b.ok
            /\ \A i \in 0..b.size - 1 : r.data[i] =
                 IF to <= i /\ i < to + count THEN b.data[from + i - to] ELSE b.data[i]
PROOF
<1> DEFINE size == b.size
           data == b.data
<1>1. size \in Nat /\ data \in [0..size - 1 -> Cell]
  BY DEF Allocated
<1>2. to + count <= size /\ from + count <= size
  OBVIOUS
<1> HIDE DEF size, data
<1>3. memmove(data, to, from, count) \in [0..size - 1 -> Cell]
  BY <1>1, <1>2, MemmoveInBlock
<1>4. \A i \in 0..size - 1 : memmove(data, to, from, count)[i] =
        IF to <= i /\ i < to + count THEN data[from + i - to] ELSE data[i]
  <2>1. DOMAIN data \cup to..to + count - 1 = 0..size - 1
    BY <1>1, <1>2
  <2> QED
    BY <2>1 DEF memmove
<1> QED
  BY <1>3, <1>4, DataReplaced DEF size, data

(* s is written over the bytes of b from pos on.                           *)
Overwritten(b, pos, s, r) ==
  /\ Allocated(r) /\ r.length = b.length /\ r.alloc = b.alloc
  /\ r.size = b.size /\ r.ok = b.ok
  /\ \A i \in 0..b.size - 1 : r.data[i] =
       IF pos <= i /\ i < pos + Len(s) THEN s[i - pos + 1] ELSE b.data[i]

LEMMA BytesWritten ==
  ASSUME NEW b, Allocated(b), NEW pos \in Nat, NEW s \in Seq(Cell), pos + Len(s) <= b.size
  PROVE  Overwritten(b, pos, s, [b EXCEPT !.data = Write(b.data, pos, s)])
PROOF
<1> DEFINE size == b.size
           data == b.data
<1>1. size \in Nat /\ data \in [0..size - 1 -> Cell]
  BY DEF Allocated
<1>2. pos + Len(s) <= size
  OBVIOUS
<1> HIDE DEF size, data
<1>3. Write(data, pos, s) \in [0..size - 1 -> Cell]
  BY <1>1, <1>2, WriteInBlock
<1>4. \A i \in 0..size - 1 : Write(data, pos, s)[i] =
        IF pos <= i /\ i < pos + Len(s) THEN s[i - pos + 1] ELSE data[i]
  BY <1>1, <1>2, WriteInBlock
<1> QED
  BY <1>3, <1>4, DataReplaced DEF size, data, Overwritten

(* The bytes in front of pos stay, those behind the room or behind the     *)
(* removed ones move by diff, and all in front of the old length are text. *)
LEMMA MovedMakesRoom ==
  ASSUME jemalloc \in BOOLEAN, NEW b, Allocated(b), TextStored(b),
         NEW pos \in 0..b.length, NEW diff \in Int, pos - diff <= b.length
  PROVE  LET m == Moved(b, pos, diff)
         IN /\ Allocated(m) /\ TextStored(m) /\ m.length = b.length /\ m.ok = b.ok
            /\ b.length + diff < m.size
            /\ \A i \in 0..pos - 1 : m.data[i] = b.data[i]
            /\ \A i \in pos..b.length + diff - 1 :
                 pos + diff <= i => m.data[i] = b.data[i - diff]
            /\ diff = 0 => m = b
            /\ jemalloc /\ diff # 0 => m.alloc > 0
            /\ ~jemalloc /\ b.alloc = 0 => m.alloc = 0
PROOF
<1> DEFINE len == b.length + diff
           m == Moved(b, pos, diff)
<1>1. /\ b.length \in Nat /\ b.size \in Nat /\ b.length < b.size
      /\ b.alloc \in {0, b.size}
  BY DEF Allocated
<1>2. /\ diff \in Int /\ len \in Nat /\ pos \in Nat
      /\ pos <= len /\ pos - diff <= b.length
      /\ len - diff = b.length /\ len = b.length + diff
  BY <1>1
<1> HIDE DEF len
<1>4. CASE diff > 0
  <2> DEFINE g == array_grow(b, len)
             to == pos + diff
             count == b.length - pos
  <2>1. /\ Allocated(g) /\ g.length = b.length /\ g.ok = b.ok
        /\ len < g.size
        /\ \A i \in 0..b.length : g.data[i] = b.data[i]
        /\ jemalloc => g.alloc > len
        /\ ~jemalloc /\ b.alloc = 0 => g.alloc = 0
    <3>1. Grown(b, len, g)
      BY <1>2, GrowKeeps
    <3> QED
      BY <3>1 DEF Grown
  <2>2. m = [g EXCEPT !.data = memmove(g.data, to, pos, count)]
    BY <1>4 DEF Moved, len
  <2> HIDE DEF g
  <2>4. g.size \in Nat /\ len < g.size /\ g.alloc \in {0, g.size}
    BY <2>1 DEF Allocated
  <2>5. /\ to \in Nat /\ pos \in Nat /\ count \in Nat
        /\ to + count <= g.size /\ pos + count <= g.size
        /\ to = pos + diff /\ to + count = len
    BY <1>1, <1>2, <1>4, <2>4
  <2>3. \A i \in Int : pos + i - to = i - diff
    BY <1>2
  <2> HIDE DEF to, count, m
  <2>6. /\ Allocated(m) /\ m.length = g.length /\ m.alloc = g.alloc
        /\ m.size = g.size /\ m.ok = g.ok
        /\ \A i \in 0..g.size - 1 : m.data[i] =
             IF to <= i /\ i < len THEN g.data[i - diff] ELSE g.data[i]
    BY <2>1, <2>2, <2>3, <2>5, BytesMoved
  <2>7. ASSUME NEW i \in 0..b.length - 1, i < to
        PROVE  m.data[i] = b.data[i]
    <3>1. i \in 0..g.size - 1 /\ ~(to <= i) /\ i \in 0..b.length
      BY <2>5, <1>1, <1>2, <1>4, <2>4, <2>7
    <3> QED
      BY <2>1, <2>6, <3>1
  <2>8. ASSUME NEW i \in Int, to <= i, i < len
        PROVE  m.data[i] = b.data[i - diff] /\ i - diff \in 0..b.length - 1
    <3>1. i \in 0..g.size - 1 /\ i - diff \in 0..b.length - 1 /\ i - diff \in 0..b.length
      BY <2>5, <1>1, <1>2, <1>4, <2>4, <2>8
    <3> QED
      BY <2>1, <2>6, <2>8, <3>1
  <2>9. \A i \in 0..pos - 1 : m.data[i] = b.data[i]
    BY <2>5, <1>1, <1>2, <1>4, <2>7
  <2>10. \A i \in pos..len - 1 : pos + diff <= i => m.data[i] = b.data[i - diff]
    <3>1. \A i \in pos..len - 1 : i \in Int /\ i < len
      BY <1>1, <1>2, <2>5
    <3> QED
      BY <1>2, <2>5, <2>8, <3>1
  <2>11. TextStored(m)
    <3> SUFFICES ASSUME NEW i \in 0..b.length - 1
                 PROVE  m.data[i] \in Byte
      BY <2>1, <2>6 DEF TextStored
    <3>1. CASE i < to
      BY <2>7, <3>1 DEF TextStored
    <3>2. CASE ~(i < to)
      <4>1. i \in Int /\ to <= i /\ i < len
        BY <2>5, <1>1, <1>2, <1>4, <3>2
      <4> QED
        BY <2>8, <4>1 DEF TextStored
    <3> QED
      BY <3>1, <3>2
  <2>12. diff # 0 /\ len < m.size /\ (jemalloc => m.alloc > 0)
    BY <1>2, <1>4, <2>1, <2>4, <2>6
  <2> QED
    BY <1>1, <1>2, <2>1, <2>6, <2>9, <2>10, <2>11, <2>12 DEF m
<1>5. CASE diff < 0
  <2> DEFINE g == buffer_editable(b)
             from == pos - diff
             count == b.length - pos + diff
  <2>1. /\ Allocated(g) /\ g.length = b.length /\ g.ok = b.ok
        /\ \A i \in 0..b.length : g.data[i] = b.data[i]
        /\ jemalloc => g.alloc > 0
        /\ ~jemalloc /\ b.alloc = 0 => g.alloc = 0
    <3>1. CASE b.alloc = 0
      <4> DEFINE h == array_grow(b, b.length)
      <4>1. /\ Allocated(h) /\ h.length = b.length /\ h.ok = b.ok
            /\ \A i \in 0..b.length : h.data[i] = b.data[i]
            /\ jemalloc => h.alloc > b.length
            /\ ~jemalloc /\ b.alloc = 0 => h.alloc = 0
        <5>1. Grown(b, b.length, h)
          BY <1>1, GrowKeeps
        <5> QED
          BY <5>1 DEF Grown
      <4>2. g = h /\ h.alloc \in Nat
        BY <3>1, <4>1 DEF buffer_editable, Allocated
      <4> HIDE DEF g, h
      <4> QED
        BY <1>1, <4>1, <4>2
    <3>2. CASE b.alloc # 0
      BY <1>1, <3>2 DEF buffer_editable
    <3> QED
      BY <3>1, <3>2
  <2>2. m = [g EXCEPT !.data = memmove(g.data, pos, from, count)]
    BY <1>5 DEF Moved
  <2> HIDE DEF g
  <2>4. g.size \in Nat /\ b.length < g.size /\ g.alloc \in {0, g.size}
    BY <2>1 DEF Allocated
  <2>5. /\ pos \in Nat /\ from \in Nat /\ count \in Nat
        /\ pos + count <= g.size /\ from + count <= g.size
        /\ pos + count = len /\ \A i \in Int : from + i - pos = i - diff
    BY <1>1, <1>2, <1>5, <2>4
  <2> HIDE DEF from, count, m
  <2>6. /\ Allocated(m) /\ m.length = g.length /\ m.alloc = g.alloc
        /\ m.size = g.size /\ m.ok = g.ok
        /\ \A i \in 0..g.size - 1 : m.data[i] =
             IF pos <= i /\ i < len THEN g.data[i - diff] ELSE g.data[i]
    BY <2>1, <2>2, <2>5, BytesMoved
  <2>7. ASSUME NEW i \in 0..b.length - 1, i < pos \/ len <= i
        PROVE  m.data[i] = b.data[i]
    <3>1. i \in 0..g.size - 1 /\ ~(pos <= i /\ i < len) /\ i \in 0..b.length
      BY <1>1, <1>2, <1>5, <2>4, <2>7
    <3> QED
      BY <2>1, <2>6, <3>1
  <2>8. ASSUME NEW i \in Int, pos <= i, i < len
        PROVE  m.data[i] = b.data[i - diff] /\ i - diff \in 0..b.length - 1
    <3>1. i \in 0..g.size - 1 /\ i - diff \in 0..b.length - 1 /\ i - diff \in 0..b.length
      BY <1>1, <1>2, <1>5, <2>4, <2>8
    <3> QED
      BY <2>1, <2>6, <2>8, <3>1
  <2>9. \A i \in 0..pos - 1 : m.data[i] = b.data[i]
    BY <1>1, <1>2, <1>5, <2>7
  <2>10. \A i \in pos..len - 1 : pos + diff <= i => m.data[i] = b.data[i - diff]
    <3>1. \A i \in pos..len - 1 : i \in Int /\ i < len
      BY <1>1, <1>2
    <3> QED
      BY <1>2, <2>5, <2>8, <3>1
  <2>11. TextStored(m)
    <3> SUFFICES ASSUME NEW i \in 0..b.length - 1
                 PROVE  m.data[i] \in Byte
      BY <2>1, <2>6 DEF TextStored
    <3>1. CASE i < pos \/ len <= i
      BY <2>7, <3>1 DEF TextStored
    <3>2. CASE ~(i < pos \/ len <= i)
      <4>1. i \in Int /\ pos <= i /\ i < len
        BY <1>1, <1>2, <3>2
      <4> QED
        BY <2>8, <4>1 DEF TextStored
    <3> QED
      BY <3>1, <3>2
  <2>12. diff # 0 /\ len < m.size
    BY <1>1, <1>2, <1>5, <2>4, <2>6
  <2> QED
    BY <1>1, <1>2, <2>1, <2>6, <2>9, <2>10, <2>11, <2>12 DEF m
<1>6. CASE diff = 0
  <2>1. m = b
    BY <1>6 DEF Moved
  <2>2. b.length + diff < b.size /\ \A i \in Int : i - diff = i
    BY <1>1, <1>6
  <2> QED
    BY <1>1, <1>6, <2>1, <2>2
<1> QED
  BY <1>2, <1>4, <1>5, <1>6

LEMMA BuffersEqual ==
  ASSUME NEW a, NEW b, Allocated(a), Allocated(b),
         a.length = b.length, a.alloc = b.alloc, a.size = b.size, a.ok = b.ok,
         \A i \in 0..b.size - 1 : a.data[i] = b.data[i]
  PROVE  a = b
PROOF
<1>1. a.data \in [0..b.size - 1 -> Cell] /\ b.data \in [0..b.size - 1 -> Cell]
  BY DEF Allocated
<1>2. a.data = b.data
  <2> DEFINE size == b.size
             d == a.data
             e == b.data
  <2>1. d \in [0..size - 1 -> Cell] /\ e \in [0..size - 1 -> Cell]
        /\ \A i \in 0..size - 1 : d[i] = e[i]
    BY <1>1
  <2> HIDE DEF size, d, e
  <2>2. d = [i \in 0..size - 1 |-> d[i]] /\ e = [i \in 0..size - 1 |-> e[i]]
    BY <2>1
  <2>3. d = e
    BY <2>1, <2>2
  <2> QED
    BY <2>3 DEF d, e
<1>3. /\ a = [data |-> a.data, length |-> a.length, alloc |-> a.alloc, size |-> a.size,
              ok |-> a.ok]
      /\ b = [data |-> b.data, length |-> b.length, alloc |-> b.alloc, size |-> b.size,
              ok |-> b.ok]
  BY DEF Allocated
<1> QED
  BY <1>2, <1>3

(* What stands in the text after n bytes from pos on have replaced rem.    *)
LEMMA SpliceEdits ==
  ASSUME jemalloc \in BOOLEAN, NEW b, Held(b), b.ok,
         NEW pos \in 0..b.length, NEW rem \in 0..b.length - pos, NEW s \in Seq(Byte)
  PROVE  LET r == buffer_splice(b, pos, rem, s)
             n == Len(s)
         IN /\ Edited(b, r)
            /\ r.ok =>
                 /\ r.length = b.length + n - rem
                 /\ \A i \in 0..pos - 1 : r.data[i] = b.data[i]
                 /\ \A i \in 1..n : r.data[pos + i - 1] = s[i]
                 /\ \A i \in pos + n..r.length - 1 : r.data[i] = b.data[i - n + rem]
            /\ r.ok <=> r.alloc > 0 \/ b.length + n - rem = 0
            /\ jemalloc /\ n # rem => r.alloc > 0
PROOF
<1> DEFINE n == Len(s)
           diff == n - rem
           len == b.length + n - rem
           m == Moved(b, pos, diff)
           w == [m EXCEPT !.data = Write(m.data, pos, s)]
           r == buffer_splice(b, pos, rem, s)
<1>1. /\ b.length \in Nat /\ b.size \in Nat /\ b.length < b.size /\ b.alloc \in {0, b.size}
      /\ n \in Nat /\ len \in Nat /\ pos \in Nat /\ rem \in Nat /\ pos + n <= len
  BY LenProperties DEF Allocated, Held
<1>2. s \in Seq(Cell) /\ \A i \in 1..n : s[i] \in Byte
  BY SeqMonotonic, ElementOfSeq DEF Cell
<1>3. /\ Allocated(b) /\ TextStored(b) /\ (b.alloc = 0 => Terminated(b))
      /\ ~jemalloc => b.alloc = 0
  BY DEF Held
<1>4. r = buffer_setlen(w, len)
  BY DEF buffer_splice
<1> HIDE DEF n
<1>5. /\ Allocated(m) /\ TextStored(m) /\ m.length = b.length /\ m.ok = b.ok
      /\ len < m.size
      /\ \A i \in 0..pos - 1 : m.data[i] = b.data[i]
      /\ \A i \in pos + n..len - 1 : m.data[i] = b.data[i - n + rem]
      /\ n = rem => m = b
      /\ jemalloc /\ n # rem => m.alloc > 0
      /\ ~jemalloc /\ b.alloc = 0 => m.alloc = 0
  <2>1. /\ diff \in Int /\ pos - diff <= b.length /\ b.length + diff = len
        /\ \A i \in Int : i - n + rem = i - diff
        /\ pos + diff <= pos + n /\ pos + n \in Int /\ pos <= pos + n
        /\ diff = 0 <=> n = rem
    BY <1>1
  <2> HIDE DEF diff, len
  <2>2. /\ Allocated(m) /\ TextStored(m) /\ m.length = b.length /\ m.ok = b.ok
        /\ len < m.size
        /\ \A i \in 0..pos - 1 : m.data[i] = b.data[i]
        /\ \A i \in pos..len - 1 : pos + diff <= i => m.data[i] = b.data[i - diff]
        /\ diff = 0 => m = b
        /\ jemalloc /\ diff # 0 => m.alloc > 0
        /\ ~jemalloc /\ b.alloc = 0 => m.alloc = 0
    <3>1. /\ Allocated(m) /\ TextStored(m) /\ m.length = b.length /\ m.ok = b.ok
          /\ b.length + diff < m.size
          /\ \A i \in 0..pos - 1 : m.data[i] = b.data[i]
          /\ \A i \in pos..b.length + diff - 1 :
               pos + diff <= i => m.data[i] = b.data[i - diff]
          /\ diff = 0 => m = b
          /\ jemalloc /\ diff # 0 => m.alloc > 0
          /\ ~jemalloc /\ b.alloc = 0 => m.alloc = 0
      BY <1>3, <2>1, MovedMakesRoom
    <3> QED
      BY <1>1, <2>1, <3>1
  <2>3. \A i \in pos + n..len - 1 : i \in pos..len - 1 /\ pos + diff <= i /\ i \in Int
    BY <1>1, <2>1
  <2> QED
    BY <1>1, <2>1, <2>2, <2>3
<1> HIDE DEF m, len
<1>6. m.size \in Nat /\ m.alloc \in {0, m.size} /\ len < m.size /\ b.length < m.size
  BY <1>5 DEF Allocated
<1>7. /\ Allocated(w) /\ w.length = m.length /\ w.alloc = m.alloc
      /\ w.size = m.size /\ w.ok = m.ok
      /\ \A i \in 0..m.size - 1 : w.data[i] =
           IF pos <= i /\ i < pos + n THEN s[i - pos + 1] ELSE m.data[i]
  <2>1. pos + Len(s) <= m.size
    BY <1>1, <1>6 DEF n
  <2>2. Allocated(m) /\ pos \in Nat /\ s \in Seq(Cell)
    BY <1>1, <1>2, <1>5
  <2>3. Overwritten(m, pos, s, w)
    BY <2>1, <2>2, BytesWritten
  <2> QED
    BY <2>3 DEF n, Overwritten
<1> HIDE DEF w, r
<1>8. /\ Allocated(r) /\ r.alloc = w.alloc /\ r.size = w.size
      /\ IF w.alloc > 0 \/ len = 0
         THEN /\ r.ok = w.ok /\ r.length = len /\ Terminated(r)
              /\ \A i \in 0..w.size - 1 : i # len => r.data[i] = w.data[i]
         ELSE ~r.ok /\ r.length = w.length /\ r.data = w.data
  BY <1>1, <1>4, <1>6, <1>7, SetlenSets
<1>9. r.ok <=> w.alloc > 0 \/ len = 0
  BY <1>5, <1>7, <1>8
<1>10. ASSUME NEW i \in 0..m.size - 1, ~r.ok \/ i < len
       PROVE  r.data[i] = IF pos <= i /\ i < pos + n THEN s[i - pos + 1] ELSE m.data[i]
  <2>1. w.data[i] = IF pos <= i /\ i < pos + n THEN s[i - pos + 1] ELSE m.data[i]
    BY <1>7
  <2>2. CASE r.ok
    <3>1. i # len /\ i \in 0..w.size - 1
      BY <1>1, <1>7, <1>10, <2>2
    <3>2. r.data[i] = w.data[i]
      BY <1>8, <1>9, <2>2, <3>1
    <3> QED
      BY <2>1, <3>2
  <2>3. CASE ~r.ok
    <3>1. r.data = w.data
      BY <1>8, <1>9, <2>3
    <3> QED
      BY <2>1, <3>1
  <2> QED
    BY <2>2, <2>3
<1>11. ASSUME NEW i \in 0..pos - 1, r.ok
       PROVE  r.data[i] = b.data[i]
  <2>1. i \in 0..m.size - 1 /\ i < len /\ ~(pos <= i)
    BY <1>1, <1>6
  <2> QED
    BY <1>5, <1>10, <2>1
<1>12. ASSUME NEW i \in 1..n, r.ok
       PROVE  r.data[pos + i - 1] = s[i]
  <2> DEFINE j == pos + i - 1
  <2>1. j \in 0..m.size - 1 /\ j < len /\ pos <= j /\ j < pos + n /\ j - pos + 1 = i
    BY <1>1, <1>6
  <2> HIDE DEF j
  <2>2. r.data[j] = s[j - pos + 1]
    BY <1>10, <1>12, <2>1
  <2> QED
    BY <2>1, <2>2 DEF j
<1>13. ASSUME NEW i \in pos + n..len - 1, r.ok
       PROVE  r.data[i] = b.data[i - n + rem]
  <2>1. i \in 0..m.size - 1 /\ i < len /\ ~(i < pos + n)
    BY <1>1, <1>6
  <2> QED
    BY <1>5, <1>10, <1>13, <2>1
<1>14. TextStored(r)
  <2>1. ASSUME NEW i \in 0..m.size - 1, ~r.ok \/ i < len, m.data[i] \in Byte
        PROVE  r.data[i] \in Byte
    <3>1. pos <= i /\ i < pos + n => i - pos + 1 \in 1..n
      BY <1>1
    <3> QED
      BY <1>2, <1>10, <2>1, <3>1
  <2>2. CASE r.ok
    <3> SUFFICES ASSUME NEW i \in 0..len - 1
                 PROVE  r.data[i] \in Byte
      BY <1>8, <1>9, <2>2 DEF TextStored
    <3>1. CASE i < pos
      <4>1. i \in 0..pos - 1 /\ i \in 0..b.length - 1
        BY <1>1, <3>1
      <4> QED
        BY <1>3, <1>11, <2>2, <4>1 DEF TextStored
    <3>2. CASE pos <= i /\ i < pos + n
      <4>1. i \in 0..m.size - 1 /\ i < len /\ i - pos + 1 \in 1..n
        BY <1>1, <1>6, <3>2
      <4> QED
        BY <1>2, <1>10, <3>2, <4>1
    <3>3. CASE pos + n <= i
      <4>1. i \in pos + n..len - 1 /\ i - n + rem \in 0..b.length - 1
        BY SMTT(30), <1>1, <3>3 DEF len
      <4> QED
        BY <1>3, <1>13, <2>2, <4>1 DEF TextStored
    <3> QED
      BY <1>1, <3>1, <3>2, <3>3
  <2>3. CASE ~r.ok
    <3> SUFFICES ASSUME NEW i \in 0..b.length - 1
                 PROVE  r.data[i] \in Byte
      BY <1>5, <1>7, <1>8, <1>9, <2>3 DEF TextStored
    <3>1. i \in 0..m.size - 1
      BY <1>1, <1>6
    <3>2. m.data[i] \in Byte
      BY <1>5 DEF TextStored
    <3> QED
      BY <2>1, <2>3, <3>1, <3>2
  <2> QED
    BY <2>2, <2>3
<1>15. Sound(r)
  BY <1>3, <1>5, <1>7, <1>8, <1>9, <1>14 DEF Sound
<1>16. ASSUME jemalloc, r.ok, r.alloc = 0
       PROVE  r = b
  <2>1. m = b /\ n = rem /\ len = 0
    BY <1>5, <1>7, <1>8, <1>9, <1>16
  <2>2. Terminated(b)
    BY <1>3, <1>7, <1>8, <1>16, <2>1
  <2>3. b.length = 0 /\ n = 0 /\ pos = 0
    BY <1>1, <2>1 DEF len
  <2>4. ASSUME NEW i \in 0..b.size - 1
        PROVE  r.data[i] = b.data[i]
    <3>1. CASE i = 0
      BY <1>8, <1>9, <1>16, <2>1, <2>3, <2>2, <3>1 DEF Terminated
    <3>2. CASE i # 0
      <4>1. i # len /\ i \in 0..w.size - 1 /\ ~(i < pos + n) /\ i \in 0..m.size - 1
        BY <1>7, <2>1, <2>3, <3>2
      <4>2. r.data[i] = w.data[i]
        BY <1>8, <1>9, <1>16, <4>1
      <4> QED
        BY <1>7, <2>1, <4>1, <4>2
    <3> QED
      BY <3>1, <3>2
  <2>5. r.length = b.length /\ r.alloc = b.alloc /\ r.size = b.size /\ r.ok = b.ok
    BY <1>5, <1>7, <1>8, <1>9, <1>16, <2>1, <2>3
  <2> QED
    BY <1>3, <1>8, <2>4, <2>5, BuffersEqual
<1>17. ASSUME ~r.ok
       PROVE  r.alloc = 0 /\ (jemalloc => r.length > 0)
  <2>1. r.alloc = 0 /\ len # 0
    BY <1>6, <1>7, <1>8, <1>9, <1>17
  <2>2. CASE jemalloc
    <3>1. n = rem /\ r.length = b.length
      BY <1>5, <1>7, <1>8, <1>9, <1>17, <2>1, <2>2
    <3> QED
      BY <1>1, <2>1, <3>1 DEF len
  <2> QED
    BY <2>1, <2>2
<1>18. ~jemalloc /\ r.ok => r.length = 0
  BY <1>3, <1>5, <1>7, <1>8, <1>9
<1>19. Edited(b, r)
  BY <1>15, <1>16, <1>17, <1>18 DEF Edited
<1> QED
  BY <1>1, <1>5, <1>7, <1>8, <1>9, <1>11, <1>12, <1>13, <1>19 DEF n, len, r

LEMMA TextIsSeq ==
  ASSUME NEW b, Allocated(b), TextStored(b)
  PROVE  /\ Text(b) \in Seq(Byte) /\ Len(Text(b)) = b.length /\ b.length \in Nat
         /\ \A i \in 1..b.length : Text(b)[i] = b.data[i - 1]
PROOF
<1>1. b.length \in Nat
  BY DEF Allocated
<1>2. ASSUME NEW i \in 1..b.length
      PROVE  b.data[i - 1] \in Byte
  <2>1. i - 1 \in 0..b.length - 1
    BY <1>1
  <2> QED
    BY <2>1 DEF TextStored
<1> QED
  BY <1>1, <1>2 DEF Text

(* Splicing does to the text what its name says.                           *)
LEMMA SpliceText ==
  ASSUME jemalloc \in BOOLEAN, NEW b, Sound(b), b.ok,
         NEW pos \in 0..b.length, NEW rem \in 0..b.length - pos, NEW s \in Seq(Byte),
         buffer_splice(b, pos, rem, s).ok
  PROVE  Text(buffer_splice(b, pos, rem, s)) =
           SubSeq(Text(b), 1, pos) \o s \o SubSeq(Text(b), pos + rem + 1, Len(Text(b)))
PROOF
<1> DEFINE r == buffer_splice(b, pos, rem, s)
           n == Len(s)
           t == Text(b)
           front == SubSeq(t, 1, pos)
           back == SubSeq(t, pos + rem + 1, Len(t))
<1>1. /\ t \in Seq(Byte) /\ Len(t) = b.length /\ b.length \in Nat
      /\ \A i \in 1..b.length : t[i] = b.data[i - 1]
  BY TextIsSeq DEF Sound
<1>2. n \in Nat /\ \A i \in 1..n : s[i] \in Byte
  BY LenProperties, ElementOfSeq
<1>3. /\ Allocated(r) /\ TextStored(r)
      /\ r.length = b.length + n - rem
      /\ \A i \in 0..pos - 1 : r.data[i] = b.data[i]
      /\ \A i \in 1..n : r.data[pos + i - 1] = s[i]
      /\ \A i \in pos + n..r.length - 1 : r.data[i] = b.data[i - n + rem]
  BY SpliceEdits, SoundIsHeld DEF Edited, Sound
<1> HIDE DEF r, t
<1>4. /\ Text(r) \in Seq(Byte) /\ Len(Text(r)) = r.length
      /\ \A i \in 1..r.length : Text(r)[i] = r.data[i - 1]
  BY <1>3, TextIsSeq
<1>5. /\ front \in Seq(Byte) /\ Len(front) = pos
      /\ \A i \in 1..pos : front[i] = t[i]
  BY <1>1, SubSeqProperties
<1>6. /\ back \in Seq(Byte) /\ Len(back) = b.length - pos - rem
      /\ \A i \in 1..b.length - pos - rem : back[i] = t[pos + rem + i]
  BY <1>1, SubSeqProperties
<1> HIDE DEF front, back, n
<1>7. /\ n \in Nat /\ pos \in Nat /\ rem \in Nat /\ b.length \in Nat
       /\ r.length = b.length + n - rem /\ pos + rem <= b.length
  BY <1>1, <1>2, <1>3
<1>8. /\ front \o s \in Seq(Byte) /\ Len(front \o s) = pos + n
      /\ \A i \in 1..pos + n : (front \o s)[i] = IF i <= pos THEN front[i] ELSE s[i - pos]
  BY <1>2, <1>5, ConcatProperties DEF n
<1>9. /\ front \o s \o back \in Seq(Byte) /\ Len(front \o s \o back) = r.length
      /\ \A i \in 1..r.length : (front \o s \o back)[i] =
           IF i <= pos + n THEN (front \o s)[i] ELSE back[i - (pos + n)]
  <2>1. Len(front \o s) + Len(back) = r.length
    BY SMTT(30), <1>3, <1>6, <1>8, <1>7
  <2>2. /\ (front \o s) \o back \in Seq(Byte)
        /\ Len((front \o s) \o back) = Len(front \o s) + Len(back)
        /\ \A i \in 1..Len(front \o s) + Len(back) : ((front \o s) \o back)[i] =
             IF i <= Len(front \o s) THEN (front \o s)[i] ELSE back[i - Len(front \o s)]
    BY <1>6, <1>8, ConcatProperties
  <2> QED
    BY <1>8, <2>1, <2>2
<1>10. ASSUME NEW i \in 1..r.length
      PROVE  Text(r)[i] = (front \o s \o back)[i]
  <2>1. CASE i <= pos
    <3>1. /\ i \in 1..pos /\ i - 1 \in 0..pos - 1 /\ i \in 1..pos + n /\ i <= pos + n
          /\ i \in 1..b.length
      BY <1>7, <2>1
    <3>2. Text(r)[i] = b.data[i - 1]
      BY <1>3, <1>4, <3>1
    <3>3. (front \o s \o back)[i] = (front \o s)[i]
      BY <1>9, <3>1
    <3>4. (front \o s)[i] = t[i]
      BY <1>5, <1>8, <2>1, <3>1
    <3> QED
      BY <1>1, <3>1, <3>2, <3>3, <3>4
  <2>2. CASE pos < i /\ i <= pos + n
    <3>1. i - pos \in 1..n /\ pos + (i - pos) - 1 = i - 1 /\ i \in 1..pos + n /\ ~(i <= pos)
      BY <1>7, <2>2
    <3>2. r.data[i - 1] = s[i - pos]
      BY <1>3, <3>1
    <3> QED
      BY <1>4, <1>8, <1>9, <2>2, <3>1, <3>2
  <2>3. CASE pos + n < i
    <3> DEFINE k == i - (pos + n)
    <3>1. /\ i - 1 \in pos + n..r.length - 1 /\ k \in 1..b.length - pos - rem
          /\ pos + rem + k \in 1..b.length /\ pos + rem + k - 1 = (i - 1) - n + rem
          /\ ~(i <= pos + n)
      BY <1>7, <2>3
    <3> HIDE DEF k
    <3>2. r.data[i - 1] = b.data[(i - 1) - n + rem]
      BY <1>3, <3>1
    <3>3. back[k] = b.data[pos + rem + k - 1]
      <4>1. back[k] = t[pos + rem + k]
        BY <1>6, <3>1
      <4>2. \A j \in 1..b.length : t[j] = b.data[j - 1]
        BY <1>1
      <4> DEFINE j == pos + rem + k
      <4>3. j \in 1..b.length
        BY <3>1
      <4>4. j = pos + rem + k /\ j - 1 = pos + rem + k - 1
        <5>1. pos \in Int /\ rem \in Int /\ k \in Int
          BY <1>7, <3>1
        <5> QED
          BY <5>1
      <4> HIDE DEF j
      <4>5. t[j] = b.data[j - 1]
        BY <4>2, <4>3
      <4> QED
        BY <4>1, <4>4, <4>5
    <3>4. (front \o s \o back)[i] = back[k]
      BY <1>9, <3>1 DEF k
    <3> QED
      BY <1>4, <3>1, <3>2, <3>3, <3>4
  <2>4. i <= pos \/ (pos < i /\ i <= pos + n) \/ pos + n < i
    BY <1>7
  <2> QED
    BY <2>1, <2>2, <2>3, <2>4
<1>11. Text(r) = front \o s \o back
  BY <1>4, <1>9, <1>10, SeqEqual
<1> QED
  BY <1>11 DEF r, front, back, t

-----------------------------------------------------------------------------
(* Storing and printing a text.                                            *)

(* What is left of the block g when s is written at pos and the length is  *)
(* set to len.                                                             *)
Stored(g, pos, s, len, r) ==
  /\ Allocated(r) /\ r.alloc = g.alloc /\ r.size = g.size
  /\ IF g.alloc > 0 \/ len = 0
     THEN r.ok = g.ok /\ r.length = len /\ Terminated(r)
     ELSE ~r.ok /\ r.length = g.length
  /\ \A i \in 0..g.size - 1 :
       (i = len => ~(g.alloc > 0 \/ len = 0)) =>
         r.data[i] = IF pos <= i /\ i < pos + Len(s) THEN s[i - pos + 1] ELSE g.data[i]

LEMMA WrittenAndSet ==
  ASSUME NEW g, Allocated(g), NEW pos \in Nat, NEW s \in Seq(Cell), pos + Len(s) <= g.size,
         NEW len \in Nat, len < g.size
  PROVE  Stored(g, pos, s, len,
                buffer_setlen([g EXCEPT !.data = Write(g.data, pos, s)], len))
PROOF
<1> DEFINE w == [g EXCEPT !.data = Write(g.data, pos, s)]
           r == buffer_setlen(w, len)
<1>1. /\ Allocated(w) /\ w.length = g.length /\ w.alloc = g.alloc
      /\ w.size = g.size /\ w.ok = g.ok
      /\ \A i \in 0..g.size - 1 : w.data[i] =
           IF pos <= i /\ i < pos + Len(s) THEN s[i - pos + 1] ELSE g.data[i]
  <2>1. Overwritten(g, pos, s, w)
    BY BytesWritten
  <2> QED
    BY <2>1 DEF Overwritten
<1> HIDE DEF w
<1>2. len < w.size
  BY <1>1
<1>3. /\ Allocated(r) /\ r.alloc = w.alloc /\ r.size = w.size
      /\ IF w.alloc > 0 \/ len = 0
         THEN /\ r.ok = w.ok /\ r.length = len /\ Terminated(r)
              /\ \A i \in 0..w.size - 1 : i # len => r.data[i] = w.data[i]
         ELSE ~r.ok /\ r.length = w.length /\ r.data = w.data
  BY <1>1, <1>2, SetlenSets
<1> HIDE DEF r
<1>4. ASSUME NEW i \in 0..g.size - 1, i = len => ~(g.alloc > 0 \/ len = 0)
      PROVE  r.data[i] = w.data[i]
  <2>1. CASE g.alloc > 0 \/ len = 0
    BY <1>1, <1>3, <1>4, <2>1
  <2>2. CASE ~(g.alloc > 0 \/ len = 0)
    BY <1>1, <1>3, <2>2
  <2> QED
    BY <2>1, <2>2
<1> QED
  BY <1>1, <1>3, <1>4 DEF r, w, Stored

(* A text that begins in front of the old end is stored from pos on, in a  *)
(* block grown to hold it.                                                 *)
StoredText(b, n, pos, s, len, r) ==
  /\ Edited(b, r)
  /\ r.ok => /\ r.length = len
             /\ \A i \in 0..len - 1 :
                  r.data[i] = IF pos <= i THEN s[i - pos + 1] ELSE b.data[i]
  /\ jemalloc => r.ok /\ r.alloc > n

LEMMA StoreEdits ==
  ASSUME jemalloc \in BOOLEAN, NEW b, Held(b), b.ok,
         NEW n \in Nat, NEW pos \in 0..b.length, NEW s \in Seq(Byte), NEW len \in Nat,
         len <= n, pos + Len(s) <= n + 1, len <= pos + Len(s)
  PROVE  LET g == array_grow(b, n)
         IN StoredText(b, n, pos, s, len,
                       buffer_setlen([g EXCEPT !.data = Write(g.data, pos, s)], len))
PROOF
<1> DEFINE g == array_grow(b, n)
           r == buffer_setlen([g EXCEPT !.data = Write(g.data, pos, s)], len)
<1>1. /\ Allocated(b) /\ TextStored(b) /\ (~jemalloc => b.alloc = 0)
      /\ b.ok = TRUE
  BY DEF Held, Allocated
<1>2. /\ b.length \in Nat /\ pos \in Nat /\ Len(s) \in Nat
  BY <1>1, LenProperties DEF Allocated
<1>3. s \in Seq(Cell) /\ \A i \in 1..Len(s) : s[i] \in Byte
  BY SeqMonotonic, ElementOfSeq DEF Cell
<1>4. /\ Allocated(g) /\ g.length = b.length /\ g.ok = b.ok
      /\ n < g.size
      /\ \A i \in 0..b.length : g.data[i] = b.data[i]
      /\ jemalloc => g.alloc > n
      /\ ~jemalloc => g.alloc = 0
  <2>1. Grown(b, n, g)
    BY <1>1, GrowKeeps
  <2> QED
    BY <1>1, <2>1 DEF Grown
<1> HIDE DEF g
<1>5. g.size \in Nat /\ g.alloc \in {0, g.size} /\ b.length < g.size
  BY <1>4 DEF Allocated
<1>6. pos + Len(s) <= g.size /\ len < g.size
  BY <1>2, <1>4, <1>5
<1>7. /\ Allocated(r) /\ r.alloc = g.alloc /\ r.size = g.size
      /\ IF g.alloc > 0 \/ len = 0
         THEN r.ok = g.ok /\ r.length = len /\ Terminated(r)
         ELSE ~r.ok /\ r.length = g.length
      /\ \A i \in 0..g.size - 1 :
           (i = len => ~(g.alloc > 0 \/ len = 0)) =>
             r.data[i] = IF pos <= i /\ i < pos + Len(s) THEN s[i - pos + 1] ELSE g.data[i]
  <2>1. Stored(g, pos, s, len, r)
    BY <1>2, <1>3, <1>4, <1>6, WrittenAndSet
  <2> QED
    BY <2>1 DEF Stored
<1> HIDE DEF r
<1>8. r.ok <=> (g.alloc > 0 \/ len = 0)
  BY <1>1, <1>4, <1>7
<1>9. ASSUME NEW i \in 0..g.size - 1, ~r.ok \/ i # len, i < b.length \/ i < len
      PROVE  /\ r.data[i] = IF pos <= i /\ i < pos + Len(s) THEN s[i - pos + 1] ELSE b.data[i]
             /\ r.data[i] \in Byte
  <2>1. r.data[i] = IF pos <= i /\ i < pos + Len(s) THEN s[i - pos + 1] ELSE g.data[i]
    BY <1>7, <1>8, <1>9
  <2>2. CASE pos <= i /\ i < pos + Len(s)
    <3>1. i - pos + 1 \in 1..Len(s)
      BY <1>2, <2>2
    <3> QED
      BY <1>3, <2>1, <2>2, <3>1
  <2>3. CASE ~(pos <= i /\ i < pos + Len(s))
    <3>1. i \in 0..b.length - 1 /\ i \in 0..b.length
      BY <1>2, <1>9, <2>3
    <3>2. b.data[i] \in Byte
      BY <1>1, <3>1 DEF TextStored
    <3> QED
      BY <1>4, <2>1, <2>3, <3>1, <3>2
  <2> QED
    BY <2>2, <2>3
<1>10. ASSUME r.ok, NEW i \in 0..len - 1
       PROVE  /\ r.data[i] = IF pos <= i THEN s[i - pos + 1] ELSE b.data[i]
              /\ r.data[i] \in Byte
  <2>1. i \in 0..g.size - 1 /\ i # len /\ i < len /\ i < pos + Len(s)
    BY <1>2, <1>5, <1>6
  <2> QED
    BY <1>9, <2>1
<1>11. TextStored(r)
  <2>1. CASE r.ok
    BY <1>7, <1>8, <1>10, <2>1 DEF TextStored
  <2>2. CASE ~r.ok
    <3>1. r.length = b.length
      BY <1>4, <1>7, <1>8, <2>2
    <3>2. \A i \in 0..b.length - 1 : i \in 0..g.size - 1 /\ i < b.length
      BY <1>2, <1>5
    <3> QED
      BY <1>9, <2>2, <3>1, <3>2 DEF TextStored
  <2> QED
    BY <2>1, <2>2
<1>12. Sound(r)
  BY <1>4, <1>7, <1>8, <1>11 DEF Sound
<1>13. jemalloc => r.ok /\ r.alloc > n
  BY <1>4, <1>5, <1>7, <1>8
<1>14. ~jemalloc /\ r.ok => r.length = 0
  <2>1. ~jemalloc => g.alloc = 0
    BY <1>4
  <2>2. r.ok => r.length = len /\ (g.alloc > 0 \/ len = 0)
    BY <1>7, <1>8
  <2> QED
    BY <2>1, <2>2
<1>15. ~r.ok => r.alloc = 0 /\ ~jemalloc
  BY <1>4, <1>5, <1>7, <1>8, <1>13
<1>16. jemalloc => r.alloc # 0
  BY <1>13
<1>17. Edited(b, r)
  BY <1>12, <1>14, <1>15, <1>16 DEF Edited
<1> QED
  BY <1>7, <1>8, <1>10, <1>13, <1>17 DEF r, g, StoredText

LEMMA StrEdits ==
  ASSUME jemalloc \in BOOLEAN, NEW b, Sound(b), b.ok, NEW s \in Seq(Byte)
  PROVE  /\ Edited(b, buffer_str(b, s))
         /\ buffer_str(b, s).ok => Text(buffer_str(b, s)) = s
PROOF
<1> DEFINE n == Len(s)
           r == buffer_str(b, s)
<1>1. b.length \in Nat /\ n \in Nat /\ \A i \in 1..n : s[i] \in Byte
  BY LenProperties, ElementOfSeq DEF Sound, Allocated
<1>2. StoredText(b, n, 0, s, n, r)
  <2>1. 0 \in 0..b.length /\ n <= n /\ 0 + Len(s) <= n + 1 /\ n <= 0 + Len(s)
    BY <1>1
  <2> QED
    BY <1>1, <2>1, StoreEdits, SoundIsHeld DEF buffer_str
<1>3. ASSUME r.ok
      PROVE  Text(r) = s
  <2> HIDE DEF r
  <2>1. /\ Text(r) \in Seq(Byte) /\ Len(Text(r)) = r.length
        /\ \A i \in 1..r.length : Text(r)[i] = r.data[i - 1]
    BY <1>2, TextIsSeq DEF StoredText, Edited, Sound
  <2>2. r.length = n
    BY <1>2, <1>3 DEF StoredText
  <2>3. ASSUME NEW i \in 1..n
        PROVE  Text(r)[i] = s[i]
    <3>1. i - 1 \in 0..n - 1 /\ 0 <= i - 1 /\ (i - 1) - 0 + 1 = i
      BY <1>1
    <3>2. r.data[i - 1] = s[(i - 1) - 0 + 1]
      BY <1>2, <1>3, <3>1 DEF StoredText
    <3> QED
      BY <2>1, <2>2, <3>1, <3>2
  <2> QED
    BY <2>1, <2>2, <2>3, SeqEqual
<1> QED
  BY <1>2, <1>3 DEF StoredText

LEMMA CEdits ==
  ASSUME jemalloc \in BOOLEAN, NEW b, Sound(b), b.ok, NEW c \in Byte
  PROVE  /\ Edited(b, buffer_c(b, c))
         /\ buffer_c(b, c).ok => Text(buffer_c(b, c)) = <<c>>
PROOF
<1> DEFINE s == <<c, Nul>>
           r == buffer_c(b, c)
<1>1. /\ s \in Seq(Byte) /\ Len(s) = 2 /\ s[1] = c
      /\ <<c>> \in Seq(Byte) /\ Len(<<c>>) = 1 /\ <<c>>[1] = c
  BY ByteAssumption
<1>2. b.length \in Nat
  BY DEF Sound, Allocated
<1>3. StoredText(b, 1, 0, s, 1, r)
  <2> HIDE DEF s
  <2>1. 0 \in 0..b.length /\ 1 \in Nat /\ 1 <= 1 /\ 0 + Len(s) <= 1 + 1 /\ 1 <= 0 + Len(s)
    BY <1>1, <1>2
  <2> QED
    BY <1>1, <2>1, StoreEdits, SoundIsHeld DEF buffer_c, s
<1>4. ASSUME r.ok
      PROVE  Text(r) = <<c>>
  <2> HIDE DEF r, s
  <2>1. /\ Text(r) \in Seq(Byte) /\ Len(Text(r)) = r.length
        /\ \A i \in 1..r.length : Text(r)[i] = r.data[i - 1]
    BY <1>3, TextIsSeq DEF StoredText, Edited, Sound
  <2>2. r.length = 1 /\ r.data[0] = s[0 - 0 + 1]
    BY <1>3, <1>4 DEF StoredText
  <2>3. Text(r)[1] = c
    <3>1. Text(r)[1] = r.data[1 - 1]
      BY <2>1, <2>2
    <3> QED
      BY <1>1, <2>2, <3>1
  <2>4. \A i \in 1..Len(Text(r)) : Text(r)[i] = <<c>>[i]
    BY <1>1, <2>1, <2>2, <2>3
  <2> QED
    BY <1>1, <2>1, <2>2, <2>4, SeqEqual
<1> QED
  BY <1>3, <1>4 DEF StoredText

(* Appending one byte is splicing it in at the end.                        *)
LEMMA AppendcEdits ==
  ASSUME jemalloc \in BOOLEAN, NEW b, Held(b), b.ok, NEW c \in Byte
  PROVE  /\ Edited(b, buffer_appendc(b, c))
         /\ buffer_appendc(b, c).ok => Text(buffer_appendc(b, c)) = Append(Text(b), c)
         /\ jemalloc => buffer_appendc(b, c).ok
         /\ jemalloc => buffer_appendc(b, c).alloc > b.length + 1
PROOF
<1> DEFINE s == <<c>>
           len == b.length + 1
           r == buffer_appendc(b, c)
<1>1. s \in Seq(Byte) /\ Len(s) = 1 /\ s[1] = c
  OBVIOUS
<1>2. /\ b.length \in Nat /\ len \in Nat
      /\ Text(b) \in Seq(Byte) /\ Len(Text(b)) = b.length
      /\ \A i \in 1..b.length : Text(b)[i] = b.data[i - 1]
  BY TextIsSeq DEF Held
<1>3. StoredText(b, len, b.length, s, len, r)
  <2> HIDE DEF s
  <2>1. /\ b.length \in 0..b.length /\ len <= len /\ b.length + Len(s) <= len + 1
        /\ len <= b.length + Len(s)
    BY <1>1, <1>2
  <2> QED
    BY <1>1, <1>2, <2>1, StoreEdits DEF buffer_appendc, s
<1>4. ASSUME r.ok
      PROVE  Text(r) = Append(Text(b), c)
  <2> HIDE DEF r, s
  <2>1. /\ Text(r) \in Seq(Byte) /\ Len(Text(r)) = r.length
        /\ \A i \in 1..r.length : Text(r)[i] = r.data[i - 1]
    BY <1>3, TextIsSeq DEF StoredText, Edited, Sound
  <2>2. /\ r.length = len
        /\ \A i \in 0..len - 1 :
             r.data[i] = IF b.length <= i THEN s[i - b.length + 1] ELSE b.data[i]
    BY <1>3, <1>4 DEF StoredText
  <2>3. /\ Append(Text(b), c) \in Seq(Byte) /\ Len(Append(Text(b), c)) = len
        /\ \A i \in 1..b.length : Append(Text(b), c)[i] = Text(b)[i]
        /\ Append(Text(b), c)[len] = c
    BY <1>2, AppendProperties
  <2>4. ASSUME NEW i \in 1..len
        PROVE  Text(r)[i] = Append(Text(b), c)[i]
    <3>1. i - 1 \in 0..len - 1 /\ i \in 1..r.length
      BY <1>2, <2>2
    <3>2. Text(r)[i] = r.data[i - 1]
      BY <2>1, <3>1
    <3>3. CASE i = len
      <4>1. b.length <= i - 1 /\ (i - 1) - b.length + 1 = 1
        BY <1>2, <3>3
      <4>2. r.data[i - 1] = s[(i - 1) - b.length + 1]
        BY <2>2, <3>1, <4>1
      <4> QED
        BY <1>1, <2>3, <3>2, <3>3, <4>1, <4>2
    <3>4. CASE i # len
      <4>1. ~(b.length <= i - 1) /\ i \in 1..b.length
        BY <1>2, <3>4
      <4> QED
        BY <1>2, <2>2, <2>3, <3>1, <3>2, <4>1
    <3> QED
      BY <3>3, <3>4
  <2>5. /\ Len(Text(r)) = Len(Append(Text(b), c))
        /\ \A i \in 1..Len(Text(r)) : Text(r)[i] = Append(Text(b), c)[i]
    BY <2>1, <2>2, <2>3, <2>4
  <2> QED
    BY <2>1, <2>3, <2>5, SeqEqual
<1> QED
  BY <1>3, <1>4 DEF StoredText

(* vsnprintf prints all of s, with its terminator, if the block has room.  *)
Printed(b, s, r) ==
  /\ Allocated(r) /\ r.length = b.length /\ r.alloc = b.alloc
  /\ r.size = b.size /\ r.ok = b.ok
  /\ b.alloc = 0 => r = b
  /\ Len(s) < b.alloc => \A i \in 1..Len(s) : r.data[i - 1] = s[i]

LEMMA VsnprintfPrints ==
  ASSUME NEW b, Allocated(b), NEW s \in Seq(Byte)
  PROVE  Printed(b, s, vsnprintf(b, s))
PROOF
<1> DEFINE n == IF Len(s) < b.alloc THEN Len(s) ELSE b.alloc - 1
           t == Append(SubSeq(s, 1, n), Nul)
           r == [b EXCEPT !.data = Write(b.data, 0, t)]
<1>1. CASE b.alloc = 0
  <2>1. vsnprintf(b, s) = b /\ ~(Len(s) < b.alloc)
    BY <1>1, LenProperties DEF vsnprintf
  <2> QED
    BY <2>1 DEF Printed
<1>2. CASE b.alloc # 0
  <2>1. b.size \in Nat /\ b.alloc = b.size /\ b.alloc > 0
    BY <1>2 DEF Allocated
  <2>2. Len(s) \in Nat /\ s \in Seq(Cell) /\ \A i \in 1..Len(s) : s[i] \in Byte
    BY LenProperties, ElementOfSeq, SeqMonotonic DEF Cell
  <2>3. n \in Nat /\ n <= Len(s) /\ n < b.size /\ (Len(s) < b.alloc => n = Len(s))
    BY <2>1, <2>2
  <2> HIDE DEF n
  <2>4. /\ SubSeq(s, 1, n) \in Seq(Cell) /\ Len(SubSeq(s, 1, n)) = n
        /\ \A i \in 1..n : SubSeq(s, 1, n)[i] = s[i]
    <3>1. \A i \in 1..n : s[i] \in Cell
      BY <2>2, <2>3 DEF Cell
    <3> QED
      BY <2>3, <3>1, SubSeqProperties
  <2>5. /\ t \in Seq(Cell) /\ Len(t) = n + 1
        /\ \A i \in 1..n : t[i] = s[i]
    <3>1. Nul \in Cell
      BY ByteAssumption DEF Cell
    <3> QED
      BY <2>3, <2>4, <3>1, AppendProperties
  <2> HIDE DEF t
  <2>6. 0 + Len(t) <= b.size
    BY <2>1, <2>3, <2>5
  <2>7. /\ Allocated(r) /\ r.length = b.length /\ r.alloc = b.alloc
        /\ r.size = b.size /\ r.ok = b.ok
        /\ \A i \in 0..b.size - 1 : r.data[i] =
             IF 0 <= i /\ i < 0 + Len(t) THEN t[i - 0 + 1] ELSE b.data[i]
    <3>1. Overwritten(b, 0, t, r)
      BY <2>5, <2>6, BytesWritten
    <3> QED
      BY <3>1 DEF Overwritten
  <2>8. vsnprintf(b, s) = r
    BY <1>2 DEF vsnprintf, n, t
  <2> HIDE DEF r
  <2>9. ASSUME Len(s) < b.alloc, NEW i \in 1..Len(s)
        PROVE  r.data[i - 1] = s[i]
    <3>1. /\ i - 1 \in 0..b.size - 1 /\ 0 <= i - 1 /\ i - 1 < 0 + Len(t)
          /\ (i - 1) - 0 + 1 = i /\ i \in 1..n
      BY <2>1, <2>2, <2>3, <2>5, <2>9
    <3>2. r.data[i - 1] = t[(i - 1) - 0 + 1]
      BY <2>7, <3>1
    <3> QED
      BY <2>5, <3>1, <3>2
  <2> QED
    BY <2>1, <2>7, <2>8, <2>9 DEF Printed
<1> QED
  BY <1>1, <1>2

(* Printing to a buffer sets it to the text, whatever size was guessed.    *)
LEMMA VfmtEdits ==
  ASSUME jemalloc \in BOOLEAN, NEW b, Sound(b), b.ok, NEW guess \in Nat, NEW s \in Seq(Byte)
  PROVE  /\ Edited(b, buffer_vfmt(b, guess, s))
         /\ buffer_vfmt(b, guess, s).ok => Text(buffer_vfmt(b, guess, s)) = s
         /\ jemalloc => buffer_vfmt(b, guess, s).ok
PROOF
<1> DEFINE n == Len(s)
           g1 == array_grow(b, guess)
           first == vsnprintf(g1, s)
           g2 == array_grow(first, n)
           second == vsnprintf(g2, s)
           p == IF n >= first.alloc THEN second ELSE first
           r == buffer_vfmt(b, guess, s)
<1>1. /\ Allocated(b) /\ TextStored(b) /\ (~jemalloc => b.alloc = 0)
      /\ b.ok = TRUE /\ b.length \in Nat
  BY DEF Sound, Allocated
<1>2. n \in Nat /\ \A i \in 1..n : s[i] \in Byte
  BY LenProperties, ElementOfSeq
<1>3. r = buffer_setlen(p, n)
  BY DEF buffer_vfmt
<1>4. Grown(b, guess, g1)
  BY <1>1, GrowKeeps
<1>5. Printed(g1, s, first)
  <2>1. Allocated(g1)
    BY <1>4 DEF Grown
  <2> QED
    BY <2>1, VsnprintfPrints
<1>6. Grown(first, n, g2)
  <2>1. Allocated(first)
    BY <1>5 DEF Printed
  <2> QED
    BY <1>2, <2>1, GrowKeeps
<1>7. Printed(g2, s, second)
  <2>1. Allocated(g2)
    BY <1>6 DEF Grown
  <2> QED
    BY <2>1, VsnprintfPrints
<1> HIDE DEF n, g1, first, g2, second
(* What has been printed to, and where.                                    *)
<1>8. /\ Allocated(p) /\ p.length = b.length /\ p.ok = TRUE /\ n < p.size
      /\ jemalloc => p.alloc > n
      /\ ~jemalloc => p.alloc = 0
  <2>1. /\ first.length = b.length /\ first.ok = TRUE /\ Allocated(first)
        /\ first.alloc = g1.alloc /\ first.size \in Nat /\ first.alloc \in {0, first.size}
    BY <1>1, <1>4, <1>5 DEF Grown, Printed, Allocated
  <2>2. /\ jemalloc => first.alloc > guess
        /\ ~jemalloc => first.alloc = 0
    BY <1>1, <1>4, <2>1 DEF Grown
  <2>3. CASE n >= first.alloc
    <3>1. /\ g2.length = b.length /\ g2.ok = TRUE /\ Allocated(g2) /\ n < g2.size
          /\ jemalloc => g2.alloc > n
          /\ ~jemalloc => g2.alloc = 0
      BY <1>6, <2>1, <2>2 DEF Grown
    <3>2. /\ second.length = g2.length /\ second.ok = g2.ok /\ Allocated(second)
          /\ second.alloc = g2.alloc /\ second.size = g2.size
      BY <1>7 DEF Printed
    <3> QED
      BY <2>3, <3>1, <3>2
  <2>4. CASE ~(n >= first.alloc)
    <3>1. first.alloc > n /\ first.alloc = first.size
      BY <1>2, <2>1, <2>4
    <3> QED
      BY <1>2, <2>1, <2>2, <2>4, <3>1
  <2> QED
    BY <2>3, <2>4
<1>9. ASSUME jemalloc, NEW i \in 1..n
      PROVE  p.data[i - 1] = s[i]
  <2>1. CASE n >= first.alloc
    <3>1. g2.alloc > n
      BY <1>6, <1>9 DEF Grown
    <3>2. g2.alloc \in Nat
      BY <1>6 DEF Grown, Allocated
    <3> QED
      BY <1>2, <1>7, <1>9, <2>1, <3>1, <3>2 DEF Printed, n
  <2>2. CASE ~(n >= first.alloc)
    <3>1. first.alloc = g1.alloc /\ g1.alloc \in Nat
      BY <1>4, <1>5 DEF Grown, Printed, Allocated
    <3>2. Len(s) < g1.alloc
      BY <1>2, <2>2, <3>1 DEF n
    <3> QED
      BY <1>5, <1>9, <2>2, <3>2 DEF Printed, n
  <2> QED
    BY <2>1, <2>2
<1>10. ASSUME ~jemalloc, NEW i \in 0..b.length - 1
       PROVE  p.data[i] = b.data[i]
  <2>1. i \in 0..b.length
    BY <1>1
  <2>2. g1.alloc = 0 /\ g1.length = b.length /\ g1.data[i] = b.data[i]
    BY <1>1, <1>4, <1>10, <2>1 DEF Grown
  <2>3. first = g1
    BY <1>5, <2>2 DEF Printed
  <2>4. g2.alloc = 0 /\ g2.data[i] = b.data[i]
    BY <1>6, <1>10, <2>1, <2>2, <2>3 DEF Grown
  <2>5. second = g2
    BY <1>7, <2>4 DEF Printed
  <2> QED
    BY <2>2, <2>3, <2>4, <2>5
<1> HIDE DEF p
<1>11. /\ Allocated(r) /\ r.alloc = p.alloc /\ r.size = p.size
       /\ IF p.alloc > 0 \/ n = 0
          THEN /\ r.ok = p.ok /\ r.length = n /\ Terminated(r)
               /\ \A i \in 0..p.size - 1 : i # n => r.data[i] = p.data[i]
          ELSE ~r.ok /\ r.length = p.length /\ r.data = p.data
  BY <1>2, <1>3, <1>8, SetlenSets
<1> HIDE DEF r
<1>12. CASE jemalloc
  <2>1. p.alloc > 0 /\ p.size \in Nat /\ n < p.size
    BY <1>2, <1>8, <1>12 DEF Allocated
  <2>2. /\ r.ok = TRUE /\ r.length = n /\ Terminated(r) /\ r.alloc = p.alloc
        /\ \A i \in 0..p.size - 1 : i # n => r.data[i] = p.data[i]
    BY <1>8, <1>11, <2>1
  <2>3. ASSUME NEW i \in 1..n
        PROVE  r.data[i - 1] = s[i]
    <3>1. i - 1 \in 0..p.size - 1 /\ i - 1 # n
      BY <1>2, <2>1
    <3> QED
      BY <1>9, <1>12, <2>2, <3>1
  <2>4. TextStored(r)
    <3> SUFFICES ASSUME NEW i \in 0..n - 1
                 PROVE  r.data[i] \in Byte
      BY <2>2 DEF TextStored
    <3>1. i + 1 \in 1..n /\ (i + 1) - 1 = i
      BY <1>2
    <3>2. r.data[(i + 1) - 1] = s[i + 1]
      BY <2>3, <3>1
    <3> QED
      BY <1>2, <3>1, <3>2
  <2>5. Sound(r)
    BY <1>11, <1>12, <2>2, <2>4 DEF Sound
  <2>6. Text(r) = s
    <3>1. /\ Text(r) \in Seq(Byte) /\ Len(Text(r)) = n
          /\ \A i \in 1..n : Text(r)[i] = r.data[i - 1]
      BY <1>11, <2>2, <2>4, TextIsSeq
    <3>2. Len(Text(r)) = Len(s) /\ \A i \in 1..Len(Text(r)) : Text(r)[i] = s[i]
      BY <2>3, <3>1 DEF n
    <3> QED
      BY <3>1, <3>2, SeqEqual
  <2>7. r.alloc # 0
    BY <2>1, <2>2
  <2>8. Edited(b, r)
    BY <1>12, <2>2, <2>5, <2>7 DEF Edited
  <2> QED
    BY <2>2, <2>6, <2>8 DEF r
<1>13. CASE ~jemalloc
  <2>1. p.alloc = 0 /\ r.alloc = 0
    BY <1>8, <1>11, <1>13
  <2>2. CASE n = 0
    <3>1. r.ok = TRUE /\ r.length = 0 /\ Terminated(r)
      BY <1>8, <1>11, <2>2
    <3>2. TextStored(r)
      BY <3>1 DEF TextStored
    <3>3. Edited(b, r)
      BY <1>11, <1>13, <2>1, <3>1, <3>2 DEF Edited, Sound
    <3>4. Text(r) \in Seq(Byte) /\ Len(Text(r)) = 0
      BY <1>11, <3>1, <3>2, TextIsSeq
    <3>5. Text(r) = s
      BY <2>2, <3>4, SeqEqual DEF n
    <3> QED
      BY <1>13, <3>3, <3>5 DEF r
  <2>3. CASE n # 0
    <3>1. ~r.ok /\ r.length = b.length /\ r.data = p.data
      BY <1>8, <1>11, <2>1, <2>3
    <3>2. TextStored(r)
      BY <1>1, <1>10, <1>13, <3>1 DEF TextStored
    <3>3. Edited(b, r)
      BY <1>11, <1>13, <2>1, <3>1, <3>2 DEF Edited, Sound
    <3> QED
      BY <1>13, <3>1, <3>3 DEF r
  <2> QED
    BY <2>2, <2>3
<1> QED
  BY <1>12, <1>13

(* Text printed to a buffer of its own is spliced in.                      *)
LEMMA InsertvfmtEdits ==
  ASSUME jemalloc \in BOOLEAN, NEW b, Sound(b), b.ok, NEW pos \in 0..b.length,
         NEW guess \in Nat, NEW s \in Seq(Byte)
  PROVE  /\ Edited(b, buffer_insertvfmt(b, pos, guess, s))
         /\ buffer_insertvfmt(b, pos, guess, s).ok =>
              Text(buffer_insertvfmt(b, pos, guess, s)) =
                SubSeq(Text(b), 1, pos) \o s \o SubSeq(Text(b), pos + 0 + 1, Len(Text(b)))
PROOF
<1> DEFINE tmp == buffer_vfmt(BUFFER_INIT, guess, s)
           r == buffer_insertvfmt(b, pos, guess, s)
<1>1. /\ Sound(BUFFER_INIT) /\ BUFFER_INIT.ok
  <2>1. <<>> \in Seq(Byte)
    OBVIOUS
  <2> QED
    BY <2>1, LiteralSound DEF BUFFER_INIT
<1>2. /\ Edited(BUFFER_INIT, tmp)
      /\ tmp.ok => Text(tmp) = s
      /\ jemalloc => tmp.ok
  BY <1>1, VfmtEdits
<1> HIDE DEF tmp
<1>3. CASE tmp.ok
  <2>1. r = buffer_splice(b, pos, 0, s)
    BY <1>2, <1>3 DEF buffer_insertvfmt, tmp
  <2>2. 0 \in 0..b.length - pos
    BY DEF Sound, Allocated
  <2>3. Edited(b, buffer_splice(b, pos, 0, s))
    BY <2>2, SpliceEdits, SoundIsHeld
  <2>4. buffer_splice(b, pos, 0, s).ok => Text(buffer_splice(b, pos, 0, s)) =
          SubSeq(Text(b), 1, pos) \o s \o SubSeq(Text(b), pos + 0 + 1, Len(Text(b)))
    BY <2>2, SpliceText
  <2> QED
    BY <2>1, <2>3, <2>4
<1>4. CASE ~tmp.ok
  <2>1. ~jemalloc
    BY <1>2, <1>4
  <2>2. r = [b EXCEPT !.ok = FALSE]
    BY <1>4 DEF buffer_insertvfmt, tmp
  <2>3. r = [data |-> b.data, length |-> b.length, alloc |-> b.alloc, size |-> b.size,
             ok |-> FALSE]
    BY <2>2 DEF Sound, Allocated
  <2>4. Allocated(r) /\ TextStored(r) /\ r.ok = FALSE /\ r.alloc = b.alloc
    <3> HIDE DEF r
    <3>1. Allocated(r)
      BY <2>3 DEF Sound, Allocated
    <3> QED
      BY <2>3, <3>1 DEF Sound, TextStored
  <2>5. r.alloc = 0
    BY <2>1, <2>4 DEF Sound
  <2> QED
    BY <2>1, <2>4, <2>5 DEF Edited, Sound
<1> QED
  BY <1>3, <1>4

-----------------------------------------------------------------------------
(* Trimming.                                                               *)

LEMMA LeastNat ==
  ASSUME NEW T, T \subseteq Nat, T # {}
  PROVE  \E x \in T : \A y \in T : x <= y
PROOF
<1>1. IsWellFoundedOn(OpToRel(<, Nat), Nat)
  BY NatLessThanWellFounded
<1>2. PICK x \in T : \A y \in T : ~(<<y, x>> \in OpToRel(<, Nat))
  BY <1>1, WFMin
<1>3. ASSUME NEW y \in T
      PROVE  x <= y
  <2>1. x \in Nat /\ y \in Nat
    OBVIOUS
  <2>2. ~(y < x)
    BY <1>2, <2>1 DEF OpToRel
  <2> QED
    BY <2>1, <2>2
<1> QED
  BY <1>2, <1>3

(* The bytes to trim exist, at either end of every text.                   *)
LEMMA LeadingBytes ==
  ASSUME NEW s \in Seq(Byte), NEW set
  PROVE  /\ Leading(s, set) \in 0..Len(s)
         /\ \A i \in 1..Leading(s, set) : s[i] \in set
         /\ Leading(s, set) = Len(s) \/ s[Leading(s, set) + 1] \notin set
PROOF
<1> DEFINE P(n) == /\ \A i \in 1..n : s[i] \in set
                   /\ n = Len(s) \/ s[n + 1] \notin set
           T == {n \in 0..Len(s) : n = Len(s) \/ s[n + 1] \notin set}
<1>1. Len(s) \in Nat
  BY LenProperties
<1>2. T \subseteq Nat /\ Len(s) \in T
  BY <1>1
<1>3. PICK n \in T : \A m \in T : n <= m
  <2> HIDE DEF T
  <2> QED
    BY <1>2, LeastNat
<1>4. n \in 0..Len(s) /\ (n = Len(s) \/ s[n + 1] \notin set)
  OBVIOUS
<1>5. ASSUME NEW i \in 1..n
      PROVE  s[i] \in set
  <2>1. i - 1 \in 0..Len(s) /\ (i - 1) + 1 = i /\ ~(n <= i - 1) /\ i - 1 # Len(s)
    BY <1>1, <1>4
  <2>2. i - 1 \notin T
    BY <1>3, <2>1
  <2> QED
    BY <2>1, <2>2
<1>6. P(n)
  BY <1>4, <1>5
<1>7. Leading(s, set) = CHOOSE k \in 0..Len(s) : P(k)
  BY DEF Leading
<1> HIDE DEF P
<1>8. Leading(s, set) \in 0..Len(s) /\ P(Leading(s, set))
  BY <1>4, <1>6, <1>7
<1> QED
  BY <1>8 DEF P

LEMMA TrailingBytes ==
  ASSUME NEW s \in Seq(Byte), NEW set
  PROVE  /\ Trailing(s, set) \in 0..Len(s)
         /\ \A i \in Len(s) - Trailing(s, set) + 1..Len(s) : s[i] \in set
         /\ Trailing(s, set) = Len(s) \/ s[Len(s) - Trailing(s, set)] \notin set
PROOF
<1> DEFINE P(n) == /\ \A i \in Len(s) - n + 1..Len(s) : s[i] \in set
                   /\ n = Len(s) \/ s[Len(s) - n] \notin set
           T == {n \in 0..Len(s) : n = Len(s) \/ s[Len(s) - n] \notin set}
<1>1. Len(s) \in Nat
  BY LenProperties
<1>2. T \subseteq Nat /\ Len(s) \in T
  BY <1>1
<1>3. PICK n \in T : \A m \in T : n <= m
  <2> HIDE DEF T
  <2> QED
    BY <1>2, LeastNat
<1>4. n \in 0..Len(s) /\ (n = Len(s) \/ s[Len(s) - n] \notin set)
  OBVIOUS
<1>5. ASSUME NEW i \in Len(s) - n + 1..Len(s)
      PROVE  s[i] \in set
  <2>1. /\ Len(s) - i \in 0..Len(s) /\ Len(s) - (Len(s) - i) = i
        /\ ~(n <= Len(s) - i) /\ Len(s) - i # Len(s)
    BY <1>1, <1>4
  <2>2. Len(s) - i \notin T
    BY <1>3, <2>1
  <2> QED
    BY <2>1, <2>2
<1>6. P(n)
  BY <1>4, <1>5
<1>7. Trailing(s, set) = CHOOSE k \in 0..Len(s) : P(k)
  BY DEF Trailing
<1> HIDE DEF P
<1>8. Trailing(s, set) \in 0..Len(s) /\ P(Trailing(s, set))
  BY <1>4, <1>6, <1>7
<1> QED
  BY <1>8 DEF P

LEMMA LtrimEdits ==
  ASSUME jemalloc \in BOOLEAN, NEW b, Sound(b), b.ok, NEW set
  PROVE  /\ Edited(b, buffer_ltrim(b, set))
         /\ buffer_ltrim(b, set).ok => Text(buffer_ltrim(b, set)) =
              SubSeq(Text(b), Leading(Text(b), set) + 1, Len(Text(b)))
PROOF
<1> DEFINE t == Text(b)
           n == Leading(t, set)
           r == buffer_ltrim(b, set)
<1>1. t \in Seq(Byte) /\ Len(t) = b.length /\ b.length \in Nat
  BY TextIsSeq DEF Sound
<1>2. n \in 0..b.length - 0 /\ 0 \in 0..b.length /\ <<>> \in Seq(Byte)
  BY <1>1, LeadingBytes
<1>3. r = buffer_splice(b, 0, n, <<>>)
  BY DEF buffer_ltrim
<1> HIDE DEF n, r
<1>4. Edited(b, r)
  BY <1>2, <1>3, SpliceEdits, SoundIsHeld
<1>5. r.ok => Text(r) = SubSeq(t, 1, 0) \o <<>> \o SubSeq(t, 0 + n + 1, Len(t))
  BY <1>2, <1>3, SpliceText
<1>6. SubSeq(t, 1, 0) \o <<>> \o SubSeq(t, 0 + n + 1, Len(t)) = SubSeq(t, n + 1, Len(t))
  <2>1. SubSeq(t, 1, 0) = <<>>
    BY SubSeqEmpty
  <2>2. <<>> \o <<>> = <<>>
    BY <1>2, ConcatEmptySeq
  <2>3. 0 + n + 1 = n + 1
    BY <1>1, <1>2
  <2>4. SubSeq(t, n + 1, Len(t)) \in Seq(Byte)
    <3>1. \A i \in n + 1..Len(t) : t[i] \in Byte
      BY <1>1, <1>2, ElementOfSeq
    <3> QED
      BY <1>1, <1>2, <3>1, SubSeqProperties
  <2>5. <<>> \o SubSeq(t, n + 1, Len(t)) = SubSeq(t, n + 1, Len(t))
    BY <2>4, ConcatEmptySeq
  <2> QED
    BY <2>1, <2>2, <2>3, <2>5
<1> QED
  BY <1>4, <1>5, <1>6 DEF n, r

LEMMA RtrimEdits ==
  ASSUME jemalloc \in BOOLEAN, NEW b, Sound(b), b.ok, NEW set
  PROVE  /\ Edited(b, buffer_rtrim(b, set))
         /\ buffer_rtrim(b, set).ok => Text(buffer_rtrim(b, set)) =
              SubSeq(Text(b), 1, Len(Text(b)) - Trailing(Text(b), set))
PROOF
<1> DEFINE t == Text(b)
           n == Trailing(t, set)
           pos == b.length - n
           r == buffer_rtrim(b, set)
<1>1. t \in Seq(Byte) /\ Len(t) = b.length /\ b.length \in Nat
  BY TextIsSeq DEF Sound
<1>2. /\ n \in 0..b.length /\ pos \in 0..b.length /\ n \in 0..b.length - pos
      /\ <<>> \in Seq(Byte) /\ pos + n + 1 = b.length + 1
  BY <1>1, TrailingBytes
<1>3. r = buffer_splice(b, pos, n, <<>>)
  BY DEF buffer_rtrim
<1>7. pos = Len(t) - n
  BY <1>1
<1> HIDE DEF n, pos, r
<1>4. Edited(b, r)
  BY <1>2, <1>3, SpliceEdits, SoundIsHeld
<1>5. r.ok => Text(r) = SubSeq(t, 1, pos) \o <<>> \o SubSeq(t, pos + n + 1, Len(t))
  BY <1>2, <1>3, SpliceText
<1>6. SubSeq(t, 1, pos) \o <<>> \o SubSeq(t, pos + n + 1, Len(t)) = SubSeq(t, 1, pos)
  <2>1. SubSeq(t, pos + n + 1, Len(t)) = <<>>
    BY <1>1, <1>2, SubSeqEmpty
  <2>2. SubSeq(t, 1, pos) \in Seq(Byte)
    <3>1. \A i \in 1..pos : t[i] \in Byte
      BY <1>1, <1>2, ElementOfSeq
    <3> QED
      BY <1>1, <1>2, <3>1, SubSeqProperties
  <2>3. SubSeq(t, 1, pos) \o <<>> = SubSeq(t, 1, pos)
    BY <2>2, ConcatEmptySeq
  <2> QED
    BY <2>1, <2>3
<1> QED
  BY <1>4, <1>5, <1>6, <1>7 DEF n, r

(* One edit after another is an edit.                                      *)
LEMMA EditedTwice ==
  ASSUME jemalloc \in BOOLEAN, NEW a, NEW b, NEW c, Edited(a, b), b.ok, Edited(b, c)
  PROVE  Edited(a, c)
PROOF
  BY DEF Edited

(* A call that edits an aborted buffer leaves it as it is.                 *)
LEMMA TrimAborted ==
  ASSUME NEW b, ~b.ok, NEW set
  PROVE  buffer_ltrim(b, set) = b /\ buffer_rtrim(b, set) = b
PROOF
  BY DEF buffer_ltrim, buffer_rtrim, buffer_splice

=============================================================================
