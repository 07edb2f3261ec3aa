-------------------------- MODULE MemEditorProofs --------------------------
(***************************************************************************)
(* Proofs about a buffer under every sequence of calls, for every          *)
(* alphabet, every set of texts, guesses and trim sets, and both builds.   *)
(***************************************************************************)
EXTENDS MemEditor, MemBufferProofs

(* An own block, or a literal as it was attached; and where the allocator  *)
(* does not tell sizes, no byte but those of a literal.                    *)
IInv ==
  /\ jemalloc \in BOOLEAN
  /\ origin \in Seq(Byte)
  /\ calls \in 0..MaxCalls
  /\ Sound(buf)
  /\ AbortsOnlyUnowned
  /\ UnownedIsUntouched
  /\ TextNeedsUsableSize

LEMMA BytesOfTexts ==
  /\ Texts \subseteq Seq(Byte)
  /\ \A c \in Byte : <<c>> \in Seq(Byte)
PROOF
<1>1. Seq(Byte \ {Nul}) \subseteq Seq(Byte)
  BY SeqMonotonic
<1> QED
  BY <1>1, TextsAssumption

LEMMA NoText ==
  ASSUME NEW b, Sound(b), b.length = 0
  PROVE  Text(b) = <<>>
PROOF
<1>1. Text(b) \in Seq(Byte) /\ Len(Text(b)) = 0
  BY TextIsSeq DEF Sound
<1>2. <<>> \in Seq(Byte) /\ Len(<<>>) = 0
  OBVIOUS
<1> QED
  BY <1>1, <1>2, SeqEqual

(* A call that edits the buffer keeps the invariant.                       *)
LEMMA EditKeeps ==
  ASSUME IInv, NEW b, Edited(buf, b), NEW r, Call(r, b), Keep
  PROVE  IInv'
PROOF
<1>1. /\ buf' = b /\ jemalloc' = jemalloc /\ origin' = origin /\ calls' = calls + 1
      /\ buf.ok /\ calls < MaxCalls
  BY DEF Call, Keep
<1>2. (jemalloc \in BOOLEAN)' /\ (origin \in Seq(Byte))' /\ (calls \in 0..MaxCalls)'
  BY <1>1, EditorAssumption DEF IInv
<1>3. Sound(buf)'
  BY <1>1 DEF Sound, Edited
<1>4. AbortsOnlyUnowned'
  BY <1>1 DEF AbortsOnlyUnowned, Edited
<1>5. UnownedIsUntouched'
  BY <1>1 DEF UnownedIsUntouched, Edited, IInv
<1>6. TextNeedsUsableSize'
  <2> SUFFICES ASSUME ~jemalloc, b.ok
               PROVE  Text(b) = <<>>
    BY <1>1 DEF TextNeedsUsableSize
  <2>1. Sound(b) /\ b.length = 0
    BY DEF Edited
  <2> QED
    BY <2>1, NoText
<1> QED
  BY <1>2, <1>3, <1>4, <1>5, <1>6 DEF IInv

(* Attaching the buffer to a literal keeps the invariant.                  *)
LEMMA AttachKeeps ==
  ASSUME IInv, NEW s \in Seq(Byte), NEW r, Call(r, BUFFER_INITSTR(s)), origin' = s
  PROVE  IInv'
PROOF
<1> DEFINE b == BUFFER_INITSTR(s)
<1>1. /\ buf' = b /\ jemalloc' = jemalloc /\ calls' = calls + 1 /\ calls < MaxCalls
  BY DEF Call
<1>2. (jemalloc \in BOOLEAN)' /\ (origin \in Seq(Byte))' /\ (calls \in 0..MaxCalls)'
  BY <1>1, EditorAssumption DEF IInv
<1>3. Sound(b) /\ b.alloc = 0 /\ b.ok /\ b.data = Block(s) /\ Text(b) = s
  BY LiteralSound
<1> HIDE DEF b
<1>4. Sound(buf)'
  BY <1>1, <1>3 DEF Sound
<1>5. AbortsOnlyUnowned' /\ UnownedIsUntouched' /\ TextNeedsUsableSize'
  BY <1>1, <1>3 DEF AbortsOnlyUnowned, UnownedIsUntouched, TextNeedsUsableSize
<1> QED
  BY <1>2, <1>4, <1>5 DEF IInv

LEMMA InitEstablishes == EditorInit => IInv
PROOF
<1> SUFFICES ASSUME EditorInit
             PROVE  IInv
  OBVIOUS
<1>1. jemalloc \in BOOLEAN /\ calls \in 0..MaxCalls
  BY EditorAssumption DEF EditorInit
<1>2. ASSUME NEW s \in Seq(Byte), buf = BUFFER_INITSTR(s), origin = s
      PROVE  IInv
  <2>1. /\ Sound(buf) /\ buf.alloc = 0 /\ buf.ok /\ buf.data = Block(s) /\ Text(buf) = s
    BY <1>2, LiteralSound
  <2> QED
    BY <1>1, <1>2, <2>1 DEF IInv, AbortsOnlyUnowned, UnownedIsUntouched, TextNeedsUsableSize
<1>3. ASSUME NEW len \in Guesses, buf = buffer_init(len), origin = <<>>
      PROVE  IInv
  <2> DEFINE g == array_grow(BUFFER_INIT, len)
  <2>1. <<>> \in Seq(Byte) /\ Len(<<>>) = 0
    OBVIOUS
  <2>2. CASE ~(len > 0)
    BY <1>2, <1>3, <2>1, <2>2 DEF buffer_init, BUFFER_INIT
  <2>3. CASE len > 0
    <3>1. buf = g
      BY <1>3, <2>3 DEF buffer_init
    <3>2. /\ Sound(BUFFER_INIT) /\ BUFFER_INIT.alloc = 0 /\ BUFFER_INIT.ok
          /\ BUFFER_INIT.length = 0
      BY <2>1, LiteralSound DEF BUFFER_INIT
    <3>3. Grown(BUFFER_INIT, len, g) /\ len \in Nat
      BY <1>1, <3>2, GrowKeeps, EditorAssumption DEF Sound
    <3> HIDE DEF g
    <3>4. /\ Allocated(g) /\ g.length = 0 /\ g.ok /\ g.data[0] = BUFFER_INIT.data[0]
          /\ jemalloc => g.alloc > len
          /\ ~jemalloc => g.alloc = 0
      BY <3>2, <3>3 DEF Grown
    <3>5. Sound(g)
      BY <3>2, <3>4 DEF Sound, TextStored, Terminated
    <3>6. jemalloc => g.alloc # 0
      BY <2>3, <3>3, <3>4
    <3>7. Text(g) = <<>>
      BY <3>4, <3>5, NoText
    <3> QED
      BY <1>1, <1>3, <2>1, <3>1, <3>4, <3>5, <3>6, <3>7
      DEF IInv, AbortsOnlyUnowned, UnownedIsUntouched, TextNeedsUsableSize
  <2> QED
    BY <2>2, <2>3
<1> QED
  BY <1>2, <1>3, BytesOfTexts DEF EditorInit

-----------------------------------------------------------------------------
(* The calls.                                                              *)

(* A call r that leaves b behind edits the buffer, and does to its text    *)
(* what r means.                                                           *)
Does(r, b) ==
  /\ r \in Request
  /\ Edited(buf, b)
  /\ b.ok => EditedText!Meaning(r, Text(buf), Text(b))

LEMMA SpliceDoes ==
  ASSUME IInv, buf.ok, NEW pos \in 0..buf.length, NEW rem \in 0..buf.length - pos,
         NEW s \in Seq(Byte), NEW b, Edited(buf, b),
         b.ok => Text(b) = SubSeq(Text(buf), 1, pos) \o s
                             \o SubSeq(Text(buf), pos + rem + 1, Len(Text(buf)))
  PROVE  Does(SpliceRequest(pos, rem, s), b)
PROOF
<1> DEFINE r == SpliceRequest(pos, rem, s)
<1>1. pos \in Nat /\ rem \in Nat
  BY DEF IInv, Sound, Allocated
<1>2. r \in Request /\ r.call = "splice" /\ r.pos = pos /\ r.rem = rem /\ r.str = s
  BY <1>1 DEF SpliceRequest, Request
<1> HIDE DEF r
<1>3. b.ok => EditedText!Meaning(r, Text(buf), Text(b))
  BY <1>2 DEF EditedText!Meaning, EditedText!Spliced
<1> QED
  BY <1>2, <1>3 DEF Does, r

LEMMA SetDoes ==
  ASSUME NEW s \in Seq(Byte), NEW b, Edited(buf, b), b.ok => Text(b) = s
  PROVE  Does(SetRequest(s), b)
PROOF
<1> DEFINE r == SetRequest(s)
<1>1. r \in Request /\ r.call = "set" /\ r.str = s
  BY DEF SetRequest, Request
<1> HIDE DEF r
<1>2. b.ok => EditedText!Meaning(r, Text(buf), Text(b))
  BY <1>1 DEF EditedText!Meaning
<1> QED
  BY <1>1, <1>2 DEF Does, r

LEMMA TrimRequests ==
  ASSUME NEW set \in SUBSET Byte, NEW call \in {"ltrim", "rtrim", "trim"}
  PROVE  /\ TrimRequest(call, set) \in Request
         /\ TrimRequest(call, set).call = call /\ TrimRequest(call, set).set = set
PROOF
  BY DEF TrimRequest, Request

(* A text without its longest prefix, or suffix, of bytes in a set.        *)
LEMMA LeadingTrimmed ==
  ASSUME NEW s \in Seq(Byte), NEW set
  PROVE  LET t == SubSeq(s, Leading(s, set) + 1, Len(s))
         IN t \in Seq(Byte) /\ EditedText!IsLTrimmed(s, t, set)
PROOF
<1> DEFINE n == Leading(s, set)
           t == SubSeq(s, n + 1, Len(s))
<1>1. /\ Len(s) \in Nat /\ n \in 0..Len(s)
      /\ \A i \in 1..n : s[i] \in set
      /\ n = Len(s) \/ s[n + 1] \notin set
  BY LenProperties, LeadingBytes
<1> HIDE DEF n
<1>2. \A i \in n + 1..Len(s) : s[i] \in Byte
  BY <1>1, ElementOfSeq
<1>3. t \in Seq(Byte) /\ Len(t) = Len(s) - n
      /\ \A i \in 1..Len(s) - (n + 1) + 1 : t[i] = s[n + 1 + i - 1]
  BY <1>1, <1>2, SubSeqProperties
<1>4. t = <<>> \/ t[1] \notin set
  <2>1. CASE n = Len(s)
    BY <1>1, <1>3, <2>1, EmptySeq
  <2>2. CASE n # Len(s)
    <3>1. 1 \in 1..Len(s) - (n + 1) + 1 /\ n + 1 + 1 - 1 = n + 1
      BY <1>1, <2>2
    <3> QED
      BY <1>1, <1>3, <2>2, <3>1
  <2> QED
    BY <2>1, <2>2
<1>5. EditedText!IsLTrimmed(s, t, set)
  BY <1>1, <1>4 DEF EditedText!IsLTrimmed
<1> QED
  BY <1>3, <1>5 DEF n

LEMMA TrailingTrimmed ==
  ASSUME NEW s \in Seq(Byte), NEW set
  PROVE  LET t == SubSeq(s, 1, Len(s) - Trailing(s, set))
         IN t \in Seq(Byte) /\ EditedText!IsRTrimmed(s, t, set)
PROOF
<1> DEFINE m == Trailing(s, set)
           n == Len(s) - m
           t == SubSeq(s, 1, n)
<1>1. /\ Len(s) \in Nat /\ m \in 0..Len(s)
      /\ \A i \in Len(s) - m + 1..Len(s) : s[i] \in set
      /\ m = Len(s) \/ s[Len(s) - m] \notin set
  BY LenProperties, TrailingBytes
<1> HIDE DEF m
<1>2. /\ n \in 0..Len(s) /\ (n = 0 \/ s[n] \notin set)
      /\ \A i \in n + 1..Len(s) : s[i] \in set
  BY <1>1
<1> HIDE DEF n
<1>3. \A i \in 1..n : s[i] \in Byte
  BY <1>1, <1>2, ElementOfSeq
<1>4. t \in Seq(Byte) /\ Len(t) = n /\ \A i \in 1..n : t[i] = s[i]
  BY <1>2, <1>3, SubSeqProperties
<1>5. t = <<>> \/ t[n] \notin set
  <2>1. CASE n = 0
    BY <1>4, <2>1, EmptySeq
  <2>2. CASE n # 0
    BY <1>2, <1>4, <2>2
  <2> QED
    BY <2>1, <2>2
<1>6. EditedText!IsRTrimmed(s, t, set)
  BY <1>2, <1>5 DEF EditedText!IsRTrimmed
<1> QED
  BY <1>4, <1>6 DEF n, m

LEMMA LTrimDoes ==
  ASSUME IInv, buf.ok, NEW set \in SUBSET Byte
  PROVE  Does(TrimRequest("ltrim", set), buffer_ltrim(buf, set))
PROOF
<1> DEFINE r == TrimRequest("ltrim", set)
           b == buffer_ltrim(buf, set)
<1>1. r \in Request /\ r.call = "ltrim" /\ r.set = set
  BY TrimRequests
<1>2. /\ Edited(buf, b)
      /\ b.ok => Text(b) = SubSeq(Text(buf), Leading(Text(buf), set) + 1, Len(Text(buf)))
  BY LtrimEdits DEF IInv
<1>3. Text(buf) \in Seq(Byte)
  BY TextIsSeq DEF IInv, Sound
<1> HIDE DEF r, b
<1>4. b.ok => EditedText!IsLTrimmed(Text(buf), Text(b), set)
  BY <1>2, <1>3, LeadingTrimmed
<1> QED
  BY <1>1, <1>2, <1>4 DEF Does, EditedText!Meaning, r, b

LEMMA RTrimDoes ==
  ASSUME IInv, buf.ok, NEW set \in SUBSET Byte
  PROVE  Does(TrimRequest("rtrim", set), buffer_rtrim(buf, set))
PROOF
<1> DEFINE r == TrimRequest("rtrim", set)
           b == buffer_rtrim(buf, set)
<1>1. r \in Request /\ r.call = "rtrim" /\ r.set = set
  BY TrimRequests
<1>2. /\ Edited(buf, b)
      /\ b.ok => Text(b) = SubSeq(Text(buf), 1, Len(Text(buf)) - Trailing(Text(buf), set))
  BY RtrimEdits DEF IInv
<1>3. Text(buf) \in Seq(Byte)
  BY TextIsSeq DEF IInv, Sound
<1> HIDE DEF r, b
<1>4. b.ok => EditedText!IsRTrimmed(Text(buf), Text(b), set)
  BY <1>2, <1>3, TrailingTrimmed
<1> QED
  BY <1>1, <1>2, <1>4 DEF Does, EditedText!Meaning, r, b

LEMMA SubSeqFacts ==
  ASSUME NEW s \in Seq(Byte), NEW i \in 1..Len(s) + 1, NEW j \in i - 1..Len(s)
  PROVE  /\ SubSeq(s, i, j) \in Seq(Byte) /\ Len(SubSeq(s, i, j)) = j - i + 1
         /\ \A x \in 1..j - i + 1 : SubSeq(s, i, j)[x] = s[i + x - 1]
PROOF
<1>1. Len(s) \in Nat /\ i \in Int /\ j \in Int
  BY LenProperties
<1>2. \A x \in i..j : s[x] \in Byte
  BY <1>1, ElementOfSeq
<1>3. /\ SubSeq(s, i, j) \in Seq(Byte)
      /\ Len(SubSeq(s, i, j)) = IF i <= j THEN j - i + 1 ELSE 0
      /\ \A x \in 1..j - i + 1 : SubSeq(s, i, j)[x] = s[i + x - 1]
  BY <1>1, <1>2, SubSeqProperties
<1>4. (IF i <= j THEN j - i + 1 ELSE 0) = j - i + 1
  BY <1>1
<1> QED
  BY <1>3, <1>4

(* A text trimmed on the right to n bytes, and then on the left by k, is   *)
(* trimmed on the left and then on the right.                              *)
LEMMA TrimCommutes ==
  ASSUME NEW s \in Seq(Byte), NEW set,
         NEW n \in 0..Len(s), n = 0 \/ s[n] \notin set,
         \A i \in n + 1..Len(s) : s[i] \in set,
         NEW k \in 0..n, k = n \/ s[k + 1] \notin set,
         \A i \in 1..k : s[i] \in set
  PROVE  \E m \in {SubSeq(s, q, Len(s)) : q \in 1..Len(s) + 1} :
           /\ EditedText!IsLTrimmed(s, m, set)
           /\ EditedText!IsRTrimmed(m, SubSeq(s, k + 1, n), set)
PROOF
<1> DEFINE len == Len(s)
           t == SubSeq(s, k + 1, n)
<1>1. len \in Nat /\ n \in Nat /\ k \in Nat /\ k <= n /\ n <= len
  BY LenProperties
<1>2. CASE k < n
  <2> DEFINE m == SubSeq(s, k + 1, len)
             l == n - k
  <2>1. /\ m \in Seq(Byte) /\ Len(m) = len - k
        /\ \A i \in 1..len - k : m[i] = s[k + i]
    <3>1. /\ k + 1 \in 1..Len(s) + 1 /\ len \in (k + 1) - 1..Len(s)
          /\ len - (k + 1) + 1 = len - k /\ \A i \in Int : k + 1 + i - 1 = k + i
      BY <1>1
    <3>2. /\ m \in Seq(Byte) /\ Len(m) = len - (k + 1) + 1
          /\ \A i \in 1..len - (k + 1) + 1 : m[i] = s[k + 1 + i - 1]
      BY <3>1, SubSeqFacts
    <3> HIDE DEF m, len
    <3>3. ASSUME NEW i \in 1..len - k
          PROVE  m[i] = s[k + i]
      <4>1. i \in 1..len - (k + 1) + 1 /\ k + 1 + i - 1 = k + i
        BY <1>1, <3>1
      <4> QED
        BY <3>2, <4>1
    <3> QED
      BY <3>1, <3>2, <3>3
  <2>2. /\ t \in Seq(Byte) /\ Len(t) = l
        /\ \A i \in 1..l : t[i] = s[k + i]
    <3>1. /\ k + 1 \in 1..Len(s) + 1 /\ n \in (k + 1) - 1..Len(s)
          /\ n - (k + 1) + 1 = l /\ \A i \in Int : k + 1 + i - 1 = k + i
      BY <1>1
    <3>2. /\ t \in Seq(Byte) /\ Len(t) = n - (k + 1) + 1
          /\ \A i \in 1..n - (k + 1) + 1 : t[i] = s[k + 1 + i - 1]
      BY <3>1, SubSeqFacts
    <3> QED
      BY <3>1, <3>2
  <2>3. m \in {SubSeq(s, q, Len(s)) : q \in 1..Len(s) + 1}
    <3>1. k + 1 \in 1..Len(s) + 1
      BY <1>1
    <3> QED
      BY <3>1
  <2>4. EditedText!IsLTrimmed(s, m, set)
    <3>1. m[1] \notin set
      <4>1. 1 \in 1..len - k /\ k # n
        BY <1>1, <1>2
      <4> QED
        BY <2>1, <4>1
    <3>2. k \in 0..Len(s) /\ m = SubSeq(s, k + 1, Len(s))
      BY <1>1
    <3> HIDE DEF m
    <3> QED
      BY <3>1, <3>2 DEF EditedText!IsLTrimmed
  <2> HIDE DEF m, t, l
  <2>5. l \in Nat /\ l \in 1..len - k /\ k + l = n /\ n # 0
    BY <1>1, <1>2 DEF l
  <2>6. t = SubSeq(m, 1, l)
    <3>1. 1 \in 1..Len(m) + 1 /\ l \in 1 - 1..Len(m) /\ l - 1 + 1 = l
      BY <1>1, <2>1, <2>5
    <3>2. /\ SubSeq(m, 1, l) \in Seq(Byte) /\ Len(SubSeq(m, 1, l)) = l - 1 + 1
          /\ \A i \in 1..l - 1 + 1 : SubSeq(m, 1, l)[i] = m[1 + i - 1]
      BY <2>1, <3>1, SubSeqFacts
    <3>3. ASSUME NEW i \in 1..l
          PROVE  t[i] = SubSeq(m, 1, l)[i]
      <4>1. i \in 1..l - 1 + 1 /\ 1 + i - 1 = i /\ i \in 1..len - k
        BY <1>1, <2>5
      <4>2. SubSeq(m, 1, l)[i] = m[i]
        BY <3>2, <4>1
      <4> QED
        BY <2>1, <2>2, <4>1, <4>2
    <3>4. Len(t) = Len(SubSeq(m, 1, l)) /\ \A i \in 1..Len(t) : t[i] = SubSeq(m, 1, l)[i]
      BY <2>2, <3>1, <3>2, <3>3
    <3> QED
      BY <2>2, <3>2, <3>4, SeqEqual
  <2>7. ASSUME NEW i \in l + 1..Len(m)
        PROVE  m[i] \in set
    <3>1. i \in 1..len - k /\ k + i \in n + 1..Len(s)
      BY <1>1, <2>1, <2>5
    <3> QED
      BY <2>1, <3>1
  <2>8. t[l] \notin set
    <3>1. l \in 1..l
      BY <2>5
    <3>2. t[l] = s[n]
      BY <2>2, <2>5, <3>1
    <3> QED
      BY <2>5, <3>2
  <2>9. EditedText!IsRTrimmed(m, t, set)
    <3>1. l \in 0..Len(m)
      BY <1>1, <2>1, <2>5
    <3> QED
      BY <2>6, <2>7, <2>8, <3>1 DEF EditedText!IsRTrimmed
  <2> QED
    BY <2>3, <2>4, <2>9 DEF t
<1>3. CASE ~(k < n)
  <2> DEFINE m == SubSeq(s, len + 1, len)
  <2>1. k = n
    BY <1>1, <1>3
  <2>2. n = 0
    <3> SUFFICES ASSUME n # 0
                 PROVE  FALSE
      OBVIOUS
    <3>1. n \in 1..k
      BY <1>1, <2>1
    <3> QED
      BY <3>1
  <2>3. \A i \in 1..len : s[i] \in set
    BY <1>1, <2>2
  <2>4. m = <<>> /\ t = <<>>
    BY <1>1, <2>1, SubSeqEmpty
  <2>5. m \in {SubSeq(s, q, Len(s)) : q \in 1..Len(s) + 1}
    <3>1. len + 1 \in 1..Len(s) + 1
      BY <1>1
    <3> QED
      BY <3>1
  <2>6. EditedText!IsLTrimmed(s, m, set)
    <3>1. len \in 0..Len(s)
      BY <1>1
    <3> QED
      BY <2>3, <2>4, <3>1 DEF EditedText!IsLTrimmed
  <2>7. EditedText!IsRTrimmed(<<>>, <<>>, set)
    <3>1. SubSeq(<<>>, 1, 0) = <<>>
      BY SubSeqEmpty
    <3>2. 0 \in 0..Len(<<>>) /\ \A i \in 0 + 1..Len(<<>>) : FALSE
      OBVIOUS
    <3> QED
      BY <3>1, <3>2 DEF EditedText!IsRTrimmed
  <2> HIDE DEF m, t
  <2> QED
    BY <2>4, <2>5, <2>6, <2>7 DEF t
<1> QED
  BY <1>2, <1>3

(* The same of what the two calls leave.                                   *)
LEMMA RightThenLeft ==
  ASSUME NEW s \in Seq(Byte), NEW set, NEW u, u = SubSeq(s, 1, Len(s) - Trailing(s, set))
  PROVE  \E m \in {SubSeq(s, q, Len(s)) : q \in 1..Len(s) + 1} :
           /\ EditedText!IsLTrimmed(s, m, set)
           /\ EditedText!IsRTrimmed(m, SubSeq(u, Leading(u, set) + 1, Len(u)), set)
PROOF
<1> DEFINE x == Trailing(s, set)
           n == Len(s) - x
           k == Leading(u, set)
<1>1. /\ Len(s) \in Nat /\ x \in 0..Len(s)
      /\ \A i \in Len(s) - x + 1..Len(s) : s[i] \in set
      /\ x = Len(s) \/ s[Len(s) - x] \notin set
  BY LenProperties, TrailingBytes
<1> HIDE DEF x
<1>2. /\ n \in 0..Len(s) /\ (n = 0 \/ s[n] \notin set)
      /\ \A i \in n + 1..Len(s) : s[i] \in set
  BY <1>1
<1>3. u = SubSeq(s, 1, n)
  BY DEF x
<1> HIDE DEF n
<1>4. u \in Seq(Byte) /\ Len(u) = n /\ \A i \in 1..n : u[i] = s[i]
  <2>1. 1 \in 1..Len(s) + 1 /\ n \in 1 - 1..Len(s) /\ n - 1 + 1 = n
        /\ \A i \in Int : 1 + i - 1 = i
    BY <1>1, <1>2
  <2> DEFINE v == SubSeq(s, 1, n)
  <2>2. /\ v \in Seq(Byte) /\ Len(v) = n - 1 + 1
        /\ \A i \in 1..n - 1 + 1 : v[i] = s[1 + i - 1]
    BY <2>1, SubSeqFacts
  <2> HIDE DEF v
  <2>3. v \in Seq(Byte) /\ Len(v) = n /\ \A i \in 1..n : v[i] = s[i]
    BY <2>1, <2>2
  <2> QED
    BY <1>3, <2>3 DEF v
<1>5. /\ k \in 0..n
      /\ \A i \in 1..k : u[i] \in set
      /\ k = n \/ u[k + 1] \notin set
  BY <1>4, LeadingBytes
<1> HIDE DEF k
<1>6. /\ n \in Nat /\ k \in Nat /\ k <= n
      /\ \A i \in 1..k : i \in 1..n
      /\ k # n => k + 1 \in 1..n
  BY <1>2, <1>5
<1>7. \A i \in 1..k : s[i] \in set
  BY <1>4, <1>5, <1>6
<1>8. k = n \/ s[k + 1] \notin set
  BY <1>4, <1>5, <1>6
<1>9. SubSeq(u, k + 1, Len(u)) = SubSeq(s, k + 1, n)
  <2> DEFINE a == SubSeq(u, k + 1, n)
             b == SubSeq(s, k + 1, n)
  <2>1. k + 1 \in 1..Len(u) + 1 /\ n \in (k + 1) - 1..Len(u)
        /\ k + 1 \in 1..Len(s) + 1 /\ n \in (k + 1) - 1..Len(s)
    BY <1>1, <1>2, <1>4, <1>6
  <2>2. /\ a \in Seq(Byte) /\ Len(a) = n - (k + 1) + 1
        /\ \A i \in 1..n - (k + 1) + 1 : a[i] = u[k + 1 + i - 1]
    BY <1>4, <2>1, SubSeqFacts
  <2>3. /\ b \in Seq(Byte) /\ Len(b) = n - (k + 1) + 1
        /\ \A i \in 1..n - (k + 1) + 1 : b[i] = s[k + 1 + i - 1]
    BY <2>1, SubSeqFacts
  <2> HIDE DEF a, b
  <2>4. ASSUME NEW i \in 1..n - (k + 1) + 1
        PROVE  a[i] = b[i]
    <3>1. k + 1 + i - 1 \in 1..n
      BY <1>6
    <3> QED
      BY <1>4, <2>2, <2>3, <3>1
  <2>5. a = b
    BY <2>2, <2>3, <2>4, SeqEqual
  <2> QED
    BY <1>4, <2>5 DEF a, b
<1>10. \E m \in {SubSeq(s, q, Len(s)) : q \in 1..Len(s) + 1} :
         /\ EditedText!IsLTrimmed(s, m, set)
         /\ EditedText!IsRTrimmed(m, SubSeq(s, k + 1, n), set)
  BY <1>2, <1>5, <1>7, <1>8, TrimCommutes
<1> QED
  BY <1>9, <1>10 DEF k

LEMMA TrimDoes ==
  ASSUME IInv, buf.ok, NEW set \in SUBSET Byte, NEW b \in buffer_trim(buf, set)
  PROVE  Does(TrimRequest("trim", set), b)
PROOF
<1> DEFINE r == TrimRequest("trim", set)
           s == Text(buf)
           rl == buffer_rtrim(buffer_ltrim(buf, set), set)
           lr == buffer_ltrim(buffer_rtrim(buf, set), set)
<1>1. r \in Request /\ r.call = "trim" /\ r.set = set
  BY TrimRequests
<1>2. s \in Seq(Byte) /\ jemalloc \in BOOLEAN /\ Sound(buf)
  BY TextIsSeq DEF IInv, Sound
<1>3. b = rl \/ b = lr
  BY DEF buffer_trim
<1> HIDE DEF r, s
<1>4. CASE b = rl
  <2> DEFINE x == buffer_ltrim(buf, set)
             k == Leading(s, set)
             m == SubSeq(s, k + 1, Len(s))
  <2>1. Edited(buf, x) /\ (x.ok => Text(x) = m)
    BY <1>2, LtrimEdits DEF s
  <2>2. CASE ~x.ok
    <3>1. b = x
      BY <1>4, <2>2, TrimAborted
    <3> QED
      BY <1>1, <2>1, <2>2, <3>1 DEF Does, r
  <2>3. CASE x.ok
    <3> HIDE DEF x
    <3>1. Sound(x)
      BY <2>1 DEF Edited
    <3>2. /\ Edited(x, b)
          /\ b.ok => Text(b) = SubSeq(Text(x), 1, Len(Text(x)) - Trailing(Text(x), set))
      BY <1>2, <1>4, <2>3, <3>1, RtrimEdits DEF x
    <3>3. Edited(buf, b)
      BY <1>2, <2>1, <2>3, <3>2, EditedTwice
    <3>4. m \in Seq(Byte) /\ EditedText!IsLTrimmed(s, m, set)
      BY <1>2, LeadingTrimmed
    <3>5. m \in {SubSeq(s, n, Len(s)) : n \in 1..Len(s) + 1}
      <4>1. k + 1 \in 1..Len(s) + 1
        BY <1>2, LenProperties, LeadingBytes
      <4> QED
        BY <4>1
    <3> HIDE DEF m
    <3>6. b.ok => EditedText!IsRTrimmed(m, Text(b), set)
      BY <2>1, <2>3, <3>2, <3>4, TrailingTrimmed
    <3>7. b.ok => EditedText!Meaning(r, s, Text(b))
      BY <1>1, <3>4, <3>5, <3>6 DEF EditedText!Meaning
    <3> QED
      BY <1>1, <3>3, <3>7 DEF Does, r, s
  <2> QED
    BY <2>2, <2>3
<1>5. CASE b = lr
  <2> DEFINE x == buffer_rtrim(buf, set)
             m == SubSeq(s, 1, Len(s) - Trailing(s, set))
  <2>1. Edited(buf, x) /\ (x.ok => Text(x) = m)
    BY <1>2, RtrimEdits DEF s
  <2>2. CASE ~x.ok
    <3>1. b = x
      BY <1>5, <2>2, TrimAborted
    <3> QED
      BY <1>1, <2>1, <2>2, <3>1 DEF Does, r
  <2>3. CASE x.ok
    <3> HIDE DEF x
    <3>1. Sound(x)
      BY <2>1 DEF Edited
    <3>2. /\ Edited(x, b)
          /\ b.ok => Text(b) = SubSeq(Text(x), Leading(Text(x), set) + 1, Len(Text(x)))
      BY <1>2, <1>5, <2>3, <3>1, LtrimEdits DEF x
    <3>3. Edited(buf, b)
      BY <1>2, <2>1, <2>3, <3>2, EditedTwice
    <3>4. b.ok => \E q \in {SubSeq(s, n, Len(s)) : n \in 1..Len(s) + 1} :
                    EditedText!IsLTrimmed(s, q, set) /\ EditedText!IsRTrimmed(q, Text(b), set)
      BY <1>2, <2>1, <2>3, <3>2, RightThenLeft
    <3>5. b.ok => EditedText!Meaning(r, s, Text(b))
      BY <1>1, <3>4 DEF EditedText!Meaning
    <3> QED
      BY <1>1, <3>3, <3>5 DEF Does, r, s
  <2> QED
    BY <2>2, <2>3
<1> QED
  BY <1>3, <1>4, <1>5


-----------------------------------------------------------------------------
(* Every step.                                                             *)

LEMMA EndsInside ==
  ASSUME NEW n \in Nat, NEW p \in Ends(n)
  PROVE  p \in 0..n
PROOF
  BY DEF Ends

(* Appending a byte is a splice behind the text.                           *)
LEMMA AppendSplices ==
  ASSUME NEW s \in Seq(Byte), NEW c \in Byte
  PROVE  Append(s, c) = SubSeq(s, 1, Len(s)) \o <<c>> \o SubSeq(s, Len(s) + 0 + 1, Len(s))
PROOF
<1>1. Len(s) \in Nat /\ Len(s) + 0 + 1 = Len(s) + 1 /\ <<c>> \in Seq(Byte)
  BY LenProperties, BytesOfTexts
<1>2. SubSeq(s, 1, Len(s)) = s
  BY SubSeqFull
<1>3. SubSeq(s, Len(s) + 1, Len(s)) = <<>>
  BY <1>1, SubSeqEmpty
<1>4. s \o <<c>> \in Seq(Byte) /\ s \o <<c>> = Append(s, c)
  BY <1>1, ConcatProperties, AppendIsConcat
<1>5. (s \o <<c>>) \o <<>> = s \o <<c>>
  BY <1>4, ConcatEmptySeq
<1> QED
  BY <1>1, <1>2, <1>3, <1>4, <1>5

(* What a step of the client is: a call that edits, one that attaches the  *)
(* buffer to a literal, or none.                                           *)
Edits == \E r \in Request : \E b : Does(r, b) /\ Call(r, b) /\ Keep
Attaches == \E s \in Seq(Byte) : Call(SetRequest(s), BUFFER_INITSTR(s)) /\ origin' = s

LEMMA StepIsCall ==
  ASSUME IInv, EditorNext
  PROVE  Edits \/ Attaches \/ UNCHANGED editorVars
PROOF
<1>1. /\ jemalloc \in BOOLEAN /\ Sound(buf) /\ buf.length \in Nat
      /\ Text(buf) \in Seq(Byte) /\ Len(Text(buf)) = buf.length
  BY TextIsSeq DEF IInv, Sound
<1>2. \A s \in Texts : s \in Seq(Byte)
  BY BytesOfTexts
<1>3. \A c \in Byte \ {Nul} : c \in Byte /\ <<c>> \in Seq(Byte)
  BY BytesOfTexts
<1>4. \A r, b : Does(r, b) /\ Call(r, b) /\ Keep => Edits
  BY DEF Edits, Does
<1>5. ASSUME NEW s \in Texts, Splice(s)
      PROVE  Edits
  <2>1. PICK pos \in Ends(buf.length) : \E rem \in Ends(buf.length - pos) :
          Call(SpliceRequest(pos, rem, s), buffer_splice(buf, pos, rem, s)) /\ Keep
    BY <1>5 DEF Splice
  <2>2. PICK rem \in Ends(buf.length - pos) :
          Call(SpliceRequest(pos, rem, s), buffer_splice(buf, pos, rem, s)) /\ Keep
    BY <2>1
  <2>3. pos \in 0..buf.length
    BY <1>1, EndsInside
  <2>4. rem \in 0..buf.length - pos
    <3>1. buf.length - pos \in Nat
      BY <1>1, <2>3
    <3> QED
      BY <3>1, EndsInside
  <2> DEFINE b == buffer_splice(buf, pos, rem, s)
  <2>5. buf.ok
    BY <2>2 DEF Call
  <2>6. Edited(buf, b)
    BY <1>1, <1>2, <2>3, <2>4, <2>5, SpliceEdits, SoundIsHeld
  <2>7. b.ok => Text(b) = SubSeq(Text(buf), 1, pos) \o s
                            \o SubSeq(Text(buf), pos + rem + 1, Len(Text(buf)))
    BY <1>1, <1>2, <2>3, <2>4, <2>5, SpliceText
  <2> HIDE DEF b
  <2>8. Does(SpliceRequest(pos, rem, s), b)
    BY <1>2, <2>3, <2>4, <2>5, <2>6, <2>7, SpliceDoes
  <2> QED
    BY <1>4, <2>2, <2>8 DEF b
<1>6. ASSUME NEW s \in Texts, SetStr(s)
      PROVE  Edits
  <2>1. buf.ok
    BY <1>6 DEF SetStr, Call
  <2>2. /\ Edited(buf, buffer_str(buf, s))
        /\ buffer_str(buf, s).ok => Text(buffer_str(buf, s)) = s
    BY <1>1, <1>2, <2>1, StrEdits
  <2>3. Does(SetRequest(s), buffer_str(buf, s))
    BY <1>2, <2>2, SetDoes
  <2> QED
    BY <1>4, <1>6, <2>3 DEF SetStr
<1>7. ASSUME NEW s \in Texts, Attach(s)
      PROVE  Attaches
  BY <1>2, <1>7 DEF Attach, Attaches
<1>8. ASSUME NEW s \in Texts, NEW guess \in Guesses, InsertFmt(guess, s)
      PROVE  Edits
  <2>1. PICK pos \in Ends(buf.length) :
          Call(SpliceRequest(pos, 0, s), buffer_insertvfmt(buf, pos, guess, s)) /\ Keep
    BY <1>8 DEF InsertFmt
  <2>2. pos \in 0..buf.length /\ guess \in Nat /\ 0 \in 0..buf.length - pos
    <3>1. pos \in 0..buf.length
      BY <1>1, EndsInside
    <3> QED
      BY <1>1, <3>1, EditorAssumption
  <2> DEFINE b == buffer_insertvfmt(buf, pos, guess, s)
  <2>3. buf.ok
    BY <2>1 DEF Call
  <2>4. /\ Edited(buf, b)
        /\ b.ok => Text(b) = SubSeq(Text(buf), 1, pos) \o s
                               \o SubSeq(Text(buf), pos + 0 + 1, Len(Text(buf)))
    BY <1>1, <1>2, <2>2, <2>3, InsertvfmtEdits
  <2> HIDE DEF b
  <2>5. Does(SpliceRequest(pos, 0, s), b)
    BY <1>2, <2>2, <2>3, <2>4, SpliceDoes
  <2> QED
    BY <1>4, <2>1, <2>5 DEF b
<1>9. ASSUME NEW s \in Texts, NEW guess \in Guesses, SetFmt(guess, s)
      PROVE  Edits
  <2>1. buf.ok /\ guess \in Nat
    BY <1>9, EditorAssumption DEF SetFmt, Call
  <2>2. /\ Edited(buf, buffer_vfmt(buf, guess, s))
        /\ buffer_vfmt(buf, guess, s).ok => Text(buffer_vfmt(buf, guess, s)) = s
    BY <1>1, <1>2, <2>1, VfmtEdits
  <2>3. Does(SetRequest(s), buffer_vfmt(buf, guess, s))
    BY <1>2, <2>2, SetDoes
  <2> QED
    BY <1>4, <1>9, <2>3 DEF SetFmt
<1>10. ASSUME NEW c \in Byte \ {Nul}, AppendC(c)
       PROVE  Edits
  <2> DEFINE b == buffer_appendc(buf, c)
  <2>1. buf.ok
    BY <1>10 DEF AppendC, Call
  <2>2. Edited(buf, b) /\ (b.ok => Text(b) = Append(Text(buf), c))
    BY <1>1, <1>3, <2>1, AppendcEdits, SoundIsHeld
  <2> HIDE DEF b
  <2>3. Append(Text(buf), c) = SubSeq(Text(buf), 1, buf.length) \o <<c>>
                                 \o SubSeq(Text(buf), buf.length + 0 + 1, Len(Text(buf)))
    BY <1>1, <1>3, AppendSplices
  <2>4. buf.length \in 0..buf.length /\ 0 \in 0..buf.length - buf.length
    BY <1>1
  <2>5. Does(SpliceRequest(buf.length, 0, <<c>>), b)
    BY <1>3, <2>1, <2>2, <2>3, <2>4, SpliceDoes
  <2> QED
    BY <1>4, <1>10, <2>5 DEF AppendC, b
<1>11. ASSUME NEW c \in Byte \ {Nul}, SetC(c)
       PROVE  Edits
  <2>1. buf.ok
    BY <1>11 DEF SetC, Call
  <2>2. /\ Edited(buf, buffer_c(buf, c))
        /\ buffer_c(buf, c).ok => Text(buffer_c(buf, c)) = <<c>>
    BY <1>1, <1>3, <2>1, CEdits
  <2>3. Does(SetRequest(<<c>>), buffer_c(buf, c))
    BY <1>3, <2>2, SetDoes
  <2> QED
    BY <1>4, <1>11, <2>3 DEF SetC
<1>12. \A set \in TrimSets : set \in SUBSET Byte
  BY EditorAssumption
<1>13. ASSUME NEW set \in TrimSets, LTrim(set) \/ RTrim(set) \/ Trim(set)
       PROVE  Edits
  <2>1. CASE LTrim(set)
    BY <1>4, <1>12, <2>1, LTrimDoes DEF LTrim, Call
  <2>2. CASE RTrim(set)
    BY <1>4, <1>12, <2>2, RTrimDoes DEF RTrim, Call
  <2>3. CASE Trim(set)
    <3>1. PICK b \in buffer_trim(buf, set) : Call(TrimRequest("trim", set), b) /\ Keep
      BY <2>3 DEF Trim
    <3>2. buf.ok
      BY <3>1 DEF Call
    <3>3. Does(TrimRequest("trim", set), b)
      BY <1>12, <3>2, TrimDoes
    <3> QED
      BY <1>4, <3>1, <3>3
  <2> QED
    BY <1>13, <2>1, <2>2, <2>3
<1>14. CASE Detach
  <2>1. <<>> \in Seq(Byte)
    OBVIOUS
  <2> QED
    BY <1>14, <2>1 DEF Detach, Attaches, BUFFER_INIT
<1>15. CASE Stopped
  BY <1>15 DEF Stopped
<1> QED
  BY <1>5, <1>6, <1>7, <1>8, <1>9, <1>10, <1>11, <1>13, <1>14, <1>15 DEF EditorNext

LEMMA NextKeeps == IInv /\ [EditorNext]_editorVars => IInv'
PROOF
<1> SUFFICES ASSUME IInv, [EditorNext]_editorVars
             PROVE  IInv'
  OBVIOUS
<1>1. CASE Edits
  <2>1. PICK r \in Request : \E b : Does(r, b) /\ Call(r, b) /\ Keep
    BY <1>1 DEF Edits
  <2>2. PICK b : Does(r, b) /\ Call(r, b) /\ Keep
    BY <2>1
  <2> QED
    BY <2>2, EditKeeps DEF Does
<1>2. CASE Attaches
  <2>1. PICK s \in Seq(Byte) : Call(SetRequest(s), BUFFER_INITSTR(s)) /\ origin' = s
    BY <1>2 DEF Attaches
  <2> QED
    BY <2>1, AttachKeeps
<1>3. CASE UNCHANGED editorVars
  BY <1>3 DEF IInv, editorVars, Sound, AbortsOnlyUnowned, UnownedIsUntouched,
              TextNeedsUsableSize, Text
<1> QED
  BY <1>1, <1>2, <1>3, StepIsCall

(* Whatever is called in whatever order, the buffer stays sound.           *)
THEOREM BufferInvariant == EditorSpec => []IInv
PROOF
  BY InitEstablishes, NextKeeps, PTL DEF EditorSpec


(* No call of buffer.c writes or reads outside of the block or leaves the  *)
(* text unterminated or with a byte that was never stored.                 *)
THEOREM EditedBlockOK == EditorSpec => []BlockOK
PROOF
<1>1. IInv => BlockOK
  BY DEF IInv, Sound, Allocated, TextStored, Terminated, BlockOK
<1> QED
  BY <1>1, BufferInvariant, PTL

(* The assertion of buffer_setlen fails only over a block that is not      *)
(* owned, and with jemalloc only over a literal that is not empty.         *)
THEOREM EditedAbortsOnlyUnowned == EditorSpec => []AbortsOnlyUnowned
PROOF
<1>1. IInv => AbortsOnlyUnowned
  BY DEF IInv
<1> QED
  BY <1>1, BufferInvariant, PTL

(* buffer_editable and array_grow copy a literal before it is edited.      *)
THEOREM LiteralsAreUntouched == EditorSpec => []UnownedIsUntouched
PROOF
<1>1. IInv => UnownedIsUntouched
  BY DEF IInv
<1> QED
  BY <1>1, BufferInvariant, PTL

(* In the build without jemalloc no call but an attachment leaves a byte   *)
(* in a buffer without an assertion failing.                               *)
THEOREM TextNeedsAllocatorSizes == EditorSpec => []TextNeedsUsableSize
PROOF
<1>1. IInv => TextNeedsUsableSize
  BY DEF IInv
<1> QED
  BY <1>1, BufferInvariant, PTL

-----------------------------------------------------------------------------
(* The text.                                                               *)

LEMMA InitIsText == EditorInit => EditedText!TextInit
PROOF
<1> SUFFICES ASSUME EditorInit
             PROVE  EditedText!TextInit
  OBVIOUS
<1>1. ASSUME NEW s \in Seq(Byte), buf.ok, Text(buf) = s, request = SetRequest(s)
      PROVE  EditedText!TextInit
  <2>1. request \in Request /\ request.call = "set" /\ request.str = s
    BY <1>1 DEF SetRequest, Request
  <2> QED
    BY <1>1, <2>1 DEF EditedText!TextInit
<1>2. ASSUME NEW s \in Texts, buf = BUFFER_INITSTR(s), request = SetRequest(s)
      PROVE  EditedText!TextInit
  <2>1. s \in Seq(Byte)
    BY BytesOfTexts
  <2>2. buf.ok /\ Text(buf) = s
    BY <1>2, <2>1, LiteralSound
  <2> QED
    BY <1>1, <1>2, <2>1, <2>2
<1>3. ASSUME NEW len \in Guesses, buf = buffer_init(len), request = SetRequest(<<>>)
      PROVE  EditedText!TextInit
  <2>1. <<>> \in Seq(Byte) /\ Len(<<>>) = 0
    OBVIOUS
  <2>2. /\ Sound(BUFFER_INIT) /\ BUFFER_INIT.ok /\ BUFFER_INIT.length = 0
    BY <2>1, LiteralSound DEF BUFFER_INIT
  <2>3. buf.ok /\ buf.length = 0
    <3>1. CASE ~(len > 0)
      BY <1>3, <2>2, <3>1 DEF buffer_init
    <3>2. CASE len > 0
      <4> DEFINE g == array_grow(BUFFER_INIT, len)
      <4>1. jemalloc \in BOOLEAN /\ len \in Nat
        BY EditorAssumption DEF EditorInit
      <4>2. Grown(BUFFER_INIT, len, g)
        BY <2>2, <4>1, GrowKeeps DEF Sound
      <4>3. buf = g
        BY <1>3, <3>2 DEF buffer_init
      <4> HIDE DEF g
      <4> QED
        BY <2>2, <4>2, <4>3 DEF Grown
    <3> QED
      BY <3>1, <3>2
  <2>4. Text(buf) = <<>>
    <3>1. IInv
      BY InitEstablishes
    <3> QED
      BY <2>3, <3>1, NoText DEF IInv
  <2> QED
    BY <1>1, <1>3, <2>1, <2>3, <2>4
<1> QED
  BY <1>2, <1>3 DEF EditorInit

LEMMA StepIsText ==
  ASSUME IInv, [EditorNext]_editorVars
  PROVE  [EditedText!TextNext]_(EditedText!textVars)
PROOF
<1>1. ASSUME NEW r \in Request, NEW b, Call(r, b),
             b.ok => EditedText!Meaning(r, Text(buf), Text(b))
      PROVE  EditedText!TextNext
  <2>1. buf.ok /\ buf' = b /\ request' = r /\ Text(buf)' = Text(b)
    BY <1>1 DEF Call, Text
  <2>2. CASE b.ok
    BY <1>1, <2>1, <2>2 DEF EditedText!TextNext
  <2>3. CASE ~b.ok
    BY <1>1, <2>1, <2>3 DEF EditedText!TextNext
  <2> QED
    BY <2>2, <2>3
<1>2. CASE Edits
  <2>1. PICK r \in Request : \E b : Does(r, b) /\ Call(r, b) /\ Keep
    BY <1>2 DEF Edits
  <2>2. PICK b : Does(r, b) /\ Call(r, b) /\ Keep
    BY <2>1
  <2> QED
    BY <1>1, <2>2 DEF Does
<1>3. CASE Attaches
  <2>1. PICK s \in Seq(Byte) : Call(SetRequest(s), BUFFER_INITSTR(s)) /\ origin' = s
    BY <1>3 DEF Attaches
  <2> DEFINE r == SetRequest(s)
  <2>2. r \in Request /\ r.call = "set" /\ r.str = s
    BY DEF SetRequest, Request
  <2>3. Text(BUFFER_INITSTR(s)) = s
    BY LiteralSound
  <2> HIDE DEF r
  <2>4. EditedText!Meaning(r, Text(buf), Text(BUFFER_INITSTR(s)))
    BY <2>2, <2>3 DEF EditedText!Meaning
  <2> QED
    BY <1>1, <2>1, <2>2, <2>4 DEF r
<1>4. CASE UNCHANGED editorVars
  BY <1>4 DEF editorVars, EditedText!textVars, Text
<1> QED
  BY <1>2, <1>3, <1>4, StepIsCall

(* Every call of buffer.c does to the text what it is for, wherever the    *)
(* bytes are moved and whatever is reallocated, or ends in an assertion.   *)
THEOREM BufferImplementsText == EditorSpec => ImplementsText
PROOF
<1>1. EditorInit => EditedText!TextInit
  BY InitIsText
<1>2. IInv /\ [EditorNext]_editorVars => [EditedText!TextNext]_(EditedText!textVars)
  BY StepIsText
<1> QED
  BY <1>1, <1>2, BufferInvariant, PTL DEF EditorSpec, ImplementsText, EditedText!TextSpec

=============================================================================
