----------------------------- MODULE MemEditor -----------------------------
(***************************************************************************)
(* A client that edits one buffer with every call of buffer.c, in either   *)
(* build of the library.  The calls that only name a position or measure a *)
(* string for buffer_splice are one action, Splice.                        *)
(***************************************************************************)
EXTENDS MemBuffer

CONSTANTS
  Texts,     \* the strings the client passes
  Guesses,   \* sizes guessed from formats
  TrimSets,  \* sets of bytes to trim
  Margin,    \* how far from either end of a text the client edits it
  MaxCalls   \* bound on the calls of a behaviour

VARIABLES
  buf,      \* the buffer
  origin,   \* the literal it was last attached to
  request,  \* the last call
  calls     \* number of calls so far

editorVars == <<jemalloc, buf, origin, request, calls>>

ASSUME TextsAssumption == Texts \subseteq Seq(Byte \ {Nul})
ASSUME EditorAssumption ==
  /\ Guesses \subseteq Nat /\ TrimSets \subseteq SUBSET Byte
  /\ MaxCalls \in Nat /\ Margin \in Nat

SpliceRequest(pos, rem, s) == [call |-> "splice", pos |-> pos, rem |-> rem, str |-> s]
SetRequest(s) == [call |-> "set", str |-> s]
TrimRequest(call, set) == [call |-> call, set |-> set]

Request ==
  [call : {"splice"}, pos : Nat, rem : Nat, str : Seq(Byte)]
    \cup [call : {"set"}, str : Seq(Byte)]
    \cup [call : {"ltrim", "rtrim", "trim"}, set : SUBSET Byte]

(* A buffer that points to a literal, or an empty one with len bytes       *)
(* reserved.                                                               *)
EditorInit ==
  /\ jemalloc \in BOOLEAN
  /\ \/ \E s \in Texts : buf = BUFFER_INITSTR(s) /\ origin = s /\ request = SetRequest(s)
     \/ \E len \in Guesses : buf = buffer_init(len) /\ origin = <<>> /\ request = SetRequest(<<>>)
  /\ calls = 0

Call(r, b) ==
  /\ buf.ok /\ calls < MaxCalls
  /\ buf' = b /\ request' = r /\ calls' = calls + 1
  /\ UNCHANGED jemalloc

Keep == UNCHANGED origin

(* The positions within Margin of either end of n bytes.                   *)
Ends(n) == {p \in 0..n : p <= Margin \/ n - p <= Margin}

(* buffer_remove, buffer_insert, buffer_append and their variants for      *)
(* strings, buffers and one byte.                                          *)
Splice(s) ==
  \E pos \in Ends(buf.length) : \E rem \in Ends(buf.length - pos) :
    Call(SpliceRequest(pos, rem, s), buffer_splice(buf, pos, rem, s)) /\ Keep

AppendC(c) ==
  Call(SpliceRequest(buf.length, 0, <<c>>), buffer_appendc(buf, c)) /\ Keep

InsertFmt(guess, s) ==
  \E pos \in Ends(buf.length) :
    Call(SpliceRequest(pos, 0, s), buffer_insertvfmt(buf, pos, guess, s)) /\ Keep

SetStr(s) == Call(SetRequest(s), buffer_str(buf, s)) /\ Keep
SetC(c) == Call(SetRequest(<<c>>), buffer_c(buf, c)) /\ Keep
SetFmt(guess, s) == Call(SetRequest(s), buffer_vfmt(buf, guess, s)) /\ Keep

LTrim(set) == Call(TrimRequest("ltrim", set), buffer_ltrim(buf, set)) /\ Keep
RTrim(set) == Call(TrimRequest("rtrim", set), buffer_rtrim(buf, set)) /\ Keep
Trim(set) == \E b \in buffer_trim(buf, set) : Call(TrimRequest("trim", set), b) /\ Keep

(* buffer_attach to a literal, and buffer_detach.                          *)
Attach(s) == Call(SetRequest(s), BUFFER_INITSTR(s)) /\ origin' = s
Detach == Call(SetRequest(<<>>), BUFFER_INIT) /\ origin' = <<>>

(* The process has ended, or the bound is reached.                         *)
Stopped == (~buf.ok \/ calls = MaxCalls) /\ UNCHANGED editorVars

EditorNext ==
  \/ \E s \in Texts : Splice(s) \/ SetStr(s) \/ Attach(s)
  \/ \E s \in Texts, guess \in Guesses : InsertFmt(guess, s) \/ SetFmt(guess, s)
  \/ \E c \in Byte \ {Nul} : AppendC(c) \/ SetC(c)
  \/ \E set \in TrimSets : LTrim(set) \/ RTrim(set) \/ Trim(set)
  \/ Detach
  \/ Stopped

EditorSpec == EditorInit /\ [][EditorNext]_editorVars

-----------------------------------------------------------------------------
(* Nothing is written or read outside of the block, the text holds no byte *)
(* that was never stored, and its terminator is in place.                  *)
BlockOK ==
  /\ DOMAIN buf.data = 0..buf.size - 1
  /\ buf.length < buf.size
  /\ buf.alloc \in {0, buf.size}
  /\ \A i \in 0..buf.length - 1 : buf.data[i] \in Byte
  /\ buf.ok => buf.data[buf.length] = Nul

(* The assertion of buffer_setlen ends the process only over a block the   *)
(* buffer does not own: with jemalloc, when a call replaces bytes of a     *)
(* literal by as many others, which no test does.                          *)
AbortsOnlyUnowned ==
  ~buf.ok => buf.alloc = 0 /\ (jemalloc => buf.length > 0)

(* A literal is never edited in place: it is copied first.                 *)
UnownedIsUntouched ==
  jemalloc /\ buf.ok /\ buf.alloc = 0 => buf.data = Block(origin)

(* Without jemalloc no block has a known size, and no call survives that   *)
(* would leave a byte in a buffer.                                         *)
TextNeedsUsableSize == ~jemalloc /\ buf.ok => Text(buf) \in {<<>>, origin}

(* Every call does to the text what it promises, whatever was reallocated, *)
(* or ends in an assertion.                                                *)
EditedText ==
  INSTANCE MemText WITH text <- IF buf.ok THEN Text(buf) ELSE <<>>, alive <- buf.ok
ImplementsText == EditedText!TextSpec

=============================================================================
