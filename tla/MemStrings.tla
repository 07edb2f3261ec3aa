---------------------------- MODULE MemStrings ----------------------------
(***************************************************************************)
(* strstack.c and strarray.c: the strings of a stack, one behind the       *)
(* other in one buffer, and an array of pointers to each of them.  The     *)
(* buffer moves when it grows, under every pointer that is kept into it.   *)
(***************************************************************************)
EXTENDS MemBuffer

CONSTANTS
  Strings,      \* the strings the client pushes
  Bases,        \* addresses the allocator may give the buffer's block
  PointerSize,  \* size of a pointer, in bytes
  MaxStrings,   \* bound on the strings of the stack
  MaxPushes     \* bound on the pushes of a behaviour

VARIABLES
  buf,     \* stack.buf
  base,    \* stack.buf.data, as an address
  top,     \* stack.top
  arr,     \* the array of pointers
  popped,  \* the pointer the last pop returned
  last,    \* the last call
  pushes   \* number of pushes so far

stringsVars == <<jemalloc, buf, base, top, arr, popped, last, pushes>>

ASSUME StringsAssumption == Strings \subseteq Seq(Byte \ {Nul}) /\ Strings # {}
ASSUME BasesAssumption == Bases \subseteq Nat /\ PointerSize \in Nat \ {0}
ASSUME BoundsAssumption == MaxStrings \in Nat /\ MaxPushes \in Nat

(* The address of the "" in STRSTACK_INIT.                                 *)
Elsewhere == 0 - 1

(* The string that stands at an address, and whether one does.             *)
TerminatorsFrom(p) == {e \in DOMAIN buf.data : p - base <= e /\ buf.data[e] = Nul}
Readable(p) == p >= base /\ TerminatorsFrom(p) # {}
CString(p) ==
  LET end == CHOOSE e \in TerminatorsFrom(p) : \A f \in TerminatorsFrom(p) : e <= f
  IN [i \in 1..base + end - p |-> buf.data[p - base + i - 1]]

-----------------------------------------------------------------------------
(* The array of pointers.                                                  *)

ARRAY_INIT == [data |-> <<>>, length |-> 0, alloc |-> 0]

PointersGrown(a, len) ==
  LET needed == ((IF len > a.length THEN len ELSE a.length) + 1) * PointerSize
      size   == BlockSize(REALLOC_SIZE(needed))
  IN IF needed <= a.alloc THEN a
     ELSE [a EXCEPT !.alloc = size,
                    !.data  = [i \in 0..size \div PointerSize - 1 |->
                                 IF i < a.length THEN a.data[i] ELSE Junk]]

array_push(a, p) ==
  LET g == PointersGrown(a, a.length + 1)
  IN [g EXCEPT !.data[a.length] = p, !.length = a.length + 1]

array_pop(a) == [a EXCEPT !.length = a.length - 1]

(* Fault: the pointers are left where they are.                            *)
strarray__rebuild_skipped(a, b) == a

(* All pointers follow a buffer that has moved to b; the first one tells   *)
(* how far.  What it reads there in an empty array does not matter.        *)
strarray__rebuild(a, b) ==
  IF a.length = 0 THEN a
  ELSE LET offset == a.data[0] - (b + 1)
       IN [a EXCEPT !.data = [i \in DOMAIN a.data |->
                                IF i < a.length THEN a.data[i] - offset ELSE a.data[i]]]

-----------------------------------------------------------------------------
(* The stack.                                                              *)

strstack_init ==
  /\ buf = buffer_setlen(buffer_init(8), 1)
  /\ top = base
  /\ arr = PointersGrown(ARRAY_INIT, 1)

STRSTACK_INIT ==
  /\ buf = BUFFER_INITSTR(<<Nul>>)
  /\ top = Elsewhere
  /\ arr = ARRAY_INIT

(* Without the sizes of jemalloc no string can be pushed (TextNeedsUsable- *)
(* Size of MemEditor).                                                     *)
StringsInit ==
  /\ jemalloc = TRUE
  /\ base \in Bases
  /\ strstack_init \/ STRSTACK_INIT
  /\ popped = Elsewhere /\ pushes = 0
  /\ last = [call |-> "init", str |-> <<>>]

Pushed(s) ==
  buffer_appendc(IF s = <<>> THEN buf ELSE buffer_append(buf, s), Nul)

(* Fault: the top is taken before the buffer grows.                        *)
PushedTop_early(b) == base + buf.length

PushedTop(b) == b + buf.length

(* strstack_push and strarray_push.  A block that has grown may have moved.*)
Push(s) ==
  /\ buf.ok /\ arr.length < MaxStrings /\ pushes < MaxPushes
  /\ buf' = Pushed(s)
  /\ base' \in IF buf'.size = buf.size THEN {base} ELSE Bases
  /\ top' = PushedTop(base')
  /\ arr' = array_push(strarray__rebuild(arr, base'), top')
  /\ last' = [call |-> "push", str |-> s]
  /\ pushes' = pushes + 1
  /\ UNCHANGED <<jemalloc, popped>>

(* Fault: the entry that is popped stays the top.                          *)
PreviousEntry_same(offset) ==
  CHOOSE o \in 0..offset :
    /\ o = 0 \/ buf.data[o - 1] = Nul
    /\ \A p \in o + 1..offset : buf.data[p - 1] # Nul

(* The last offset before this one that begins an entry.                   *)
PreviousEntry(offset) ==
  CHOOSE o \in 0..offset - 1 :
    /\ o = 0 \/ buf.data[o - 1] = Nul
    /\ \A p \in o + 1..offset - 1 : buf.data[p - 1] # Nul

(* Fault: the length is set with a terminator.                             *)
Shortened_terminated(offset) == buffer_setlen(buf, offset)

(* The popped bytes stay behind the length.                                *)
Shortened(offset) == [buf EXCEPT !.length = offset]

(* strstack_pop and strarray_pop; the length it gives out is that of the   *)
(* string in last.                                                         *)
Pop ==
  LET offset == top - base
      strlen == buf.length - offset - 1
  IN /\ buf.ok /\ arr.length > 0
     /\ buf' = Shortened(offset)
     /\ top' = base + PreviousEntry(offset)
     /\ popped' = top
     /\ last' = [call |-> "pop", str |-> [i \in 1..strlen |-> buf.data[offset + i - 1]]]
     /\ arr' = array_pop(arr)
     /\ UNCHANGED <<jemalloc, base, pushes>>

(* The bound is reached.                                                   *)
Finished == pushes = MaxPushes /\ arr.length = 0 /\ UNCHANGED stringsVars

StringsNext ==
  \/ \E s \in Strings : Push(s)
  \/ Pop
  \/ Finished

StringsSpec == StringsInit /\ [][StringsNext]_stringsVars

-----------------------------------------------------------------------------
(* The entries cover the buffer: the first follows its first byte, each    *)
(* ends where the next begins, and no two pointers share one.  The top,    *)
(* which strstack_pop seeks back without the array, is the last of them    *)
(* (src/src/mem/src/strstack.c:30-52).                                     *)
EntryEnd(k) == IF k < arr.length - 1 THEN arr.data[k + 1] ELSE base + buf.length
EntriesCover ==
  /\ buf.ok /\ buf.data[0] = Nul
  /\ arr.length = 0 => buf.length = 1
  /\ arr.length > 0 => arr.data[0] = base + 1
  /\ \A k \in 0..arr.length - 1 :
       /\ arr.data[k] < EntryEnd(k)
       /\ buf.data[EntryEnd(k) - 1 - base] = Nul
       /\ \A p \in arr.data[k]..EntryEnd(k) - 2 : buf.data[p - base] # Nul
  /\ IF arr.length > 0 THEN top = arr.data[arr.length - 1] ELSE top \in {base, Elsewhere}

(* The string a pop returns can be read until the next push, and would fit *)
(* behind the length again without moving the buffer.                      *)
PoppedReadable ==
  last.call = "pop" =>
    /\ Readable(popped) /\ CString(popped) = last.str
    /\ buf.length + Len(last.str) + 1 < buf.alloc

(* What the pointers of the array read is a stack: every string that is    *)
(* pushed stays what it was, wherever the buffer moves, until it is popped.*)
EntryStack ==
  INSTANCE MemStack WITH
    String  <- Strings,
    strings <- [k \in 1..arr.length |->
                  IF Readable(arr.data[k - 1]) THEN CString(arr.data[k - 1]) ELSE <<Junk>>]
ImplementsStack == EntryStack!StackSpec

=============================================================================
