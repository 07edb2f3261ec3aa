----------------------------- MODULE MemBuffer -----------------------------
(***************************************************************************)
(* The bundled mem library: growable blocks (array.h, alloc.c) and the     *)
(* byte buffer built on them (buffer.h, buffer.c), as operators that take  *)
(* a buffer and give the buffer the call leaves behind.                    *)
(*                                                                         *)
(* A block is a function on the offsets that exist; a write behind its end *)
(* makes the function larger than the size the allocator gave, which is    *)
(* what BlockOK of MemEditor looks for.  Allocation does not fail.         *)
(***************************************************************************)
EXTENDS Integers, Sequences

CONSTANTS
  Byte,   \* the values of a char
  Nul,    \* '\0'
  Junk    \* what a fresh block holds

VARIABLE
  jemalloc   \* whether the build defines HAVE_JEMALLOC

ASSUME ByteAssumption == Nul \in Byte /\ Junk \notin Byte

(* The bytes of a block that holds s and its terminator.                   *)
Block(s) == [i \in 0..Len(s) |-> IF i < Len(s) THEN s[i + 1] ELSE Nul]

(* A buffer_t, the size of the block it points to, and whether every       *)
(* assertion has held so far.                                              *)
BUFFER_INITSTR(s) ==
  [data |-> Block(s), length |-> Len(s), alloc |-> 0, size |-> Len(s) + 1, ok |-> TRUE]

BUFFER_INIT == BUFFER_INITSTR(<<>>)

(* The bytes in front of the length.                                       *)
Text(b) == [i \in 1..b.length |-> b.data[i - 1]]

-----------------------------------------------------------------------------
(* Memory.                                                                 *)

Write(d, pos, s) ==
  [i \in DOMAIN d \cup pos..pos + Len(s) - 1 |->
     IF pos <= i /\ i < pos + Len(s) THEN s[i - pos + 1] ELSE d[i]]

memmove(d, to, from, n) ==
  [i \in DOMAIN d \cup to..to + n - 1 |->
     IF to <= i /\ i < to + n THEN d[from + i - to] ELSE d[i]]

REALLOC_SIZE(s) == ((s + 16) \div 8) * 13

(* jemalloc reports the size class it serves a request from; the macro     *)
(* that stands in for it reports 0, and the block is what malloc was asked *)
(* for.                                                                    *)
UsableSize(request) == ((request + 15) \div 16) * 16
BlockSize(request) == IF jemalloc THEN UsableSize(request) ELSE request

(* Fault: every build knows the size of its blocks.                        *)
je_malloc_usable_size_known(request) == BlockSize(request)

je_malloc_usable_size(request) == IF jemalloc THEN UsableSize(request) ELSE 0

(* Fault: no byte is reserved for the terminator.                          *)
Needed_unterminated(b, len) == IF len > b.length THEN len ELSE b.length

Needed(b, len) == (IF len > b.length THEN len ELSE b.length) + 1

(* array_grow and grow: a block that is large enough is kept, an own one   *)
(* is reallocated, and one that is not owned is copied up to its           *)
(* terminator.                                                             *)
array_grow(b, len) ==
  LET request == REALLOC_SIZE(Needed(b, len))
      kept    == IF b.alloc = 0 THEN b.length + 1 ELSE b.size
  IN IF Needed(b, len) <= b.alloc THEN b
     ELSE [b EXCEPT !.size  = BlockSize(request),
                    !.alloc = je_malloc_usable_size(request),
                    !.data  = [i \in 0..BlockSize(request) - 1 |->
                                 IF i < kept THEN b.data[i] ELSE Junk]]

-----------------------------------------------------------------------------
(* The buffer.                                                             *)

buffer_init(len) == IF len > 0 THEN array_grow(BUFFER_INIT, len) ELSE BUFFER_INIT

(* Fault: a block that is not owned is edited in place.                    *)
buffer_editable_in_place(b) == b

buffer_editable(b) == IF b.alloc = 0 THEN array_grow(b, b.length) ELSE b

(* Fault: the terminator is not written.                                   *)
buffer_setlen_unterminated(b, len) ==
  IF len <= (IF b.alloc > 0 THEN b.alloc - 1 ELSE 0)
  THEN [b EXCEPT !.length = len]
  ELSE [b EXCEPT !.ok = FALSE]

buffer_setlen(b, len) ==
  IF len <= (IF b.alloc > 0 THEN b.alloc - 1 ELSE 0)
  THEN [b EXCEPT !.length = len, !.data = Write(b.data, len, <<Nul>>)]
  ELSE [b EXCEPT !.ok = FALSE]

(* Fault: the bytes behind the removed ones are moved one byte short.      *)
Moved_short(b, pos, diff) ==
  IF diff > 0
  THEN LET g == array_grow(b, b.length + diff)
       IN [g EXCEPT !.data = memmove(g.data, pos + diff, pos, b.length - pos)]
  ELSE IF diff < 0
  THEN LET g == buffer_editable(b)
       IN [g EXCEPT !.data = memmove(g.data, pos, pos - diff, b.length - pos + diff - 1)]
  ELSE b

(* The bytes from pos on make room for diff more, or close up.             *)
Moved(b, pos, diff) ==
  IF diff > 0
  THEN LET g == array_grow(b, b.length + diff)
       IN [g EXCEPT !.data = memmove(g.data, pos + diff, pos, b.length - pos)]
  ELSE IF diff < 0
  THEN LET g == buffer_editable(b)
       IN [g EXCEPT !.data = memmove(g.data, pos, pos - diff, b.length - pos + diff)]
  ELSE b

buffer_splice(b, pos, rem, s) ==
  LET m == Moved(b, pos, Len(s) - rem)
  IN IF ~b.ok THEN b
     ELSE buffer_setlen([m EXCEPT !.data = Write(m.data, pos, s)], b.length + Len(s) - rem)

buffer_append(b, s) == buffer_splice(b, b.length, 0, s)

buffer_str(b, s) ==
  LET g == array_grow(b, Len(s))
  IN buffer_setlen([g EXCEPT !.data = Write(g.data, 0, s)], Len(s))

buffer_c(b, c) ==
  LET g == array_grow(b, 1)
  IN buffer_setlen([g EXCEPT !.data = Write(g.data, 0, <<c, Nul>>)], 1)

buffer_appendc(b, c) ==
  LET g == array_grow(b, b.length + 1)
  IN buffer_setlen([g EXCEPT !.data = Write(g.data, b.length, <<c>>)], b.length + 1)

(* vsnprintf writes what fits in front of a terminator.                    *)
vsnprintf(b, s) ==
  IF b.alloc = 0 THEN b
  ELSE LET n == IF Len(s) < b.alloc THEN Len(s) ELSE b.alloc - 1
       IN [b EXCEPT !.data = Write(b.data, 0, Append(SubSeq(s, 1, n), Nul))]

(* The size is guessed from the format, and s is printed a second time if  *)
(* the guess was too small.                                                *)
buffer_vfmt(b, guess, s) ==
  LET first  == vsnprintf(array_grow(b, guess), s)
      second == vsnprintf(array_grow(first, Len(s)), s)
  IN buffer_setlen(IF Len(s) >= first.alloc THEN second ELSE first, Len(s))

(* The text is printed to a buffer of its own.                             *)
buffer_insertvfmt(b, pos, guess, s) ==
  LET tmp == buffer_vfmt(BUFFER_INIT, guess, s)
  IN IF tmp.ok THEN buffer_splice(b, pos, 0, Text(tmp)) ELSE [b EXCEPT !.ok = FALSE]

-----------------------------------------------------------------------------
(* Trimming.                                                               *)

(* How many bytes of s are in set before the first that is not.            *)
Leading(s, set) ==
  CHOOSE n \in 0..Len(s) :
    /\ \A i \in 1..n : s[i] \in set
    /\ n = Len(s) \/ s[n + 1] \notin set

Trailing(s, set) ==
  CHOOSE n \in 0..Len(s) :
    /\ \A i \in Len(s) - n + 1..Len(s) : s[i] \in set
    /\ n = Len(s) \/ s[Len(s) - n] \notin set

buffer_ltrim(b, set) == buffer_splice(b, 0, Leading(Text(b), set), <<>>)

buffer_rtrim(b, set) ==
  LET n == Trailing(Text(b), set) IN buffer_splice(b, b.length - n, n, <<>>)

(* The operands of + in buffer_trim may be evaluated in either order.      *)
buffer_trim(b, set) == {buffer_rtrim(buffer_ltrim(b, set), set),
                        buffer_ltrim(buffer_rtrim(b, set), set)}

=============================================================================
