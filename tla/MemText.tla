------------------------------ MODULE MemText ------------------------------
(***************************************************************************)
(* What a buffer promises: a text, and for each call what becomes of it.   *)
(* The last call is part of the interface.  A call may also end the        *)
(* process in an assertion, which leaves nothing.                          *)
(***************************************************************************)
EXTENDS Integers, Sequences

CONSTANT Request   \* the calls

VARIABLES
  text,     \* the bytes, without their terminator
  request,  \* the last call
  alive     \* no assertion has failed

textVars == <<text, request, alive>>

(* The middle of s is replaced.                                            *)
Spliced(s, pos, rem, t) == SubSeq(s, 1, pos) \o t \o SubSeq(s, pos + rem + 1, Len(s))

(* t is s without its longest prefix, or suffix, of bytes in set.          *)
IsLTrimmed(s, t, set) ==
  \E n \in 0..Len(s) : /\ t = SubSeq(s, n + 1, Len(s))
                       /\ \A i \in 1..n : s[i] \in set
                       /\ t = <<>> \/ t[1] \notin set
IsRTrimmed(s, t, set) ==
  \E n \in 0..Len(s) : /\ t = SubSeq(s, 1, n)
                       /\ \A i \in n + 1..Len(s) : s[i] \in set
                       /\ t = <<>> \/ t[n] \notin set

(* What a call r may make of the text s.                                   *)
Meaning(r, s, t) ==
  \/ r.call = "splice" /\ t = Spliced(s, r.pos, r.rem, r.str)
  \/ r.call = "set"    /\ t = r.str
  \/ r.call = "ltrim"  /\ IsLTrimmed(s, t, r.set)
  \/ r.call = "rtrim"  /\ IsRTrimmed(s, t, r.set)
  \/ r.call = "trim"   /\ \E m \in {SubSeq(s, n, Len(s)) : n \in 1..Len(s) + 1} :
                            IsLTrimmed(s, m, r.set) /\ IsRTrimmed(m, t, r.set)

TextInit ==
  /\ request \in Request /\ request.call = "set"
  /\ text = request.str
  /\ alive = TRUE

TextNext ==
  /\ alive
  /\ request' \in Request
  /\ \/ alive' = TRUE  /\ Meaning(request', text, text')
     \/ alive' = FALSE /\ text' = <<>>

TextSpec == TextInit /\ [][TextNext]_textVars

=============================================================================
