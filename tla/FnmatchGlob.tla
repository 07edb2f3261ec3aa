---------------------------- MODULE FnmatchGlob ----------------------------
(***************************************************************************)
(* The reference: when a program matches a string.  The string is cut into *)
(* one piece per instruction, and each instruction accepts its piece.      *)
(* Strings are functions whose domain starts at 0, as in a buffer.         *)
(***************************************************************************)
EXTENDS FnmatchProgram

(* The instruction accepts the bytes from offset i up to offset j.         *)
Accepts(ins, s, i, j) ==
  \/ ins.op = "FIXED" /\ j = i + Len(ins.str)
                      /\ \A k \in 1..Len(ins.str) : s[i + k - 1] = ins.str[k]
  \/ ins.op = "CHARS" /\ j = i + 1 /\ s[i] \in ins.set
  \/ ins.op = "ONE"   /\ j = i + 1 /\ s[i] \notin {Sep, Nul}
  \/ ins.op = "ANY"   /\ i <= j /\ \A k \in i..j - 1 : s[k] \notin {Sep, Nul}
  \/ ins.op = "DEEP"  /\ i <= j
  \/ ins.op = "SEP"   /\ j = i + 1 /\ s[i] = Sep

(* The first n instructions of p accept the first o bytes of s.            *)
PathTo(p, s, n, o) ==
  \E cut \in [0..n -> 0..o] :
    /\ cut[0] = 0
    /\ cut[n] = o
    /\ \A k \in 1..n : Accepts(p[k], s, cut[k - 1], cut[k])

(* All instructions but END accept the first o bytes of s.                 *)
Globs(p, s, o) == PathTo(p, s, Len(p) - 1, o)

=============================================================================
