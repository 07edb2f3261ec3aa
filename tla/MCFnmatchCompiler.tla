-------------------------- MODULE MCFnmatchCompiler --------------------------
(* Every pattern of up to four bytes, and every bracket expression of up   *)
(* to three, over bytes that mean something to the compiler, two letters   *)
(* and the one between them.  Literals are cut behind three bytes.         *)
EXTENDS FnmatchCompiler

Letters  == {97, 99}
Special  == {FNMATCH_ESCAPE, FNMATCH_CHARS_START, FNMATCH_CHARS_END, FNMATCH_ONE,
             FNMATCH_ANY, FNMATCH_SEP}
InSet    == {FNMATCH_ESCAPE, FNMATCH_CHARS_END, FNMATCH_CHARS_NEGATE, Minus} \cup Letters
MCByte   == Special \cup InSet \cup {Nul, 98}

Words(S, n) == UNION {[1..m -> S] : m \in 0..n}

MCExprs == Words(Special \cup {97}, 4)
             \cup {<<FNMATCH_CHARS_START>> \o w \o <<FNMATCH_CHARS_END>> : w \in Words(InSet, 3)}
             \cup {w \o v : w \in [1..2 -> {97}], v \in [1..3 -> {FNMATCH_ESCAPE, FNMATCH_ANY, 97}]}

=============================================================================
