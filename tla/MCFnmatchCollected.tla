-------------------------- MODULE MCFnmatchCollected --------------------------
(* Every pattern of up to three characters of * ? \ / . a, and longer ones  *)
(* with bracket expressions and stars; strings of up to three of a / . and  *)
(* others; a flag alone and the pairs that interact.                        *)
EXTENDS FnmatchCollected

UpTo(n, bytes) == UNION {[1..k -> bytes] : k \in 0..n}

MCPatterns ==
  UpTo(3, {Star, Question, Backslash, Slash, Period, 97})
  \cup {<<91, 97, 45, 98, 93>>, <<91, 33, 97, 93>>, <<42, 91, 97, 93>>, <<42, 91, 94, 97, 93>>,
        <<91, 97, 93, 42>>, <<65, 42>>, <<91, 65, 45, 66, 93>>, <<47, 91, 33, 97, 93>>,
        <<42, 97, 42, 98>>, <<42, 97, 47, 63>>, <<42, 47, 92, 46, 97>>}
MCStrings ==
  UpTo(3, {97, Slash, Period}) \cup {<<98>>, <<65>>, <<97, 98>>, <<97, 98, 97, 98>>, <<97, 47, 46, 97>>}
MCFlagSets ==
  {{}, {"PATHNAME"}, {"PERIOD"}, {"NOESCAPE"}, {"CASEFOLD"}, {"LEADING_DIR"},
   {"PATHNAME", "PERIOD"}, {"PATHNAME", "LEADING_DIR"}, {"PERIOD", "LEADING_DIR"}}
MCClasses == {[name |-> <<117, 112, 112, 101, 114>>, bytes |-> 65..90],
              [name |-> <<108, 111, 119, 101, 114>>, bytes |-> 97..122]}

=============================================================================
