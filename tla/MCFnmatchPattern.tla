-------------------------- MODULE MCFnmatchPattern --------------------------
(* Small instances of FnmatchPattern.                                      *)
EXTENDS FnmatchPattern, MCFnmatchContext

(* **/a*b  a*/**/b                                                         *)
PatternPrograms ==
  AllPrograms({A, Any, Deep, Slash, One, InB, NotA}, 3) \cup LongPrograms \cup
    { <<Deep, Slash, A, Any, B, End>>,
      <<A, Any, Slash, Deep, Slash, B, End>> }

MCSubjects == UNION {[1..n -> {"a", "b", "/"}] : n \in 0..3}
MCFlagSets == {{"PATHNAME"}, {"PATHNAME", "PERIOD"}, {"NOESCAPE"}}

(* *b, which contradicts the documentation.                                *)
LeadingStar == {<<Any, B, End>>}
Pathname    == {{"PATHNAME"}}

=============================================================================
