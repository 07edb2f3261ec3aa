-------------------------- MODULE MCFnmatchContext --------------------------
(* Small instances of FnmatchContext.                                      *)
EXTENDS FnmatchContext

MCByte == {"a", "b", "/", "NUL"}

Plain1(code) == [op |-> code, str |-> <<>>, set |-> {}]
Fixed(s)     == [op |-> "FIXED", str |-> s, set |-> {}]
Chars(set)   == [op |-> "CHARS", str |-> <<>>, set |-> set]

A     == Fixed(<<"a">>)
B     == Fixed(<<"b">>)
InB   == Chars({"b"})             \* [b]
NotA  == Chars(MCByte \ {"a"})    \* [!a], which matches a slash and a NUL
One   == Plain1("ONE")
Any   == Plain1("ANY")
Deep  == Plain1("DEEP")
Slash == Plain1("SEP")
End   == Plain1("END")

(* Every program that up to n instructions and an END make, two literals   *)
(* in a row being one FIXED of the compiler, and "*" followed by "*" its   *)
(* DEEP.                                                                   *)
AllPrograms(ins, n) ==
  {p \in {Append(s, End) : s \in UNION {[1..k -> ins] : k \in 0..n}} :
     \A i \in 1..Len(p) - 1 :
       /\ p[i] = Any => p[i + 1] \notin {Any, Deep}
       /\ p[i].op = "FIXED" => p[i + 1].op # "FIXED"}

(* a*b*a  a*b/b  **/a/b  a/**/*b                                           *)
LongPrograms ==
  { <<A, Any, B, Any, A, End>>,
    <<A, Any, B, Slash, B, End>>,
    <<Deep, Slash, A, Slash, B, End>>,
    <<A, Slash, Deep, Slash, Any, B, End>> }

(* ONE, which takes a byte as a bracket expression does, occurs where it    *)
(* meets a star or a separator.                                            *)
MCPrograms ==
  AllPrograms({A, Any, Deep, Slash, NotA}, 2) \cup LongPrograms \cup
  {<<One, End>>, <<Any, One, End>>, <<One, Slash, End>>}

(* a/b  a/?                                                                *)
PopPrograms == {<<A, Slash, B, End>>, <<A, Slash, One, End>>}

MCStrings == {<<>>, <<"a">>, <<"b">>, <<"/">>}

=============================================================================
