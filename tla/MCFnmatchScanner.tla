-------------------------- MODULE MCFnmatchScanner --------------------------
(* Small instances of FnmatchScanner.                                      *)
EXTENDS FnmatchScanner, MCFnmatchContext

(* a/b  a/?  a/**  **b  [!a]/b  a*b  *                                     *)
ScannerPrograms ==
  { <<A, Slash, B, End>>, <<A, Slash, One, End>>, <<A, Slash, Deep, End>>, <<Deep, B, End>>,
    <<NotA, Slash, B, End>>, <<A, Any, B, End>>, <<Any, End>> }

(* The end of a string, a name, a directory.                               *)
ScannerStrings == {<<>>, <<"b">>, <<"a", "/">>}

MCAnswers == {"CONTINUE", "STOP", "ERROR"}

=============================================================================
