-------------------------- MODULE MCFnmatchStream --------------------------
(* Small instances of FnmatchStream.                                       *)
EXTENDS FnmatchStream, MCFnmatchContext

StreamPrograms == AllPrograms({A, Any, Deep, Slash, One, NotA}, 2) \cup LongPrograms

=============================================================================
