------------------------------ MODULE MCCvsWalk ------------------------------
(* A directory with three others in it, two of which cvs does not          *)
(* administer and only an import enters.  It has the names a.o, .a, b and  *)
(* B, and two of the others have two of them: the lists have different     *)
(* things to say of these, *.o everywhere, B at home as the last piece of  *)
(* a long line, *a, [b], ?, .a and .* in the directories' own files.  The  *)
(* third one's file has too long a line.                                   *)
EXTENDS CvsWalk, TLC

CONSTANTS root, d1, d2, d3

FourNames == {<<97, 46, 111>>, <<46, 97>>, <<98>>, <<66>>}
Files == {[name |-> n, is |-> File] : n \in FourNames}

MCContent ==
  root :> (Files \cup {[name |-> <<46>>, is |-> root], [name |-> <<100>>, is |-> d1],
                     [name |-> <<99>>, is |-> d2], [name |-> <<100, 100>>, is |-> d3]})
  @@ d1 :> {[name |-> <<46, 97>>, is |-> File], [name |-> <<66>>, is |-> File],
           [name |-> <<112>>, is |-> Other]}
  @@ d2 :> {[name |-> <<46, 97>>, is |-> File], [name |-> <<98>>, is |-> File]}
  @@ d3 :> {}
MCTracked == root :> {[name |-> <<98>>, is |-> File], [name |-> <<100>>, is |-> d1]}
             @@ d1 :> {[name |-> <<46, 97>>, is |-> File]}
MCLines == root :> {<<42, 97>>, <<91, 98, 93>>} @@ d1 :> {<<63>>, <<46, 97>>}
           @@ d2 :> {<<46, 42>>} @@ d3 :> {<<97, 97, 97, 97, 97>>}
MCStd  == {<<46>>, <<42, 46, 111>>}
MCHome == {<<122>>, <<99, 99, 99, 99, 66>>}

=============================================================================
