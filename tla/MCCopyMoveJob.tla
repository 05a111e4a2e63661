---------------------------- MODULE MCCopyMoveJob ----------------------------
(* Instances of CopyMoveJob for TLC. *)
EXTENDS CopyMoveJob, TLC

CONSTANTS d, e, a, x

\* A folder with a file and an empty folder in it, and a file beside it.
MCFile == {d, e, a, x}
MCFolder == {d, e}
MCName == {"d", "e", "E", "a", "x", "X", "new", "d2", "d3", "d4", "x2", "x3", "k"}
MCWay == (d :> <<"d">>) @@ (e :> <<"d", "e">>) @@ (a :> <<"d", "a">>) @@ (x :> <<"x">>)
MCSafe == [n \in MCName |-> IF n = "e" THEN "E" ELSE IF n = "x" THEN "X" ELSE n]
MCCopyName == [n \in MCName |-> IF n = "d" THEN <<"d2", "d3", "d4">> ELSE <<"x2", "x3">>]

Free == [p \in {} |-> OldFile]
\* The folder meets one of its name, with a file where it has a folder and a
\* file where it has a file; the file meets a folder with a file in it.
Taken == (<<"d">> :> OldFolder) @@ (<<"d", "e">> :> OldFile) @@ (<<"d", "a">> :> OldFile)
         @@ (<<"x">> :> OldFolder) @@ (<<"x", "k">> :> OldFile)
\* The same, where the names of e and x are spelled differently.
Spelled == (<<"d">> :> OldFolder) @@ (<<"d", "E">> :> OldFile) @@ (<<"X">> :> OldFile)
\* X stands where a file is put whose name x need not have been respelled.
Both == Spelled @@ (<<"x">> :> OldFile)
Bare == <<"d">> :> OldFolder
Half == (<<"d">> :> OldFolder) @@ (<<"d", "a">> :> OldFile)
Copies == (<<"d">> :> OldFolder) @@ (<<"d2">> :> OldFolder) @@ (<<"x">> :> OldFile)

Work(kind, native, old, invalid) ==
  [kind |-> kind, native |-> native, old |-> old, invalid |-> invalid,
   top |-> <<d, x>>, into |-> {}, over |-> {}]
MCJobs == {Work("copy", FALSE, Taken, {}),
           Work("copy", FALSE, Spelled, {"e", "x"}),
           [Work("move", TRUE, Taken, {}) EXCEPT !.top = <<d>>],
           [Work("move", TRUE, Taken, {}) EXCEPT !.top = <<x>>],
           [Work("move", FALSE, Bare, {}) EXCEPT !.top = <<x, d>>],
           Work("move", TRUE, Spelled, {"e", "x"}),
           Work("move", TRUE, Free, {"d"}),
           Work("move", TRUE, Both, {"e"}),
           [Work("move", TRUE, Half, {}) EXCEPT !.top = <<a, d>>],
           Work("duplicate", FALSE, Copies, {"d3"}),
           [Work("copy", FALSE, Free, {}) EXCEPT !.into = {d}, !.over = {x}],
           [Work("move", FALSE, Free, {}) EXCEPT !.into = {d}, !.over = {x}]}
=============================================================================
