------------------------------ MODULE MCListView ------------------------------
(* An instance of ListView for TLC: a folder with a note and a folder, in which *)
(* there are two files and a folder with a sketch. *)
EXTENDS ListView

CONSTANTS home, docs, drafts, note, paper, sketch, data, nil

MCFiles == {docs, drafts, note, paper, sketch, data}
MCFolders == {docs, drafts}
MCHome == (docs :> home) @@ (note :> home) @@ (drafts :> docs) @@ (paper :> docs) @@ (data :> docs) @@ (sketch :> drafts)
MCName == (docs :> 1) @@ (note :> 2) @@ (drafts :> 3) @@ (paper :> 2) @@ (data :> 1) @@ (sketch :> 1)
MCOrders == {<<"name", FALSE>>, <<"size", TRUE>>}
MCSame == [g \in MCFiles |-> 0]
=============================================================================
