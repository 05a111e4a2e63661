---------------------------- MODULE MCUndoManager ----------------------------
(* Instances of UndoManager for TLC. *)
EXTENDS UndoManager, TLC

CONSTANTS o1, o2, o3, u1

ThreeOps == {o1, o2, o3}
OneUri == {u1}

\* One kind of each class: removed at once, moved by a job, trashed, and the
\* one nothing is done for.
EachClass == {"copy", "move", "movetotrash", "createfilefromtemplate"}

Grow == {0, 3}
=============================================================================
