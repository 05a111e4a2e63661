------------------------- MODULE MCFileChangesQueue -------------------------
(* Instances of FileChangesQueue for TLC. *)
EXTENDS FileChangesQueue, TLC

CONSTANTS r, m, a1, h, j1, j2, d1

\* A change of every kind.
AllChanges == {r, m, a1, h}
AllKinds == r :> "removed" @@ m :> "moved" @@ a1 :> "added" @@ h :> "changed"
=============================================================================
