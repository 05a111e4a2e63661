----------------------------- MODULE MCDeleteJob -----------------------------
(* Instances of DeleteJob for TLC. *)
EXTENDS DeleteJob, TLC

CONSTANTS a, b, d, e, x, y

\* Three kinds of things chosen: a file on a share without a trash, a file in
\* the trash, and a folder with a file and a folder in it, that has one too.
MixFiles == {a, b, d, e, x, y}
MixKids == (d :> {e, x}) @@ (e :> {y})
MixTop == <<a, b, d>>
MixPlace == [f \in File |-> IF f = a THEN "smb" ELSE IF f = b THEN "trash" ELSE "local"]
=============================================================================
