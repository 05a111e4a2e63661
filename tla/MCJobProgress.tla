---------------------------- MODULE MCJobProgress ----------------------------
(* An instance of JobProgress for TLC: a job that copies and one that empties *)
(* the trash.                                                                 *)
EXTENDS JobProgress, TLC
=============================================================================
