-------------------------- MODULE MCDirectoryChanges --------------------------
(* Instances of DirectoryChanges for TLC. *)
EXTENDS DirectoryChanges, TLC

CONSTANTS t1, t2, a
=============================================================================
