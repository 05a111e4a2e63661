--------------------------- MODULE MCDirectoryLoad ---------------------------
(* Instances of DirectoryLoad for TLC. *)
EXTENDS DirectoryLoad, TLC

CONSTANTS t1, t2, a, h
=============================================================================
