----------------------------- MODULE MCThumbnails -----------------------------
(* Instances of Thumbnails for TLC. *)
EXTENDS Thumbnails

CONSTANT f

\* The service makes thumbnails of pictures of either scheme, and of texts of
\* the second only.
MCSupported == << <<"file", "picture">>, <<"sftp", "picture">>, <<"sftp", "text">> >>
MCKind == f :> <<"file", "picture">>
=============================================================================
