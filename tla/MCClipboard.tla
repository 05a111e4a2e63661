----------------------------- MODULE MCClipboard -----------------------------
(* An instance of Clipboard for TLC: two views, a transfer, another program     *)
(* and two pastes.                                                             *)
EXTENDS Clipboard, TLC
=============================================================================
