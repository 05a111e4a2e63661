--------------------------- MODULE OrderedDelivery ---------------------------
(***************************************************************************)
(* What the change queue promises to the views: they hear of the changes   *)
(* in the order in which these arrived, of each once, and of none that did *)
(* not arrive.  "This is to ensure that the changes get sent off in the    *)
(* same order that they arrived" (libcore/marlin-file-changes-queue.c).    *)
(***************************************************************************)
EXTENDS Naturals, Sequences

CONSTANT Change

VARIABLES
  arrived,   \* the changes reported so far
  heard      \* those of them that the views were told of

Init == arrived = <<>> /\ heard = <<>>

Arrive(c) == arrived' = Append(arrived, c) /\ UNCHANGED heard

\* The views hear of the next changes, one or many.
Hear ==
  /\ \E n \in (Len(heard) + 1) .. Len(arrived) : heard' = SubSeq(arrived, 1, n)
  /\ UNCHANGED arrived

Next == (\E c \in Change : Arrive(c)) \/ Hear

Spec == Init /\ [][Next]_<<arrived, heard>>

=============================================================================
