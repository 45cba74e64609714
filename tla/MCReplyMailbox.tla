--------------------------- MODULE MCReplyMailbox ---------------------------
(* Instances of ReplyMailbox for TLC. *)
EXTENDS ReplyMailbox

AllKinds == MessageKind

=============================================================================
