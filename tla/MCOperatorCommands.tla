------------------------- MODULE MCOperatorCommands -------------------------
(* Instances of OperatorCommands for TLC. *)
EXTENDS OperatorCommands

AllCommands == {"resend", "recreate", "skip", "seed"}

=============================================================================
