----------------------------- MODULE RequestLife -----------------------------
(***************************************************************************)
(* What ICMS may expect of icms-hmrc as a whole, without tables, files or  *)
(* tasks: the stage of each licence request.                               *)
(*                                                                         *)
(*   unknown -> waiting -> sent -> answered                                *)
(*                 \         \                                             *)
(*                  '---------'--> dropped                                 *)
(*                                                                         *)
(* A request goes forward only.  The waiting requests go to HMRC together, *)
(* and only when HMRC owes no answer to a request that went before.  A     *)
(* request is dropped when it is marked as processed and nobody will ever  *)
(* send it, or when the file that carries it is closed without its answer. *)
(***************************************************************************)
CONSTANT Payload

VARIABLE stage

Stage == {"unknown", "waiting", "sent", "answered", "dropped"}

At(s) == {p \in Payload : stage[p] = s}

Move(P, s) == stage' = [p \in Payload |-> IF p \in P THEN s ELSE stage[p]]

Init == stage = [p \in Payload |-> "unknown"]

Accept(p) == p \in At("unknown") /\ Move({p}, "waiting")

SendBatch(S) ==
    /\ S # {} /\ S \subseteq At("waiting")
    /\ At("sent") = {}
    /\ \E D \in SUBSET (At("waiting") \ S) :
          stage' = [p \in Payload |-> IF p \in S THEN "sent"
                                      ELSE IF p \in D THEN "dropped" ELSE stage[p]]

Answer(A) == A # {} /\ A \subseteq At("sent") /\ Move(A, "answered")

Drop(L) == L # {} /\ L \subseteq At("sent") /\ Move(L, "dropped")

Next ==
    \/ \E p \in Payload : Accept(p)
    \/ \E S \in SUBSET At("waiting") : SendBatch(S)
    \/ \E A \in SUBSET At("sent") : Answer(A) \/ Drop(A)

Spec == Init /\ [][Next]_stage

=============================================================================
