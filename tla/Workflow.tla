------------------------------ MODULE Workflow ------------------------------
(***************************************************************************)
(* What the celery tasks promise each other about the shared tables, one   *)
(* step for each COMMIT: a request comes in; the send task records a file  *)
(* that HMRC has; the mailbox task stores replies; the callback task       *)
(* closes a Mail.  Each task's module takes the commits of the other tasks *)
(* from here as its environment, and is shown to make no other commit than *)
(* those of this module (Implements... in the task modules): together they *)
(* give the specification of the composed system.                          *)
(*                                                                         *)
(* How a task gets to its commit (locks, snapshots, e-mails, rollback) is  *)
(* left to the task's module.                                              *)
(***************************************************************************)
EXTENDS HmrcDb

(* The number of an earlier file plus one: overlapping sends may use a     *)
(* number twice, but never one whose predecessor was not used before.      *)
FollowsRun(m, r) == r = 1 \/ \E n \in Recorded : n < m /\ ldRun[n] = r - 1

(* send_licence_data_to_hmrc commits: Mail m with run number r carries     *)
(* items, and every request in marked leaves the queue.                    *)
SendFile(m, r, items, marked) ==
    /\ mailStatus[m] = "none"
    /\ FollowsRun(m, r)
    /\ items # {} /\ items \subseteq marked /\ marked \subseteq Queued
    /\ payload' = [p \in Payload |-> IF p \in marked THEN "processed" ELSE payload[p]]
    /\ mailStatus' = [mailStatus EXCEPT ![m] = "reply_pending"]
    /\ ldRun' = [ldRun EXCEPT ![m] = r]
    /\ ldItems' = [ldItems EXCEPT ![m] = items]

AwaitingReply == {m \in MailId : mailStatus[m] = "reply_pending"}

(* process_licence_reply_and_usage_emails commits the replies it found.    *)
StoreReplies(M) ==
    /\ M \subseteq AwaitingReply
    /\ mailStatus' = [m \in MailId |-> IF m \in M THEN "reply_received" ELSE mailStatus[m]]
    /\ UNCHANGED <<payload, ldRun, ldItems>>

(* send_licence_data_to_icms commits after ICMS has accepted the reply.    *)
CloseMail(m, s) ==
    /\ s \in {"reply_processed", "reply_partially_processed"}
    /\ mailStatus[m] = "reply_received"
    /\ mailStatus' = [mailStatus EXCEPT ![m] = s]
    /\ UNCHANGED <<payload, ldRun, ldItems>>

WorkflowNext ==
    \/ \E p \in Payload : Ingest(p)
    \/ \E m \in MailId, r \in Run :
          \E marked \in SUBSET Queued : \E items \in SUBSET marked : SendFile(m, r, items, marked)
    \/ \E M \in SUBSET MailId : StoreReplies(M)
    \/ \E m \in MailId, s \in MailStatus : CloseMail(m, s)

WorkflowSpec == DbInit /\ [][WorkflowNext]_dbVars

=============================================================================
