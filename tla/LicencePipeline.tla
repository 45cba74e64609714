--------------------------- MODULE LicencePipeline ---------------------------
(***************************************************************************)
(* The whole way of a licence request: the send task, the mailbox task and *)
(* the callback task, as their own modules describe them statement by      *)
(* statement, over the one set of tables, with HMRC between the first two. *)
(*                                                                         *)
(*   ICMS -> LicencePayload -> send task -> SMTP -> HMRC -> POP3           *)
(*        -> mailbox task -> Mail -> callback task -> ICMS                 *)
(*                                                                         *)
(* Nothing of the other tasks is assumed here: the environment actions of  *)
(* the component modules are not used, and each component is shown to be   *)
(* in the environment that its module takes for granted.                   *)
(***************************************************************************)
EXTENDS HmrcDb, Sequences

CONSTANTS Worker,       \* processes that can be in the send task
          Sender,       \* processes that can be in the callback task
          Unsendable,   \* payloads whose lines fail validate_edifact_file
          Outcomes,     \* classes of reply that HMRC sends
          Ref, RefOf,   \* references of the payloads
          NoAnswer,     \* Mail.response_data is null
          MaxMessages,  \* bound: replies that HMRC ever sends
          MaxFailures   \* bound: exceptions and crashes, of all tasks together

ASSUME UnsendableAssumption == Unsendable \subseteq Payload
ASSUME OutcomesAssumption ==
    Outcomes \subseteq {"valid", "invalid", "partial", "noData", "unknown", "unreadable"}
ASSUME RefOfAssumption == RefOf \in [Payload -> Ref]
ASSUME MaxMessagesAssumption == MaxMessages \in Nat
ASSUME MaxFailuresAssumption == MaxFailures \in Nat

VARIABLES sendPc, want, held, run, stamp, outbox, sendFailures,
          kindOf, runOf, arrived, mailbox, response, usageMails, session, todo, deleted, tx,
          readFailures, lateFailures,
          icmsPc, job, told, posts, icmsFailures,
          replyTo,      \* the file that each message of HMRC answers
          content       \* and what it says

sendVars == <<sendPc, want, held, run, stamp, outbox, sendFailures>>
boxVars == <<kindOf, runOf, arrived, mailbox, response, usageMails, session, todo, deleted, tx,
             readFailures, lateFailures>>
icmsVars == <<icmsPc, job, told, posts, icmsFailures>>
hmrcVars == <<replyTo, content>>
vars == <<dbVars, sendVars, boxVars, icmsVars, hmrcVars>>

(* The reply stored on a Mail is the content of the message stored on it.  *)
AnswerOn(m) == IF response[m] = 0 THEN NoAnswer ELSE content[response[m]]

(* Each task with the theorems about it, on which those about the whole    *)
(* rest.                                                                   *)
Send == INSTANCE SendLicenceDataProofs
          WITH pc <- sendPc, failures <- sendFailures
Box == INSTANCE ReplyMailboxProofs
          WITH failures <- readFailures, Kinds <- {"reply"}
Icms == INSTANCE SendToIcmsProofs
          WITH pc <- icmsPc, failures <- icmsFailures,
               answer <- [m \in MailId |-> AnswerOn(m)]

Init ==
    /\ replyTo = <<>>
    /\ content = <<>>
    /\ Send!Init
    /\ Box!Init
    /\ Icms!Init

-----------------------------------------------------------------------------
(* An exception or a crash of any task uses up one of MaxFailures. *)
MayFail == sendFailures + readFailures + lateFailures + icmsFailures < MaxFailures

Arrive(p) == Ingest(p) /\ UNCHANGED <<sendVars, boxVars, icmsVars, hmrcVars>>

SendTask(w) == Send!Task(w) /\ UNCHANGED <<boxVars, icmsVars, hmrcVars>>

SendFails(w) == MayFail /\ Send!Fail(w) /\ UNCHANGED <<boxVars, icmsVars, hmrcVars>>

(* HMRC answers for every request of the file, or for some of them, or for *)
(* none, as the class of its reply says. That a valid reply answers the    *)
(* whole file is an assumption about HMRC: the code compares no reply with *)
(* the requests of its file.                                               *)
Refs(f) == {RefOf[p] : p \in f.items}
AnswersTo(f) ==
    {a \in Icms!Answer :
        /\ a.run = f.run
        /\ a.refs \subseteq Refs(f)
        /\ a.outcome = "valid" => a.refs = Refs(f)
        /\ a.outcome = "partial" => a.refs # Refs(f)}

(* HMRC answers each file that has reached it once, in its own time: also  *)
(* before the send task has committed, and also a file that was rolled     *)
(* back.                                                                   *)
HmrcReplies(f) ==
    /\ f \in outbox
    /\ \A i \in DOMAIN replyTo : replyTo[i] # f
    /\ Box!Deliver("reply", f.run)
    /\ replyTo' = Append(replyTo, f)
    /\ \E a \in AnswersTo(f) : content' = Append(content, a)
    /\ UNCHANGED <<sendVars, icmsVars>>

MailboxTask == UNCHANGED hmrcVars /\ Box!Session /\ UNCHANGED <<sendVars, icmsVars>>

MailboxFails ==
    /\ MayFail
    /\ Box!FailReading \/ Box!FailBeforeCommit
    /\ UNCHANGED <<sendVars, icmsVars, hmrcVars>>

IcmsTask(s) == UNCHANGED <<boxVars, hmrcVars>> /\ Icms!Task(s) /\ UNCHANGED sendVars
IcmsPosts(s) == UNCHANGED <<boxVars, hmrcVars>> /\ Icms!Post(s) /\ UNCHANGED sendVars

IcmsFails(s) ==
    /\ MayFail
    /\ UNCHANGED <<boxVars, hmrcVars>>
    /\ Icms!ResponseLost(s) \/ Icms!Fail(s)
    /\ UNCHANGED sendVars

Next ==
    \/ \E p \in Payload : Arrive(p)
    \/ \E w \in Worker : SendTask(w) \/ SendFails(w)
    \/ \E f \in outbox : HmrcReplies(f)
    \/ MailboxTask
    \/ MailboxFails
    \/ \E s \in Sender : IcmsTask(s) \/ IcmsFails(s)

Spec == Init /\ [][Next]_vars

(* Beat starts the three tasks again and again and a running one goes on;  *)
(* HMRC answers what it gets; ICMS does not refuse every callback for ever *)
(* (conf/celery.py:31-59).                                                 *)
Fairness ==
    /\ \A w \in Worker : WF_vars(SendTask(w))
    /\ WF_vars(\E f \in outbox : HmrcReplies(f))
    /\ WF_vars(MailboxTask)
    /\ \A s \in Sender : WF_vars(IcmsTask(s)) /\ SF_vars(IcmsPosts(s))

FairSpec == Spec /\ Fairness

-----------------------------------------------------------------------------
(* Each task, put together with the real others, behaves as its own module *)
(* says: the others do nothing that the module's environment does not.     *)
SendInItsPlace == Send!Spec
MailboxInItsPlace == Box!Spec
IcmsInItsPlace == Icms!Spec
EachInItsPlace == SendInItsPlace /\ MailboxInItsPlace /\ IcmsInItsPlace

(* What makes this inductive: the invariants of the tasks together, and    *)
(* what HMRC's messages are: each answers a file that HMRC has, under the  *)
(* run number of that file.                                                *)
Contents ==
    /\ replyTo \in Seq(Send!File) /\ Len(replyTo) = arrived
    /\ content \in Seq(Icms!Answer) /\ Len(content) = arrived
    /\ \A i \in 1..arrived : /\ replyTo[i] \in outbox /\ replyTo[i].run = runOf[i]
                             /\ content[i] \in AnswersTo(replyTo[i])

PipelineInv == Send!SendInv /\ Box!MailboxInv /\ Icms!IcmsInv /\ Contents

(* A reply that can be passed on is passed on and its Mail closed, however *)
(* runs of the callback task overlap and are cut short.                    *)
UsableReplyIsClosed == Icms!UsableReplyIsClosed

(* The life of the requests. *)
Filed(p) == {m \in MailId : p \in ldItems[m]}
Heard(p) == \E m \in MailId : p \in told[m]

StageOf(p) ==
    CASE payload[p] = "absent" -> "unknown"
      [] payload[p] = "queued" -> "waiting"
      [] payload[p] = "processed" /\ Heard(p) -> "answered"
      [] payload[p] = "processed" /\ ~ Heard(p) ->
            IF \E m \in Filed(p) : mailStatus[m] # "reply_processed" THEN "sent" ELSE "dropped"

Life == INSTANCE RequestLife WITH stage <- [p \in Payload |-> StageOf(p)]

(* The tables, the e-mails and the replies together keep what ICMS may     *)
(* expect: no request goes back, none is answered that was not sent, and   *)
(* the next requests go only when HMRC owes no answer.                     *)
LifeOfRequests == Life!Spec

(* Files that HMRC has and the database does not know: the transaction     *)
(* that mailed them was rolled back.                                       *)
Phantom ==
    {f \in outbox :
        /\ \A m \in Recorded : f # [run |-> ldRun[m], items |-> ldItems[m]]
        /\ \A w \in Worker : sendPc[w] \in {"update", "commit"} => f # Send!FileOf(w)}

(* A Mail is closed as complete only when ICMS has been told of every      *)
(* licence in its file.  It takes that HMRC holds no phantom -- the answer *)
(* to that one can close the Mail that has its run number -- and that no   *)
(* two requests of the file have one reference.                            *)
ClosedIsComplete ==
    Phantom = {} =>
        \A m \in MailId : mailStatus[m] = "reply_processed" /\ Icms!UniqueRefs(m) =>
                             ldItems[m] \subseteq told[m]

(* Why these two hold when the send task does not overlap itself: there is *)
(* one file at a time, a Mail holds a reply with its own run number, and   *)
(* so ICMS is told of the requests in its file.                            *)
LifeInv == PipelineInv /\ Send!AloneInv /\ Box!RepliesMatch /\ Icms!ToldInv

(* What keeps a request from its answer: it was marked as processed        *)
(* without being in a file; a request that cannot be written into a file   *)
(* is in the queue; HMRC's reply leaves a file partly or wholly            *)
(* unanswered; HMRC answers a phantom; a session was rolled back after its *)
(* QUIT.                                                                   *)
Obstacle(p) ==
    \/ p \in Processed /\ Filed(p) = {}
    \/ Queued \cap Unsendable # {}
    \/ \E m \in MailId : AnswerOn(m) # NoAnswer /\ AnswerOn(m).outcome # "valid"
    \/ Phantom # {}
    \/ lateFailures > 0

(* Every request that ICMS posts is answered in the end, unless one of     *)
(* those is in its way: crashes of the send task before its e-mail, while   *)
(* the mailbox is read and in the callback task, and lost responses of     *)
(* ICMS, are all made good.                                                *)
EveryRequestIsAnswered ==
    \A p \in Payload : payload[p] = "queued" ~> Heard(p) \/ Obstacle(p)

=============================================================================
