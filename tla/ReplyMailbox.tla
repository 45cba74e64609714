---------------------------- MODULE ReplyMailbox ----------------------------
(***************************************************************************)
(* The celery task process_licence_reply_and_usage_emails (mail/tasks.py): *)
(* a POP3 session inside a database transaction.                           *)
(*                                                                         *)
(*     with transaction.atomic(), pop3.get_connection(...) as con:         *)
(*                                                                         *)
(* leaves the session first: QUIT makes the deletions of the session take  *)
(* effect, and only then the transaction commits.  POP3 gives the maildrop *)
(* to one session at a time, so there is one session.                      *)
(***************************************************************************)
EXTENDS Workflow

CONSTANTS Kinds,        \* kinds of message that arrive, see MessageKind
          MaxMessages,  \* bound: messages that ever arrive
          MaxFailures   \* bound: sessions cut short by an exception or a crash

(* "malformed" is a reply whose subject holds no run number, a message     *)
(* without exactly one attachment, or one whose text cannot be decoded.    *)
MessageKind == {"reply", "usage", "other", "badSender", "malformed"}

ASSUME KindsAssumption == Kinds \subseteq MessageKind
ASSUME MaxMessagesAssumption == MaxMessages \in Nat
ASSUME MaxFailuresAssumption == MaxFailures \in Nat

VARIABLES kindOf,       \* what each message is, "none" before it arrives
          runOf,        \* the run number in its subject, 0 for none
          mailbox,      \* messages in the maildrop
          arrived,      \* number of messages that ever arrived
          response,     \* Mail.response_data: the stored message, 0 before
          usageMails,   \* messages stored as Mail rows of type USAGE_DATA
          session,      \* "closed", "reading" or "quit"
          todo,         \* messages of the session's listing, not yet read
          deleted,      \* messages marked by DELE
          tx,           \* mails updated by the transaction: Mail |-> message
          failures,     \* failures that cost nothing
          lateFailures  \* failures between QUIT and the commit

messageVars == <<kindOf, runOf, arrived>>
storedVars == <<dbVars, response, usageMails>>
failureVars == <<failures, lateFailures>>
boxVars == <<messageVars, mailbox, response, usageMails, session, todo, deleted, tx,
             failureVars>>
vars == <<dbVars, boxVars>>

(* A message is known by its place in the order of arrival. *)
MsgId == 1..MaxMessages

TypeOK ==
    /\ DbTypeOK
    /\ kindOf \in [MsgId -> MessageKind \cup {"none"}]
    /\ runOf \in [MsgId -> {0} \cup Run]
    /\ arrived \in 0..MaxMessages
    /\ mailbox \subseteq MsgId
    /\ response \in [MailId -> {0} \cup MsgId]
    /\ usageMails \subseteq MsgId
    /\ session \in {"closed", "reading", "quit"}
    /\ todo \subseteq MsgId
    /\ deleted \subseteq MsgId
    /\ tx \in [MailId -> {0} \cup MsgId]
    /\ failures \in 0..MaxFailures
    /\ lateFailures \in 0..MaxFailures

NoUpdates == [m \in MailId |-> 0]

Init ==
    /\ DbInit
    /\ kindOf = [i \in MsgId |-> "none"]
    /\ runOf = [i \in MsgId |-> 0]
    /\ arrived = 0
    /\ mailbox = {}
    /\ response = NoUpdates
    /\ usageMails = {}
    /\ session = "closed"
    /\ todo = {}
    /\ deleted = {}
    /\ tx = NoUpdates
    /\ failures = 0
    /\ lateFailures = 0

-----------------------------------------------------------------------------
(* LicenceData.objects.get: one row, or DoesNotExist or                    *)
(* MultipleObjectsReturned.                                                *)
Holder(r, m) == Recorded \cap {n \in MailId : ldRun[n] = r} = {m}

(* Variant of AwaitsReply for the mutation checks: no filter on status. *)
AnyMail(m) == mailStatus[m] # "none" /\ tx[m] = 0

(* Mail.objects.get(id=..., status=REPLY_PENDING), inside the transaction. *)
AwaitsReply(m) == mailStatus[m] = "reply_pending" /\ tx[m] = 0

Accepts(i, m) == kindOf[i] = "reply" /\ Holder(runOf[i], m) /\ AwaitsReply(m)

(* check_sender_valid, the parsers, or one of the two get() calls raises. *)
Raises(i) ==
    \/ kindOf[i] \in {"badSender", "malformed"}
    \/ kindOf[i] = "reply" /\ ~ \E m \in MailId : Accepts(i, m)

(* The loop over the listing reads message i. *)
Reads(i) ==
    /\ session = "reading"
    /\ i \in todo
    /\ \A j \in todo : i <= j

EndSession ==
    /\ session' = "closed"
    /\ todo' = {}
    /\ deleted' = {}
    /\ tx' = NoUpdates

(* Variant of Kept for the mutation checks: con.dele is left out. *)
KeepsAll(i) == TRUE

(* What QUIT leaves in the maildrop. *)
Kept(i) == i \notin deleted

(* Variant of UsageRows for the mutation checks: usage messages are not    *)
(* stored.                                                                 *)
NoUsageRows == {}

(* The USAGE_DATA rows the transaction has created: one for each message   *)
(* it deletes that is not the reply to a Mail.                             *)
UsageRows == deleted \ {tx[m] : m \in MailId}

-----------------------------------------------------------------------------
OpenSession ==
    /\ session = "closed"
    /\ session' = "reading"
    /\ todo' = mailbox
    /\ UNCHANGED <<storedVars, messageVars, mailbox, deleted, tx, failureVars>>

(* _save_licence_reply_email, then DELE. *)
SaveLicenceReply(i) ==
    /\ Reads(i)
    /\ \E m \in MailId : Accepts(i, m) /\ tx' = [tx EXCEPT ![m] = i]
    /\ deleted' = deleted \cup {i}
    /\ todo' = todo \ {i}
    /\ UNCHANGED <<storedVars, messageVars, mailbox, session, failureVars>>

(* _save_usage_data_email, then DELE; the new Mail row is one of UsageRows *)
(* until the commit.                                                       *)
SaveUsageData(i) ==
    /\ Reads(i)
    /\ kindOf[i] = "usage"
    /\ deleted' = deleted \cup {i}
    /\ todo' = todo \ {i}
    /\ UNCHANGED <<storedVars, messageVars, mailbox, session, tx, failureVars>>

(* Any other subject is logged and left in the maildrop. *)
LeaveUnknown(i) ==
    /\ Reads(i)
    /\ kindOf[i] = "other"
    /\ todo' = todo \ {i}
    /\ UNCHANGED <<storedVars, messageVars, mailbox, session, deleted, tx, failureVars>>

(* One bad message: RSET, QUIT with nothing to delete, rollback. *)
AbandonSession(i) ==
    /\ Reads(i)
    /\ Raises(i)
    /\ EndSession
    /\ UNCHANGED <<storedVars, messageVars, mailbox, failureVars>>

(* get_connection's finally: the POP3 server deletes what was marked. *)
Quit ==
    /\ session = "reading" /\ todo = {}
    /\ session' = "quit"
    /\ mailbox' = {i \in mailbox : Kept(i)}
    /\ UNCHANGED <<storedVars, messageVars, todo, deleted, tx, failureVars>>

CommitSession ==
    /\ session = "quit"
    /\ mailStatus' = [m \in MailId |-> IF tx[m] # 0 THEN "reply_received"
                                       ELSE mailStatus[m]]
    /\ response' = [m \in MailId |-> IF tx[m] # 0 THEN tx[m] ELSE response[m]]
    /\ usageMails' = usageMails \cup UsageRows
    /\ EndSession
    /\ UNCHANGED <<payload, ldRun, ldItems, messageVars, mailbox, failureVars>>

(* A crash, a lost connection or a database error while reading: the       *)
(* server never sees QUIT and keeps every message.                         *)
FailReading ==
    /\ session = "reading"
    /\ failures < MaxFailures
    /\ failures' = failures + 1
    /\ EndSession
    /\ UNCHANGED <<storedVars, messageVars, mailbox, lateFailures>>

(* The same after the server has acted on QUIT: the transaction rolls back. *)
FailBeforeCommit ==
    /\ session = "quit"
    /\ lateFailures < MaxFailures
    /\ lateFailures' = lateFailures + 1
    /\ EndSession
    /\ UNCHANGED <<storedVars, messageVars, mailbox, failures>>

-----------------------------------------------------------------------------
(* The world around the task. *)

(* Only a reply is looked up by its run number. *)
Deliver(kind, r) ==
    /\ arrived < MaxMessages
    /\ kind # "reply" => r = 1
    /\ arrived' = arrived + 1
    /\ kindOf' = [kindOf EXCEPT ![arrived + 1] = kind]
    /\ runOf' = [runOf EXCEPT ![arrived + 1] = r]
    /\ mailbox' = mailbox \cup {arrived + 1}
    /\ UNCHANGED <<storedVars, session, todo, deleted, tx, failureVars>>

(* The other tasks. *)
Arrive(p) == Ingest(p) /\ UNCHANGED boxVars
FileSent(m, r, items, marked) == SendFile(m, r, items, marked) /\ UNCHANGED boxVars
ReplyForwarded(m, s) == CloseMail(m, s) /\ UNCHANGED boxVars

Session ==
    \/ OpenSession
    \/ \E i \in todo : \/ SaveLicenceReply(i)
                       \/ SaveUsageData(i)
                       \/ LeaveUnknown(i)
                       \/ AbandonSession(i)
    \/ Quit
    \/ CommitSession

Next ==
    \/ Session
    \/ FailReading
    \/ FailBeforeCommit
    \/ \E kind \in Kinds, r \in Run : Deliver(kind, r)
    \/ \E p \in Payload : Arrive(p)
    \/ \E m \in MailId, r \in Run :
          \E marked \in SUBSET Queued : \E items \in SUBSET marked : FileSent(m, r, items, marked)
    \/ \E m \in MailId, s \in MailStatus : ReplyForwarded(m, s)

Spec == Init /\ [][Next]_vars

(* Beat opens a session every five minutes and a session goes on. *)
FairSpec == Spec /\ WF_vars(Session)

-----------------------------------------------------------------------------
Stored == usageMails \cup {response[m] : m \in MailId}

(* No message is lost and none is stored twice: a message is in the        *)
(* maildrop, or deleted by a session that is about to commit, or stored -- *)
(* in exactly one of the three.  It takes that no session fails between    *)
(* QUIT and the commit.                                                    *)
StoredExactlyOnce ==
    lateFailures = 0 =>
        \A i \in 1..arrived :
            LET here == i \in mailbox
                between == session = "quit" /\ i \in deleted
                kept == i \in Stored
            IN  /\ here \/ between \/ kept
                /\ ~ (here /\ between) /\ ~ (here /\ kept) /\ ~ (between /\ kept)

(* Whatever fails, the database never gains a message that the mail server *)
(* would deliver again: a stored message is gone from the maildrop.        *)
NeverStoredAgain == Stored \cap mailbox = {}

(* A reply is filed under one Mail only, and a Mail has a reply exactly    *)
(* when its status says so.                                                *)
ReplyFiled ==
    \A m \in MailId :
        /\ response[m] # 0 <=> mailStatus[m] \notin {"none", "reply_pending"}
        /\ \A n \in MailId : response[m] # 0 /\ response[n] = response[m] => m = n

(* What makes these inductive: the open transaction is where its session   *)
(* is, every reply it files is of a message marked for deletion, and the   *)
(* Mail it updates still awaits its reply for everybody else; a message is *)
(* on one side of the session only.                                        *)
OpenTransaction ==
    /\ session = "closed" => tx = NoUpdates /\ deleted = {} /\ todo = {}
    /\ session = "reading" => todo \cup deleted \subseteq mailbox /\ todo \cap deleted = {}
    /\ session = "quit" => deleted \cap mailbox = {} /\ todo = {}
    /\ \A m \in MailId :
          tx[m] # 0 => /\ mailStatus[m] = "reply_pending" /\ tx[m] \in deleted
                       /\ \A n \in MailId : tx[n] = tx[m] => m = n

Whereabouts ==
    /\ mailbox \cup deleted \cup (Stored \ {0}) \subseteq 1..arrived
    /\ Stored \cap (mailbox \cup deleted) = {}
    /\ lateFailures = 0 => 1..arrived \subseteq mailbox \cup deleted \cup Stored

MailboxInv == TypeOK /\ OpenTransaction /\ Whereabouts /\ ReplyFiled

(* A reply is filed, by an open transaction or for good, under the Mail    *)
(* whose licenceData file has its run number.                              *)
RepliesMatch ==
    \A m \in MailId : /\ tx[m] # 0 => runOf[tx[m]] = ldRun[m]
                      /\ response[m] # 0 => runOf[response[m]] = ldRun[m]

(* HMRC's answer to a file is not overwritten by a later message, and the  *)
(* work of one session appears at once: a step that stores one reply takes *)
(* every message the session had marked.                                   *)
AnswerStands ==
    [][/\ \A m \in MailId : response[m] # 0 => response'[m] = response[m]
       /\ Stored' # Stored => deleted \subseteq Stored']_vars

(* A message that a session will raise on is the only lasting obstacle:    *)
(* unless sessions are abandoned again and again, every reply and every    *)
(* usage message in the maildrop is stored in the end (or lost by a        *)
(* failure between QUIT and the commit).                                   *)
NoPoison == \A i \in todo : Reads(i) => ~ Raises(i)
Waiting(i) == i \in mailbox /\ kindOf[i] \in {"reply", "usage"}
OnlyPoisonBlocks ==
    <>[]NoPoison =>
        \A i \in MsgId : Waiting(i) ~> i \in Stored \/ lateFailures > 0

(* Whatever a session reads, and wherever it fails, its effect on the      *)
(* licenceData Mails is one commit, of replies that were awaited.          *)
ImplementsWorkflow == WorkflowSpec

-----------------------------------------------------------------------------
(* test_tasks.py: everything should roll back if we can't process          *)
(* everything.  Then every message is in the maildrop or stored whenever   *)
(* no session is open.                                                     *)
RollsBackCompletely ==
    session = "closed" => \A i \in 1..arrived : i \in mailbox \cup Stored

=============================================================================
