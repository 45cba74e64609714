------------------------- MODULE ReplyMailboxProofs -------------------------
(***************************************************************************)
(* Theorems about ReplyMailbox for any number of payloads, mails, messages *)
(* and failures.                                                           *)
(***************************************************************************)
EXTENDS ReplyMailbox, TLAPS

LEMMA InitInv == Init => MailboxInv
  <1> SUFFICES ASSUME Init PROVE MailboxInv
    OBVIOUS
  <1> USE DEF Init, DbInit, NoUpdates
  <1>1. TypeOK
    BY MaxMessagesAssumption, MaxFailuresAssumption
       DEF TypeOK, DbTypeOK, PayloadState, MailStatus, MessageKind, MsgId
  <1>2. OpenTransaction /\ ReplyFiled
    BY DEF OpenTransaction, ReplyFiled
  <1>3. Stored \subseteq {0}
    BY DEF Stored
  <1>4. Whereabouts
    BY <1>3 DEF Whereabouts
  <1> QED
    BY <1>1, <1>2, <1>4 DEF MailboxInv

(* An update of the tables that a session does not make: it leaves every   *)
(* Mail in the status that the open transaction needs.                     *)
LEMMA OthersKeep ==
  ASSUME MailboxInv, UNCHANGED boxVars, DbTypeOK',
         \A m \in MailId :
            /\ mailStatus[m] = "reply_pending" => mailStatus'[m] = "reply_pending"
            /\ mailStatus[m] \in {"none", "reply_pending"}
                  <=> mailStatus'[m] \in {"none", "reply_pending"}
  PROVE  MailboxInv'
  <1> USE DEF MailboxInv, boxVars, messageVars, failureVars
  <1>1. TypeOK'
    BY DEF TypeOK
  <1>2. OpenTransaction'
    BY DEF OpenTransaction, NoUpdates
  <1>3. Whereabouts'
    BY DEF Whereabouts, Stored
  <1>4. ReplyFiled'
    BY DEF ReplyFiled
  <1> QED
    BY <1>1, <1>2, <1>3, <1>4

LEMMA EnvironmentKeeps ==
  ASSUME MailboxInv,
         \/ \E p \in Payload : Arrive(p)
         \/ \E m \in MailId, r \in Run : \E marked \in SUBSET Queued :
               \E items \in SUBSET marked : FileSent(m, r, items, marked)
         \/ \E m \in MailId, s \in MailStatus : ReplyForwarded(m, s)
  PROVE  MailboxInv'
  <1>1. CASE \E p \in Payload : Arrive(p)
    <2>1. UNCHANGED boxVars /\ DbTypeOK' /\ mailStatus' = mailStatus
      BY <1>1 DEF Arrive, Ingest, mailVars, MailboxInv, TypeOK, DbTypeOK, PayloadState
    <2> QED
      BY <2>1, OthersKeep
  <1>2. ASSUME NEW m \in MailId, NEW r \in Run, NEW marked \in SUBSET Queued,
               NEW items \in SUBSET marked, FileSent(m, r, items, marked)
        PROVE  MailboxInv'
    <2>1. UNCHANGED boxVars /\ DbTypeOK'
      BY <1>2 DEF FileSent, SendFile, MailboxInv, TypeOK, DbTypeOK, PayloadState,
                  MailStatus, Queued
    <2>2. mailStatus[m] = "none" /\ mailStatus' = [mailStatus EXCEPT ![m] = "reply_pending"]
      BY <1>2 DEF FileSent, SendFile
    <2> QED
      BY <2>1, <2>2, OthersKeep DEF MailboxInv, TypeOK, DbTypeOK
  <1>3. ASSUME NEW m \in MailId, NEW s \in MailStatus, ReplyForwarded(m, s)
        PROVE  MailboxInv'
    <2>1. UNCHANGED boxVars /\ DbTypeOK'
      BY <1>3 DEF ReplyForwarded, CloseMail, MailboxInv, TypeOK, DbTypeOK
    <2>2. /\ mailStatus[m] = "reply_received" /\ s \in {"reply_processed", "reply_partially_processed"}
          /\ mailStatus' = [mailStatus EXCEPT ![m] = s]
      BY <1>3 DEF ReplyForwarded, CloseMail
    <2> QED
      BY <2>1, <2>2, OthersKeep DEF MailboxInv, TypeOK, DbTypeOK
  <1> QED
    BY <1>1, <1>2, <1>3

(* A new message is nowhere else yet. *)
LEMMA DeliverKeeps ==
  ASSUME MailboxInv, NEW kind \in Kinds, NEW r \in Run, Deliver(kind, r)
  PROVE  MailboxInv'
  <1> USE MaxMessagesAssumption DEF MailboxInv, Deliver, storedVars, failureVars
  <1>1. arrived \in Nat /\ arrived + 1 \in MsgId /\ arrived' \in 0..MaxMessages
    BY DEF TypeOK, MsgId
  <1>2. TypeOK'
    BY <1>1, KindsAssumption DEF TypeOK, dbVars, DbTypeOK
  <1>3. OpenTransaction'
    <2>1. arrived + 1 \notin deleted
      BY <1>1 DEF Whereabouts
    <2> QED
      BY <2>1 DEF OpenTransaction, dbVars, NoUpdates
  <1>4. Whereabouts'
    <2>1. Stored' = Stored
      BY DEF Stored
    <2>2. arrived + 1 \notin Stored
      BY <1>1 DEF Whereabouts
    <2>3. 1..arrived' = (1..arrived) \cup {arrived + 1}
      BY <1>1
    <2> QED
      BY <1>1, <2>1, <2>2, <2>3 DEF Whereabouts
  <1>5. ReplyFiled'
    BY DEF ReplyFiled, dbVars
  <1> QED
    BY <1>2, <1>3, <1>4, <1>5

(* A session opens, or reads one message. *)
LEMMA ReadingKeeps ==
  ASSUME MailboxInv,
         \/ OpenSession
         \/ \E i \in todo : SaveLicenceReply(i) \/ SaveUsageData(i) \/ LeaveUnknown(i)
  PROVE  MailboxInv'
  <1> USE DEF MailboxInv, OpenSession, SaveLicenceReply, SaveUsageData, LeaveUnknown,
              storedVars, messageVars, failureVars, dbVars
  <1>1. TypeOK'
    BY DEF TypeOK, DbTypeOK
  <1>2. OpenTransaction'
    <2>1. CASE OpenSession
      BY <2>1 DEF OpenTransaction, NoUpdates, TypeOK
    <2>2. ASSUME NEW i \in todo, SaveLicenceReply(i)
          PROVE  OpenTransaction'
      <3>1. PICK m \in MailId : Accepts(i, m) /\ tx' = [tx EXCEPT ![m] = i]
        BY <2>2
      <3>2. i \notin deleted /\ i # 0 /\ session = "reading" /\ session' = "reading"
        BY <2>2 DEF Reads, OpenTransaction, TypeOK, MsgId
      <3> QED
        BY <2>2, <3>1, <3>2 DEF Accepts, AwaitsReply, OpenTransaction, TypeOK, DbTypeOK
    <2>3. ASSUME NEW i \in todo, SaveUsageData(i) \/ LeaveUnknown(i)
          PROVE  OpenTransaction'
      BY <2>3 DEF Reads, OpenTransaction
    <2> QED
      BY <2>1, <2>2, <2>3
  <1>3. Stored' = Stored
    BY DEF Stored
  <1>4. Whereabouts'
    BY <1>3 DEF Whereabouts, OpenTransaction, Reads
  <1>5. ReplyFiled'
    BY DEF ReplyFiled
  <1> QED
    BY <1>1, <1>2, <1>4, <1>5

(* A session that stores nothing. *)
LEMMA EndKeeps ==
  ASSUME MailboxInv,
         FailReading \/ FailBeforeCommit \/ \E i \in todo : AbandonSession(i)
  PROVE  MailboxInv'
  <1> USE DEF MailboxInv, FailReading, FailBeforeCommit, AbandonSession, EndSession,
              storedVars, messageVars, failureVars, dbVars
  <1>1. TypeOK'
    <2>1. failures' \in 0..MaxFailures /\ lateFailures' \in 0..MaxFailures
      BY MaxFailuresAssumption DEF TypeOK
    <2> QED
      BY <2>1 DEF TypeOK, DbTypeOK, NoUpdates
  <1>2. OpenTransaction'
    BY DEF OpenTransaction, NoUpdates
  <1>3. Stored' = Stored
    BY DEF Stored
  <1>4. Whereabouts'
    <2>1. session = "reading" => deleted \subseteq mailbox
      BY DEF OpenTransaction
    <2>2. session = "quit" => lateFailures' # 0
      BY MaxFailuresAssumption DEF TypeOK, Reads
    <2>3. session \in {"reading", "quit"}
      BY DEF Reads
    <2>4. lateFailures' = 0 => lateFailures = 0 /\ session = "reading"
      BY <2>2, <2>3, MaxFailuresAssumption DEF TypeOK
    <2> QED
      BY <1>3, <2>1, <2>4 DEF Whereabouts
  <1>5. ReplyFiled'
    BY DEF ReplyFiled
  <1> QED
    BY <1>1, <1>2, <1>4, <1>5

LEMMA QuitKeeps == MailboxInv /\ Quit => MailboxInv'
  <1> SUFFICES ASSUME MailboxInv, Quit PROVE MailboxInv'
    OBVIOUS
  <1> USE DEF MailboxInv, Quit, Kept, storedVars, messageVars, failureVars, dbVars
  <1>1. TypeOK'
    BY DEF TypeOK, DbTypeOK
  <1>2. OpenTransaction'
    BY DEF OpenTransaction, NoUpdates
  <1>3. Stored' = Stored
    BY DEF Stored
  <1>4. Whereabouts'
    BY <1>3 DEF Whereabouts
  <1>5. ReplyFiled'
    BY DEF ReplyFiled
  <1> QED
    BY <1>1, <1>2, <1>4, <1>5

(* What the commit stores is exactly what the session has deleted, and no  *)
(* reply is overwritten.                                                   *)
LEMMA CommitStores ==
  ASSUME MailboxInv, CommitSession
  PROVE  /\ Stored' \ {0} = (Stored \cup deleted) \ {0}
         /\ \A m \in MailId : response[m] # 0 => tx[m] = 0 /\ response'[m] = response[m]
  <1> USE DEF MailboxInv, CommitSession
  <1>1. \A m \in MailId : response[m] # 0 => tx[m] = 0 /\ response'[m] = response[m]
    BY DEF ReplyFiled, OpenTransaction
  <1>2. \A m \in MailId : response'[m] = IF tx[m] # 0 THEN tx[m] ELSE response[m]
    OBVIOUS
  <1>3. \A m \in MailId : tx[m] # 0 => tx[m] \in deleted
    BY DEF OpenTransaction
  <1>4. Stored' = usageMails \cup UsageRows \cup {response'[m] : m \in MailId}
    BY DEF Stored
  <1>5. ASSUME NEW i \in Stored', i # 0 PROVE i \in Stored \cup deleted
    BY <1>2, <1>3, <1>4, <1>5 DEF Stored, UsageRows
  <1>6. ASSUME NEW i \in Stored \cup deleted, i # 0 PROVE i \in Stored'
    <2>1. CASE i \in usageMails \cup UsageRows
      BY <1>4, <2>1
    <2>2. CASE \E m \in MailId : i = response[m]
      BY <1>1, <1>4, <1>6, <2>2
    <2>3. CASE \E m \in MailId : i = tx[m]
      BY <1>2, <1>4, <1>6, <2>3
    <2> QED
      BY <1>6, <2>1, <2>2, <2>3 DEF Stored, UsageRows
  <1> QED
    BY <1>1, <1>5, <1>6

LEMMA CommitKeeps == MailboxInv /\ CommitSession => MailboxInv'
  <1> SUFFICES ASSUME MailboxInv, CommitSession PROVE MailboxInv'
    OBVIOUS
  <1> USE DEF MailboxInv, CommitSession, EndSession, messageVars, failureVars
  <1>1. TypeOK'
    <2>1. DbTypeOK'
      BY DEF TypeOK, DbTypeOK, MailStatus
    <2>2. response' \in [MailId -> {0} \cup MsgId]
      BY DEF TypeOK
    <2>3. usageMails' \subseteq MsgId
      BY DEF TypeOK, UsageRows
    <2> QED
      BY <2>1, <2>2, <2>3 DEF TypeOK, NoUpdates
  <1>2. OpenTransaction'
    BY DEF OpenTransaction, NoUpdates
  <1>3. Whereabouts'
    <2>1. 0 \notin mailbox \cup deleted
      BY DEF TypeOK, MsgId
    <2>2. deleted \cap mailbox = {}
      BY DEF OpenTransaction
    <2> QED
      BY <2>1, <2>2, CommitStores DEF Whereabouts
  <1>4. ReplyFiled'
    <2>1. \A m \in MailId : tx[m] # 0 => tx[m] \notin Stored
      BY DEF OpenTransaction, Whereabouts
    <2>2. \A m \in MailId : response[m] \in Stored
      BY DEF Stored
    <2>3. ASSUME NEW m \in MailId PROVE response'[m] # 0 <=> mailStatus'[m] \notin {"none", "reply_pending"}
      BY <2>3 DEF ReplyFiled
    <2>4. ASSUME NEW m \in MailId, NEW n \in MailId,
                 response'[m] # 0, response'[n] = response'[m]
          PROVE  m = n
      BY <2>1, <2>2, <2>4 DEF ReplyFiled, OpenTransaction
    <2> QED
      BY <2>3, <2>4 DEF ReplyFiled
  <1> QED
    BY <1>1, <1>2, <1>3, <1>4

LEMMA NextKeeps == MailboxInv /\ [Next]_vars => MailboxInv'
  <1>1. MailboxInv /\ UNCHANGED vars => MailboxInv'
    BY DEF vars, boxVars, messageVars, failureVars, dbVars, MailboxInv, TypeOK, DbTypeOK,
           OpenTransaction, NoUpdates, Whereabouts, Stored, ReplyFiled
  <1> QED
    BY <1>1, EnvironmentKeeps, DeliverKeeps, ReadingKeeps, EndKeeps, QuitKeeps, CommitKeeps
       DEF Next, Session

(* The inductive invariant holds of every behaviour of the mailbox task.   *)
THEOREM MailboxInvariant == Spec => []MailboxInv
  BY InitInv, NextKeeps, PTL DEF Spec

(* Unless a session fails between QUIT and the commit, every message is in *)
(* exactly one place: the maildrop, the session about to commit, the       *)
(* tables.                                                                 *)
THEOREM NothingLostNorDoubled == Spec => []StoredExactlyOnce
  <1>1. MailboxInv => StoredExactlyOnce
    <2> SUFFICES ASSUME MailboxInv, lateFailures = 0, NEW i \in 1..arrived
                 PROVE  /\ \/ i \in mailbox
                           \/ session = "quit" /\ i \in deleted
                           \/ i \in Stored
                        /\ ~ (i \in mailbox /\ session = "quit" /\ i \in deleted)
                        /\ ~ (i \in mailbox /\ i \in Stored)
                        /\ ~ (session = "quit" /\ i \in deleted /\ i \in Stored)
      BY DEF StoredExactlyOnce
    <2> QED
      BY DEF MailboxInv, TypeOK, OpenTransaction, Whereabouts
  <1> QED
    BY <1>1, MailboxInvariant, PTL

(* Whatever fails, a message that is stored is not delivered again. *)
THEOREM StoredIsGone == Spec => []NeverStoredAgain
  <1>1. MailboxInv => NeverStoredAgain
    BY DEF MailboxInv, Whereabouts, NeverStoredAgain
  <1> QED
    BY <1>1, MailboxInvariant, PTL

(* A reply is filed under one Mail, and the status of the Mail says so. *)
THEOREM OneReplyPerMail == Spec => []ReplyFiled
  <1>1. MailboxInv => ReplyFiled
    BY DEF MailboxInv
  <1> QED
    BY <1>1, MailboxInvariant, PTL

-----------------------------------------------------------------------------
(* HMRC's answer is never overwritten, whatever arrives later, and what a  *)
(* session has read appears at once.                                       *)
THEOREM AnswersStand == Spec => AnswerStands
  <1> DEFINE Stands == /\ \A m \in MailId : response[m] # 0 => response'[m] = response[m]
                       /\ Stored' # Stored => deleted \subseteq Stored'
  <1>1. MailboxInv /\ CommitSession => Stands
    <2> SUFFICES ASSUME MailboxInv, CommitSession PROVE Stands
      OBVIOUS
    <2>1. 0 \notin deleted
      BY DEF MailboxInv, TypeOK, MsgId
    <2> QED
      BY <2>1, CommitStores
  <1>2. (UNCHANGED <<response, usageMails>>) => Stands
    BY DEF Stored
  <1>3. [Next]_vars => CommitSession \/ UNCHANGED <<response, usageMails>>
    BY DEF Next, Session, OpenSession, SaveLicenceReply, SaveUsageData, LeaveUnknown,
           AbandonSession, Quit, FailReading, FailBeforeCommit, Deliver, Arrive, FileSent,
           ReplyForwarded, vars, boxVars, storedVars
  <1>4. MailboxInv /\ [Next]_vars => [Stands]_vars
    BY <1>1, <1>2, <1>3
  <1> QED
    BY <1>4, MailboxInvariant, PTL DEF Spec, AnswerStands

(* The commit of a session stores the replies of Mails that await them. *)
LEMMA CommitIsStoreReplies ==
  ASSUME MailboxInv, CommitSession
  PROVE  StoreReplies({m \in MailId : tx[m] # 0})
  <1> DEFINE M == {m \in MailId : tx[m] # 0}
  <1>1. M \subseteq AwaitingReply
    BY DEF MailboxInv, OpenTransaction, AwaitingReply
  <1>2. mailStatus' = [m \in MailId |-> IF m \in M THEN "reply_received" ELSE mailStatus[m]]
    BY DEF CommitSession
  <1>3. UNCHANGED <<payload, ldRun, ldItems>>
    BY DEF CommitSession
  <1> QED
    BY <1>1, <1>2, <1>3 DEF StoreReplies

LEMMA OnlyCommitWrites ==
  ASSUME Session \/ FailReading \/ FailBeforeCommit, ~ CommitSession
  PROVE  UNCHANGED <<dbVars, response>>
  BY DEF Session, OpenSession, SaveLicenceReply, SaveUsageData, LeaveUnknown, AbandonSession,
         Quit, FailReading, FailBeforeCommit, storedVars

LEMMA StepImplements == MailboxInv /\ [Next]_vars => [WorkflowNext]_dbVars
  <1> SUFFICES ASSUME MailboxInv, [Next]_vars PROVE [WorkflowNext]_dbVars
    OBVIOUS
  <1>1. CASE CommitSession
    <2>1. {m \in MailId : tx[m] # 0} \in SUBSET MailId
      OBVIOUS
    <2> QED
      BY <1>1, <2>1, CommitIsStoreReplies DEF WorkflowNext
  <1>2. CASE \E p \in Payload : Arrive(p)
    BY <1>2 DEF Arrive, WorkflowNext
  <1>3. CASE \E m \in MailId, r \in Run : \E marked \in SUBSET Queued :
               \E items \in SUBSET marked : FileSent(m, r, items, marked)
    BY <1>3 DEF FileSent, WorkflowNext
  <1>4. CASE \E m \in MailId, s \in MailStatus : ReplyForwarded(m, s)
    BY <1>4 DEF ReplyForwarded, WorkflowNext
  <1>5. CASE UNCHANGED vars \/ \E kind \in Kinds, r \in Run : Deliver(kind, r)
    BY <1>5 DEF Deliver, vars, storedVars
  <1> QED
    BY <1>1, <1>2, <1>3, <1>4, <1>5, OnlyCommitWrites DEF Next

(* Whatever the maildrop holds and wherever a session fails, the mailbox   *)
(* task changes the tables only by storing awaited replies in one commit.  *)
THEOREM MailboxImplementsWorkflow == Spec => ImplementsWorkflow
  <1>1. Init => DbInit
    BY DEF Init
  <1> QED
    BY <1>1, StepImplements, MailboxInvariant, PTL
       DEF Spec, ImplementsWorkflow, WorkflowSpec

-----------------------------------------------------------------------------
(* Which reply a Mail holds. *)

LEMMA MatchInit == Init => RepliesMatch
  BY DEF Init, NoUpdates, RepliesMatch

(* The run numbers of the messages and of the files stay what they were,   *)
(* and a Mail that gains a reply gains one with its own number.            *)
LEMMA MatchKept ==
  ASSUME MailboxInv, RepliesMatch,
         \A i \in 1..arrived : runOf'[i] = runOf[i],
         \A m \in MailId : mailStatus[m] # "none" => ldRun'[m] = ldRun[m],
         \A m \in MailId :
            /\ tx'[m] \in {0, tx[m]} \/ runOf'[tx'[m]] = ldRun'[m]
            /\ response'[m] \in {tx[m], response[m]}
  PROVE  RepliesMatch'
  <1>1. ASSUME NEW m \in MailId PROVE tx'[m] # 0 => runOf'[tx'[m]] = ldRun'[m]
    <2>1. tx[m] # 0 => tx[m] \in 1..arrived /\ mailStatus[m] # "none"
      BY DEF MailboxInv, OpenTransaction, Whereabouts
    <2> QED
      BY <2>1 DEF RepliesMatch
  <1>2. ASSUME NEW m \in MailId PROVE response'[m] # 0 => runOf'[response'[m]] = ldRun'[m]
    <2>1. tx[m] # 0 => tx[m] \in 1..arrived /\ mailStatus[m] # "none"
      BY DEF MailboxInv, OpenTransaction, Whereabouts
    <2>2. response[m] # 0 => response[m] \in 1..arrived /\ mailStatus[m] # "none"
      BY DEF MailboxInv, Whereabouts, ReplyFiled, Stored
    <2> QED
      BY <2>1, <2>2 DEF RepliesMatch
  <1> QED
    BY <1>1, <1>2 DEF RepliesMatch

LEMMA NextMatches == MailboxInv /\ RepliesMatch /\ [Next]_vars => RepliesMatch'
  <1> SUFFICES ASSUME MailboxInv, RepliesMatch, [Next]_vars PROVE RepliesMatch'
    OBVIOUS
  <1>1. ASSUME NEW i \in todo, SaveLicenceReply(i) PROVE RepliesMatch'
    <2>1. PICK m \in MailId : Accepts(i, m) /\ tx' = [tx EXCEPT ![m] = i]
      BY <1>1 DEF SaveLicenceReply
    <2>2. runOf[i] = ldRun[m]
      BY <2>1 DEF Accepts, Holder
    <2>3. UNCHANGED <<runOf, ldRun, response>>
      BY <1>1 DEF SaveLicenceReply, messageVars, storedVars, dbVars
    <2> QED
      BY <2>1, <2>2, <2>3 DEF MailboxInv, TypeOK, RepliesMatch
  <1>2. ASSUME NEW kind \in Kinds, NEW r \in Run, Deliver(kind, r) PROVE RepliesMatch'
    <2>1. \A i \in 1..arrived : runOf'[i] = runOf[i]
      BY <1>2 DEF Deliver, MailboxInv, TypeOK, MsgId
    <2>2. UNCHANGED <<ldRun, tx, response>>
      BY <1>2 DEF Deliver, storedVars, dbVars
    <2> QED
      BY <2>1, <2>2, MatchKept
  <1>3. ASSUME NEW m \in MailId, NEW r \in Run, NEW marked \in SUBSET Queued,
               NEW items \in SUBSET marked, FileSent(m, r, items, marked)
        PROVE  RepliesMatch'
    <2>1. UNCHANGED <<runOf, tx, response>>
      BY <1>3 DEF FileSent, boxVars, messageVars
    <2>2. \A n \in MailId : mailStatus[n] # "none" => ldRun'[n] = ldRun[n]
      BY <1>3 DEF FileSent, SendFile, MailboxInv, TypeOK, DbTypeOK
    <2> QED
      BY <2>1, <2>2, MatchKept
  <1>4. CASE CommitSession
    <2>1. UNCHANGED <<runOf, ldRun>> /\ tx' = NoUpdates
      BY <1>4 DEF CommitSession, EndSession, messageVars
    <2>2. \A m \in MailId : tx'[m] = 0 /\ response'[m] \in {tx[m], response[m]}
      BY <1>4, <2>1 DEF CommitSession, NoUpdates
    <2> QED
      BY <2>1, <2>2, MatchKept
  <1>5. ASSUME UNCHANGED <<runOf, ldRun, response>>, tx' \in {tx, NoUpdates}
        PROVE  RepliesMatch'
    <2>1. \A m \in MailId : tx'[m] \in {0, tx[m]}
      BY <1>5 DEF NoUpdates
    <2> QED
      BY <1>5, <2>1, MatchKept
  <1>6. CASE \/ OpenSession \/ Quit \/ FailReading \/ FailBeforeCommit
             \/ \E i \in todo : SaveUsageData(i) \/ LeaveUnknown(i) \/ AbandonSession(i)
    BY <1>5, <1>6 DEF OpenSession, Quit, FailReading, FailBeforeCommit, SaveUsageData,
       LeaveUnknown, AbandonSession, EndSession, storedVars, messageVars, dbVars
  <1>7. CASE UNCHANGED vars \/ \E p \in Payload : Arrive(p)
    BY <1>5, <1>7 DEF vars, boxVars, messageVars, dbVars, Arrive, Ingest, mailVars
  <1>8. CASE \E m \in MailId, s \in MailStatus : ReplyForwarded(m, s)
    BY <1>5, <1>8 DEF ReplyForwarded, CloseMail, boxVars, messageVars
  <1> QED
    BY <1>1, <1>2, <1>3, <1>4, <1>6, <1>7, <1>8 DEF Next, Session

(* process_licence_reply_and_usage_emails files a reply under no other     *)
(* Mail than the one whose file has the run number in its subject.         *)
THEOREM RepliesFiledByRun == Spec => []RepliesMatch
  BY MatchInit, NextMatches, MailboxInvariant, PTL DEF Spec

=============================================================================
