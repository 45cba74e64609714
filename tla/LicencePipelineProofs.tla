----------------------- MODULE LicencePipelineProofs -----------------------
(***************************************************************************)
(* The tasks put together, for any number of processes, requests, files,   *)
(* messages and failures.  Each component's proof assumes that the others  *)
(* change the tables only by the commits of module Workflow; here nothing  *)
(* is assumed: the invariants of the three tasks hold together because     *)
(* each one's commit is what the other two allow for.                      *)
(***************************************************************************)
EXTENDS LicencePipeline, TLAPS

(* The tables as each component names them. *)
LEMMA SameTables ==
  /\ Payload = Send!Payload /\ Payload = Box!Payload /\ Payload = Icms!Payload
  /\ MailId = Send!MailId /\ MailId = Box!MailId /\ MailId = Icms!MailId
  /\ Run = Send!Run /\ Run = Box!Run /\ Run = Icms!Run
  /\ Send!Queued = Box!Queued /\ Send!Queued = Icms!Queued
  /\ Send!MailStatus = Box!MailStatus /\ Send!MailStatus = Icms!MailStatus
  /\ Send!AwaitingReply = Icms!AwaitingReply
  BY DEF Payload, Send!Payload, Box!Payload, Icms!Payload, MailId, Send!MailId, Box!MailId,
         Icms!MailId, Run, Send!Run, Box!Run, Icms!Run, Send!Queued, Box!Queued, Icms!Queued,
         Send!MailStatus, Box!MailStatus, Icms!MailStatus, Send!AwaitingReply,
         Icms!AwaitingReply

(* The commits of module Workflow mean the same to each component. *)
LEMMA SameIngest ==
  ASSUME NEW p \in Payload, Ingest(p)
  PROVE  Send!Ingest(p) /\ Box!Ingest(p) /\ Icms!Ingest(p)
  BY SameTables DEF Ingest, Send!Ingest, Box!Ingest, Icms!Ingest, mailVars, Send!mailVars,
                    Box!mailVars, Icms!mailVars

LEMMA SameSendFile ==
  ASSUME NEW m, NEW r, NEW items, NEW marked, Send!SendFile(m, r, items, marked)
  PROVE  Box!SendFile(m, r, items, marked) /\ Icms!SendFile(m, r, items, marked)
  BY SameTables DEF Send!SendFile, Box!SendFile, Icms!SendFile, Send!FollowsRun,
                    Box!FollowsRun, Icms!FollowsRun, Send!Recorded, Box!Recorded,
                    Icms!Recorded

LEMMA SameStoreReplies ==
  ASSUME NEW M, Box!StoreReplies(M)
  PROVE  Send!StoreReplies(M) /\ Icms!StoreReplies(M)
  BY SameTables DEF Send!StoreReplies, Box!StoreReplies, Icms!StoreReplies,
                    Send!AwaitingReply, Box!AwaitingReply, Icms!AwaitingReply

LEMMA SameCloseMail ==
  ASSUME NEW m, NEW s, Icms!CloseMail(m, s)
  PROVE  Send!CloseMail(m, s) /\ Box!CloseMail(m, s)
  BY DEF Send!CloseMail, Box!CloseMail, Icms!CloseMail

-----------------------------------------------------------------------------
(* What is used of the components: each keeps its invariant, and writes    *)
(* the tables only by its commit.                                          *)
LEMMA SendComponent ==
  /\ Send!Init => Send!SendInv
  /\ Send!SendInv /\ [Send!Next]_(Send!vars) => Send!SendInv'
  BY Send!InitInv, Send!NextKeeps, MaxPayloadAssumption, MaxMailAssumption,
     UnsendableAssumption, MaxFailuresAssumption DEF Payload, Send!Payload

LEMMA SendWrites ==
  ASSUME Send!SendInv, NEW w \in Worker,
         Send!Task(w) \/ Send!Fail(w)
  PROVE  \/ UNCHANGED dbVars
         \/ \E m \in Send!MailId, r \in Send!Run :
               \E marked \in SUBSET Send!Queued : \E items \in SUBSET marked :
                  Send!SendFile(m, r, items, marked)
  <1> USE MaxPayloadAssumption, MaxMailAssumption, UnsendableAssumption,
          MaxFailuresAssumption DEF Payload, Send!Payload
  <1>1. CASE Send!Commit(w)
    BY <1>1, Send!CommitIsSendFile
  <1>2. CASE ~ Send!Commit(w)
    BY <1>2, Send!OnlyCommitWrites DEF dbVars, Send!dbVars
  <1> QED
    BY <1>1, <1>2

LEMMA BoxComponent ==
  /\ Box!Init => Box!MailboxInv
  /\ Box!MailboxInv /\ [Box!Next]_(Box!vars) => Box!MailboxInv'
  BY Box!InitInv, Box!NextKeeps, MaxPayloadAssumption, MaxMailAssumption,
     MaxMessagesAssumption, MaxFailuresAssumption DEF Box!MessageKind

LEMMA BoxWrites ==
  ASSUME Box!MailboxInv, Box!Session \/ Box!FailReading \/ Box!FailBeforeCommit
  PROVE  \/ UNCHANGED <<dbVars, response>>
         \/ Box!CommitSession /\ Box!StoreReplies({m \in Box!MailId : tx[m] # 0})
  <1> USE MaxPayloadAssumption, MaxMailAssumption, MaxMessagesAssumption,
          MaxFailuresAssumption DEF Box!MessageKind
  <1>1. CASE Box!CommitSession
    BY <1>1, Box!CommitIsStoreReplies
  <1>2. CASE ~ Box!CommitSession
    BY <1>2, Box!OnlyCommitWrites DEF dbVars, Box!dbVars
  <1> QED
    BY <1>1, <1>2

LEMMA IcmsComponent ==
  /\ Icms!Init => Icms!IcmsInv
  /\ Icms!IcmsInv /\ [Icms!Next]_(Icms!vars) => Icms!IcmsInv'
  BY Icms!InitInv, Icms!NextKeeps, MaxPayloadAssumption, MaxMailAssumption,
     RefOfAssumption, OutcomesAssumption, MaxFailuresAssumption
     DEF Payload, Icms!Payload, Icms!Outcome

LEMMA IcmsWrites ==
  ASSUME Icms!IcmsInv, NEW s \in Sender, Icms!Task(s) \/ Icms!ResponseLost(s) \/ Icms!Fail(s)
  PROVE  \/ UNCHANGED dbVars
         \/ \E m \in Icms!MailId, status \in Icms!MailStatus : Icms!CloseMail(m, status)
  <1> USE MaxPayloadAssumption, MaxMailAssumption, RefOfAssumption, OutcomesAssumption,
          MaxFailuresAssumption DEF Payload, Icms!Payload, Icms!Outcome
  <1>1. CASE Icms!SaveStatus(s)
    BY <1>1, Icms!SaveIsCloseMail
  <1>2. CASE ~ Icms!SaveStatus(s)
    BY <1>2, Icms!OnlySaveWrites DEF dbVars, Icms!dbVars
  <1> QED
    BY <1>1, <1>2

-----------------------------------------------------------------------------
(* A step of one component, seen by the other two. *)
UnchangedAnswers == \A m \in MailId : AnswerOn(m)' = AnswerOn(m)

LEMMA NobodyMoves ==
  /\ UNCHANGED <<dbVars, sendVars>> => UNCHANGED Send!vars
  /\ UNCHANGED <<dbVars, boxVars>> => UNCHANGED Box!vars
  /\ UNCHANGED <<dbVars, icmsVars>> /\ UnchangedAnswers => UNCHANGED Icms!vars
  BY DEF dbVars, sendVars, boxVars, icmsVars, Send!vars, Send!dbVars, Send!sendVars,
         Box!vars, Box!dbVars, Box!boxVars, Box!messageVars, Box!failureVars, Icms!vars,
         Icms!dbVars, Icms!icmsVars, UnchangedAnswers

LEMMA SameAnswers == UNCHANGED <<response, content>> => UnchangedAnswers
  BY DEF UnchangedAnswers, AnswerOn

(* What HMRC has been sent is not taken back, and the messages stay as     *)
(* they are.                                                               *)
MessagesKept ==
  /\ outbox \subseteq outbox'
  /\ UNCHANGED <<replyTo, content, arrived, runOf>>

StepOfEach ==
  [Send!Next]_(Send!vars) /\ [Box!Next]_(Box!vars) /\ [Icms!Next]_(Icms!vars)

LEMMA ArriveStep ==
  ASSUME NEW p \in Payload, Arrive(p)
  PROVE  StepOfEach /\ MessagesKept
  <1>1. Send!Arrive(p) /\ Box!Arrive(p) /\ Icms!Arrive(p)
    <2>1. UnchangedAnswers
      BY SameAnswers DEF Arrive, boxVars, hmrcVars
    <2> QED
      BY <2>1, SameIngest DEF Arrive, Send!Arrive, Box!Arrive, Icms!Arrive, sendVars, boxVars,
         icmsVars, Send!sendVars, Box!boxVars, Box!messageVars, Box!failureVars,
         Icms!icmsVars, UnchangedAnswers
  <1>2. MessagesKept
    BY DEF Arrive, MessagesKept, sendVars, boxVars, hmrcVars
  <1> QED
    BY <1>1, <1>2, SameTables DEF StepOfEach, Send!Next, Box!Next, Icms!Next

(* The send task; its commit is FileSent for the other two. *)
LEMMA SendStep ==
  ASSUME PipelineInv, NEW w \in Worker, SendTask(w) \/ SendFails(w)
  PROVE  StepOfEach /\ MessagesKept
  <1>1. /\ Send!Task(w) \/ Send!Fail(w)
        /\ UNCHANGED <<boxVars, icmsVars, hmrcVars>>
    BY DEF SendTask, SendFails
  <1>2. Send!Next
    BY <1>1 DEF Send!Next
  <1>3. UnchangedAnswers /\ MessagesKept
    <2>1. outbox \subseteq outbox'
      BY <1>1, Send!MailedStaysMailed, MaxPayloadAssumption, MaxMailAssumption,
         UnsendableAssumption, MaxFailuresAssumption DEF Payload, Send!Payload
    <2> QED
      BY <1>1, <2>1, SameAnswers DEF MessagesKept, boxVars, hmrcVars
  <1>4. CASE UNCHANGED dbVars
    BY <1>1, <1>2, <1>3, <1>4, NobodyMoves DEF StepOfEach
  <1>5. ASSUME NEW m \in Send!MailId, NEW r \in Send!Run, NEW marked \in SUBSET Send!Queued,
               NEW items \in SUBSET marked, Send!SendFile(m, r, items, marked)
        PROVE  Box!Next /\ Icms!Next
    <2>1. Box!FileSent(m, r, items, marked)
      BY <1>1, <1>5, SameSendFile DEF Box!FileSent, boxVars, Box!boxVars, Box!messageVars,
         Box!failureVars
    <2>2. Icms!FileSent(m, r, items, marked)
      BY <1>1, <1>3, <1>5, SameSendFile DEF Icms!FileSent, icmsVars, Icms!icmsVars,
         UnchangedAnswers
    <2> QED
      BY <2>1, <2>2, SameTables DEF Box!Next, Icms!Next
  <1> QED
    BY <1>1, <1>2, <1>3, <1>4, <1>5, SendWrites DEF PipelineInv, StepOfEach

(* The mailbox task; its commit gives the Mails the contents of messages.  *)
LEMMA BoxStep ==
  ASSUME PipelineInv, MailboxTask \/ MailboxFails
  PROVE  StepOfEach /\ MessagesKept
  <1>1. /\ Box!Session \/ Box!FailReading \/ Box!FailBeforeCommit
        /\ UNCHANGED <<sendVars, icmsVars, hmrcVars>>
    BY DEF MailboxTask, MailboxFails
  <1>2. Box!Next
    BY <1>1 DEF Box!Next
  <1>3. MessagesKept
    BY <1>1 DEF MessagesKept, sendVars, hmrcVars, Box!Session, Box!OpenSession, Box!SaveLicenceReply,
       Box!SaveUsageData, Box!LeaveUnknown, Box!AbandonSession, Box!Quit, Box!CommitSession,
       Box!FailReading, Box!FailBeforeCommit, Box!messageVars
  <1>4. CASE UNCHANGED <<dbVars, response>>
    <2>1. UnchangedAnswers
      BY <1>3, <1>4, SameAnswers DEF MessagesKept
    <2> QED
      BY <1>1, <1>2, <1>3, <1>4, <2>1, NobodyMoves DEF StepOfEach
  <1>5. CASE Box!CommitSession /\ Box!StoreReplies({m \in Box!MailId : tx[m] # 0})
    <2> DEFINE M == {m \in MailId : tx[m] # 0}
               replies == [m \in M |-> content[tx[m]]]
    <2>1. Send!StoreReplies(M) /\ Icms!StoreReplies(M)
      BY <1>5, SameTables, SameStoreReplies
    <2>2. Send!Next
      <3>1. Send!ReplyArrives(M)
        BY <1>1, <2>1 DEF Send!ReplyArrives, sendVars, Send!sendVars
      <3> QED
        BY <3>1, SameTables DEF Send!Next
    <2>3. \A m \in M : tx[m] \in 1..arrived
      BY SameTables DEF PipelineInv, Box!MailboxInv, Box!OpenTransaction, Box!Whereabouts
    <2>4. replies \in [M -> Icms!Answer]
      BY <2>3 DEF PipelineInv, Contents
    <2>5. \A m \in MailId : AnswerOn(m)' = IF m \in M THEN replies[m] ELSE AnswerOn(m)
      <3>1. \A m \in MailId : response'[m] = IF tx[m] # 0 THEN tx[m] ELSE response[m]
        BY <1>5, SameTables DEF Box!CommitSession
      <3> QED
        BY <1>3, <3>1 DEF AnswerOn, MessagesKept
    <2>6. M \in SUBSET Icms!AwaitingReply /\ M = DOMAIN replies
      BY <2>1 DEF Icms!StoreReplies
    <2>7. Icms!RepliesStored(replies)
      BY <1>1, <2>1, <2>5, <2>6, SameTables DEF Icms!RepliesStored, icmsVars
    <2>8. Icms!Next
      BY <2>4, <2>6, <2>7 DEF Icms!Next
    <2> QED
      BY <1>2, <1>3, <2>2, <2>8 DEF StepOfEach
  <1> QED
    BY <1>1, <1>4, <1>5, BoxWrites DEF PipelineInv

(* The callback task; its commit closes a Mail. *)
LEMMA IcmsStep ==
  ASSUME PipelineInv, NEW s \in Sender, IcmsTask(s) \/ IcmsFails(s)
  PROVE  StepOfEach /\ MessagesKept
  <1>1. /\ Icms!Task(s) \/ Icms!ResponseLost(s) \/ Icms!Fail(s)
        /\ UNCHANGED <<sendVars, boxVars, hmrcVars>>
    BY DEF IcmsTask, IcmsFails
  <1>2. Icms!Next
    BY <1>1 DEF Icms!Next
  <1>3. MessagesKept
    BY <1>1 DEF MessagesKept, sendVars, boxVars, hmrcVars
  <1>4. CASE UNCHANGED dbVars
    BY <1>1, <1>2, <1>3, <1>4, NobodyMoves DEF StepOfEach
  <1>5. ASSUME NEW m \in Icms!MailId, NEW status \in Icms!MailStatus,
               Icms!CloseMail(m, status)
        PROVE  Send!Next /\ Box!Next
    <2>1. Send!ReplyForwarded(m, status) /\ Box!ReplyForwarded(m, status)
      BY <1>1, <1>5, SameCloseMail DEF Send!ReplyForwarded, Box!ReplyForwarded, sendVars,
         boxVars, Send!sendVars, Box!boxVars, Box!messageVars, Box!failureVars
    <2> QED
      BY <2>1, SameTables DEF Send!Next, Box!Next
  <1> QED
    BY <1>1, <1>2, <1>3, <1>4, <1>5, IcmsWrites DEF PipelineInv, StepOfEach

(* HMRC answers a file that it has. *)
LEMMA HmrcStep ==
  ASSUME PipelineInv, NEW f \in outbox, HmrcReplies(f)
  PROVE  StepOfEach /\ Contents'
  <1>1. /\ Box!Deliver("reply", f.run)
        /\ UNCHANGED <<sendVars, icmsVars>>
        /\ \E a \in AnswersTo(f) : content' = Append(content, a)
        /\ replyTo' = Append(replyTo, f)
    BY DEF HmrcReplies
  <1>2. UNCHANGED dbVars /\ UNCHANGED response /\ arrived' = arrived + 1
    BY <1>1 DEF Box!Deliver, Box!storedVars, Box!dbVars, dbVars
  <1>3. PICK a \in AnswersTo(f) : a \in Icms!Answer /\ content' = Append(content, a)
    BY <1>1 DEF AnswersTo
  <1>4. f \in Send!File /\ f.run \in Box!Run
    BY SameTables DEF PipelineInv, Send!SendInv, Send!TypeOK, Send!File
  <1>5. Box!Next
    BY <1>1, <1>4 DEF Box!Next
  <1>6. UnchangedAnswers
    <2>1. \A m \in MailId : response[m] = 0 \/ response[m] \in 1..Len(content)
      BY SameTables DEF PipelineInv, Box!MailboxInv, Box!Whereabouts, Box!Stored, Contents
    <2>2. \A i \in 1..Len(content) : content'[i] = content[i]
      BY <1>3 DEF PipelineInv, Contents
    <2> QED
      BY <1>2, <2>1, <2>2 DEF UnchangedAnswers, AnswerOn
  <1>7. Contents'
    <2>1. arrived \in Nat /\ arrived + 1 \in Box!MsgId /\ runOf' = [runOf EXCEPT ![arrived + 1] = f.run]
      BY <1>1, MaxMessagesAssumption
         DEF Box!Deliver, PipelineInv, Box!MailboxInv, Box!TypeOK, Box!MsgId
    <2>2. /\ replyTo' \in Seq(Send!File) /\ Len(replyTo') = arrived'
          /\ content' \in Seq(Icms!Answer) /\ Len(content') = arrived'
      BY <1>1, <1>2, <1>3, <1>4 DEF PipelineInv, Contents
    <2>3. \A i \in 1..arrived' :
             /\ i # arrived + 1 => i \in 1..arrived /\ replyTo'[i] = replyTo[i]
                                   /\ content'[i] = content[i] /\ runOf'[i] = runOf[i]
             /\ i = arrived + 1 => replyTo'[i] = f /\ content'[i] = a /\ runOf'[i] = f.run
      <3>1. \A i \in 1..arrived' : i # arrived + 1 => i \in 1..arrived
        BY <1>2, <2>1
      <3>2. runOf \in [Box!MsgId -> {0} \cup Box!Run] /\ 1..arrived \subseteq Box!MsgId
        BY <2>1, MaxMessagesAssumption DEF PipelineInv, Box!MailboxInv, Box!TypeOK, Box!MsgId
      <3> QED
        BY <1>1, <1>2, <1>3, <1>4, <2>1, <3>1, <3>2 DEF PipelineInv, Contents
    <2>4. outbox' = outbox
      BY <1>1 DEF sendVars
    <2>5. \A g : AnswersTo(g)' = AnswersTo(g)
      BY DEF AnswersTo, Refs, Icms!Answer
    <2>6. \A i \in 1..arrived' : /\ replyTo'[i] \in outbox' /\ replyTo'[i].run = runOf'[i]
                                 /\ content'[i] \in AnswersTo(replyTo'[i])
      BY <1>3, <2>3, <2>4 DEF PipelineInv, Contents
    <2> QED
      BY <2>2, <2>6 DEF Contents
  <1> QED
    BY <1>1, <1>2, <1>5, <1>6, <1>7, NobodyMoves DEF StepOfEach

LEMMA NextIsStepOfEach ==
  ASSUME PipelineInv, [Next]_vars
  PROVE  StepOfEach /\ Contents'
  <1>1. MessagesKept => Contents'
    BY DEF PipelineInv, Contents, MessagesKept
  <1>2. CASE UNCHANGED vars
    <2>1. UNCHANGED <<dbVars, sendVars, boxVars, icmsVars>> /\ MessagesKept /\ UnchangedAnswers
      BY <1>2, SameAnswers DEF vars, MessagesKept, sendVars, boxVars, hmrcVars
    <2> QED
      BY <1>1, <2>1, NobodyMoves DEF StepOfEach
  <1>3. CASE \E p \in Payload : Arrive(p)
    BY <1>1, <1>3, ArriveStep
  <1>4. CASE \E w \in Worker : SendTask(w) \/ SendFails(w)
    BY <1>1, <1>4, SendStep
  <1>5. CASE \E f \in outbox : HmrcReplies(f)
    BY <1>5, HmrcStep
  <1>6. CASE MailboxTask \/ MailboxFails
    BY <1>1, <1>6, BoxStep
  <1>7. CASE \E s \in Sender : IcmsTask(s) \/ IcmsFails(s)
    BY <1>1, <1>7, IcmsStep
  <1> QED
    BY <1>2, <1>3, <1>4, <1>5, <1>6, <1>7 DEF Next

-----------------------------------------------------------------------------
(* The invariants of the three tasks hold together, with nothing assumed   *)
(* about the environment of any of them.                                   *)
THEOREM PipelineInvariant == Spec => []PipelineInv
  <1>1. Init => PipelineInv
    BY SendComponent, BoxComponent, IcmsComponent
       DEF Init, PipelineInv, Contents, Box!Init
  <1>2. PipelineInv /\ [Next]_vars => PipelineInv'
    <2> SUFFICES ASSUME PipelineInv, [Next]_vars PROVE PipelineInv'
      OBVIOUS
    <2>1. StepOfEach /\ Contents'
      BY NextIsStepOfEach
    <2> QED
      BY <2>1, SendComponent, BoxComponent, IcmsComponent DEF PipelineInv, StepOfEach
  <1> QED
    BY <1>1, <1>2, PTL DEF Spec

(* Put together with the real others, each task behaves as its own module  *)
(* says, so that all that is proved or checked there holds of the whole.   *)
THEOREM TasksInTheirPlaces == Spec => EachInItsPlace
  <1>1. Init => Send!Init /\ Box!Init /\ Icms!Init
    BY DEF Init
  <1>2. PipelineInv /\ [Next]_vars =>
           [Send!Next]_(Send!vars) /\ [Box!Next]_(Box!vars) /\ [Icms!Next]_(Icms!vars)
    BY NextIsStepOfEach DEF StepOfEach
  <1> QED
    BY <1>1, <1>2, PipelineInvariant, PTL
       DEF Spec, EachInItsPlace, SendInItsPlace, MailboxInItsPlace, IcmsInItsPlace,
           Send!Spec, Box!Spec, Icms!Spec

-----------------------------------------------------------------------------
(* The life of the requests, when runs of the send task do not overlap.    *)

LEMMA LifeInit == Init => LifeInv
  <1>1. Init => PipelineInv
    BY SendComponent, BoxComponent, IcmsComponent
       DEF Init, PipelineInv, Contents, Box!Init
  <1>2. Init => Send!AloneInv
    BY Send!AloneInit, MaxPayloadAssumption, MaxMailAssumption, UnsendableAssumption,
       MaxFailuresAssumption DEF Init, Payload, Send!Payload
  <1>3. Init => Box!RepliesMatch
    BY Box!MatchInit, MaxPayloadAssumption, MaxMailAssumption, MaxMessagesAssumption,
       MaxFailuresAssumption DEF Init, Box!MessageKind
  <1>4. Init => Icms!ToldInv
    BY Icms!ToldInit, MaxPayloadAssumption, MaxMailAssumption, RefOfAssumption,
       OutcomesAssumption, MaxFailuresAssumption
       DEF Init, Payload, Icms!Payload, Icms!Outcome
  <1> QED
    BY <1>1, <1>2, <1>3, <1>4 DEF LifeInv

LEMMA LifeStep ==
  ASSUME Send!Alone, LifeInv, [Next]_vars
  PROVE  LifeInv'
  <1>1. PipelineInv /\ StepOfEach /\ Contents'
    BY NextIsStepOfEach DEF LifeInv
  <1>2. PipelineInv'
    BY <1>1, SendComponent, BoxComponent, IcmsComponent DEF PipelineInv, StepOfEach
  <1>3. Send!AloneInv'
    BY <1>1, Send!AloneStep, MaxPayloadAssumption, MaxMailAssumption, UnsendableAssumption,
       MaxFailuresAssumption DEF LifeInv, PipelineInv, StepOfEach, Payload, Send!Payload
  <1>4. Box!RepliesMatch'
    BY <1>1, Box!NextMatches, MaxPayloadAssumption, MaxMailAssumption, MaxMessagesAssumption,
       MaxFailuresAssumption DEF LifeInv, PipelineInv, StepOfEach, Box!MessageKind
  <1>5. Icms!ToldInv'
    BY <1>1, Icms!NextTells, MaxPayloadAssumption, MaxMailAssumption, RefOfAssumption,
       OutcomesAssumption, MaxFailuresAssumption
       DEF LifeInv, PipelineInv, StepOfEach, Payload, Icms!Payload, Icms!Outcome
  <1> QED
    BY <1>2, <1>3, <1>4, <1>5 DEF LifeInv

(* If runs of the send task do not overlap: one file is with HMRC at a     *)
(* time, a Mail holds a reply with its own run number, and ICMS is told of *)
(* that Mail's requests only, in the composed system too.                  *)
THEOREM LifeInvariant ==
  ASSUME Send!Alone PROVE Spec => []LifeInv
  <1>1. LifeInv /\ [Next]_vars => LifeInv'
    BY LifeStep
  <1> QED
    BY <1>1, LifeInit, PTL DEF Spec

-----------------------------------------------------------------------------
(* What the invariant says of one Mail and of one request. *)

(* The reply on a Mail carries the run number of its file. *)
LEMMA OwnRun ==
  ASSUME LifeInv, NEW m \in MailId, mailStatus[m] \notin {"none", "reply_pending"}
  PROVE  /\ response[m] \in 1..arrived
         /\ AnswerOn(m) = content[response[m]]
         /\ AnswerOn(m).run = ldRun[m]
  <1>1. response[m] # 0
    BY SameTables DEF LifeInv, PipelineInv, Box!MailboxInv, Box!ReplyFiled
  <1>2. response[m] \in 1..arrived
    BY <1>1, SameTables DEF LifeInv, PipelineInv, Box!MailboxInv, Box!Whereabouts, Box!Stored
  <1>3. content[response[m]].run = runOf[response[m]] /\ runOf[response[m]] = ldRun[m]
    BY <1>1, <1>2, SameTables
       DEF LifeInv, PipelineInv, Contents, AnswersTo, Box!RepliesMatch
  <1> QED
    BY <1>1, <1>2, <1>3 DEF AnswerOn

LEMMA ToldOfItsFile ==
  ASSUME LifeInv, NEW m \in MailId
  PROVE  told[m] \subseteq ldItems[m]
  <1>1. CASE mailStatus[m] \in {"none", "reply_pending"}
    BY <1>1, SameTables DEF LifeInv, Icms!ToldInv
  <1>2. CASE mailStatus[m] \notin {"none", "reply_pending"}
    BY <1>2, OwnRun, SameTables DEF LifeInv, Icms!ToldInv, Icms!ToldTheRightLicence
  <1> QED
    BY <1>1, <1>2

(* The request of a file has left the queue and is in no other file. *)
LEMMA InOneFile ==
  ASSUME LifeInv, NEW m \in MailId, NEW p \in ldItems[m]
  PROVE  /\ p \in Payload /\ payload[p] = "processed" /\ Filed(p) = {m}
         /\ mailStatus[m] # "none"
  BY SameTables DEF LifeInv, PipelineInv, Send!SendInv, Send!TypeOK, Send!DbTypeOK,
     Send!NoDoubleSend, Send!LinkedAreProcessed, Send!Processed, Send!StampsFresh, Filed

(* A request that is not in a file has not been answered. *)
LEMMA NotFiledNotHeard ==
  ASSUME LifeInv, NEW p \in Payload, payload[p] # "processed"
  PROVE  Filed(p) = {} /\ ~ Heard(p)
  BY InOneFile, ToldOfItsFile DEF Filed, Heard

StillOpen(p) == \E m \in Filed(p) : mailStatus[m] # "reply_processed"

LEMMA Stages ==
  ASSUME NEW p \in Payload, payload[p] \in PayloadState
  PROVE  /\ StageOf(p) = "unknown" <=> payload[p] = "absent"
         /\ StageOf(p) = "waiting" <=> payload[p] = "queued"
         /\ StageOf(p) = "answered" <=> payload[p] = "processed" /\ Heard(p)
         /\ StageOf(p) = "sent" <=> payload[p] = "processed" /\ ~ Heard(p) /\ StillOpen(p)
         /\ StageOf(p) = "dropped" <=> payload[p] = "processed" /\ ~ Heard(p) /\ ~ StillOpen(p)
  BY DEF StageOf, StillOpen, PayloadState

LEMMA StagesNext ==
  ASSUME NEW p \in Payload, payload'[p] \in PayloadState
  PROVE  /\ payload'[p] = "absent" => StageOf(p)' = "unknown"
         /\ payload'[p] = "queued" => StageOf(p)' = "waiting"
         /\ payload'[p] = "processed" /\ Heard(p)' => StageOf(p)' = "answered"
         /\ payload'[p] = "processed" /\ ~ Heard(p)' /\ StillOpen(p)' => StageOf(p)' = "sent"
         /\ payload'[p] = "processed" /\ ~ Heard(p)' /\ ~ StillOpen(p)' =>
               StageOf(p)' = "dropped"
  BY DEF StageOf, StillOpen, PayloadState

LEMMA PayloadStates ==
  ASSUME LifeInv PROVE payload \in [Payload -> PayloadState]
  BY SameTables DEF LifeInv, PipelineInv, Send!SendInv, Send!TypeOK, Send!DbTypeOK,
     PayloadState, Send!PayloadState

(* A request whose row, files and answers stay as they are stays where it is. *)
LEMMA StageStays ==
  ASSUME NEW p \in Payload, payload'[p] = payload[p], Heard(p)' <=> Heard(p),
         StillOpen(p)' <=> StillOpen(p)
  PROVE  StageOf(p)' = StageOf(p)
  BY DEF StageOf, StillOpen

-----------------------------------------------------------------------------
(* Each step moves the requests as RequestLife allows, or not at all. *)

AllStay == \A p \in Payload : StageOf(p)' = StageOf(p)
LifeGoesOn == Life!Next \/ AllStay

(* A step that writes no request and no file, tells ICMS nothing new and   *)
(* closes no Mail as complete.                                             *)
LEMMA NobodyMovesOn ==
  ASSUME UNCHANGED <<payload, ldItems>>,
         \A p \in Payload : Heard(p)' <=> Heard(p),
         \A m \in MailId : mailStatus'[m] = "reply_processed" <=> mailStatus[m] = "reply_processed"
  PROVE  AllStay
  <1>1. \A p \in Payload : StillOpen(p)' <=> StillOpen(p)
    BY DEF StillOpen, Filed
  <1> QED
    BY <1>1, StageStays DEF AllStay

LEMMA ArriveMoves ==
  ASSUME LifeInv, NEW p \in Payload, Arrive(p)
  PROVE  Life!Next
  <1>1. /\ payload[p] = "absent" /\ payload' = [payload EXCEPT ![p] = "queued"]
        /\ UNCHANGED <<mailStatus, ldItems, told>>
    BY DEF Arrive, Ingest, mailVars, icmsVars
  <1>2. payload'[p] = "queued" /\ payload'[p] \in PayloadState
    BY <1>1, PayloadStates DEF PayloadState
  <1>3. StageOf(p) = "unknown" /\ StageOf(p)' = "waiting"
    BY <1>1, <1>2, Stages, StagesNext, PayloadStates
  <1>4. ASSUME NEW q \in Payload, q # p PROVE StageOf(q)' = StageOf(q)
    <2>1. payload'[q] = payload[q]
      BY <1>1, <1>4, PayloadStates
    <2>2. (Heard(q)' <=> Heard(q)) /\ (StillOpen(q)' <=> StillOpen(q))
      BY <1>1 DEF Heard, StillOpen, Filed
    <2> QED
      BY <2>1, <2>2, StageStays
  <1>5. Life!Accept(p)
    BY <1>3, <1>4 DEF Life!Accept, Life!At, Life!Move
  <1> QED
    BY <1>5 DEF Life!Next

(* The commit of the send task: the requests in the file go to HMRC        *)
(* together; those that are marked and were not read for the file are      *)
(* dropped.                                                                *)
LEMMA CommitMoves ==
  ASSUME LifeInv, NEW w \in Worker, Send!Commit(w), UNCHANGED icmsVars
  PROVE  Life!Next
  <1> DEFINE s == stamp[w]
             S == held[w]
             marked == Send!RowsToMark(w)
  <1>1. /\ s \in MailId /\ s # 0 /\ mailStatus[s] = "none"
        /\ S # {} /\ S \subseteq marked /\ marked \subseteq Queued
    BY MaxMailAssumption, SameTables
       DEF Send!Commit, LifeInv, PipelineInv, Send!SendInv, Send!TypeOK, Send!Progress,
           Send!StampsFresh, Send!MailId, Send!RowsToMark, Send!LocksExclude, Queued, Send!Queued
  <1>2. /\ payload' = [p \in Payload |-> IF p \in marked THEN "processed" ELSE payload[p]]
        /\ mailStatus' = [mailStatus EXCEPT ![s] = "reply_pending"]
        /\ ldItems' = [ldItems EXCEPT ![s] = S]
        /\ told' = told
    BY SameTables DEF Send!Commit, icmsVars
  <1>3. \A m \in MailId : mailStatus[m] \in {"none", "reply_processed"}
    BY SameTables DEF Send!Commit, LifeInv, Send!AloneInv, Send!NothingOutstanding, Send!Unfinished
  <1>4. /\ ldItems \in [MailId -> SUBSET Payload] /\ mailStatus \in [MailId -> MailStatus]
        /\ ldItems[s] = {}
    BY <1>1, SameTables
       DEF LifeInv, PipelineInv, Send!SendInv, Send!TypeOK, Send!DbTypeOK, Send!StampsFresh,
           MailStatus, Send!MailStatus
  <1>5. \A p \in Queued : payload[p] = "queued" /\ p \in Payload /\ StageOf(p) = "waiting"
    BY Stages, PayloadStates DEF Queued
  <1>6. Life!At("sent") = {}
    <2> SUFFICES ASSUME NEW p \in Payload, StageOf(p) = "sent" PROVE FALSE
      BY DEF Life!At
    <2>1. StillOpen(p)
      BY Stages, PayloadStates
    <2>2. PICK m \in MailId : p \in ldItems[m] /\ mailStatus[m] # "reply_processed"
      BY <2>1 DEF StillOpen, Filed
    <2> QED
      BY <1>3, <2>2, InOneFile
  <1>7. ASSUME NEW p \in S PROVE StageOf(p)' = "sent"
    <2>1. p \in Payload /\ payload'[p] = "processed" /\ payload'[p] \in PayloadState
      BY <1>1, <1>2, <1>5 DEF PayloadState
    <2>2. ~ Heard(p)'
      BY <1>1, <1>2, <1>5, NotFiledNotHeard DEF Heard
    <2>3. StillOpen(p)'
      BY <1>1, <1>2, <1>4 DEF StillOpen, Filed
    <2> QED
      BY <2>1, <2>2, <2>3, StagesNext
  <1>8. ASSUME NEW p \in marked \ S PROVE StageOf(p)' = "dropped"
    <2>1. p \in Payload /\ payload'[p] = "processed" /\ payload'[p] \in PayloadState
      BY <1>1, <1>2, <1>5 DEF PayloadState
    <2>2. ~ Heard(p)' /\ Filed(p) = {}
      BY <1>1, <1>2, <1>5, NotFiledNotHeard DEF Heard
    <2>3. ~ StillOpen(p)'
      BY <1>1, <1>2, <1>4, <2>2 DEF StillOpen, Filed
    <2> QED
      BY <2>1, <2>2, <2>3, StagesNext
  <1>9. ASSUME NEW p \in Payload, p \notin marked PROVE StageOf(p)' = StageOf(p)
    <2>1. payload'[p] = payload[p]
      BY <1>2, <1>9
    <2>2. Heard(p)' <=> Heard(p)
      BY <1>2 DEF Heard
    <2>3. StillOpen(p)' <=> StillOpen(p)
      BY <1>1, <1>2, <1>4, <1>9 DEF StillOpen, Filed
    <2> QED
      BY <2>1, <2>2, <2>3, StageStays
  <1>10. Life!SendBatch(S)
    <2> DEFINE D == marked \ S
    <2>1. S \subseteq Life!At("waiting") /\ D \in SUBSET (Life!At("waiting") \ S)
      BY <1>1, <1>5 DEF Life!At
    <2>2. [p \in Payload |-> StageOf(p)]' =
            [p \in Payload |-> IF p \in S THEN "sent" ELSE IF p \in D THEN "dropped"
                               ELSE [q \in Payload |-> StageOf(q)][p]]
      BY <1>7, <1>8, <1>9
    <2> QED
      BY <1>1, <1>6, <2>1, <2>2 DEF Life!SendBatch
  <1>11. S \in SUBSET Life!At("waiting")
    BY <1>1, <1>5 DEF Life!At
  <1> QED
    BY <1>10, <1>11 DEF Life!Next

LEMMA SendMoves ==
  ASSUME LifeInv, NEW w \in Worker, SendTask(w) \/ SendFails(w)
  PROVE  LifeGoesOn
  <1>1. (Send!Task(w) \/ Send!Fail(w)) /\ UNCHANGED icmsVars
    BY DEF SendTask, SendFails
  <1>2. CASE Send!Commit(w)
    BY <1>1, <1>2, CommitMoves DEF LifeGoesOn
  <1>3. CASE ~ Send!Commit(w)
    <2>1. UNCHANGED dbVars
      BY <1>1, <1>3, Send!OnlyCommitWrites, MaxPayloadAssumption, MaxMailAssumption,
         UnsendableAssumption, MaxFailuresAssumption
         DEF dbVars, Send!dbVars, Payload, Send!Payload
    <2>2. AllStay
      BY <1>1, <2>1, NobodyMovesOn DEF dbVars, icmsVars, Heard
    <2> QED
      BY <2>2 DEF LifeGoesOn
  <1> QED
    BY <1>2, <1>3

LEMMA BoxMoves ==
  ASSUME LifeInv, MailboxTask \/ MailboxFails
  PROVE  AllStay
  <1>1. /\ Box!Session \/ Box!FailReading \/ Box!FailBeforeCommit
        /\ UNCHANGED icmsVars
    BY DEF MailboxTask, MailboxFails
  <1>2. /\ UNCHANGED <<payload, ldItems, told>>
        /\ \A m \in MailId : mailStatus'[m] = mailStatus[m]
                 \/ (mailStatus[m] = "reply_pending" /\ mailStatus'[m] = "reply_received")
    BY <1>1, BoxWrites, SameTables
       DEF LifeInv, PipelineInv, dbVars, icmsVars, Box!StoreReplies, Box!AwaitingReply
  <1> QED
    BY <1>2, NobodyMovesOn DEF Heard

(* The callback: the requests that ICMS hears of for the first time. *)
LEMMA PostMoves ==
  ASSUME LifeInv, NEW s \in Sender, Icms!Post(s) \/ Icms!ResponseLost(s)
  PROVE  LifeGoesOn
  <1> DEFINE m == job[s]
             A == {p \in Payload : Heard(p)' /\ ~ Heard(p)}
  <1>1. m \in MailId /\ mailStatus[m] = "reply_received"
    BY SameTables DEF Icms!Post, Icms!ResponseLost, LifeInv, PipelineInv, Icms!IcmsInv,
       Icms!TypeOK, Icms!Position, Icms!OneSenderPerMail
  <1>2. Icms!IcmsAccepts(m) /\ UNCHANGED <<payload, mailStatus, ldRun, ldItems>>
    BY DEF Icms!Post, Icms!ResponseLost, Icms!dbVars
  <1>3. PICK l \in Icms!Recorded :
           /\ Icms!HasReplyData(m, l)
           /\ told' = [told EXCEPT ![m] = @ \cup Icms!Answered(m, l)]
    BY <1>2 DEF Icms!IcmsAccepts
  <1>4. l = m
    <2>1. AnswerOn(m).run = ldRun[m] /\ ldRun[m] # 0
      BY <1>1, OwnRun, SameTables DEF LifeInv, Icms!ToldInv
    <2>2. Icms!Holder(AnswerOn(m).run, l)
      BY <1>1, <1>3 DEF Icms!HasReplyData
    <2> QED
      BY <1>1, <2>1, <2>2, SameTables DEF Icms!Holder, Icms!Recorded
  <1>5. told \in [MailId -> SUBSET Payload]
    BY SameTables DEF LifeInv, PipelineInv, Icms!IcmsInv, Icms!TypeOK
  <1>6. Icms!Answered(m, l) \subseteq ldItems[m]
    BY <1>4 DEF Icms!Answered, Icms!IdMap
  <1>7. \A p \in Payload : Heard(p) => Heard(p)'
    BY <1>3, <1>5 DEF Heard
  <1>8. ASSUME NEW p \in A PROVE p \in ldItems[m]
    BY <1>1, <1>3, <1>5, <1>6 DEF Heard
  <1>9. ASSUME NEW p \in A PROVE StageOf(p) = "sent" /\ StageOf(p)' = "answered"
    <2>1. payload[p] = "processed" /\ StillOpen(p)
      BY <1>1, <1>8, InOneFile DEF StillOpen
    <2>2. payload'[p] = "processed" /\ payload'[p] \in PayloadState
      BY <1>2, <2>1 DEF PayloadState
    <2> QED
      BY <2>1, <2>2, Stages, StagesNext DEF PayloadState
  <1>10. ASSUME NEW p \in Payload, p \notin A PROVE StageOf(p)' = StageOf(p)
    <2>1. Heard(p)' <=> Heard(p)
      BY <1>7, <1>10
    <2>2. StillOpen(p)' <=> StillOpen(p)
      BY <1>2 DEF StillOpen, Filed
    <2> QED
      BY <1>2, <2>1, <2>2, StageStays
  <1>11. CASE A = {}
    BY <1>10, <1>11 DEF LifeGoesOn, AllStay
  <1>12. CASE A # {}
    <2>1. A \in SUBSET Life!At("sent")
      BY <1>9 DEF Life!At
    <2>2. Life!Move(A, "answered")
      BY <1>9, <1>10 DEF Life!Move
    <2> QED
      BY <1>12, <2>1, <2>2 DEF Life!Answer, Life!Next, LifeGoesOn
  <1> QED
    BY <1>11, <1>12

(* The commit of the callback task: a Mail that is closed as complete      *)
(* drops the requests of its file that ICMS has not heard of.              *)
LEMMA SaveMoves ==
  ASSUME LifeInv, NEW s \in Sender, Icms!SaveStatus(s)
  PROVE  LifeGoesOn
  <1> DEFINE m == job[s]
             L == {p \in ldItems[m] : ~ Heard(p)}
  <1>1. m \in MailId /\ mailStatus[m] = "reply_received"
    BY SameTables DEF Icms!SaveStatus, LifeInv, PipelineInv, Icms!IcmsInv, Icms!TypeOK,
       Icms!Position, Icms!OneSenderPerMail
  <1>2. /\ UNCHANGED <<payload, ldItems, told>>
        /\ mailStatus' = [mailStatus EXCEPT ![m] = Icms!StatusAfter(m)]
        /\ mailStatus \in [MailId -> MailStatus]
    BY SameTables DEF Icms!SaveStatus, LifeInv, PipelineInv, Icms!IcmsInv, Icms!TypeOK,
       Icms!DbTypeOK, Icms!MailStatus, MailStatus
  <1>3. \A p \in Payload : Heard(p)' <=> Heard(p)
    BY <1>2 DEF Heard
  <1>4. CASE Icms!StatusAfter(m) # "reply_processed"
    BY <1>1, <1>2, <1>3, <1>4, NobodyMovesOn DEF LifeGoesOn
  <1>5. ASSUME Icms!StatusAfter(m) = "reply_processed", NEW p \in L
        PROVE  StageOf(p) = "sent" /\ StageOf(p)' = "dropped"
    <2>1. p \in Payload /\ payload[p] = "processed" /\ Filed(p) = {m} /\ StillOpen(p)
      BY <1>1, InOneFile DEF StillOpen
    <2>2. Filed(p)' = {m}
      BY <1>2, <2>1 DEF Filed
    <2>3. payload'[p] = "processed" /\ payload'[p] \in PayloadState /\ ~ StillOpen(p)'
      BY <1>1, <1>2, <1>5, <2>1, <2>2 DEF StillOpen, PayloadState
    <2> QED
      BY <1>3, <2>1, <2>3, Stages, StagesNext DEF PayloadState
  <1>6. ASSUME NEW p \in Payload, p \notin L PROVE StageOf(p)' = StageOf(p)
    <2>1. CASE p \in ldItems[m]
      <3>1. Heard(p) /\ payload[p] = "processed" /\ payload'[p] = "processed"
        BY <1>1, <1>2, <1>6, <2>1, InOneFile
      <3> QED
        BY <1>3, <3>1, Stages, StagesNext DEF PayloadState
    <2>2. CASE p \notin ldItems[m]
      <3>1. StillOpen(p)' <=> StillOpen(p)
        BY <1>1, <1>2, <2>2 DEF StillOpen, Filed
      <3> QED
        BY <1>2, <1>3, <3>1, StageStays
    <2> QED
      BY <2>1, <2>2
  <1>7. CASE L = {}
    BY <1>6, <1>7 DEF LifeGoesOn, AllStay
  <1>8. CASE L # {} /\ Icms!StatusAfter(m) = "reply_processed"
    <2>1. L \in SUBSET Life!At("sent")
      BY <1>1, <1>5, <1>8, InOneFile DEF Life!At
    <2>2. Life!Move(L, "dropped")
      BY <1>5, <1>6, <1>8 DEF Life!Move
    <2> QED
      BY <1>8, <2>1, <2>2 DEF Life!Drop, Life!Next, LifeGoesOn
  <1> QED
    BY <1>4, <1>7, <1>8

LEMMA IcmsMoves ==
  ASSUME LifeInv, NEW s \in Sender, IcmsTask(s) \/ IcmsFails(s)
  PROVE  LifeGoesOn
  <1>1. Icms!Task(s) \/ Icms!ResponseLost(s) \/ Icms!Fail(s)
    BY DEF IcmsTask, IcmsFails
  <1>2. ASSUME \/ Icms!CountMails(s) \/ Icms!LockMail(s) \/ Icms!MailGone(s)
               \/ Icms!PostRefused(s) \/ Icms!NotPostable(s) \/ Icms!Fail(s)
        PROVE  AllStay
    <2>1. UNCHANGED <<payload, ldItems, mailStatus, told>>
      BY <1>2 DEF Icms!CountMails, Icms!LockMail, Icms!MailGone, Icms!PostRefused,
         Icms!NotPostable, Icms!Fail, Icms!dbVars
    <2> QED
      BY <2>1, NobodyMovesOn DEF Heard
  <1> QED
    BY <1>1, <1>2, PostMoves, SaveMoves DEF Icms!Task, LifeGoesOn

LEMMA NextMoves ==
  ASSUME LifeInv, [Next]_vars
  PROVE  LifeGoesOn
  <1>1. CASE UNCHANGED vars
    <2>1. UNCHANGED <<payload, ldItems, mailStatus, told>>
      BY <1>1 DEF vars, dbVars, icmsVars
    <2> QED
      BY <2>1, NobodyMovesOn DEF LifeGoesOn, Heard
  <1>2. CASE \E p \in Payload : Arrive(p)
    BY <1>2, ArriveMoves DEF LifeGoesOn
  <1>3. CASE \E w \in Worker : SendTask(w) \/ SendFails(w)
    BY <1>3, SendMoves
  <1>4. CASE \E f \in outbox : HmrcReplies(f)
    <2>1. UNCHANGED <<payload, ldItems, mailStatus, told>>
      BY <1>4 DEF HmrcReplies, Box!Deliver, Box!storedVars, Box!dbVars, icmsVars
    <2> QED
      BY <2>1, NobodyMovesOn DEF LifeGoesOn, Heard
  <1>5. CASE MailboxTask \/ MailboxFails
    BY <1>5, BoxMoves DEF LifeGoesOn
  <1>6. CASE \E s \in Sender : IcmsTask(s) \/ IcmsFails(s)
    BY <1>6, IcmsMoves
  <1> QED
    BY <1>1, <1>2, <1>3, <1>4, <1>5, <1>6 DEF Next

(* If runs of the send task do not overlap, the life of every request is   *)
(* the one that module RequestLife promises ICMS: none goes back, none is  *)
(* answered that was not sent, and the next requests go to HMRC only when  *)
(* it owes no answer -- however the other tasks overlap, and wherever any  *)
(* of the tasks is cut short.                                              *)
THEOREM RequestsGoForward ==
  ASSUME Send!Alone PROVE Spec => LifeOfRequests
  <1>1. Init => Life!Init
    BY DEF Init, Send!Init, Send!DbInit, Life!Init, StageOf, Payload, Send!Payload
  <1>2. LifeInv /\ [Next]_vars => [Life!Next]_[p \in Payload |-> StageOf(p)]
    BY NextMoves DEF LifeGoesOn, AllStay
  <1> QED
    BY <1>1, <1>2, LifeInvariant, PTL DEF Spec, LifeOfRequests, Life!Spec

-----------------------------------------------------------------------------
(* What a Mail that is closed as complete says. *)

(* When HMRC holds no phantom, a file under the run number of a recorded   *)
(* one is that recorded one.                                               *)
LEMMA FileOfRun ==
  ASSUME LifeInv, Phantom = {}, NEW m \in Recorded, NEW f \in outbox, f.run = ldRun[m]
  PROVE  f.items = ldItems[m]
  <1>1. \A n \in Recorded : n \in Nat /\ ldRun[n] \in Nat /\ ldRun[n] # 0
    BY MaxMailAssumption, SameTables
       DEF LifeInv, PipelineInv, Send!SendInv, Send!TypeOK, Send!DbTypeOK, Recorded, MailId, Run
  <1>2. ASSUME NEW n \in Recorded, f = [run |-> ldRun[n], items |-> ldItems[n]]
        PROVE  f.items = ldItems[m]
    <2>1. ~ (n < m) /\ ~ (m < n)
      BY <1>1, <1>2, SameTables
         DEF LifeInv, Send!AloneInv, Send!RunsIncrease, Send!Recorded, Recorded
    <2>2. n = m
      BY <1>1, <2>1
    <2> QED
      BY <1>2, <2>2
  <1>3. ASSUME NEW w \in Worker, sendPc[w] \in {"update", "commit"}, f = Send!FileOf(w)
        PROVE  FALSE
    <2>1. run[w] # 0 /\ f.run = run[w]
      BY <1>3 DEF LifeInv, PipelineInv, Send!SendInv, Send!Progress, Send!FileOf
    <2>2. ldRun[m] < run[w]
      BY <2>1, SameTables DEF LifeInv, Send!AloneInv, Send!Recorded, Recorded
    <2>3. run[w] = ldRun[m] /\ ldRun[m] \in Nat
      BY <1>1, <2>1
    <2> QED
      BY <2>2, <2>3
  <1> QED
    BY <1>2, <1>3 DEF Phantom

(* If runs of the send task do not overlap and none left HMRC with a file  *)
(* that was rolled back, a Mail in REPLY_PROCESSED has told ICMS of every  *)
(* licence in its licenceData file, when each has its own reference.       *)
THEOREM CompleteMeansTold ==
  ASSUME Send!Alone PROVE Spec => []ClosedIsComplete
  <1>1. LifeInv => ClosedIsComplete
    <2> SUFFICES ASSUME LifeInv, Phantom = {}, NEW m \in MailId,
                        mailStatus[m] = "reply_processed", Icms!UniqueRefs(m)
                 PROVE  ldItems[m] \subseteq told[m]
      BY DEF ClosedIsComplete
    <2> DEFINE f == replyTo[response[m]]
    <2>1. /\ response[m] \in 1..arrived /\ AnswerOn(m) = content[response[m]]
          /\ AnswerOn(m).run = ldRun[m]
      BY OwnRun
    <2>2. m \in Recorded
      BY SameTables DEF LifeInv, Icms!ToldInv, Recorded
    <2>3. f \in outbox /\ f.run = ldRun[m] /\ AnswerOn(m) \in AnswersTo(f)
      BY <2>1 DEF LifeInv, PipelineInv, Contents, AnswersTo
    <2>4. f.items = ldItems[m]
      BY <2>2, <2>3, FileOfRun DEF LifeInv
    <2>5. m \in Icms!Closed
      BY SameTables DEF Icms!Closed
    <2>6. AnswerOn(m).outcome = "valid"
      BY <2>5, SameTables DEF LifeInv, PipelineInv, Icms!IcmsInv, Icms!ClosedMeansTold
    <2>7. AnswerOn(m).refs = {RefOf[p] : p \in ldItems[m]}
      BY <2>3, <2>4, <2>6 DEF AnswersTo, Refs
    <2>8. Icms!AllTold(m)
      BY <2>5, SameTables DEF LifeInv, Icms!ToldInv, Icms!VouchedFor
    <2> QED
      BY <2>1, <2>7, <2>8 DEF Icms!AllTold
  <1> QED
    BY <1>1, LifeInvariant, PTL

=============================================================================
