-------------------------- MODULE SendToIcmsProofs --------------------------
(***************************************************************************)
(* Theorems about SendToIcms for any number of processes, mails, payloads, *)
(* references and failures.                                                *)
(***************************************************************************)
EXTENDS SendToIcms, TLAPS

LEMMA InitInv == Init => IcmsInv
  <1> SUFFICES ASSUME Init PROVE IcmsInv
    OBVIOUS
  <1> USE DEF Init, DbInit
  <1>1. TypeOK
    BY MaxFailuresAssumption DEF TypeOK, DbTypeOK, PayloadState, MailStatus, PostCap
  <1>2. OneSenderPerMail /\ Position
    BY DEF OneSenderPerMail, Position
  <1>3. PostsAccounted
    BY DEF PostsAccounted
  <1>4. ClosedMeansTold
    BY DEF ClosedMeansTold, Closed
  <1> QED
    BY <1>1, <1>2, <1>3, <1>4 DEF IcmsInv

(* A task that ends without a commit; the failure count may grow. *)
LEMMA EndKeeps ==
  ASSUME IcmsInv, NEW s \in Sender, EndTask(s),
         UNCHANGED <<dbVars, answer, told, posts>>, failures' \in 0..MaxFailures,
         failures' = failures + 1 \/ (failures' = failures /\ pc[s] # "save")
  PROVE  IcmsInv'
  <1> USE DEF IcmsInv, EndTask, dbVars
  <1>1. TypeOK'
    BY DEF TypeOK, DbTypeOK
  <1>2. OneSenderPerMail' /\ Position'
    BY DEF TypeOK, OneSenderPerMail, Position
  <1>3. PostsAccounted'
    BY MaxFailuresAssumption DEF TypeOK, PostsAccounted, VouchedFor, Closed, PostCap
  <1>4. ClosedMeansTold'
    BY DEF ClosedMeansTold, Closed
  <1> QED
    BY <1>1, <1>2, <1>3, <1>4

(* count() and select_for_update().first() *)
LEMMA LockKeeps ==
  ASSUME IcmsInv, NEW s \in Sender, CountMails(s) \/ LockMail(s)
  PROVE  IcmsInv'
  <1> USE DEF IcmsInv, CountMails, LockMail, dbVars
  <1>1. TypeOK'
    BY DEF TypeOK, DbTypeOK, Received
  <1>2. OneSenderPerMail' /\ Position'
    BY MaxMailAssumption
       DEF TypeOK, OneSenderPerMail, Position, Received, LockedByOther, MailId
  <1>3. PostsAccounted'
    BY DEF TypeOK, PostsAccounted, VouchedFor, Closed, Position
  <1>4. ClosedMeansTold'
    BY DEF ClosedMeansTold, Closed
  <1> QED
    BY <1>1, <1>2, <1>3, <1>4

(* What an accepted callback leaves, before the process goes on. *)
LEMMA Accepting ==
  ASSUME TypeOK, NEW m \in MailId, IcmsAccepts(m)
  PROVE  /\ answer[m].outcome \in {"valid", "partial"}
         /\ told' \in [MailId -> SUBSET Payload]
         /\ posts' \in [MailId -> 0..PostCap]
         /\ \A n \in MailId \ {m} : posts'[n] = posts[n]
         /\ posts'[m] > 0 /\ posts'[m] >= posts[m] /\ posts'[m] <= posts[m] + 1
  <1>1. PICK l \in Recorded :
           /\ HasReplyData(m, l)
           /\ told' = [told EXCEPT ![m] = @ \cup Answered(m, l)]
    BY DEF IcmsAccepts
  <1>2. PostCap \in Nat /\ PostCap > 0
    BY MaxFailuresAssumption DEF PostCap
  <1>3. told' \in [MailId -> SUBSET Payload]
    BY <1>1 DEF TypeOK, Answered
  <1>4. posts' = [posts EXCEPT ![m] = IF @ < PostCap THEN @ + 1 ELSE @]
    BY DEF IcmsAccepts
  <1>5. posts[m] \in 0..PostCap
    BY DEF TypeOK
  <1>6. posts' \in [MailId -> 0..PostCap]
    BY <1>2, <1>4, <1>5 DEF TypeOK
  <1>7. /\ \A n \in MailId \ {m} : posts'[n] = posts[n]
        /\ posts'[m] > 0 /\ posts'[m] >= posts[m] /\ posts'[m] <= posts[m] + 1
    BY <1>2, <1>4, <1>5 DEF TypeOK
  <1> QED
    BY <1>1, <1>3, <1>6, <1>7 DEF HasReplyData

LEMMA PostKeeps ==
  ASSUME IcmsInv, NEW s \in Sender, Post(s) \/ ResponseLost(s)
  PROVE  IcmsInv'
  <1> USE DEF IcmsInv, Post, ResponseLost, EndTask, dbVars
  <1> DEFINE m == job[s]
  <1>1. m \in MailId /\ m # 0 /\ mailStatus[m] = "reply_received"
    BY DEF TypeOK, Position, OneSenderPerMail
  <1>2. /\ answer[m].outcome \in {"valid", "partial"}
        /\ told' \in [MailId -> SUBSET Payload]
        /\ posts' \in [MailId -> 0..PostCap]
        /\ \A n \in MailId \ {m} : posts'[n] = posts[n]
        /\ posts'[m] > 0 /\ posts'[m] >= posts[m] /\ posts'[m] <= posts[m] + 1
    BY <1>1, Accepting
  <1>3. ~ VouchedFor(m)
    BY <1>1 DEF VouchedFor, Closed, OneSenderPerMail
  <1>4. TypeOK'
    BY <1>2, MaxFailuresAssumption DEF TypeOK, DbTypeOK
  <1>5. OneSenderPerMail'
    BY DEF TypeOK, OneSenderPerMail
  <1>6. Position'
    BY <1>1, <1>2 DEF TypeOK, Position, OneSenderPerMail
  <1>7. PostsAccounted'
    <2>1. posts[m] <= failures
      BY <1>1, <1>3 DEF PostsAccounted
    <2>2. posts'[m] \in Nat /\ posts[m] \in Nat /\ failures \in Nat /\ failures' \in Nat
      BY <1>1, <1>2, MaxFailuresAssumption DEF TypeOK, PostCap
    <2>3. \A n \in MailId : posts'[n] <= failures' + 1
      BY <1>1, <1>2, <2>1, <2>2, MaxFailuresAssumption DEF TypeOK, PostsAccounted, PostCap
    <2>4. \A n \in MailId : n # m /\ ~ VouchedFor(n)' => ~ VouchedFor(n)
      BY <1>1 DEF TypeOK, VouchedFor, Closed, OneSenderPerMail
    <2>5. ~ VouchedFor(m)' => failures' = failures + 1
      BY <1>1 DEF TypeOK, VouchedFor, Closed
    <2> QED
      BY <1>1, <1>2, <2>1, <2>2, <2>3, <2>4, <2>5, MaxFailuresAssumption
         DEF TypeOK, PostsAccounted, PostCap
  <1>8. ClosedMeansTold'
    BY <1>1, <1>2 DEF ClosedMeansTold, Closed
  <1> QED
    BY <1>4, <1>5, <1>6, <1>7, <1>8

LEMMA SaveKeeps ==
  ASSUME IcmsInv, NEW s \in Sender, SaveStatus(s)
  PROVE  IcmsInv'
  <1> USE DEF IcmsInv, SaveStatus, EndTask
  <1> DEFINE m == job[s]
  <1>1. m \in MailId /\ m # 0 /\ posts[m] > 0
        /\ answer[m].outcome \in {"valid", "partial"}
    BY DEF TypeOK, Position
  <1>2. /\ StatusAfter(m) \in {"reply_processed", "reply_partially_processed"}
        /\ StatusAfter(m) = "reply_processed" <=> answer[m].outcome = "valid"
    BY DEF StatusAfter
  <1>3. TypeOK'
    BY <1>2 DEF TypeOK, DbTypeOK, MailStatus
  <1>4. OneSenderPerMail'
    BY DEF TypeOK, DbTypeOK, OneSenderPerMail
  <1>5. Position'
    BY DEF TypeOK, Position
  <1>6. Closed' = Closed \cup {m}
    BY <1>1, <1>2 DEF TypeOK, DbTypeOK, Closed
  <1>7. PostsAccounted'
    BY <1>1, <1>6 DEF TypeOK, PostsAccounted, VouchedFor
  <1>8. ClosedMeansTold'
    BY <1>1, <1>2, <1>6 DEF TypeOK, DbTypeOK, ClosedMeansTold, Closed
  <1> QED
    BY <1>3, <1>4, <1>5, <1>7, <1>8

(* The steps of the world around the task, none of which touches a Mail    *)
(* that a process has locked.                                              *)
LEMMA FileSentTypes ==
  ASSUME TypeOK, NEW m \in MailId, NEW r \in Run,
         NEW marked \in SUBSET Queued, NEW items \in SUBSET marked,
         FileSent(m, r, items, marked)
  PROVE  TypeOK'
  <1> USE DEF FileSent, SendFile, icmsVars, TypeOK
  <1>1. DbTypeOK'
    BY DEF DbTypeOK, PayloadState, MailStatus, Queued
  <1> QED
    BY <1>1

LEMMA RepliesStoredTypes ==
  ASSUME TypeOK, NEW M \in SUBSET AwaitingReply, NEW replies \in [M -> Answer],
         RepliesStored(replies)
  PROVE  TypeOK'
  <1> USE DEF RepliesStored, StoreReplies, TypeOK
  <1>1. DbTypeOK'
    BY DEF DbTypeOK, MailStatus
  <1>2. answer' \in [MailId -> Answer \cup {NoAnswer}]
    OBVIOUS
  <1> QED
    BY <1>1, <1>2

LEMMA EnvironmentKeeps ==
  ASSUME IcmsInv,
         \/ \E p \in Payload : Arrive(p)
         \/ \E m \in MailId, r \in Run : \E marked \in SUBSET Queued :
               \E items \in SUBSET marked : FileSent(m, r, items, marked)
         \/ \E M \in SUBSET AwaitingReply : \E replies \in [M -> Answer] :
               RepliesStored(replies)
  PROVE  IcmsInv'
  <1> USE DEF IcmsInv
  <1>1. TypeOK'
    <2>1. (\E p \in Payload : Arrive(p)) => TypeOK'
      BY DEF Arrive, Ingest, icmsVars, mailVars, TypeOK, DbTypeOK, PayloadState
    <2> QED
      BY <2>1, FileSentTypes, RepliesStoredTypes
  <1>2. /\ UNCHANGED <<pc, job, posts, failures>>
        /\ \A n \in MailId :
              /\ mailStatus[n] \notin {"none", "reply_pending"} =>
                    mailStatus'[n] = mailStatus[n] /\ answer'[n] = answer[n]
              /\ n \in Closed <=> n \in Closed'
    BY DEF Arrive, Ingest, FileSent, SendFile, RepliesStored, StoreReplies,
           AwaitingReply, icmsVars, mailVars, TypeOK, DbTypeOK, Closed
  <1>3. OneSenderPerMail' /\ Position'
    BY <1>2 DEF TypeOK, OneSenderPerMail, Position
  <1>4. PostsAccounted'
    BY <1>2 DEF PostsAccounted, VouchedFor
  <1>5. ClosedMeansTold'
    BY <1>2 DEF ClosedMeansTold, Closed
  <1> QED
    BY <1>1, <1>3, <1>4, <1>5

LEMMA NextKeeps == IcmsInv /\ [Next]_vars => IcmsInv'
  <1> SUFFICES ASSUME IcmsInv, [Next]_vars PROVE IcmsInv'
    OBVIOUS
  <1>1. ASSUME NEW s \in Sender, MailGone(s) \/ PostRefused(s) \/ NotPostable(s) \/ Fail(s)
        PROVE  IcmsInv'
    <2>1. failures' \in 0..MaxFailures
      BY <1>1, MaxFailuresAssumption
         DEF MailGone, PostRefused, NotPostable, Fail, IcmsInv, TypeOK
    <2> QED
      BY <1>1, <2>1, EndKeeps DEF MailGone, PostRefused, NotPostable, Fail
  <1>2. CASE UNCHANGED vars
    BY <1>2 DEF vars, icmsVars, dbVars, IcmsInv, TypeOK, DbTypeOK, OneSenderPerMail,
                Position, PostsAccounted, VouchedFor, ClosedMeansTold, Closed
  <1> QED
    BY <1>1, <1>2, LockKeeps, PostKeeps, SaveKeeps, EnvironmentKeeps DEF Next, Task

(* The inductive invariant holds of every behaviour of the callback task.  *)
THEOREM IcmsInvariant == Spec => []IcmsInv
  BY InitInv, NextKeeps, PTL DEF Spec

(* select_for_update in send_licence_data_to_icms: one process works on a  *)
(* Mail, the Mail stays in REPLY_RECEIVED meanwhile, and a reply is posted *)
(* again only after a failure, however many runs of the task overlap.      *)
THEOREM PostedOnceOnly == Spec => [](OneSenderPerMail /\ PostedOnce)
  <1>1. IcmsInv => OneSenderPerMail /\ PostedOnce
    <2> SUFFICES ASSUME IcmsInv, NEW m \in MailId PROVE posts[m] <= 1 + failures
      BY DEF IcmsInv, PostedOnce
    <2>1. failures \in Nat
      BY MaxFailuresAssumption DEF IcmsInv, TypeOK
    <2> QED
      BY <2>1 DEF IcmsInv, PostsAccounted
  <1> QED
    BY <1>1, IcmsInvariant, PTL

(* A Mail is closed only after ICMS has accepted the callback for it, and  *)
(* as complete only if HMRC's reply was.                                   *)
THEOREM ClosedOnlyAfterTold == Spec => []ClosedMeansTold
  <1>1. IcmsInv => ClosedMeansTold
    BY DEF IcmsInv
  <1> QED
    BY <1>1, IcmsInvariant, PTL

-----------------------------------------------------------------------------
(* The commit of the task is that of a Mail that holds a reply. *)
LEMMA SaveIsCloseMail ==
  ASSUME IcmsInv, NEW s \in Sender, SaveStatus(s)
  PROVE  \E m \in MailId, status \in MailStatus : CloseMail(m, status)
  <1> DEFINE m == job[s]
             status == StatusAfter(m)
  <1>1. m \in MailId /\ mailStatus[m] = "reply_received"
    BY DEF SaveStatus, IcmsInv, TypeOK, Position, OneSenderPerMail
  <1>2. status \in {"reply_processed", "reply_partially_processed"}
    BY DEF StatusAfter
  <1>3. CloseMail(m, status)
    BY <1>1, <1>2 DEF CloseMail, SaveStatus
  <1> QED
    BY <1>1, <1>2, <1>3 DEF MailStatus

LEMMA OnlySaveWrites ==
  ASSUME NEW s \in Sender, Task(s) \/ ResponseLost(s) \/ Fail(s), ~ SaveStatus(s)
  PROVE  UNCHANGED dbVars
  BY DEF Task, CountMails, LockMail, MailGone, Post, PostRefused, NotPostable, ResponseLost,
         Fail

LEMMA StepImplements == IcmsInv /\ [Next]_vars => [WorkflowNext]_dbVars
  <1> SUFFICES ASSUME IcmsInv, [Next]_vars PROVE [WorkflowNext]_dbVars
    OBVIOUS
  <1>1. ASSUME NEW s \in Sender, SaveStatus(s) PROVE WorkflowNext
    BY <1>1, SaveIsCloseMail DEF WorkflowNext
  <1>2. (\E p \in Payload : Arrive(p)) => WorkflowNext
    BY DEF Arrive, WorkflowNext
  <1>3. (\E m \in MailId, r \in Run : \E marked \in SUBSET Queued :
            \E items \in SUBSET marked : FileSent(m, r, items, marked)) => WorkflowNext
    BY DEF FileSent, WorkflowNext
  <1>4. ASSUME NEW M \in SUBSET AwaitingReply, NEW replies \in [M -> Answer],
               RepliesStored(replies)
        PROVE  WorkflowNext
    <2>1. M \in SUBSET MailId /\ DOMAIN replies = M
      BY DEF AwaitingReply
    <2> QED
      BY <1>4, <2>1 DEF RepliesStored, WorkflowNext
  <1>5. CASE UNCHANGED vars
    BY <1>5 DEF vars
  <1> QED
    BY <1>1, <1>2, <1>3, <1>4, <1>5, OnlySaveWrites DEF Next

(* Runs of the callback task that overlap and fail change the tables only  *)
(* by closing, in one commit, a Mail that holds a reply.                   *)
THEOREM IcmsImplementsWorkflow == Spec => ImplementsWorkflow
  <1>1. Init => DbInit
    BY DEF Init
  <1> QED
    BY <1>1, StepImplements, IcmsInvariant, PTL DEF Spec, ImplementsWorkflow, WorkflowSpec

-----------------------------------------------------------------------------
(* What ICMS is told. *)

LEMMA ToldInit == Init => ToldInv
  BY DEF Init, DbInit, ToldInv, ToldTheRightLicence, VouchedFor, Closed

(* A step that tells ICMS nothing and leaves alone the file and the reply  *)
(* of every Mail that has a reply.                                         *)
LEMMA NothingNewTold ==
  ASSUME IcmsInv, ToldInv, told' = told,
         \A m \in MailId : mailStatus[m] \notin {"none", "reply_pending"} =>
             /\ mailStatus'[m] \notin {"none", "reply_pending"}
             /\ ldRun'[m] = ldRun[m] /\ ldItems'[m] = ldItems[m] /\ answer'[m] = answer[m],
         \A m \in MailId : mailStatus'[m] # "none" => ldRun'[m] # 0,
         \A m \in MailId : VouchedFor(m)' => VouchedFor(m)
  PROVE  ToldInv'
  <1>1. ASSUME NEW m \in MailId, mailStatus[m] \in {"none", "reply_pending"}
        PROVE  told'[m] = {} /\ ~ VouchedFor(m)
    BY <1>1 DEF ToldInv, VouchedFor, Closed, IcmsInv, Position, OneSenderPerMail
  <1>2. ASSUME NEW m \in MailId PROVE VouchedFor(m)' => AllTold(m)'
    BY <1>1 DEF ToldInv, AllTold, UniqueRefs
  <1>3. ToldTheRightLicence'
    BY <1>1 DEF ToldInv, ToldTheRightLicence
  <1>4. \A m \in MailId : mailStatus'[m] \in {"none", "reply_pending"} => told'[m] = {}
    BY <1>1
  <1> QED
    BY <1>2, <1>3, <1>4 DEF ToldInv

(* If the reply carries the run number of its own file, the LicenceData    *)
(* that the task finds is that of the file.                                *)
LEMMA OwnFileFound ==
  ASSUME ToldInv, NEW m \in MailId, mailStatus[m] # "none", answer[m].run = ldRun[m],
         NEW l \in Recorded, HasReplyData(m, l)
  PROVE  l = m
  BY DEF ToldInv, HasReplyData, Holder, Recorded

LEMMA PostTells ==
  ASSUME IcmsInv, ToldInv, NEW s \in Sender, Post(s) \/ ResponseLost(s)
  PROVE  ToldInv'
  <1> DEFINE m == job[s]
  <1>1. m \in MailId /\ mailStatus[m] = "reply_received"
    BY DEF Post, ResponseLost, IcmsInv, TypeOK, Position, OneSenderPerMail
  <1>2. IcmsAccepts(m) /\ UNCHANGED <<payload, mailStatus, ldRun, ldItems, answer>>
    BY DEF Post, ResponseLost, dbVars
  <1>3. PICK l \in Recorded : /\ HasReplyData(m, l)
                              /\ told' = [told EXCEPT ![m] = @ \cup Answered(m, l)]
    BY <1>2 DEF IcmsAccepts
  <1>4. told'[m] = told[m] \cup Answered(m, l) /\ \A n \in MailId : n # m => told'[n] = told[n]
    BY <1>1, <1>3 DEF IcmsInv, TypeOK
  <1>5. answer[m].run = ldRun[m] => l = m
    BY <1>1, <1>3, OwnFileFound
  <1>6. ToldTheRightLicence'
    <2> SUFFICES ASSUME NEW n \in MailId, told'[n] # {}, answer[n].run = ldRun[n]
                 PROVE  told'[n] \subseteq {p \in ldItems[n] : RefOf[p] \in answer[n].refs}
      BY <1>2 DEF ToldTheRightLicence
    <2>1. told[n] \subseteq {p \in ldItems[n] : RefOf[p] \in answer[n].refs}
      BY DEF ToldInv, ToldTheRightLicence
    <2>2. Answered(n, n) \subseteq {p \in ldItems[n] : RefOf[p] \in answer[n].refs}
      BY DEF Answered, IdMap
    <2> QED
      BY <1>4, <1>5, <2>1, <2>2
  <1>7. ASSUME NEW n \in MailId, VouchedFor(n)' PROVE AllTold(n)'
    <2> SUFFICES ASSUME UniqueRefs(n), answer[n].run = ldRun[n],
                        NEW p \in ldItems[n], RefOf[p] \in answer[n].refs
                 PROVE  p \in told'[n]
      BY <1>2 DEF AllTold, UniqueRefs
    <2>1. CASE n = m
      <3>1. ldItems[m] \subseteq Nat
        BY <1>1 DEF IcmsInv, TypeOK, DbTypeOK, Payload
      <3>2. IdMap(m, p)
        BY <2>1, <3>1 DEF IdMap, UniqueRefs
      <3>3. p \in Answered(m, m)
        BY <1>1, <2>1, <3>2 DEF Answered, IcmsInv, TypeOK, DbTypeOK
      <3> QED
        BY <1>4, <1>5, <2>1, <3>3
    <2>2. CASE n # m
      <3>1. VouchedFor(n)
        BY <1>2, <1>7, <2>2 DEF VouchedFor, Closed, Post, ResponseLost, EndTask, IcmsInv, TypeOK
      <3> QED
        BY <1>4, <2>2, <3>1 DEF ToldInv, AllTold
    <2> QED
      BY <2>1, <2>2
  <1>8. \A n \in MailId : mailStatus'[n] \in {"none", "reply_pending"} => told'[n] = {}
    BY <1>1, <1>2, <1>4 DEF ToldInv
  <1> QED
    BY <1>2, <1>6, <1>7, <1>8 DEF ToldInv

LEMMA SaveTells ==
  ASSUME IcmsInv, ToldInv, NEW s \in Sender, SaveStatus(s)
  PROVE  ToldInv'
  <1>1. job[s] \in MailId /\ mailStatus[job[s]] = "reply_received" /\ VouchedFor(job[s])
    BY DEF SaveStatus, IcmsInv, TypeOK, Position, OneSenderPerMail, VouchedFor
  <1>2. StatusAfter(job[s]) \notin {"none", "reply_pending"}
    BY DEF StatusAfter
  <1>3. \A m \in MailId : mailStatus'[m] = IF m = job[s] THEN StatusAfter(job[s]) ELSE mailStatus[m]
    BY DEF SaveStatus, IcmsInv, TypeOK, DbTypeOK
  <1>4. \A m \in MailId : VouchedFor(m)' => VouchedFor(m)
    BY <1>1, <1>3 DEF SaveStatus, EndTask, VouchedFor, Closed, IcmsInv, TypeOK
  <1>5. UNCHANGED <<ldRun, ldItems, answer, told>>
    BY DEF SaveStatus
  <1>6. \A m \in MailId : mailStatus'[m] # "none" => ldRun'[m] # 0
    BY <1>1, <1>3, <1>5 DEF ToldInv
  <1> QED
    BY <1>2, <1>3, <1>4, <1>5, <1>6, NothingNewTold

(* The other steps of a task neither tell nor close anything. *)
LEMMA OtherTaskTells ==
  ASSUME IcmsInv, ToldInv, NEW s \in Sender,
         CountMails(s) \/ LockMail(s) \/ MailGone(s) \/ PostRefused(s) \/ NotPostable(s) \/ Fail(s)
  PROVE  ToldInv'
  <1>1. UNCHANGED <<payload, mailStatus, ldRun, ldItems, answer, told>>
    BY DEF CountMails, LockMail, MailGone, PostRefused, NotPostable, Fail, dbVars
  <1>2. \A m \in MailId : VouchedFor(m)' => VouchedFor(m)
    BY <1>1 DEF CountMails, LockMail, MailGone, PostRefused, NotPostable, Fail, EndTask,
                VouchedFor, Closed, IcmsInv, TypeOK
  <1>3. \A m \in MailId : mailStatus'[m] # "none" => ldRun'[m] # 0
    BY <1>1 DEF ToldInv
  <1> QED
    BY <1>1, <1>2, <1>3, NothingNewTold

LEMMA EnvironmentTells ==
  ASSUME IcmsInv, ToldInv,
         \/ \E p \in Payload : Arrive(p)
         \/ \E m \in MailId, r \in Run : \E marked \in SUBSET Queued :
               \E items \in SUBSET marked : FileSent(m, r, items, marked)
         \/ \E M \in SUBSET AwaitingReply : \E replies \in [M -> Answer] :
               RepliesStored(replies)
  PROVE  ToldInv'
  <1>1. /\ UNCHANGED <<pc, job, told>>
        /\ \A m \in MailId : mailStatus[m] \notin {"none", "reply_pending"} =>
              /\ mailStatus'[m] = mailStatus[m]
              /\ ldRun'[m] = ldRun[m] /\ ldItems'[m] = ldItems[m] /\ answer'[m] = answer[m]
        /\ \A m \in MailId : m \in Closed' => m \in Closed
    BY DEF Arrive, Ingest, FileSent, SendFile, RepliesStored, StoreReplies,
           AwaitingReply, icmsVars, mailVars, IcmsInv, TypeOK, DbTypeOK, Closed
  <1>2. \A m \in MailId : mailStatus'[m] # "none" => ldRun'[m] # 0
    BY DEF Arrive, Ingest, FileSent, SendFile, RepliesStored, StoreReplies, Run,
           AwaitingReply, icmsVars, mailVars, IcmsInv, TypeOK, DbTypeOK, ToldInv
  <1>3. \A m \in MailId : VouchedFor(m)' => VouchedFor(m)
    BY <1>1 DEF VouchedFor
  <1> QED
    BY <1>1, <1>2, <1>3, NothingNewTold

LEMMA NextTells == IcmsInv /\ ToldInv /\ [Next]_vars => ToldInv'
  <1> SUFFICES ASSUME IcmsInv, ToldInv, [Next]_vars PROVE ToldInv'
    OBVIOUS
  <1>1. CASE UNCHANGED vars
    BY <1>1, NothingNewTold DEF vars, icmsVars, dbVars, ToldInv, VouchedFor, Closed
  <1> QED
    BY <1>1, PostTells, SaveTells, OtherTaskTells, EnvironmentTells DEF Next, Task

(* _get_licence_reply_data: whatever runs overlap or fail, a reply under   *)
(* the run number of the file that it answers tells ICMS of licences of    *)
(* that file only, and only of those that the reply names.                 *)
THEOREM NoOtherLicenceTold == Spec => []ToldTheRightLicence
  <1>1. ToldInv => ToldTheRightLicence
    BY DEF ToldInv
  <1> QED
    BY <1>1, ToldInit, NextTells, IcmsInvariant, PTL DEF Spec

(* id_map: when no two licences of a file share a reference, a closed Mail *)
(* has told ICMS of every licence that HMRC answered.                      *)
THEOREM EveryAnswerTold == Spec => []NoAnswerDropped
  <1>1. ToldInv => NoAnswerDropped
    BY DEF ToldInv, NoAnswerDropped, VouchedFor, Closed
  <1> QED
    BY <1>1, ToldInit, NextTells, IcmsInvariant, PTL DEF Spec

=============================================================================
