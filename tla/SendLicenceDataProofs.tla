----------------------- MODULE SendLicenceDataProofs -----------------------
(***************************************************************************)
(* Theorems about SendLicenceData for any number of workers, payloads and  *)
(* mails.  SendInv is inductive: one lemma per kind of step, each with one *)
(* step per part of the invariant that the step can disturb.               *)
(***************************************************************************)
EXTENDS SendLicenceData, FiniteSetTheorems, TLAPS

LEMMA InitInv == Init => SendInv
  <1> SUFFICES ASSUME Init PROVE SendInv
    OBVIOUS
  <1> USE DEF Init, DbInit
  <1>1. TypeOK
    BY MaxFailuresAssumption DEF TypeOK, DbTypeOK, PayloadState, MailStatus, Step
  <1>2. LocksExclude /\ Progress
    BY DEF LocksExclude, Progress
  <1>3. StampsFresh /\ RunsFollow
    BY DEF StampsFresh, RunsFollow
  <1>4. NoDoubleSend /\ LinkedAreProcessed
    BY DEF NoDoubleSend, LinkedAreProcessed
  <1>5. MailedBeforeRecorded /\ RunsContiguous
    BY DEF MailedBeforeRecorded, RunsContiguous, Recorded
  <1> QED
    BY <1>1, <1>2, <1>3, <1>4, <1>5 DEF SendInv

(* The parts of the invariant that speak of the database alone. *)
LEMMA DatabaseUntouched ==
  ASSUME SendInv, UNCHANGED dbVars, outbox \subseteq outbox'
  PROVE  /\ NoDoubleSend' /\ LinkedAreProcessed'
         /\ MailedBeforeRecorded' /\ RunsContiguous'
  <1>1. NoDoubleSend' /\ LinkedAreProcessed'
    BY DEF SendInv, dbVars, NoDoubleSend, LinkedAreProcessed, Processed
  <1>2. MailedBeforeRecorded' /\ RunsContiguous'
    BY DEF SendInv, dbVars, MailedBeforeRecorded, RunsContiguous, Recorded
  <1> QED
    BY <1>1, <1>2

(* A transaction that ends without a commit, whatever the reason. *)
LEMMA RollbackKeeps ==
  ASSUME SendInv, NEW w \in Worker, EndTask(w), UNCHANGED <<dbVars, outbox>>,
         failures' \in 0..MaxFailures
  PROVE  SendInv'
  <1> USE DEF SendInv, EndTask, dbVars
  <1>1. TypeOK'
    BY DEF TypeOK, DbTypeOK, Step
  <1>2. LocksExclude'
    BY DEF TypeOK, LocksExclude, Queued
  <1>3. StampsFresh'
    BY DEF TypeOK, StampsFresh
  <1>4. Progress'
    BY DEF TypeOK, Progress, FileOf, Step
  <1>5. RunsFollow'
    BY DEF TypeOK, RunsFollow, Recorded
  <1> QED
    BY <1>1, <1>2, <1>3, <1>4, <1>5, DatabaseUntouched

(* The three statements that begin with a snapshot. *)
LEMMA SnapshotKeeps ==
  ASSUME SendInv, NEW w \in Worker,
         StartExists(w) \/ StartSelect(w) \/ StartUpdate(w)
  PROVE  SendInv'
  <1> USE DEF SendInv, StartExists, StartSelect, StartUpdate, Snapshot, dbVars
  <1>1. TypeOK'
    BY DEF TypeOK, DbTypeOK, Step, Queued
  <1>2. LocksExclude'
    BY DEF TypeOK, LocksExclude, Queued
  <1>3. StampsFresh'
    BY DEF TypeOK, StampsFresh
  <1>4. Progress'
    BY DEF TypeOK, Progress, FileOf, Step, LocksExclude
  <1>5. RunsFollow'
    BY DEF TypeOK, RunsFollow, Recorded
  <1> QED
    BY <1>1, <1>2, <1>3, <1>4, <1>5, DatabaseUntouched

(* The guard, and the two statements that lock rows. *)
LEMMA LockingKeeps ==
  ASSUME SendInv, NEW w \in Worker,
         \/ CheckOutstanding(w)
         \/ ExistsFindsRow(w)
         \/ \E p \in Payload : LockNextRow(w, p)
  PROVE  SendInv'
  <1> USE DEF SendInv, CheckOutstanding, ExistsFindsRow, LockNextRow, dbVars
  <1>1. TypeOK'
    BY DEF TypeOK, DbTypeOK, Step
  <1>2. LocksExclude'
    BY DEF TypeOK, LocksExclude, Queued, LockedByOthers
  <1>3. StampsFresh'
    BY DEF TypeOK, StampsFresh
  <1>4. Progress'
    <2>1. CASE CheckOutstanding(w)
      BY <2>1 DEF TypeOK, Progress, FileOf, Step
    <2>2. CASE ExistsFindsRow(w)
      BY <2>2 DEF TypeOK, Progress, FileOf, Step
    <2>3. CASE \E p \in Payload : LockNextRow(w, p)
      <3>1. /\ held[w] \subseteq held'[w] /\ pc[w] = "lock"
            /\ UNCHANGED <<pc, run, stamp, outbox>>
        BY <2>3 DEF TypeOK
      <3>2. held[w] # {}
        BY <3>1 DEF Progress
      <3>3. \A v \in Worker \ {w} : held'[v] = held[v] /\ want'[v] = want[v]
        BY <2>3 DEF TypeOK
      <3> QED
        BY <3>1, <3>2, <3>3 DEF Progress, FileOf
    <2> QED
      BY <2>1, <2>2, <2>3
  <1>5. RunsFollow'
    BY DEF TypeOK, RunsFollow, Recorded
  <1> QED
    BY <1>1, <1>2, <1>3, <1>4, <1>5, DatabaseUntouched

LEMMA ReadRunNumberKeeps ==
  ASSUME SendInv, NEW w \in Worker, ReadRunNumber(w)
  PROVE  SendInv'
  <1> USE DEF SendInv, ReadRunNumber, dbVars
  <1>1. PICK r \in Run : IsNextRun(r) /\ run' = [run EXCEPT ![w] = r]
    OBVIOUS
  <1>2. r > 1 => \E n \in Recorded : ldRun[n] = r - 1
    BY <1>1, MaxMailAssumption DEF IsNextRun, TypeOK, DbTypeOK, Run, Recorded, MailId
  <1>3. TypeOK'
    BY <1>1 DEF TypeOK, DbTypeOK, Step
  <1>4. LocksExclude'
    BY DEF TypeOK, LocksExclude, Queued
  <1>5. StampsFresh'
    BY DEF TypeOK, StampsFresh
  <1>6. Progress'
    BY <1>1, MaxMailAssumption DEF TypeOK, Progress, FileOf, Step, Run
  <1>7. RunsFollow'
    BY <1>1, <1>2 DEF TypeOK, RunsFollow, Recorded, Progress, Step
  <1> QED
    BY <1>3, <1>4, <1>5, <1>6, <1>7, DatabaseUntouched

LEMMA CreateMailKeeps ==
  ASSUME SendInv, NEW w \in Worker, CreateMail(w)
  PROVE  SendInv'
  <1> USE DEF SendInv, CreateMail, dbVars
  <1>1. PICK m \in MailId : IsNewest(m) /\ stamp' = [stamp EXCEPT ![w] = m]
    OBVIOUS
  <1>2. m \in Nat \ {0}
    BY MaxMailAssumption DEF MailId
  <1>3. ~ Used(m) /\ \A n \in MailId : Used(n) => n < m
    BY <1>1, MaxMailAssumption DEF IsNewest, MailId
  <1>4. TypeOK'
    BY <1>1 DEF TypeOK, DbTypeOK, Step
  <1>5. LocksExclude'
    BY DEF TypeOK, LocksExclude, Queued
  <1>6. StampsFresh'
    BY <1>1, <1>2, <1>3 DEF TypeOK, StampsFresh, Used
  <1>7. Progress'
    BY <1>1, <1>2 DEF TypeOK, Progress, FileOf, Step
  <1>8. \A n \in Recorded : n < m
    BY <1>3 DEF Recorded, Used, StampsFresh
  <1>9. RunsFollow'
    BY <1>1, <1>8 DEF TypeOK, RunsFollow, Recorded
  <1> QED
    BY <1>4, <1>5, <1>6, <1>7, <1>9, DatabaseUntouched

LEMMA SendEmailKeeps ==
  ASSUME SendInv, NEW w \in Worker, SendEmail(w)
  PROVE  SendInv'
  <1> USE DEF SendInv, SendEmail, dbVars
  <1>1. FileOf(w) \in File
    BY DEF TypeOK, Progress, FileOf, File
  <1>2. TypeOK'
    BY <1>1 DEF TypeOK, DbTypeOK, Step
  <1>3. LocksExclude'
    BY DEF TypeOK, LocksExclude, Queued
  <1>4. StampsFresh'
    BY DEF TypeOK, StampsFresh
  <1>5. Progress'
    BY DEF TypeOK, Progress, FileOf, Step
  <1>6. RunsFollow'
    BY DEF TypeOK, RunsFollow, Recorded
  <1> QED
    BY <1>2, <1>3, <1>4, <1>5, <1>6, DatabaseUntouched

LEMMA CommitKeeps ==
  ASSUME SendInv, NEW w \in Worker, Commit(w)
  PROVE  SendInv'
  <1> USE DEF SendInv, Commit, EndTask
  <1> DEFINE s == stamp[w]
  <1>1. s \in MailId /\ s # 0 /\ mailStatus[s] = "none" /\ run[w] \in Run
    BY MaxMailAssumption DEF TypeOK, Progress, StampsFresh, MailId
  <1>2. held[w] \subseteq RowsToMark(w)
    BY DEF Progress, LocksExclude, RowsToMark
  <1>3. /\ Processed' = Processed \cup RowsToMark(w)
        /\ Queued' = Queued \ RowsToMark(w)
    BY DEF Processed, Queued, RowsToMark
  <1>4. Recorded' = Recorded \cup {s}
    BY <1>1, MaxMailAssumption DEF TypeOK, DbTypeOK, Recorded, Run
  <1>5. TypeOK'
    BY <1>1 DEF TypeOK, DbTypeOK, Step, PayloadState, MailStatus
  <1>6. LocksExclude'
    <2>1. \A v \in Worker : v # w => held[v] \cap RowsToMark(w) = {}
      BY DEF LockedByOthers
    <2> QED
      BY <2>1, <1>3 DEF TypeOK, LocksExclude
  <1>7. StampsFresh'
    BY <1>1 DEF TypeOK, DbTypeOK, StampsFresh
  <1>8. Progress'
    BY DEF TypeOK, Progress, FileOf, Step
  <1>9. RunsFollow'
    BY <1>1, <1>4 DEF TypeOK, DbTypeOK, RunsFollow, Recorded, StampsFresh
  <1>10. held[w] \cap Processed = {}
    BY DEF LocksExclude, Queued, Processed
  <1>11. NoDoubleSend'
    BY <1>1, <1>10 DEF TypeOK, DbTypeOK, NoDoubleSend, LinkedAreProcessed
  <1>12. LinkedAreProcessed'
    BY <1>1, <1>2, <1>3 DEF TypeOK, DbTypeOK, LinkedAreProcessed
  <1>13. MailedBeforeRecorded'
    BY <1>1, <1>4 DEF TypeOK, DbTypeOK, MailedBeforeRecorded, Progress, FileOf
  <1>14. RunsContiguous'
    <2> SUFFICES ASSUME NEW m \in Recorded', ldRun'[m] > 1
                 PROVE  \E n \in Recorded' : n < m /\ ldRun'[n] = ldRun'[m] - 1
      BY DEF RunsContiguous
    <2>1. CASE m = s
      <3>1. PICK n \in Recorded : ldRun[n] = run[w] - 1 /\ n < s
        BY <2>1, <1>1 DEF TypeOK, DbTypeOK, RunsFollow
      <3> QED
        BY <3>1, <2>1, <1>1, <1>4 DEF TypeOK, DbTypeOK, Recorded, StampsFresh
    <2>2. CASE m # s
      <3>1. m \in Recorded /\ ldRun'[m] = ldRun[m]
        BY <2>2, <1>4 DEF TypeOK, DbTypeOK, Recorded
      <3>2. PICK n \in Recorded : n < m /\ ldRun[n] = ldRun[m] - 1
        BY <3>1 DEF RunsContiguous
      <3> QED
        BY <3>1, <3>2, <1>1, <1>4 DEF TypeOK, DbTypeOK, Recorded, StampsFresh
    <2> QED
      BY <2>1, <2>2
  <1> QED
    BY <1>5, <1>6, <1>7, <1>8, <1>9, <1>11, <1>12, <1>13, <1>14

(* A request that arrives, and the reply of a file on its way to ICMS. *)
LEMMA EnvironmentKeeps ==
  ASSUME SendInv,
         \/ \E p \in Payload : Arrive(p)
         \/ \E M \in SUBSET MailId : ReplyArrives(M)
         \/ \E m \in MailId, s \in MailStatus : ReplyForwarded(m, s)
  PROVE  SendInv'
  <1> USE DEF SendInv, Arrive, Ingest, ReplyArrives, StoreReplies, AwaitingReply,
              ReplyForwarded, CloseMail, sendVars, mailVars
  <1>1. TypeOK'
    BY DEF TypeOK, DbTypeOK, PayloadState, MailStatus
  <1>2. Queued \subseteq Queued' /\ Processed \subseteq Processed'
    BY DEF TypeOK, DbTypeOK, Queued, Processed
  <1>3. LocksExclude'
    BY <1>2 DEF LocksExclude
  <1>4. StampsFresh'
    BY DEF TypeOK, DbTypeOK, StampsFresh
  <1>5. Progress'
    BY DEF Progress, FileOf
  <1>6. RunsFollow'
    BY DEF RunsFollow, Recorded
  <1>7. NoDoubleSend' /\ LinkedAreProcessed'
    BY <1>2 DEF NoDoubleSend, LinkedAreProcessed
  <1>8. MailedBeforeRecorded' /\ RunsContiguous'
    BY DEF MailedBeforeRecorded, RunsContiguous, Recorded
  <1> QED
    BY <1>1, <1>3, <1>4, <1>5, <1>6, <1>7, <1>8

LEMMA NextKeeps == SendInv /\ [Next]_vars => SendInv'
  <1> SUFFICES ASSUME SendInv, [Next]_vars PROVE SendInv'
    OBVIOUS
  <1>1. ASSUME NEW w \in Worker, Task(w) PROVE SendInv'
    <2>1. CASE StartExists(w) \/ StartSelect(w) \/ StartUpdate(w)
      BY <2>1, SnapshotKeeps
    <2>2. CASE CheckOutstanding(w) \/ ExistsFindsRow(w)
               \/ \E p \in Payload : LockNextRow(w, p)
      BY <2>2, LockingKeeps
    <2>3. CASE NothingToSend(w) \/ InvalidFile(w)
      <3>1. failures' \in 0..MaxFailures
        BY <2>3 DEF NothingToSend, InvalidFile, SendInv, TypeOK
      <3> QED
        BY <2>3, <3>1, RollbackKeeps DEF NothingToSend, InvalidFile
    <2>4. CASE ReadRunNumber(w)
      BY <2>4, ReadRunNumberKeeps
    <2>5. CASE CreateMail(w)
      BY <2>5, CreateMailKeeps
    <2>6. CASE SendEmail(w)
      BY <2>6, SendEmailKeeps
    <2>7. CASE Commit(w)
      BY <2>7, CommitKeeps
    <2>8. CASE DeadlockVictim(w)
      BY <2>8, RollbackKeeps DEF DeadlockVictim, SendInv, TypeOK
    <2> QED
      BY <1>1, <2>1, <2>2, <2>3, <2>4, <2>5, <2>6, <2>7, <2>8 DEF Task
  <1>2. ASSUME NEW w \in Worker, Fail(w) PROVE SendInv'
    <2>1. failures' \in 0..MaxFailures
      BY <1>2, MaxFailuresAssumption DEF Fail, SendInv, TypeOK
    <2>2. EndTask(w) /\ UNCHANGED <<dbVars, outbox>>
      BY <1>2 DEF Fail
    <2> QED
      BY <2>1, <2>2, RollbackKeeps
  <1>3. CASE UNCHANGED vars
    <2> USE <1>3 DEF SendInv, vars, sendVars, dbVars
    <2>1. TypeOK' /\ LocksExclude' /\ StampsFresh'
      BY DEF TypeOK, DbTypeOK, LocksExclude, Queued, StampsFresh
    <2>2. Progress' /\ RunsFollow'
      BY DEF Progress, FileOf, RunsFollow, Recorded
    <2> QED
      BY <2>1, <2>2, DatabaseUntouched
  <1> QED
    BY <1>1, <1>2, <1>3, EnvironmentKeeps DEF Next

(* The inductive invariant holds of every behaviour of the task. *)
THEOREM SendInvariant == Spec => []SendInv
  BY InitInv, NextKeeps, PTL DEF Spec

(* Every variable of the task and of the tables keeps its type. *)
THEOREM TypeCorrect == Spec => []TypeOK
  <1>1. SendInv => TypeOK
    BY DEF SendInv
  <1> QED
    BY <1>1, SendInvariant, PTL

(* select_for_update and the is_processed filter keep a request out of two *)
(* recorded licenceData files, however many runs of the task overlap.      *)
THEOREM NeverSentTwice == Spec => [](NoDoubleSend /\ LinkedAreProcessed)
  <1>1. SendInv => NoDoubleSend /\ LinkedAreProcessed
    BY DEF SendInv
  <1> QED
    BY <1>1, SendInvariant, PTL

(* A recorded licenceData file was accepted by the SMTP server before the  *)
(* transaction that records it committed, with the same number and content *)
THEOREM MailedFirst == Spec => []MailedBeforeRecorded
  <1>1. SendInv => MailedBeforeRecorded
    BY DEF SendInv
  <1> QED
    BY <1>1, SendInvariant, PTL

(* create_licence_data_mail leaves no gap in the recorded run numbers.     *)
THEOREM NoGapInRuns == Spec => []RunsContiguous
  <1>1. SendInv => RunsContiguous
    BY DEF SendInv
  <1> QED
    BY <1>1, SendInvariant, PTL

-----------------------------------------------------------------------------
(* Every commit is a whole licenceData file. *)
LEMMA CommitIsSendFile ==
  ASSUME SendInv, NEW w \in Worker, Commit(w)
  PROVE  \E m \in MailId, r \in Run :
            \E marked \in SUBSET Queued : \E items \in SUBSET marked :
               SendFile(m, r, items, marked)
  <1> DEFINE m == stamp[w]
             r == run[w]
             items == held[w]
             marked == RowsToMark(w)
  <1>1. pc[w] = "commit"
    BY DEF Commit
  <1>2. m \in MailId /\ r \in Run /\ m # 0
    BY <1>1 DEF SendInv, TypeOK, Progress
  <1>3. mailStatus[m] = "none"
    BY <1>2 DEF SendInv, StampsFresh
  <1>4. FollowsRun(m, r)
    <2>1. r > 1 => \E n \in Recorded : n < m /\ ldRun[n] = r - 1
      BY <1>2 DEF SendInv, RunsFollow
    <2>2. r = 1 \/ r > 1
      BY <1>2, MaxMailAssumption DEF Run
    <2> QED
      BY <2>1, <2>2 DEF FollowsRun
  <1>5. items # {} /\ items \subseteq marked /\ marked \subseteq Queued
    BY <1>1 DEF SendInv, Progress, LocksExclude, RowsToMark
  <1>6. SendFile(m, r, items, marked)
    BY <1>3, <1>4, <1>5 DEF SendFile, Commit
  <1> QED
    BY <1>2, <1>5, <1>6

LEMMA OnlyCommitWrites ==
  ASSUME NEW w \in Worker, Task(w) \/ Fail(w), ~ Commit(w)
  PROVE  UNCHANGED dbVars
  BY DEF Task, CheckOutstanding, StartExists, ExistsFindsRow, NothingToSend, ReadRunNumber,
         StartSelect, LockNextRow, InvalidFile, CreateMail, SendEmail, StartUpdate, Snapshot,
         Fail, DeadlockVictim

LEMMA MailedStaysMailed ==
  ASSUME NEW w \in Worker, Task(w) \/ Fail(w)
  PROVE  outbox \subseteq outbox'
  BY DEF Task, CheckOutstanding, StartExists, ExistsFindsRow, NothingToSend, ReadRunNumber,
         StartSelect, LockNextRow, InvalidFile, CreateMail, SendEmail, StartUpdate, Snapshot,
         Commit, Fail, DeadlockVictim

LEMMA StepImplements == SendInv /\ [Next]_vars => [WorkflowNext]_dbVars
  <1> SUFFICES ASSUME SendInv, [Next]_vars PROVE [WorkflowNext]_dbVars
    OBVIOUS
  <1>1. ASSUME NEW w \in Worker, Commit(w) PROVE WorkflowNext
    BY <1>1, CommitIsSendFile DEF WorkflowNext
  <1>2. CASE \/ \E p \in Payload : Arrive(p)
             \/ \E M \in SUBSET MailId : ReplyArrives(M)
             \/ \E m \in MailId, s \in MailStatus : ReplyForwarded(m, s)
    BY <1>2 DEF Arrive, ReplyArrives, ReplyForwarded, WorkflowNext
  <1>3. CASE UNCHANGED vars
    BY <1>3 DEF vars
  <1> QED
    BY <1>1, <1>2, <1>3, OnlyCommitWrites DEF Next

(* The tables only ever show whole commits of the task, each of a file     *)
(* that is not empty, has a number that follows, and takes its requests    *)
(* out of the queue: what the other tasks rely on.                         *)
THEOREM SendImplementsWorkflow == Spec => ImplementsWorkflow
  <1>1. Init => DbInit
    BY DEF Init
  <1> QED
    BY <1>1, StepImplements, SendInvariant, PTL DEF Spec, ImplementsWorkflow, WorkflowSpec

-----------------------------------------------------------------------------
(* One worker: the task never overlaps itself. *)

Alone == \A v, w \in Worker : v = w

LEMMA AloneStep ==
  ASSUME Alone, SendInv, AloneInv, [Next]_vars
  PROVE  AloneInv'
  <1> USE DEF AloneInv
  <1>1. ASSUME UNCHANGED dbVars,
               NEW w \in Worker, pc'[w] # "idle" => NothingOutstanding,
               \A m \in Recorded : /\ run'[w] # 0 => ldRun[m] < run'[w]
                                   /\ stamp'[w] # 0 => m < stamp'[w]
        PROVE  AloneInv'
    BY <1>1 DEF Alone, OneOutstanding, RunsIncrease, NothingOutstanding,
                Unfinished, Recorded, dbVars
  <1>2. ASSUME NEW w \in Worker, EndTask(w), UNCHANGED dbVars PROVE AloneInv'
    <2>1. pc'[w] = "idle" /\ run'[w] = 0 /\ stamp'[w] = 0
      BY <1>2 DEF EndTask, SendInv, TypeOK
    <2> QED
      BY <1>1, <1>2, <2>1
  <1>3. ASSUME NEW w \in Worker,
               \/ CheckOutstanding(w) \/ StartExists(w) \/ ExistsFindsRow(w)
               \/ StartSelect(w) \/ StartUpdate(w) \/ SendEmail(w)
               \/ \E p \in Payload : LockNextRow(w, p)
        PROVE  AloneInv'
    <2>1. UNCHANGED <<dbVars, run, stamp>> /\ (pc[w] # "idle" \/ NothingOutstanding)
      BY <1>3 DEF CheckOutstanding, StartExists, ExistsFindsRow, StartSelect,
                  StartUpdate, SendEmail, LockNextRow, Snapshot
    <2> QED
      BY <1>1, <2>1
  <1>4. ASSUME NEW w \in Worker, ReadRunNumber(w) PROVE AloneInv'
    <2>1. PICK r \in Run : IsNextRun(r) /\ run' = [run EXCEPT ![w] = r]
      BY <1>4 DEF ReadRunNumber
    <2>2. \A m \in Recorded : ldRun[m] < r
      <3> SUFFICES ASSUME NEW m \in Recorded PROVE ldRun[m] < r
        OBVIOUS
      <3>1. PICK last \in Recorded : /\ \A n \in Recorded : n <= last
                                     /\ r = ldRun[last] + 1
        BY <2>1 DEF IsNextRun
      <3>2. m \in Nat /\ last \in Nat /\ ldRun[m] \in Nat /\ ldRun[last] \in Nat
        BY MaxMailAssumption DEF Recorded, MailId, Run, SendInv, TypeOK, DbTypeOK
      <3>3. m = last \/ m < last
        BY <3>1, <3>2
      <3>4. m < last => ldRun[m] < ldRun[last]
        BY DEF RunsIncrease
      <3> QED
        BY <3>1, <3>2, <3>3, <3>4
    <2>3. stamp'[w] = 0 /\ run'[w] = r /\ UNCHANGED dbVars
      BY <1>4, <2>1 DEF ReadRunNumber, SendInv, TypeOK, Progress
    <2>4. NothingOutstanding
      BY <1>4 DEF ReadRunNumber
    <2> QED
      BY <1>1, <2>2, <2>3, <2>4
  <1>5. ASSUME NEW w \in Worker, CreateMail(w) PROVE AloneInv'
    <2>1. PICK s \in MailId : IsNewest(s) /\ stamp' = [stamp EXCEPT ![w] = s]
      BY <1>5 DEF CreateMail
    <2>2. \A m \in Recorded : m < s
      BY <2>1, MaxMailAssumption
         DEF IsNewest, Used, MailId, Recorded, StampsFresh, SendInv
    <2>3. stamp'[w] = s /\ UNCHANGED <<dbVars, run>> /\ NothingOutstanding
      BY <1>5, <2>1 DEF CreateMail, SendInv, TypeOK
    <2> QED
      BY <1>1, <2>2, <2>3
  <1>6. ASSUME NEW w \in Worker, Commit(w) PROVE AloneInv'
    <2> USE <1>6 DEF Commit, EndTask
    <2> DEFINE s == stamp[w]
    <2>1. s \in MailId /\ s # 0 /\ run[w] \in Run /\ mailStatus[s] = "none"
      BY MaxMailAssumption DEF SendInv, TypeOK, Progress, StampsFresh, MailId
    <2>2. Unfinished' = {s}
      BY <2>1 DEF NothingOutstanding, Unfinished, SendInv, TypeOK, DbTypeOK
    <2>3. OneOutstanding'
      BY <2>2 DEF OneOutstanding
    <2>4. Recorded' = Recorded \cup {s}
      BY <2>1, MaxMailAssumption DEF SendInv, TypeOK, DbTypeOK, Recorded, Run
    <2>5. \A m \in Recorded : m < s /\ ldRun[m] < run[w]
      BY <2>1, MaxMailAssumption DEF Run
    <2>6. RunsIncrease'
      BY <2>1, <2>4, <2>5, MaxMailAssumption
         DEF RunsIncrease, Recorded, SendInv, TypeOK, DbTypeOK, MailId, Run
    <2>7. \A v \in Worker : pc'[v] = "idle" /\ run'[v] = 0 /\ stamp'[v] = 0
      BY DEF Alone, SendInv, TypeOK
    <2> QED
      BY <2>3, <2>6, <2>7
  <1>7. CASE \/ \E p \in Payload : Arrive(p)
             \/ \E M \in SUBSET MailId : ReplyArrives(M)
             \/ \E m \in MailId, s \in MailStatus : ReplyForwarded(m, s)
    <2> USE <1>7 DEF Arrive, Ingest, ReplyArrives, StoreReplies, AwaitingReply,
                     ReplyForwarded, CloseMail, sendVars, mailVars
    <2>1. Unfinished' \subseteq Unfinished /\ Recorded' = Recorded
      BY DEF Unfinished, Recorded, SendInv, TypeOK, DbTypeOK
    <2> QED
      BY <2>1 DEF OneOutstanding, RunsIncrease, NothingOutstanding
  <1>8. CASE UNCHANGED vars
    BY <1>8 DEF vars, sendVars, dbVars, OneOutstanding, RunsIncrease,
                NothingOutstanding, Unfinished, Recorded
  <1>9. ASSUME NEW w \in Worker,
               NothingToSend(w) \/ InvalidFile(w) \/ Fail(w) \/ DeadlockVictim(w)
        PROVE  AloneInv'
    BY <1>2, <1>9 DEF NothingToSend, InvalidFile, Fail, DeadlockVictim
  <1> QED
    BY <1>3, <1>4, <1>5, <1>6, <1>7, <1>8, <1>9 DEF Next, Task

LEMMA AloneInit == Init => AloneInv
  BY DEF Init, DbInit, AloneInv, OneOutstanding, RunsIncrease, Unfinished, Recorded

(* If runs of the task never overlap then one licenceData file at a time   *)
(* is with HMRC and run numbers follow the order of the files, the two     *)
(* main conjuncts of AloneInv.                                             *)
THEOREM StopAndWait ==
  ASSUME Alone PROVE Spec => []AloneInv
  <1>1. SendInv /\ AloneInv /\ [Next]_vars => AloneInv'
    BY AloneStep
  <1> QED
    BY <1>1, AloneInit, SendInvariant, PTL DEF Spec

(* A file is recorded, or its transaction has still to commit. *)
Accounted(f) ==
    \/ \E m \in Recorded : f = [run |-> ldRun[m], items |-> ldItems[m]]
    \/ \E w \in Worker : pc[w] \in {"update", "commit"} /\ f = FileOf(w)

(* A transaction that has mailed its file ends with its commit, unless it  *)
(* fails: nobody is there to wait for.                                     *)
LEMMA NoVictimAlone ==
  ASSUME Alone, NEW w \in Worker PROVE ~ DeadlockVictim(w)
  BY DEF Alone, DeadlockVictim, WaitsFor

LEMMA PhantomStep ==
  ASSUME Alone, SendInv, NoPhantomFile, [Next]_vars
  PROVE  NoPhantomFile'
  <1>1. ASSUME NEW f, Accounted(f), UNCHANGED <<ldRun, ldItems>>,
               \A w \in Worker : pc[w] \in {"update", "commit"} =>
                   pc'[w] \in {"update", "commit"} /\ FileOf(w)' = FileOf(w)
        PROVE  Accounted(f)'
    BY <1>1 DEF Accounted, Recorded
  <1>2. ASSUME UNCHANGED <<ldRun, ldItems>>, outbox' = outbox, failures' = failures,
               \A w \in Worker : pc[w] \in {"update", "commit"} =>
                   pc'[w] \in {"update", "commit"} /\ FileOf(w)' = FileOf(w)
        PROVE  NoPhantomFile'
    BY <1>1, <1>2 DEF NoPhantomFile, Accounted
  <1>3. ASSUME NEW w \in Worker,
               \/ CheckOutstanding(w) \/ StartExists(w) \/ ExistsFindsRow(w)
               \/ NothingToSend(w) \/ ReadRunNumber(w) \/ StartSelect(w)
               \/ InvalidFile(w) \/ CreateMail(w) \/ StartUpdate(w)
               \/ \E p \in Payload : LockNextRow(w, p)
        PROVE  NoPhantomFile'
    BY <1>2, <1>3
       DEF CheckOutstanding, StartExists, ExistsFindsRow, NothingToSend, ReadRunNumber,
           StartSelect, InvalidFile, CreateMail, StartUpdate, LockNextRow, Snapshot, EndTask,
           FileOf, SendInv, TypeOK, dbVars
  <1>4. ASSUME NEW w \in Worker, SendEmail(w) PROVE NoPhantomFile'
    <2> SUFFICES ASSUME failures = 0, NEW f \in outbox' PROVE Accounted(f)'
      BY <1>4 DEF NoPhantomFile, Accounted, SendEmail
    <2>1. CASE f \in outbox
      BY <1>1, <1>4, <2>1 DEF NoPhantomFile, Accounted, SendEmail, FileOf, SendInv, TypeOK, dbVars
    <2>2. CASE f = FileOf(w)
      BY <1>4, <2>2 DEF Accounted, SendEmail, FileOf, SendInv, TypeOK
    <2> QED
      BY <1>4, <2>1, <2>2 DEF SendEmail
  <1>5. ASSUME NEW w \in Worker, Commit(w) PROVE NoPhantomFile'
    <2> SUFFICES ASSUME failures = 0, NEW f \in outbox PROVE Accounted(f)'
      BY <1>5 DEF NoPhantomFile, Accounted, Commit
    <2> DEFINE s == stamp[w]
    <2>1. s \in MailId /\ s # 0 /\ run[w] \in Run /\ mailStatus[s] = "none"
      BY <1>5, MaxMailAssumption DEF Commit, SendInv, TypeOK, Progress, StampsFresh, MailId
    <2>2. /\ ldRun' = [ldRun EXCEPT ![s] = run[w]] /\ ldItems' = [ldItems EXCEPT ![s] = held[w]]
          /\ s \notin Recorded /\ s \in Recorded'
      BY <1>5, <2>1, MaxMailAssumption
         DEF Commit, SendInv, TypeOK, DbTypeOK, StampsFresh, Recorded, Run
    <2>3. CASE f = FileOf(w)
      BY <2>1, <2>2, <2>3 DEF FileOf, Accounted, SendInv, TypeOK, DbTypeOK
    <2>4. ASSUME NEW m \in Recorded, f = [run |-> ldRun[m], items |-> ldItems[m]]
          PROVE  Accounted(f)'
      BY <2>1, <2>2, <2>4 DEF Recorded, Accounted, SendInv, TypeOK, DbTypeOK
    <2> QED
      BY <2>3, <2>4 DEF NoPhantomFile, Alone
  <1>6. ASSUME NEW w \in Worker, Fail(w) PROVE NoPhantomFile'
    BY <1>6, MaxFailuresAssumption DEF Fail, NoPhantomFile, SendInv, TypeOK
  <1>7. CASE \/ \E p \in Payload : Arrive(p)
             \/ \E M \in SUBSET MailId : ReplyArrives(M)
             \/ \E m \in MailId, s \in MailStatus : ReplyForwarded(m, s)
    BY <1>2, <1>7 DEF Arrive, Ingest, ReplyArrives, StoreReplies, ReplyForwarded, CloseMail,
                      sendVars, mailVars, FileOf
  <1>8. CASE UNCHANGED vars
    BY <1>2, <1>8 DEF vars, sendVars, dbVars, FileOf
  <1> QED
    BY <1>3, <1>4, <1>5, <1>6, <1>7, <1>8, NoVictimAlone DEF Next, Task

(* mail.tasks: if runs of the task never overlap and none is cut short,    *)
(* HMRC has no licenceData file that the database does not know of, or is  *)
(* about to record.                                                        *)
THEOREM NothingUnrecorded ==
  ASSUME Alone PROVE Spec => []NoPhantomFile
  <1>1. SendInv /\ NoPhantomFile /\ [Next]_vars => NoPhantomFile'
    BY PhantomStep
  <1>2. Init => NoPhantomFile
    BY DEF Init, NoPhantomFile
  <1> QED
    BY <1>1, <1>2, SendInvariant, PTL DEF Spec

-----------------------------------------------------------------------------
(* Any number of workers: how many files can be out at once. *)

FiniteWorkers == IsFiniteSet(Worker)

LEMMA FiniteParts ==
  ASSUME FiniteWorkers, NEW U \in SUBSET MailId, NEW B \in SUBSET Worker
  PROVE  /\ IsFiniteSet(U) /\ Cardinality(U) \in Nat
         /\ IsFiniteSet(B) /\ Cardinality(B) \in Nat
         /\ Cardinality(B) <= Cardinality(Worker) /\ Cardinality(Worker) \in Nat
  <1>1. IsFiniteSet(MailId)
    BY FS_Interval, MaxMailAssumption DEF MailId
  <1> QED
    BY <1>1, FS_Subset, FS_CardinalityType DEF FiniteWorkers

LEMMA BoundStep ==
  ASSUME FiniteWorkers, SendInv, OutstandingBounded, [Next]_vars
  PROVE  OutstandingBounded'
  <1> USE DEF OutstandingBounded
  <1>0. /\ IsFiniteSet(Unfinished) /\ Cardinality(Unfinished) \in Nat
        /\ IsFiniteSet(Unfinished') /\ Cardinality(Unfinished') \in Nat
        /\ IsFiniteSet(Busy) /\ Cardinality(Busy) \in Nat
        /\ IsFiniteSet(Busy') /\ Cardinality(Busy') \in Nat
        /\ Cardinality(Busy') <= Cardinality(Worker) /\ Cardinality(Worker) \in Nat
    <2>1. Unfinished \subseteq MailId /\ Unfinished' \subseteq MailId
      BY DEF Unfinished
    <2>2. Busy \subseteq Worker /\ Busy' \subseteq Worker
      BY DEF Busy
    <2> QED
      BY <2>1, <2>2, FiniteParts
  <1>1. ASSUME Unfinished' \subseteq Unfinished, Busy' \subseteq Busy
        PROVE  OutstandingBounded'
    BY <1>0, <1>1, FS_Subset
  <1>2. ASSUME NEW w \in Worker, CheckOutstanding(w) PROVE OutstandingBounded'
    <2>1. Unfinished' = {}
      BY <1>2 DEF CheckOutstanding, NothingOutstanding, Unfinished, dbVars
    <2> QED
      BY <1>0, <2>1, FS_EmptySet
  <1>3. ASSUME NEW w \in Worker, Commit(w) PROVE OutstandingBounded'
    <2>1. Unfinished' \subseteq Unfinished \cup {stamp[w]}
      BY <1>3 DEF Commit, Unfinished, SendInv, TypeOK, DbTypeOK
    <2>2. Busy' = Busy \ {w} /\ w \in Busy
      BY <1>3 DEF Commit, EndTask, Busy, SendInv, TypeOK
    <2>3. Cardinality(Unfinished') <= Cardinality(Unfinished) + 1
      <3> DEFINE U == Unfinished \cup {stamp[w]}
      <3>1. /\ IsFiniteSet(U)
            /\ Cardinality(U) = Cardinality(Unfinished) \/ Cardinality(U) = Cardinality(Unfinished) + 1
        BY <1>0, FS_AddElement
      <3>2. Cardinality(Unfinished') <= Cardinality(U)
        BY <2>1, <3>1, FS_Subset
      <3> QED
        BY <1>0, <3>1, <3>2
    <2>4. Cardinality(Busy') = Cardinality(Busy) - 1
      BY <1>0, <2>2, FS_RemoveElement
    <2> QED
      BY <1>0, <2>3, <2>4
  <1>4. ASSUME NEW w \in Worker, Task(w) \/ Fail(w), ~ CheckOutstanding(w), ~ Commit(w)
        PROVE  OutstandingBounded'
    <2>1. Unfinished' = Unfinished
      BY <1>4, OnlyCommitWrites DEF Unfinished, dbVars
    <2>2. Busy' \subseteq Busy
      BY <1>4 DEF Busy, Task, StartExists, ExistsFindsRow, NothingToSend, ReadRunNumber,
                  StartSelect, LockNextRow, InvalidFile, CreateMail, SendEmail, StartUpdate,
                  Snapshot, Fail, DeadlockVictim, EndTask, SendInv, TypeOK
    <2> QED
      BY <1>1, <2>1, <2>2
  <1>5. CASE \/ \E p \in Payload : Arrive(p)
             \/ \E M \in SUBSET MailId : ReplyArrives(M)
             \/ \E m \in MailId, s \in MailStatus : ReplyForwarded(m, s)
    <2>1. Unfinished' \subseteq Unfinished /\ Busy' = Busy
      BY <1>5 DEF Arrive, Ingest, ReplyArrives, StoreReplies, AwaitingReply, ReplyForwarded,
                  CloseMail, sendVars, mailVars, Unfinished, Busy, SendInv, TypeOK, DbTypeOK
    <2> QED
      BY <1>1, <2>1
  <1>6. CASE UNCHANGED vars
    BY <1>1, <1>6 DEF vars, sendVars, dbVars, Unfinished, Busy
  <1> QED
    BY <1>2, <1>3, <1>4, <1>5, <1>6 DEF Next

(* The guard of send_licence_data_to_hmrc is read outside the transaction, *)
(* so that overlapping runs can leave several Mails unanswered; but with   *)
(* every run that is still under way counted, never more than there are    *)
(* worker processes.                                                       *)
THEOREM NeverMoreThanWorkers ==
  ASSUME FiniteWorkers PROVE Spec => []OutstandingBounded
  <1>1. SendInv /\ OutstandingBounded /\ [Next]_vars => OutstandingBounded'
    BY BoundStep
  <1>2. Init => OutstandingBounded
    <2> SUFFICES ASSUME Init PROVE OutstandingBounded
      OBVIOUS
    <2>1. Unfinished = {} /\ Busy = {} /\ {} \subseteq MailId /\ {} \subseteq Worker
      BY DEF Init, DbInit, Unfinished, Busy
    <2> QED
      BY <2>1, FiniteParts, FS_EmptySet DEF OutstandingBounded
  <1> QED
    BY <1>1, <1>2, SendInvariant, PTL DEF Spec

=============================================================================
