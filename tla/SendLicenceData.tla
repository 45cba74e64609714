--------------------------- MODULE SendLicenceData ---------------------------
(***************************************************************************)
(* The celery task send_licence_data_to_hmrc (mail/tasks.py) together with *)
(* create_licence_data_mail (mail/chief/licence_data/processor.py).        *)
(*                                                                         *)
(* Celery beat starts the task every ten minutes whether or not the        *)
(* previous one has ended, and a celery worker runs several processes:     *)
(* Worker is the set of processes that may be inside the task at once.     *)
(* One action is one SQL statement or one external call.  A statement that *)
(* locks rows first takes a snapshot (want) and then waits for each row    *)
(* that another transaction holds (READ COMMITTED); the rows it holds stay *)
(* locked until the transaction ends.                                      *)
(***************************************************************************)
EXTENDS Workflow

CONSTANTS Worker,       \* processes that can run the task
          Unsendable,   \* payloads whose lines fail validate_edifact_file
          MaxFailures   \* bound: sends that are cut short by an exception or a crash

ASSUME UnsendableAssumption == Unsendable \subseteq Payload
ASSUME MaxFailuresAssumption == MaxFailures \in Nat

VARIABLES pc,           \* next statement of each worker
          want,         \* rows in the snapshot of the current statement, not yet locked
          held,         \* rows locked by the worker's transaction
          run,          \* run_number read by create_licence_data_mail
          stamp,        \* the uncommitted Mail of the transaction, 0 before it exists
          outbox,       \* licenceData files the SMTP server has accepted
          failures

sendVars == <<pc, want, held, run, stamp, outbox, failures>>
vars == <<dbVars, sendVars>>

Step == {"idle", "begin", "exists", "run", "select", "lock", "email",
         "update", "commit"}

(* What HMRC can tell two files apart by. *)
File == [run : Run, items : SUBSET Payload]

TypeOK ==
    /\ DbTypeOK
    /\ pc \in [Worker -> Step]
    /\ want \in [Worker -> SUBSET Payload]
    /\ held \in [Worker -> SUBSET Payload]
    /\ run \in [Worker -> {0} \cup Run]
    /\ stamp \in [Worker -> {0} \cup MailId]
    /\ outbox \subseteq File
    /\ failures \in 0..MaxFailures

Init ==
    /\ DbInit
    /\ pc = [w \in Worker |-> "idle"]
    /\ want = [w \in Worker |-> {}]
    /\ held = [w \in Worker |-> {}]
    /\ run = [w \in Worker |-> 0]
    /\ stamp = [w \in Worker |-> 0]
    /\ outbox = {}
    /\ failures = 0

-----------------------------------------------------------------------------
(* Variant for the mutation checks: select_for_update left out. *)
NoRowLocks(w) == {}

LockedByOthers(w) == UNION {held[v] : v \in Worker \ {w}}

(* Mails that exist, committed or not. *)
Used(m) == mailStatus[m] # "none" \/ \E w \in Worker : stamp[w] = m

(* auto_now_add: a new Mail is later than every Mail created before it. *)
IsNewest(m) ==
    \A n \in MailId : n < m <=> \E k \in MailId : n <= k /\ Used(k)

(* Variants of the guard for the mutation checks: a reply that has not     *)
(* been passed on is forgotten; closed mails are not excluded.             *)
IgnoresReceived == \A m \in MailId : mailStatus[m] \notin {"pending", "reply_pending"}
NoMailAtAll == \A m \in MailId : mailStatus[m] = "none"

(* Guard of the task; it is read outside the transaction. *)
NothingOutstanding == Unfinished = {}

(* The next row that `SELECT ... ORDER BY received_at FOR UPDATE` locks. *)
IsNextRow(w, p) == p \in want[w] /\ \A q \in want[w] : p <= q

(* Variant of RowsToMark for the mutation checks: the update is left out. *)
MarksNothing(w) == {}

(* The rows that `licences.update(is_processed=True)` writes: the query    *)
(* runs again, so they are the rows of its own snapshot that are still     *)
(* unprocessed, whether or not they were read for the file.                *)
RowsToMark(w) == want[w] \cap Queued

(* Variant of FileOf for the mutation checks: the payloads are queried     *)
(* again for the file.                                                     *)
FileFromFreshQuery(w) == [run |-> run[w], items |-> Queued]

(* The file that the transaction mails. *)
FileOf(w) == [run |-> run[w], items |-> held[w]]

(* A statement starts: its snapshot is the rows unprocessed at this moment. *)
Snapshot(w, from, to) ==
    /\ pc[w] = from
    /\ pc' = [pc EXCEPT ![w] = to]
    /\ want' = [want EXCEPT ![w] = Queued]
    /\ UNCHANGED <<dbVars, held, run, stamp, outbox, failures>>

(* The transaction ends and its locks are released. *)
EndTask(w) ==
    /\ pc' = [pc EXCEPT ![w] = "idle"]
    /\ want' = [want EXCEPT ![w] = {}]
    /\ held' = [held EXCEPT ![w] = {}]
    /\ run' = [run EXCEPT ![w] = 0]
    /\ stamp' = [stamp EXCEPT ![w] = 0]

-----------------------------------------------------------------------------
CheckOutstanding(w) ==
    /\ pc[w] = "idle"
    /\ NothingOutstanding
    /\ pc' = [pc EXCEPT ![w] = "begin"]
    /\ UNCHANGED <<dbVars, want, held, run, stamp, outbox, failures>>

(* licences.exists(): SELECT 1 ... LIMIT 1 FOR UPDATE locks one row. *)
StartExists(w) == Snapshot(w, "begin", "exists")

ExistsFindsRow(w) ==
    /\ pc[w] = "exists"
    /\ \E p \in want[w] \cap Queued :
          /\ p \notin LockedByOthers(w)
          /\ held' = [held EXCEPT ![w] = {p}]
    /\ pc' = [pc EXCEPT ![w] = "run"]
    /\ want' = [want EXCEPT ![w] = {}]
    /\ UNCHANGED <<dbVars, run, stamp, outbox, failures>>

NothingToSend(w) ==
    /\ pc[w] = "exists"
    /\ want[w] \cap Queued = {}
    /\ EndTask(w)
    /\ UNCHANGED <<dbVars, outbox, failures>>

ReadRunNumber(w) ==
    /\ pc[w] = "run"
    /\ \E r \in Run : IsNextRun(r) /\ run' = [run EXCEPT ![w] = r]
    /\ pc' = [pc EXCEPT ![w] = "select"]
    /\ UNCHANGED <<dbVars, want, held, stamp, outbox, failures>>

StartSelect(w) == Snapshot(w, "select", "lock")

(* One more row of the result; a row that was processed while the          *)
(* statement waited for it is left out.                                    *)
LockNextRow(w, p) ==
    /\ pc[w] = "lock"
    /\ IsNextRow(w, p)
    /\ p \notin LockedByOthers(w)
    /\ want' = [want EXCEPT ![w] = @ \ {p}]
    /\ held' = [held EXCEPT ![w] = @ \cup ({p} \cap Queued)]
    /\ UNCHANGED <<dbVars, pc, run, stamp, outbox, failures>>

(* licences_to_edifact raises ValueError; nothing is kept. *)
InvalidFile(w) ==
    /\ pc[w] = "lock"
    /\ want[w] = {}
    /\ held[w] \cap Unsendable # {}
    /\ EndTask(w)
    /\ UNCHANGED <<dbVars, outbox, failures>>

(* Mail, LicenceData and its payload links are written, uncommitted. *)
CreateMail(w) ==
    /\ pc[w] = "lock"
    /\ want[w] = {}
    /\ held[w] \cap Unsendable = {}
    /\ \E m \in MailId : IsNewest(m) /\ stamp' = [stamp EXCEPT ![w] = m]
    /\ pc' = [pc EXCEPT ![w] = "email"]
    /\ UNCHANGED <<dbVars, want, held, run, outbox, failures>>

(* send_email_wrapper: the SMTP server accepts the file. *)
SendEmail(w) ==
    /\ pc[w] = "email"
    /\ outbox' = outbox \cup {FileOf(w)}
    /\ pc' = [pc EXCEPT ![w] = "update"]
    /\ UNCHANGED <<dbVars, want, held, run, stamp, failures>>

(* mail.status = REPLY_PENDING is written, then licences.update() starts. *)
StartUpdate(w) == Snapshot(w, "update", "commit")

(* The update ends when no row it writes is locked by another transaction, *)
(* and the transaction commits.                                            *)
Commit(w) ==
    /\ pc[w] = "commit"
    /\ RowsToMark(w) \cap LockedByOthers(w) = {}
    /\ payload' = [p \in Payload |-> IF p \in RowsToMark(w) THEN "processed"
                                     ELSE payload[p]]
    /\ mailStatus' = [mailStatus EXCEPT ![stamp[w]] = "reply_pending"]
    /\ ldRun' = [ldRun EXCEPT ![stamp[w]] = run[w]]
    /\ ldItems' = [ldItems EXCEPT ![stamp[w]] = held[w]]
    /\ EndTask(w)
    /\ UNCHANGED <<outbox, failures>>

(* Any other exception (SMTP, database) or the death of the process rolls  *)
(* the transaction back, at any statement: also after SMTP has accepted.   *)
Fail(w) ==
    /\ pc[w] # "idle"
    /\ failures < MaxFailures
    /\ failures' = failures + 1
    /\ EndTask(w)
    /\ UNCHANGED <<dbVars, outbox>>

(* w waits for a row that v has locked. *)
WaitsFor(w, v) ==
    /\ v # w
    /\ \/ /\ pc[w] = "exists"
          /\ want[w] \cap Queued \cap held[v] # {}
       \/ /\ pc[w] = "lock"
          /\ \E p \in held[v] : IsNextRow(w, p)
       \/ /\ pc[w] = "commit"
          /\ RowsToMark(w) \cap held[v] # {}

(* PostgreSQL aborts one of the transactions that wait for each other in a *)
(* ring; the task logs the error and ends.                                 *)
DeadlockVictim(w) ==
    /\ \E S \in SUBSET Worker :
          /\ w \in S
          /\ \A v \in S : /\ \E u \in S : WaitsFor(v, u)
                          /\ \E u \in S : WaitsFor(u, v)
    /\ EndTask(w)
    /\ UNCHANGED <<dbVars, outbox, failures>>

-----------------------------------------------------------------------------
Task(w) ==
    \/ CheckOutstanding(w)
    \/ StartExists(w)
    \/ ExistsFindsRow(w)
    \/ NothingToSend(w)
    \/ ReadRunNumber(w)
    \/ StartSelect(w)
    \/ \E p \in Payload : LockNextRow(w, p)
    \/ InvalidFile(w)
    \/ CreateMail(w)
    \/ SendEmail(w)
    \/ StartUpdate(w)
    \/ Commit(w)
    \/ DeadlockVictim(w)

(* The rest of the workflow: new requests, and the tasks that bring in     *)
(* HMRC's reply and pass it on to ICMS.                                    *)
Arrive(p) == Ingest(p) /\ UNCHANGED sendVars
ReplyArrives(M) == StoreReplies(M) /\ UNCHANGED sendVars
ReplyForwarded(m, s) == CloseMail(m, s) /\ UNCHANGED sendVars

Next ==
    \/ \E w \in Worker : Task(w) \/ Fail(w)
    \/ \E p \in Payload : Arrive(p)
    \/ \E M \in SUBSET MailId : ReplyArrives(M)
    \/ \E m \in MailId, s \in MailStatus : ReplyForwarded(m, s)

Spec == Init /\ [][Next]_vars

(* Beat starts the task again and again and a running task is not          *)
(* preempted for ever; HMRC answers, and the reply is passed on: its Mail  *)
(* is closed, or set aside when HMRC could not read the whole file.  Nothing *)
(* makes a task fail and nothing makes a request arrive.                   *)
Fairness ==
    /\ \A w \in Worker : WF_vars(Task(w))
    /\ \A m \in MailId :
          /\ WF_vars(ReplyArrives({m}))
          /\ WF_vars(\E s \in MailStatus : ReplyForwarded(m, s))

FairSpec == Spec /\ Fairness

-----------------------------------------------------------------------------
(* What the task relies on, for any number of overlapping runs of it.      *)

(* A payload is linked to one licenceData file at most: overlapping runs,  *)
(* rollbacks and requests that arrive in between never put the same        *)
(* request into two recorded files (select_for_update and the status       *)
(* filter are what prevents it).                                           *)
NoDoubleSend ==
    \A m, n \in MailId : m # n => ldItems[m] \cap ldItems[n] = {}

(* A payload that a recorded file carries is out of the queue. *)
LinkedAreProcessed == \A m \in MailId : ldItems[m] \subseteq Processed

(* The record is never ahead of the outside world: every recorded file was *)
(* accepted by the SMTP server with exactly that run number and content.   *)
MailedBeforeRecorded ==
    \A m \in Recorded : [run |-> ldRun[m], items |-> ldItems[m]] \in outbox

(* Run numbers leave no gap: HMRC is never shown a number whose            *)
(* predecessor belongs to no earlier file.                                 *)
RunsContiguous ==
    \A m \in Recorded :
        ldRun[m] > 1 => \E n \in Recorded : n < m /\ ldRun[n] = ldRun[m] - 1

(* Overlapping runs can leave more than one mail outstanding, but never    *)
(* more than there are workers.                                            *)
Busy == {w \in Worker : pc[w] # "idle"}
OutstandingBounded ==
    Cardinality(Unfinished) + Cardinality(Busy) <= Cardinality(Worker)

-----------------------------------------------------------------------------
(* What the task promises when it never overlaps itself (one worker).      *)

(* One licenceData file is with HMRC at a time: the four cases in the      *)
(* comment of the guard are exclusive.                                     *)
OneOutstanding == \A m, n \in Unfinished : m = n

(* A later file has a higher run number. *)
RunsIncrease ==
    \A m, n \in Recorded : m < n => ldRun[m] < ldRun[n]

(* Without a failure nothing reaches HMRC that the database will not know: *)
(* each mailed file is recorded or is being recorded.                      *)
NoPhantomFile ==
    failures = 0 =>
        \A f \in outbox :
            \/ \E m \in Recorded : f = [run |-> ldRun[m], items |-> ldItems[m]]
            \/ \E w \in Worker : pc[w] \in {"update", "commit"} /\ f = FileOf(w)

(* Every accepted request leaves the queue when failures end, unless a     *)
(* request that cannot be written into a file holds the whole queue up or  *)
(* a Mail whose reply was incomplete has been set aside.                   *)
QueueDrains ==
    \A p \in Payload :
        payload[p] = "queued" ~>
            \/ payload[p] = "processed"
            \/ Queued \cap Unsendable # {}
            \/ \E m \in MailId : mailStatus[m] = "reply_partially_processed"

-----------------------------------------------------------------------------
(* Why the promises for overlapping runs hold: the inductive invariant.    *)

(* A locked row stays unprocessed and has one holder. *)
LocksExclude ==
    /\ \A w \in Worker : held[w] \subseteq Queued
    /\ \A v, w \in Worker : v # w => held[v] \cap held[w] = {}

(* An uncommitted Mail belongs to one transaction and has left no trace. *)
StampsFresh ==
    /\ \A w \in Worker : stamp[w] # 0 => mailStatus[stamp[w]] = "none"
    /\ \A v, w \in Worker : v # w /\ stamp[v] # 0 => stamp[v] # stamp[w]
    /\ \A m \in MailId :
          mailStatus[m] = "none" => ldRun[m] = 0 /\ ldItems[m] = {}

(* What a transaction has at hand at each statement. *)
Progress ==
    \A w \in Worker :
        /\ pc[w] \in {"email", "update", "commit"} <=> stamp[w] # 0
        /\ pc[w] \in {"select", "lock", "email", "update", "commit"} <=> run[w] # 0
        /\ pc[w] \in {"idle", "begin", "exists"} <=> held[w] = {}
        /\ pc[w] \in {"update", "commit"} => FileOf(w) \in outbox
        /\ pc[w] = "commit" => held[w] \subseteq want[w]

(* The predecessor of a run number that was read is recorded, and before   *)
(* the Mail that uses the number.                                          *)
RunsFollow ==
    \A w \in Worker : run[w] > 1 =>
        \E n \in Recorded : /\ ldRun[n] = run[w] - 1
                            /\ stamp[w] # 0 => n < stamp[w]

SendInv ==
    /\ TypeOK /\ LocksExclude /\ StampsFresh /\ Progress /\ RunsFollow
    /\ NoDoubleSend /\ LinkedAreProcessed /\ MailedBeforeRecorded /\ RunsContiguous

(* The part added when there is one worker. *)
AloneInv ==
    /\ OneOutstanding /\ RunsIncrease
    /\ \A w \in Worker :
          /\ pc[w] # "idle" => NothingOutstanding
          /\ \A m \in Recorded : /\ run[w] # 0 => ldRun[m] < run[w]
                                 /\ stamp[w] # 0 => m < stamp[w]

-----------------------------------------------------------------------------
(* However many runs overlap and fail, the tables never show anything but  *)
(* whole commits: a file that is not empty, with a number that follows     *)
(* from an earlier file, together with its requests leaving the queue.     *)
ImplementsWorkflow == WorkflowSpec

-----------------------------------------------------------------------------
(* What the code says of itself and does not do (see README, findings).    *)

(* tasks.py:101 logs the licence references of the file as the ones marked *)
(* processed: a processed payload is one that some file carries.           *)
MarkedMeansSent == \A p \in Processed : \E m \in MailId : p \in ldItems[m]

(* types.py, FileHeader.run_num: one on the first transmission, then       *)
(* incremented on each subsequent transmission.                            *)
RunIdentifiesFile == \A f, g \in outbox : f.run = g.run => f.items = g.items

=============================================================================
