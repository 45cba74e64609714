----------------------------- MODULE SendToIcms -----------------------------
(***************************************************************************)
(* The celery task send_licence_data_to_icms (mail/tasks.py): the reply    *)
(* stored on a licenceData Mail is classified, posted to the ICMS callback *)
(* and the Mail is closed, inside one transaction that holds the Mail's    *)
(* row lock.  Sender is the set of processes that may be inside the task.  *)
(*                                                                         *)
(* How a reply is read from its lines is module LicenceReply; here a reply *)
(* is its classification, the run number in its file header and the        *)
(* references that it accepts or rejects.                                  *)
(***************************************************************************)
EXTENDS Workflow

CONSTANTS Sender,       \* processes that can run the task
          Ref,          \* ICMS case references
          RefOf,        \* LicencePayload.reference
          NoAnswer,     \* Mail.response_data is null
          Outcomes,     \* classes of reply that HMRC sends, see Outcome
          MaxFailures   \* bound: tasks cut short by an exception or a crash

ASSUME RefOfAssumption == RefOf \in [Payload -> Ref]
ASSUME MaxFailuresAssumption == MaxFailures \in Nat

(* How send_licence_data_to_icms classifies a reply; "unreadable" is one   *)
(* that the parser raises on.                                              *)
Outcome == {"valid", "invalid", "partial", "noData", "unknown", "unreadable"}
ASSUME OutcomesAssumption == Outcomes \subseteq Outcome

(* Callbacks for one Mail are counted as far as PostedOnce tells apart. *)
PostCap == MaxFailures + 2

VARIABLES pc,           \* next step of each process
          job,          \* the Mail the process has locked, 0 for none
          answer,       \* the reply stored on each Mail
          told,         \* licences ICMS was told about, by the Mail answered
          posts,        \* callbacks ICMS has accepted, by Mail
          failures

icmsVars == <<pc, job, answer, told, posts, failures>>
vars == <<dbVars, icmsVars>>

(* Valid files may answer nothing, partially valid ones answer something,  *)
(* and a file with only file errors or no data answers nothing.            *)
Answer ==
    {a \in [outcome : Outcomes, run : Run, refs : SUBSET Ref] :
        /\ a.outcome \in {"partial", "unknown"} => a.refs # {}
        /\ a.outcome \in {"invalid", "noData", "unreadable"} => a.refs = {}}

TypeOK ==
    /\ DbTypeOK
    /\ pc \in [Sender -> {"idle", "lock", "post", "save"}]
    /\ job \in [Sender -> {0} \cup MailId]
    /\ answer \in [MailId -> Answer \cup {NoAnswer}]
    /\ told \in [MailId -> SUBSET Payload]
    /\ posts \in [MailId -> 0..PostCap]
    /\ failures \in 0..MaxFailures

Init ==
    /\ DbInit
    /\ pc = [s \in Sender |-> "idle"]
    /\ job = [s \in Sender |-> 0]
    /\ answer = [m \in MailId |-> NoAnswer]
    /\ told = [m \in MailId |-> {}]
    /\ posts = [m \in MailId |-> 0]
    /\ failures = 0

-----------------------------------------------------------------------------
Received == {m \in MailId : mailStatus[m] = "reply_received"}

(* Variant for the mutation checks: select_for_update left out. *)
NoRowLock(s, m) == FALSE

LockedByOther(s, m) == \E r \in Sender \ {s} : job[r] = m

(* Variant of Holder for the mutation checks: filter(...).last(). *)
LastHolder(r, l) ==
    /\ l \in Recorded /\ ldRun[l] = r
    /\ \A n \in Recorded : ldRun[n] = r => n <= l

(* LicenceData.objects.get(hmrc_run_number=run) *)
Holder(r, l) == {n \in Recorded : ldRun[n] = r} = {l}

(* Variant of IdMap for the mutation checks: the map is rebuilt for every  *)
(* licence, so that the last one alone is left.                            *)
LastOnly(l, p) == p \in ldItems[l] /\ \A q \in ldItems[l] : q <= p

(* id_map: a reference stands for the last payload of the file that has it. *)
IdMap(l, p) ==
    /\ p \in ldItems[l]
    /\ \A q \in ldItems[l] : RefOf[q] = RefOf[p] => q <= p

(* _get_licence_reply_data succeeds: one LicenceData has the run number of *)
(* the file header, and it links every reference that the reply answers.   *)
HasReplyData(m, l) ==
    /\ answer[m].outcome \in {"valid", "partial"}
    /\ Holder(answer[m].run, l)
    /\ answer[m].refs \subseteq {RefOf[p] : p \in ldItems[l]}

Answered(m, l) == {p \in Payload : IdMap(l, p) /\ RefOf[p] \in answer[m].refs}

Postable(m) == \E l \in Recorded : HasReplyData(m, l)

(* Variants for the mutation checks: a value that is not in                *)
(* MailStatusEnum; the status left as it was.                              *)
UnknownStatus(m) == "processed"
StatusUnset(m) == "reply_received"

StatusAfter(m) ==
    IF answer[m].outcome = "valid" THEN "reply_processed"
    ELSE "reply_partially_processed"

EndTask(s) ==
    /\ pc' = [pc EXCEPT ![s] = "idle"]
    /\ job' = [job EXCEPT ![s] = 0]

(* ICMS accepts the callback for the reply on Mail m. *)
IcmsAccepts(m) ==
    /\ \E l \in Recorded :
          /\ HasReplyData(m, l)
          /\ told' = [told EXCEPT ![m] = @ \cup Answered(m, l)]
    /\ posts' = [posts EXCEPT ![m] = IF @ < PostCap THEN @ + 1 ELSE @]

-----------------------------------------------------------------------------
(* count(): nothing to do for none, ValueError for more than one. *)
CountMails(s) ==
    /\ pc[s] = "idle"
    /\ Cardinality(Received) = 1
    /\ pc' = [pc EXCEPT ![s] = "lock"]
    /\ UNCHANGED <<dbVars, job, answer, told, posts, failures>>

(* select_for_update().first() *)
LockMail(s) ==
    /\ pc[s] = "lock"
    /\ \E m \in Received :
          /\ \A n \in Received : m <= n
          /\ ~ LockedByOther(s, m)
          /\ job' = [job EXCEPT ![s] = m]
    /\ pc' = [pc EXCEPT ![s] = "post"]
    /\ UNCHANGED <<dbVars, answer, told, posts, failures>>

(* Another process has closed the Mail since the count: first() is None    *)
(* and load_from_mail raises.                                              *)
MailGone(s) ==
    /\ pc[s] = "lock"
    /\ Received = {}
    /\ EndTask(s)
    /\ UNCHANGED <<dbVars, answer, told, posts, failures>>

Post(s) ==
    /\ pc[s] = "post"
    /\ IcmsAccepts(job[s])
    /\ pc' = [pc EXCEPT ![s] = "save"]
    /\ UNCHANGED <<dbVars, job, answer, failures>>

(* raise_for_status: ICMS answers with an error, the Mail stays as it is. *)
PostRefused(s) ==
    /\ pc[s] = "post"
    /\ Postable(job[s])
    /\ EndTask(s)
    /\ UNCHANGED <<dbVars, answer, told, posts, failures>>

(* ICMS has acted but its response is late, lost or fails the Hawk check.  *)
ResponseLost(s) ==
    /\ pc[s] = "post"
    /\ failures < MaxFailures
    /\ failures' = failures + 1
    /\ IcmsAccepts(job[s])
    /\ EndTask(s)
    /\ UNCHANGED <<dbVars, answer>>

(* File errors only, no data, an unknown state, an unreadable file, a      *)
(* reference that is not in the file, or no single LicenceData: the task   *)
(* raises or reports, and the Mail stays as it is.                         *)
NotPostable(s) ==
    /\ pc[s] = "post"
    /\ ~ Postable(job[s])
    /\ EndTask(s)
    /\ UNCHANGED <<dbVars, answer, told, posts, failures>>

SaveStatus(s) ==
    /\ pc[s] = "save"
    /\ mailStatus' = [mailStatus EXCEPT ![job[s]] = StatusAfter(job[s])]
    /\ EndTask(s)
    /\ UNCHANGED <<payload, ldRun, ldItems, answer, told, posts, failures>>

(* The process dies or the database fails: rollback. *)
Fail(s) ==
    /\ pc[s] # "idle"
    /\ failures < MaxFailures
    /\ failures' = failures + 1
    /\ EndTask(s)
    /\ UNCHANGED <<dbVars, answer, told, posts>>

-----------------------------------------------------------------------------
(* The world around the task: requests arrive, a file is sent, and the     *)
(* replies that a mailbox session found are stored together.               *)

Arrive(p) == Ingest(p) /\ UNCHANGED icmsVars

FileSent(m, r, items, marked) == SendFile(m, r, items, marked) /\ UNCHANGED icmsVars

RepliesStored(replies) ==
    /\ StoreReplies(DOMAIN replies)
    /\ answer' = [m \in MailId |-> IF m \in DOMAIN replies THEN replies[m] ELSE answer[m]]
    /\ UNCHANGED <<pc, job, told, posts, failures>>

Task(s) ==
    \/ CountMails(s)
    \/ LockMail(s)
    \/ MailGone(s)
    \/ Post(s)
    \/ PostRefused(s)
    \/ NotPostable(s)
    \/ SaveStatus(s)

Next ==
    \/ \E s \in Sender : Task(s) \/ ResponseLost(s) \/ Fail(s)
    \/ \E p \in Payload : Arrive(p)
    \/ \E m \in MailId, r \in Run :
          \E marked \in SUBSET Queued : \E items \in SUBSET marked : FileSent(m, r, items, marked)
    \/ \E M \in SUBSET AwaitingReply : \E replies \in [M -> Answer] : RepliesStored(replies)

Spec == Init /\ [][Next]_vars

(* Beat starts the task every five minutes, a running task goes on, and    *)
(* ICMS does not refuse every callback for ever.                           *)
Fairness == \A s \in Sender : WF_vars(Task(s)) /\ SF_vars(Post(s))

FairSpec == Spec /\ Fairness

-----------------------------------------------------------------------------
(* Whatever ICMS answers and however runs of the task overlap, a Mail is   *)
(* closed by one commit, once, and only one that holds a reply.            *)
ImplementsWorkflow == WorkflowSpec

Closed == {m \in MailId : mailStatus[m] \in {"reply_processed", "reply_partially_processed"}}

(* A Mail is closed only after ICMS has accepted the callback for it, and  *)
(* a Mail whose reply is incomplete or unusable is never closed as done.   *)
ClosedMeansTold ==
    \A m \in Closed :
        /\ posts[m] > 0
        /\ mailStatus[m] = "reply_processed" <=> answer[m].outcome = "valid"

(* Overlapping tasks do not post a reply twice: only a task that was cut   *)
(* short leaves a callback to be repeated (the row lock, and the status    *)
(* that first() reads again once it has the lock).                         *)
PostedOnce == \A m \in MailId : posts[m] <= 1 + failures

(* The locks: one process works on a Mail, and the Mail waits for it. *)
OneSenderPerMail ==
    \A r, s \in Sender :
        job[s] # 0 => /\ mailStatus[job[s]] = "reply_received"
                      /\ job[r] = job[s] => r = s

(* What makes these inductive: a process works on a Mail from the lock to *)
(* the save, and between the callback and the commit it alone vouches for  *)
(* the callback.  A callback that nobody vouches for is charged to a       *)
(* failure.                                                                *)
Position ==
    \A s \in Sender :
        /\ job[s] # 0 <=> pc[s] \in {"post", "save"}
        /\ pc[s] = "save" => /\ posts[job[s]] > 0
                            /\ answer[job[s]].outcome \in {"valid", "partial"}

VouchedFor(m) == m \in Closed \/ \E s \in Sender : pc[s] = "save" /\ job[s] = m
PostsAccounted ==
    \A m \in MailId :
        /\ posts[m] <= failures + 1
        /\ ~ VouchedFor(m) => posts[m] <= failures

IcmsInv == TypeOK /\ OneSenderPerMail /\ Position /\ PostsAccounted /\ ClosedMeansTold

(* No licence is told the answer of another: if the reply carries the run  *)
(* number of the file it answers, ICMS hears only of licences of that file *)
(* that the reply names.                                                   *)
ToldTheRightLicence ==
    \A m \in MailId :
        told[m] # {} /\ answer[m].run = ldRun[m] =>
            told[m] \subseteq {p \in ldItems[m] : RefOf[p] \in answer[m].refs}

(* When references are unique in a file, every licence that HMRC answered  *)
(* has reached ICMS by the time the Mail is closed.                        *)
UniqueRefs(m) == \A p, q \in ldItems[m] : RefOf[p] = RefOf[q] => p = q
AllTold(m) ==
    UniqueRefs(m) /\ answer[m].run = ldRun[m] =>
        {p \in ldItems[m] : RefOf[p] \in answer[m].refs} \subseteq told[m]
NoAnswerDropped == \A m \in Closed : AllTold(m)

(* What makes these two inductive: a Mail that exists has its LicenceData, *)
(* nobody is told anything before a reply is stored, and everything has    *)
(* been told from the callback on, not only from the commit on.            *)
ToldInv ==
    /\ \A m \in MailId : mailStatus[m] # "none" => ldRun[m] # 0
    /\ \A m \in MailId : mailStatus[m] \in {"none", "reply_pending"} => told[m] = {}
    /\ ToldTheRightLicence
    /\ \A m \in MailId : VouchedFor(m) => AllTold(m)

(* A usable reply is passed on and its Mail closed.  What stops it takes   *)
(* two files that are out at once: a second reply that waits at the same   *)
(* time (the task refuses to choose), or a second file with the same run   *)
(* number.                                                                 *)
UsableReplyIsClosed ==
    \A m \in MailId :
        (m \in Received /\ Postable(m)) ~>
            \/ m \in Closed
            \/ m \in Received /\ (Cardinality(Received) > 1 \/ ~ Postable(m))

=============================================================================
