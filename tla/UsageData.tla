------------------------------ MODULE UsageData ------------------------------
(***************************************************************************)
(* The celery task send_usage_data_to_icms (mail/tasks.py) and the parser  *)
(* of a usageData file (mail/chief/usage_data/processor.py).  CHIEF mails  *)
(* one file per report; the mailbox task stores it on a Mail of type       *)
(* USAGE_DATA (ReplyMailbox), in the order of the maildrop, and this task  *)
(* posts its licences to ICMS and closes the Mail, inside one transaction. *)
(*                                                                         *)
(* A file may reach the Mail damaged: some of its records lost, or one of  *)
(* them unreadable.  A Mail is known by its place in the order of          *)
(* created_at.  Sender is the set of processes that may be in the task.    *)
(***************************************************************************)
EXTENDS Integers, Sequences, FiniteSets

CONSTANTS Sender,       \* processes that can run the task
          Licence,      \* licence references with their status
          Reports,      \* what CHIEF may report in one file
          MaxUsage,     \* bound: usage Mails ever stored
          MaxLost,      \* bound: records lost from one file
          MaxDamaged,   \* bound: files that reach their Mail damaged
          MaxFailures   \* bound: tasks cut short by an exception or a crash

ASSUME ReportsAssumption == Reports \subseteq Seq(Licence)
ASSUME MaxUsageAssumption == MaxUsage \in Nat \ {0}
ASSUME MaxLostAssumption == MaxLost \in Nat
ASSUME MaxDamagedAssumption == MaxDamaged \in Nat
ASSUME MaxFailuresAssumption == MaxFailures \in Nat

UsageId == 1..MaxUsage

(* Callbacks for one Mail are counted as far as PostedOnce tells apart. *)
PostCap == MaxFailures + 2

VARIABLES status,       \* Mail.status, "none" before the row exists
          file,         \* Mail.response_data: the records of the file
          report,       \* history: the licences in the file as CHIEF mailed it
          pc,           \* next step of each process
          want,         \* rows in the snapshot of the locking statement
          job,          \* the Mail the process has locked, 0 for none
          told,         \* licences ICMS was told of, by the Mail
          posts,        \* callbacks ICMS has accepted, by Mail
          failures

mails == <<status, file, report>>
vars == <<mails, pc, want, job, told, posts, failures>>

-----------------------------------------------------------------------------
(* Records of a usageData file. *)

Record ==
    [type : {"fileHeader", "line", "usage", "unknown"}]
        \cup [type : {"licenceUsage"}, licence : Licence]
        \cup [type : {"end"}, start : {"line", "licenceUsage", "other"}]
        \cup [type : {"fileTrailer"}, count : Int]

Plain(t) == [type |-> t]
End(start) == [type |-> "end", start |-> start]
NoCount == -1           \* the optional transactionCount is left out

Transaction(l) ==
    <<[type |-> "licenceUsage", licence |-> l], Plain("line"), Plain("usage"),
      End("line"), End("licenceUsage")>>

Trailer(n) == [type |-> "fileTrailer", count |-> n]

(* The transaction of the k-th licence is records 5k - 3 to 5k + 1. *)
FileOf(r) ==
    [i \in 1..5 * Len(r) + 2 |->
        IF i = 1 THEN Plain("fileHeader")
        ELSE IF i = 5 * Len(r) + 2 THEN Trailer(Len(r))
        ELSE Transaction(r[(i + 3) \div 5])[((i + 3) % 5) + 1]]

(* The k-th of a set of places in a file. *)
Rank(S, i) == Cardinality({j \in S : j <= i})
Nth(S, k) == CHOOSE i \in S : Rank(S, i) = k

Without(f, lost) ==
    LET left == DOMAIN f \ lost
    IN  [k \in 1..Cardinality(left) |-> f[Nth(left, k)]]

(* A record whose type or start type is unknown, or a trailer with no count. *)
Damaged(f) ==
    {Without(f, lost) : lost \in {x \in SUBSET DOMAIN f : Cardinality(x) <= MaxLost}}
        \cup {[f EXCEPT ![i] = r] : i \in DOMAIN f, r \in {Plain("unknown"), End("other")}}
        \cup {[f EXCEPT ![Len(f)] = Trailer(NoCount)]}

-----------------------------------------------------------------------------
(* UsageDataProcessor *)

OfType(f, t) == {i \in DOMAIN f : f[i].type = t}

(* _usages: every licenceUsage record, in the order of the file. *)
Usages(f) ==
    LET headers == OfType(f, "licenceUsage")
    IN  [k \in 1..Cardinality(headers) |-> f[Nth(headers, k)].licence]

(* _process_line raises on an unknown record or start record type. *)
Unreadable(r) == r.type = "unknown" \/ (r.type = "end" /\ r.start = "other")

(* file_trailer_valid raises too: there is no trailer, or int() of no count. *)
Raises(f) ==
    \/ \E i \in DOMAIN f : Unreadable(f[i])
    \/ OfType(f, "fileTrailer") = {}
    \/ \E i \in OfType(f, "fileTrailer") : f[i].count = NoCount

(* Variant of FileValid for the mutation checks: the count is not compared. *)
AnyTrailer(f) == ~ Raises(f)

FileValid(f) ==
    /\ ~ Raises(f)
    /\ \E i \in OfType(f, "fileTrailer") :
          /\ \A j \in OfType(f, "fileTrailer") : j <= i
          /\ Len(Usages(f)) = f[i].count

-----------------------------------------------------------------------------
TaskTypeOK ==
    /\ status \in [UsageId -> {"none", "reply_received", "reply_processed"}]
    /\ pc \in [Sender -> {"idle", "count", "lock", "read", "post", "save"}]
    /\ want \in [Sender -> SUBSET UsageId]
    /\ job \in [Sender -> {0} \cup UsageId]
    /\ posts \in [UsageId -> 0..PostCap]
    /\ failures \in 0..MaxFailures

TypeOK ==
    /\ TaskTypeOK
    /\ file \in [UsageId -> Seq(Record)]
    /\ report \in [UsageId -> Seq(Licence)]
    /\ told \in [UsageId -> Seq(Licence)]

Init ==
    /\ status = [u \in UsageId |-> "none"]
    /\ file = [u \in UsageId |-> <<>>]
    /\ report = [u \in UsageId |-> <<>>]
    /\ pc = [s \in Sender |-> "idle"]
    /\ want = [s \in Sender |-> {}]
    /\ job = [s \in Sender |-> 0]
    /\ told = [u \in UsageId |-> <<>>]
    /\ posts = [u \in UsageId |-> 0]
    /\ failures = 0

(* usage_data_mail_qs *)
Received == {u \in UsageId : status[u] = "reply_received"}

(* Variant of LockedByOther for the mutation checks: select_for_update left out. *)
NoRowLock(s, u) == FALSE

LockedByOther(s, u) == \E r \in Sender \ {s} : job[r] = u

(* Variant of IsFirst for the mutation checks: last() for first(). *)
IsLast(S, u) == u \in S /\ \A v \in S : v <= u

(* .first(), in the order of created_at *)
IsFirst(S, u) == u \in S /\ \A v \in S : u <= v

EndTask(s) ==
    /\ pc' = [pc EXCEPT ![s] = "idle"]
    /\ want' = [want EXCEPT ![s] = {}]
    /\ job' = [job EXCEPT ![s] = 0]

IcmsAccepts(u) ==
    /\ told' = [told EXCEPT ![u] = Usages(file[u])]
    /\ posts' = [posts EXCEPT ![u] = IF @ < PostCap THEN @ + 1 ELSE @]

-----------------------------------------------------------------------------
(* count(): nothing to do for none, ValueError for more than one. *)
CountMails(s) ==
    /\ pc[s] = "idle"
    /\ Cardinality(Received) = 1
    /\ pc' = [pc EXCEPT ![s] = "count"]
    /\ UNCHANGED <<mails, want, job, told, posts, failures>>

(* select_for_update().first() takes its snapshot ... *)
StartLock(s) ==
    /\ pc[s] = "count"
    /\ pc' = [pc EXCEPT ![s] = "lock"]
    /\ want' = [want EXCEPT ![s] = Received]
    /\ UNCHANGED <<mails, job, told, posts, failures>>

(* ... waits for the first row, and goes on to the next if another process *)
(* has closed that one meanwhile.                                          *)
LockMail(s) ==
    /\ pc[s] = "lock"
    /\ \E u \in UsageId :
          /\ IsFirst(want[s] \cap Received, u)
          /\ ~ LockedByOther(s, u)
          /\ job' = [job EXCEPT ![s] = u]
    /\ pc' = [pc EXCEPT ![s] = "read"]
    /\ want' = [want EXCEPT ![s] = {}]
    /\ UNCHANGED <<mails, told, posts, failures>>

(* first() is None and load_from_mail raises. *)
MailGone(s) ==
    /\ pc[s] = "lock"
    /\ want[s] \cap Received = {}
    /\ EndTask(s)
    /\ UNCHANGED <<mails, told, posts, failures>>

(* load_from_mail or file_valid raises, or the trailer does not fit. *)
FileRefused(s) ==
    /\ pc[s] = "read"
    /\ ~ FileValid(file[job[s]])
    /\ EndTask(s)
    /\ UNCHANGED <<mails, told, posts, failures>>

(* Variant of ReadFile for the mutation checks: nothing to post, so return. *)
ReadNonEmpty(s) ==
    /\ pc[s] = "read"
    /\ FileValid(file[job[s]])
    /\ IF Usages(file[job[s]]) = <<>>
       THEN EndTask(s)
       ELSE pc' = [pc EXCEPT ![s] = "post"] /\ UNCHANGED <<want, job>>
    /\ UNCHANGED <<mails, told, posts, failures>>

(* A file with no transactions goes straight to the save. *)
ReadFile(s) ==
    /\ pc[s] = "read"
    /\ FileValid(file[job[s]])
    /\ pc' = [pc EXCEPT ![s] = IF Usages(file[job[s]]) = <<>> THEN "save" ELSE "post"]
    /\ UNCHANGED <<mails, want, job, told, posts, failures>>

Post(s) ==
    /\ pc[s] = "post"
    /\ IcmsAccepts(job[s])
    /\ pc' = [pc EXCEPT ![s] = "save"]
    /\ UNCHANGED <<mails, want, job, failures>>

(* raise_for_status: the error is logged and the task returns. *)
PostRefused(s) ==
    /\ pc[s] = "post"
    /\ EndTask(s)
    /\ UNCHANGED <<mails, told, posts, failures>>

(* ICMS has acted but its response is late, lost or fails the Hawk check.  *)
ResponseLost(s) ==
    /\ pc[s] = "post"
    /\ failures < MaxFailures
    /\ failures' = failures + 1
    /\ IcmsAccepts(job[s])
    /\ EndTask(s)
    /\ UNCHANGED mails

SaveStatus(s) ==
    /\ pc[s] = "save"
    /\ status' = [status EXCEPT ![job[s]] = "reply_processed"]
    /\ EndTask(s)
    /\ UNCHANGED <<file, report, told, posts, failures>>

(* The process dies or the database fails: rollback. *)
Fail(s) ==
    /\ pc[s] # "idle"
    /\ failures < MaxFailures
    /\ failures' = failures + 1
    /\ EndTask(s)
    /\ UNCHANGED <<mails, told, posts>>

-----------------------------------------------------------------------------
(* The mailbox task stores the next usage file. *)
DamagedMails == {u \in UsageId : status[u] # "none" /\ file[u] # FileOf(report[u])}

UsageStored(u, r, f) ==
    /\ status[u] = "none"
    /\ f = FileOf(r) \/ Cardinality(DamagedMails) < MaxDamaged
    /\ \A v \in UsageId : v < u => status[v] # "none"
    /\ status' = [status EXCEPT ![u] = "reply_received"]
    /\ report' = [report EXCEPT ![u] = r]
    /\ file' = [file EXCEPT ![u] = f]
    /\ UNCHANGED <<pc, want, job, told, posts, failures>>

Task(s) ==
    \/ CountMails(s)
    \/ StartLock(s)
    \/ LockMail(s)
    \/ MailGone(s)
    \/ FileRefused(s)
    \/ ReadFile(s)
    \/ Post(s)
    \/ PostRefused(s)
    \/ SaveStatus(s)

Next ==
    \/ \E s \in Sender : Task(s) \/ ResponseLost(s) \/ Fail(s)
    \/ \E u \in UsageId, r \in Reports :
          \E f \in Damaged(FileOf(r)) : UsageStored(u, r, f)

Spec == Init /\ [][Next]_vars

(* Beat starts the task every two hours, a running task goes on, and ICMS  *)
(* does not refuse every callback for ever.                                *)
Fairness == \A s \in Sender : WF_vars(Task(s)) /\ SF_vars(Post(s))

FairSpec == Spec /\ Fairness

-----------------------------------------------------------------------------
(* ICMS hears exactly the licences that CHIEF put into the report, in its  *)
(* order, or nothing: whatever records a file has lost on its way, a part  *)
(* of a report is never passed on, and a Mail is closed only for a report  *)
(* that was passed on whole or had nothing in it.                          *)
WholeReportTold ==
    \A u \in UsageId :
        posts[u] > 0 \/ status[u] = "reply_processed" => told[u] = report[u]

(* Overlapping runs do not post a report twice: only a task that was cut   *)
(* short leaves one to be repeated.                                        *)
PostedOnce == \A u \in UsageId : posts[u] <= 1 + failures

(* Reports reach ICMS in the order in which CHIEF mailed them, so that the *)
(* last status that ICMS has of a licence is the newest one: a report is   *)
(* posted only when every earlier one is closed.                           *)
PostedInOrder ==
    [][\A u, v \in UsageId :
          v < u /\ posts'[u] # posts[u] => status[v] = "reply_processed"]_vars

(* What makes the last two hold: Mails are stored one after the other, so  *)
(* a row that is not in a process's snapshot is younger than those that    *)
(* are; the row lock keeps a Mail to one process from the first read to    *)
(* the save; and a callback belongs to a closed Mail, to a process about   *)
(* to close it, or to a failure.                                           *)
StoredInOrder ==
    \A u, v \in UsageId : v < u /\ status[u] # "none" => status[v] # "none"

SnapshotIsOldest(s) ==
    \A u \in want[s] : /\ status[u] # "none"
                       /\ \A v \in Received : v < u => v \in want[s]

WorksOnFirst(s) ==
    /\ job[s] \in UsageId /\ status[job[s]] = "reply_received"
    /\ \A v \in UsageId : v < job[s] => status[v] = "reply_processed"
    /\ \A r \in Sender : job[r] = job[s] => r = s

Places ==
    \A s \in Sender :
        /\ SnapshotIsOldest(s)
        /\ pc[s] \in {"read", "post", "save"} => WorksOnFirst(s)
        /\ pc[s] \notin {"read", "post", "save"} => job[s] = 0

VouchedFor(u) ==
    status[u] = "reply_processed" \/ \E s \in Sender : pc[s] = "save" /\ job[s] = u

PostsAccounted ==
    \A u \in UsageId :
        /\ posts[u] <= failures + 1
        /\ ~ VouchedFor(u) => posts[u] <= failures

UsageInv == TaskTypeOK /\ StoredInOrder /\ Places /\ PostsAccounted

(* What makes WholeReportTold hold: a process that is past the checks has  *)
(* a file that passed them, and ICMS has heard of a Mail nothing or all    *)
(* that its file says.                                                     *)
Vetted(u) == FileValid(file[u]) /\ told[u] = Usages(file[u])

ToldInv ==
    /\ \A v \in {file, report, told} : v = [u \in UsageId |-> v[u]]
    /\ \A u \in UsageId :
          /\ status[u] = "none" => posts[u] = 0 /\ told[u] = <<>>
          /\ status[u] # "none" =>
                report[u] \in Reports /\ file[u] \in Damaged(FileOf(report[u]))
          /\ told[u] \in {<<>>, Usages(file[u])}
          /\ posts[u] > 0 \/ status[u] = "reply_processed" => Vetted(u)
    /\ \A s \in Sender :
          /\ pc[s] = "post" => FileValid(file[job[s]])
          /\ pc[s] = "save" => Vetted(job[s])

(* A file that arrived whole is passed on and its Mail closed.  What stops *)
(* it is a second usage Mail that waits at the same time.                  *)
WholeFileIsClosed ==
    \A u \in UsageId :
        (u \in Received /\ FileValid(file[u])) ~>
            \/ status[u] = "reply_processed"
            \/ u \in Received /\ Cardinality(Received) > 1

=============================================================================
