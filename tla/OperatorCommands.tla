-------------------------- MODULE OperatorCommands --------------------------
(***************************************************************************)
(* The management commands that an operator runs while the tasks go on     *)
(* (mail/management/commands): resend_email, recreate_and_send_licence_-   *)
(* data_email, set_skip_flag_on_payload and seed_licence_data, and what    *)
(* the health check shows of the rows they leave behind.  None of the      *)
(* commands opens a transaction: every statement commits on its own, and   *)
(* every save() writes ALL columns of the object the command read earlier. *)
(*                                                                         *)
(* The tasks are taken at the granularity of their commits (Workflow); of  *)
(* the send task also the moment is kept at which it reads and locks.      *)
(***************************************************************************)
EXTENDS Workflow

CONSTANTS Commands,     \* commands that operators run
          Flags,        \* values of --skip_process that operators give
          NoAnswer,     \* Mail.response_data is null
          MaxCommands,  \* bound: commands that operators ever start
          MaxFailures   \* bound: commands cut short by an exception or a crash

ASSUME CommandsAssumption == Commands \subseteq {"resend", "recreate", "skip", "seed"}
ASSUME FlagsAssumption == Flags \subseteq BOOLEAN
ASSUME MaxCommandsAssumption == MaxCommands \in Nat
ASSUME MaxFailuresAssumption == MaxFailures \in Nat

(* A stored reply, as far as the commands and the callback task tell one   *)
(* from another: which of the tests of LicenceReplyProcessor it passes,    *)
(* and which payloads of the file it accepts or rejects.  The tests look   *)
(* at the reply alone: a valid one may leave payloads out, a partial one   *)
(* may answer all of them.  "other" is a reply that is never passed on, so *)
(* that what it says is left out.                                          *)
Reply ==
    {a \in [outcome : {"valid", "partial", "other"}, refs : SUBSET Payload] :
        /\ a.outcome = "partial" => a.refs # {}
        /\ a.outcome = "other" => a.refs = {}}
ASSUME NoAnswerAssumption == NoAnswer \notin Reply

VARIABLES answer,       \* the reply on a Mail, or NoAnswer
          sentAt,       \* Mails whose sent_at is set
          outbox,       \* licenceData files the SMTP server has accepted
          skipped,      \* LicencePayload.skip_process
          resend,       \* resend_email: its step and the Mail it read
          recreate,     \* recreate...: its step, original, reply, new Mail, run, payloads
          skip,         \* set_skip_flag...: its step, payload and flag
          seed,         \* seed_licence_data: its step, next and last run number
          sending,      \* the send task: the Mail, run and payloads it will commit
          starts,       \* commands started
          failures,
          fake,         \* history: Mails made by seed_licence_data
          goal,         \* history: last live run of an undisturbed seeding, or 0
          requeued,     \* history: payloads put back by a stale save
          reopened,     \* history: Mails put back by a stale save
          heard         \* history: Mails that a reply was ever stored on

rowVars == <<answer, sentAt, outbox, skipped>>
history == <<fake, goal, requeued, reopened, heard>>
countVars == <<starts, failures>>
cmdVars == <<rowVars, resend, recreate, skip, seed, sending, countVars, history>>
vars == <<dbVars, cmdVars>>

File == [run : Run, items : SUBSET Payload]
(* Variant for the mutation checks: the run number is not filled in. *)
FileWithoutRun(m) == [run |-> 0, items |-> ldItems[m]]

FileOf(m) == [run |-> ldRun[m], items |-> ldItems[m]]

NoResend == [step |-> "idle", mail |-> 0]
NoRecreate == [step |-> "idle", old |-> 0, reply |-> NoAnswer, new |-> 0,
               run |-> 0, items |-> {}]
NoSkip == [step |-> "idle", item |-> 0, flag |-> FALSE]
NoSeed == [step |-> "idle", next |-> 0, last |-> 0]
NotSending == [mail |-> 0, run |-> 0, items |-> {}]

TypeOK ==
    /\ DbTypeOK
    /\ answer \in [MailId -> {NoAnswer} \cup Reply]
    /\ sentAt \subseteq MailId
    /\ outbox \subseteq File
    /\ skipped \subseteq Payload
    /\ resend \in [step : {"idle", "email", "save"}, mail : {0} \cup MailId]
    /\ recreate \in [step : {"idle", "mail", "data", "links", "email", "save", "archive"},
                     old : {0} \cup MailId, reply : {NoAnswer} \cup Reply,
                     new : {0} \cup MailId, run : {0} \cup Run, items : SUBSET Payload]
    /\ skip \in [step : {"idle", "save"}, item : {0} \cup Payload, flag : BOOLEAN]
    /\ seed \in [step : {"idle", "mail", "data"}, next : {0} \cup Run, last : {0} \cup Run]
    /\ sending \in [mail : {0} \cup MailId, run : {0} \cup Run, items : SUBSET Payload]
    /\ starts \in 0..MaxCommands
    /\ failures \in 0..MaxFailures
    /\ fake \subseteq MailId
    /\ goal \in {0} \cup Run
    /\ requeued \subseteq Payload
    /\ reopened \subseteq MailId
    /\ heard \subseteq MailId

Init ==
    /\ DbInit
    /\ answer = [m \in MailId |-> NoAnswer]
    /\ sentAt = {} /\ outbox = {} /\ skipped = {}
    /\ resend = NoResend /\ recreate = NoRecreate /\ skip = NoSkip /\ seed = NoSeed
    /\ sending = NotSending
    /\ starts = 0 /\ failures = 0
    /\ fake = {} /\ goal = 0 /\ requeued = {} /\ reopened = {}
    /\ heard = {}

-----------------------------------------------------------------------------
(* LicenceData.objects.get(hmrc_run_number=...) finds the row of Mail m. *)
Holder(m) == m \in Recorded /\ \A n \in Recorded : ldRun[n] = ldRun[m] => n = m

(* reply_file_is_valid: the trailer's counts match and it has no file      *)
(* errors.  reply_file_is_partially_valid: file errors, and an accepted or *)
(* rejected transaction.                                                   *)
IsValid(m) == answer[m] # NoAnswer /\ answer[m].outcome = "valid"
IsPartial(m) == answer[m] # NoAnswer /\ answer[m].outcome = "partial"

(* Variants of Unanswered for the mutation checks: filter in the place of  *)
(* exclude; nothing excluded.                                              *)
AnsweredOnly(m) == ldItems[m] \cap answer[m].refs
WholeFile(m) == ldItems[m]

(* _get_unprocessed_payloads: neither accepted nor rejected. *)
Unanswered(m) == ldItems[m] \ answer[m].refs

(* auto_now_add: a new Mail is later than all others, also than one that   *)
(* the send task has not committed yet.                                    *)
Taken(m) == mailStatus[m] # "none" \/ sending.mail = m
NextMail(m) == ~ Taken(m) /\ \A n \in MailId : n < m => Taken(n)

Start(c) == c \in Commands /\ starts < MaxCommands /\ starts' = starts + 1

(* An exception or a crash ends a command: what it has written stays. *)
CutShort == failures < MaxFailures /\ failures' = failures + 1

-----------------------------------------------------------------------------
(* resend_email *)

(* With --dry_run the e-mail is left out; the Mail is saved all the same. *)
ResendRead(m) ==
    /\ resend.step = "idle" /\ Start("resend")
    /\ Holder(m) /\ mailStatus[m] = "reply_pending"
    /\ \E step \in {"email", "save"} : resend' = [step |-> step, mail |-> m]
    /\ UNCHANGED <<dbVars, rowVars, recreate, skip, seed, sending, failures, history>>

ResendEmail ==
    /\ resend.step = "email"
    /\ outbox' = outbox \cup {FileOf(resend.mail)}
    /\ resend' = [resend EXCEPT !.step = "save"]
    /\ UNCHANGED <<dbVars, answer, sentAt, skipped, recreate, skip, seed, sending,
                   countVars, history>>

(* mail.save() after the e-mail: status and response as they were read.    *)
(* The save is stale if the Mail has another status by now.                *)
ResendSave ==
    /\ resend.step = "save"
    /\ reopened' = IF mailStatus[resend.mail] = "reply_pending" THEN reopened
                   ELSE reopened \cup {resend.mail}
    /\ mailStatus' = [mailStatus EXCEPT ![resend.mail] = "reply_pending"]
    /\ answer' = [answer EXCEPT ![resend.mail] = NoAnswer]
    /\ sentAt' = sentAt \cup {resend.mail}
    /\ resend' = NoResend
    /\ UNCHANGED <<payload, ldRun, ldItems, outbox, skipped, recreate, skip, seed,
                   sending, countVars, fake, goal, requeued, heard>>

ResendFail ==
    /\ resend.step # "idle" /\ CutShort
    /\ resend' = NoResend
    /\ UNCHANGED <<dbVars, rowVars, recreate, skip, seed, sending, starts, history>>

-----------------------------------------------------------------------------
(* recreate_and_send_licence_data_email *)

(* It raises when the reply leaves nothing to send: such a Mail stays as   *)
(* it is, for an operator to close by hand.                                *)
RecreateRead(m) ==
    /\ recreate.step = "idle" /\ Start("recreate")
    /\ Holder(m) /\ mailStatus[m] = "reply_partially_processed" /\ IsPartial(m)
    /\ Unanswered(m) # {}
    /\ \E r \in Run :
          /\ IsNextRun(r)
          /\ recreate' = [step |-> "mail", old |-> m, reply |-> answer[m], new |-> 0,
                          run |-> r, items |-> Unanswered(m)]
    /\ UNCHANGED <<dbVars, rowVars, resend, skip, seed, sending, failures, history>>

RecreateMail ==
    /\ recreate.step = "mail"
    /\ \E m \in MailId :
          /\ NextMail(m)
          /\ mailStatus' = [mailStatus EXCEPT ![m] = "pending"]
          /\ recreate' = [recreate EXCEPT !.step = "data", !.new = m]
    /\ UNCHANGED <<payload, ldRun, ldItems, rowVars, resend, skip, seed, sending,
                   countVars, history>>

RecreateData ==
    /\ recreate.step = "data"
    /\ ldRun' = [ldRun EXCEPT ![recreate.new] = recreate.run]
    /\ recreate' = [recreate EXCEPT !.step = "links"]
    /\ UNCHANGED <<payload, mailStatus, ldItems, rowVars, resend, skip, seed, sending,
                   countVars, history>>

LinkThen(step) ==
    /\ recreate.step = "links"
    /\ ldItems' = [ldItems EXCEPT ![recreate.new] = recreate.items]
    /\ recreate' = [recreate EXCEPT !.step = step]
    /\ UNCHANGED <<payload, mailStatus, ldRun, rowVars, resend, skip, seed, sending,
                   countVars, history>>

(* Variant for the mutation checks: the Mail is marked before the e-mail.  *)
LinksThenSave == LinkThen("save")

RecreateLinks == LinkThen("email")

RecreateEmail ==
    /\ recreate.step = "email"
    /\ outbox' = outbox \cup {[run |-> recreate.run, items |-> recreate.items]}
    /\ recreate' = [recreate EXCEPT !.step = "save"]
    /\ UNCHANGED <<dbVars, answer, sentAt, skipped, resend, skip, seed, sending,
                   countVars, history>>

SaveWith(sent) ==
    /\ recreate.step = "save"
    /\ mailStatus' = [mailStatus EXCEPT ![recreate.new] = "reply_pending"]
    /\ sentAt' = sent
    /\ recreate' = [recreate EXCEPT !.step = "archive"]
    /\ UNCHANGED <<payload, ldRun, ldItems, answer, outbox, skipped, resend, skip, seed,
                   sending, countVars, history>>

(* Variant for the mutation checks: sent_at is not set. *)
SaveWithoutTime == SaveWith(sentAt)

RecreateSave == SaveWith(sentAt \cup {recreate.new})

(* original_mail.save(): the reply too is written as it was read. *)
RecreateArchive ==
    /\ recreate.step = "archive"
    /\ mailStatus' = [mailStatus EXCEPT ![recreate.old] = "reply_processed"]
    /\ answer' = [answer EXCEPT ![recreate.old] = recreate.reply]
    /\ recreate' = NoRecreate
    /\ UNCHANGED <<payload, ldRun, ldItems, sentAt, outbox, skipped, resend, skip, seed,
                   sending, countVars, history>>

RecreateFail ==
    /\ recreate.step # "idle" /\ CutShort
    /\ recreate' = NoRecreate
    /\ UNCHANGED <<dbVars, rowVars, resend, skip, seed, sending, starts, history>>

-----------------------------------------------------------------------------
(* set_skip_flag_on_payload *)

SkipRead(p, flag) ==
    /\ skip.step = "idle" /\ Start("skip")
    /\ p \in Queued
    /\ skip' = [step |-> "save", item |-> p, flag |-> flag]
    /\ UNCHANGED <<dbVars, rowVars, resend, recreate, seed, sending, failures, history>>

(* payload.save() waits for the row lock of the send task, then writes     *)
(* is_processed as it was read: FALSE.                                     *)
SkipSave ==
    /\ skip.step = "save"
    /\ skip.item \notin sending.items
    /\ requeued' = requeued \cup ({skip.item} \cap Processed)
    /\ payload' = [payload EXCEPT ![skip.item] = "queued"]
    /\ skipped' = IF skip.flag THEN skipped \cup {skip.item} ELSE skipped \ {skip.item}
    /\ skip' = NoSkip
    /\ UNCHANGED <<mailVars, answer, sentAt, outbox, resend, recreate, seed, sending,
                   countVars, fake, goal, reopened, heard>>

-----------------------------------------------------------------------------
(* seed_licence_data *)

SeedStart(n) ==
    /\ seed.step = "idle" /\ Start("seed")
    /\ Recorded = {}
    /\ seed' = [step |-> "mail", next |-> 1, last |-> n]
    /\ UNCHANGED <<dbVars, rowVars, resend, recreate, skip, sending, failures, history>>

(* "Fake licence_reply created in seed_licence_data command" *)
Nonsense == [outcome |-> "other", refs |-> {}]

SeedMail ==
    /\ seed.step = "mail"
    /\ \E m \in MailId :
          /\ NextMail(m)
          /\ mailStatus' = [mailStatus EXCEPT ![m] = "reply_processed"]
          /\ answer' = [answer EXCEPT ![m] = Nonsense]
          /\ sentAt' = sentAt \cup {m}
          /\ fake' = fake \cup {m}
    /\ seed' = [seed EXCEPT !.step = "data"]
    /\ UNCHANGED <<payload, ldRun, ldItems, outbox, skipped, resend, recreate, skip,
                   sending, countVars, goal, requeued, reopened, heard>>

(* Row r belongs to the Mail just made; the seeding is undisturbed if no   *)
(* licenceData file has been, or is being, sent by its end.                *)
SeedRow(r) ==
    /\ seed.step = "data"
    /\ \E m \in fake :
          /\ \A n \in fake : n <= m
          /\ ldRun' = [ldRun EXCEPT ![m] = r]
    /\ seed' = IF seed.next = seed.last THEN NoSeed
               ELSE [seed EXCEPT !.step = "mail", !.next = @ + 1]
    /\ goal' = IF seed.next = seed.last /\ Recorded \subseteq fake /\ sending = NotSending
               THEN seed.last ELSE goal
    /\ UNCHANGED <<payload, mailStatus, ldItems, rowVars, resend, recreate, skip, sending,
                   countVars, fake, requeued, reopened, heard>>

(* Variant for the mutation checks: hmrc_run_number=i. *)
SeedDataFromZero == SeedRow(seed.next - 1)

(* hmrc_run_number=i + 1 *)
SeedData == SeedRow(seed.next)

SeedFail ==
    /\ seed.step # "idle" /\ CutShort
    /\ seed' = NoSeed
    /\ UNCHANGED <<dbVars, rowVars, resend, recreate, skip, sending, starts, history>>

-----------------------------------------------------------------------------
(* The tasks, one step for each commit. *)

Arrive(p) == Ingest(p) /\ UNCHANGED cmdVars

(* send_licence_data_to_hmrc reads and locks the queued rows (the filter   *)
(* is on is_processed alone), computes the run number and makes its Mail.  *)
SendReads(m) ==
    /\ sending = NotSending
    /\ Unfinished = {} /\ Queued # {}
    /\ NextMail(m)
    /\ \E r \in Run :
          /\ IsNextRun(r)
          /\ sending' = [mail |-> m, run |-> r, items |-> Queued]
    /\ UNCHANGED <<dbVars, rowVars, resend, recreate, skip, seed, countVars, history>>

(* Variant of LeftQueue for the mutation checks: the update is left out. *)
NothingMarked == {}

(* licences.update() runs the query again. *)
LeftQueue == Queued

(* It mails the file and commits.  (What happens when it fails is the      *)
(* matter of SendLicenceData.)                                             *)
SendCommits ==
    /\ sending # NotSending
    /\ outbox' = outbox \cup {[run |-> sending.run, items |-> sending.items]}
    /\ mailStatus' = [mailStatus EXCEPT ![sending.mail] = "reply_pending"]
    /\ ldRun' = [ldRun EXCEPT ![sending.mail] = sending.run]
    /\ ldItems' = [ldItems EXCEPT ![sending.mail] = sending.items]
    /\ payload' = [p \in Payload |-> IF p \in LeftQueue THEN "processed" ELSE payload[p]]
    /\ sentAt' = sentAt \cup {sending.mail}
    /\ sending' = NotSending
    /\ UNCHANGED <<answer, skipped, resend, recreate, skip, seed, countVars, history>>

(* A reply that names a licence which is not in the file raises when it is *)
(* passed on: it counts as "other".                                        *)
ReplyArrives(m, a) ==
    /\ StoreReplies({m})
    /\ a.refs \subseteq ldItems[m]
    /\ answer' = [answer EXCEPT ![m] = a]
    /\ heard' = heard \cup {m}
    /\ UNCHANGED <<sentAt, outbox, skipped, resend, recreate, skip, seed, sending,
                   countVars, fake, goal, requeued, reopened>>

(* send_licence_data_to_icms closes a Mail with a valid reply, whatever it *)
(* leaves out, and sets one with a partial reply aside for recreate.       *)
ReplyForwarded(m) ==
    /\ \/ IsValid(m) /\ CloseMail(m, "reply_processed")
       \/ IsPartial(m) /\ CloseMail(m, "reply_partially_processed")
    /\ UNCHANGED cmdVars

Command ==
    \/ ResendEmail \/ ResendSave
    \/ RecreateMail \/ RecreateData \/ RecreateLinks
    \/ RecreateEmail \/ RecreateSave \/ RecreateArchive
    \/ SkipSave
    \/ SeedMail \/ SeedData

Next ==
    \/ Command
    \/ \E m \in MailId : ResendRead(m) \/ RecreateRead(m)
    \/ \E p \in Payload, flag \in Flags : SkipRead(p, flag)
    \/ \E n \in MailId : SeedStart(n)
    \/ ResendFail \/ RecreateFail \/ SeedFail
    \/ \E p \in Payload : Arrive(p)
    \/ \E m \in MailId : SendReads(m)
    \/ SendCommits
    \/ \E m \in MailId, a \in Reply : ReplyArrives(m, a)
    \/ \E m \in MailId : ReplyForwarded(m)

Spec == Init /\ [][Next]_vars

-----------------------------------------------------------------------------
(* A Mail awaits, or ever awaited, a reply only for a file that was mailed *)
(* with the run number and the payloads of its LicenceData, and that has   *)
(* something in it, whichever commands overlap the tasks.                  *)
AwaitingMeansMailed ==
    \A m \in MailId \ fake :
        mailStatus[m] \notin {"none", "pending"} =>
            FileOf(m) \in outbox /\ ldItems[m] # {}

(* The licences that HMRC left unanswered are not forgotten when their     *)
(* Mail is archived: a later file that was mailed carries all of them,     *)
(* however often the command failed and was run again.                     *)
ArchivedIsResent ==
    \A m \in MailId \ fake :
        mailStatus[m] = "reply_processed" /\ IsPartial(m) =>
            \E n \in MailId : /\ n > m /\ ldItems[m] \ answer[m].refs \subseteq ldItems[n]
                              /\ FileOf(n) \in outbox

(* A licence that HMRC has answered is not sent again by recreate, through *)
(* any number of partial replies in a row.  (After a failure between the   *)
(* e-mail and the archiving of the original, running it again does so, and *)
(* so does a save of a Mail or a payload as it was read long before.)      *)
AnsweredNotResent ==
    failures = 0 /\ reopened = {} =>
        \A m, n \in MailId :
            m < n /\ answer[m] # NoAnswer =>
                answer[m].refs \cap ldItems[n] \subseteq requeued

(* A reply that was stored is still on its Mail, unless a task changed the *)
(* Mail's status between a command's read and its save; the status says    *)
(* whether there is a reply, whatever a command saved over it; and a       *)
(* request that went to HMRC is back in the queue only if the send task    *)
(* came between such a read and save of the request.                       *)
NothingUndone ==
    /\ \A m \in heard \ reopened : answer[m] # NoAnswer
    /\ \A m \in MailId :
          answer[m] = NoAnswer <=> mailStatus[m] \in {"none", "pending", "reply_pending"}
    /\ \A m \in MailId : ldItems[m] \cap Queued \subseteq requeued

(* check_pending_mail once EMAIL_AWAITING_REPLY_TIME has gone by, and      *)
(* check_unprocessed_payloads, which looks LICENSE_POLL_INTERVAL ahead and *)
(* so counts every queued payload.                                         *)
Flagged == {m \in sentAt : mailStatus[m] \notin {"none", "reply_processed"}}
Healthy == Flagged = {} /\ Queued = {}

(* When the health check has nothing to show, HMRC has answered every      *)
(* request in every file, or left it out of a reply that counts as valid   *)
(* (the callback task does not compare a reply with its file): also the    *)
(* requests of a Mail that a failed or unfinished recreate left without    *)
(* sent_at, which the check cannot see, are still shown by the Mail they   *)
(* came from.                                                              *)
IsSettled(p) ==
    \E n \in MailId : p \in ldItems[n] /\ answer[n] # NoAnswer
                     /\ (p \in answer[n].refs \/ IsValid(n))
HealthyMeansSettled ==
    Healthy => \A m \in MailId : \A p \in ldItems[m] : IsSettled(p)

(* After a seeding that ran to its end before any file was sent, every     *)
(* live file has a higher run number than the last live run it was given.  *)
(* (One that is cut short cannot be repeated, and fixes a lower number.)   *)
SeedFixesTheRun ==
    goal > 0 => \A m \in Recorded \ fake : ldRun[m] > goal

-----------------------------------------------------------------------------
(* Why these hold: the inductive invariant. *)

(* A row is written in the order of its status, and the e-mail of a Mail   *)
(* with a status beyond "pending" has its time.                            *)
RowsFit ==
    \A m \in MailId :
        /\ mailStatus[m] = "none" => ldRun[m] = 0 /\ ldItems[m] = {}
        /\ mailStatus[m] \in {"none", "pending"} <=> m \notin sentAt
        /\ Taken(m) => \A n \in MailId : n < m => Taken(n)
        /\ m \in fake => mailStatus[m] = "reply_processed" /\ ldItems[m] = {}
        /\ answer[m] # NoAnswer => answer[m].refs \subseteq ldItems[m]
        /\ mailStatus[m] = "reply_processed" /\ IsPartial(m) =>
              ~ ldItems[m] \subseteq answer[m].refs
        /\ \A p \in ldItems[m] : payload[p] # "absent"

(* What recreate_and_send_licence_data_email has at hand at each step. *)
RecreateInHand ==
    LET at(steps) == recreate.step \in steps
        new == recreate.new
    IN  /\ at({"idle"}) => recreate = NoRecreate
        /\ ~ at({"idle"}) => /\ recreate.old \in (sentAt \cap Recorded) \ fake
                             /\ recreate.run # 0 /\ recreate.reply # NoAnswer
                             /\ recreate.reply.outcome = "partial"
                             /\ recreate.reply.refs \subseteq ldItems[recreate.old]
                             /\ recreate.items = ldItems[recreate.old] \ recreate.reply.refs
                             /\ recreate.items # {}
        /\ at({"mail"}) => new = 0
        /\ ~ at({"idle", "mail"}) => new \in MailId /\ new > recreate.old /\ new \notin fake
        /\ at({"data", "links", "email", "save"}) => mailStatus[new] = "pending"
        /\ at({"data", "links"}) => ldItems[new] = {}
        /\ at({"email", "save", "archive"}) =>
              ldRun[new] = recreate.run /\ ldItems[new] = recreate.items
        /\ at({"links"}) => ldRun[new] = recreate.run
        /\ at({"save", "archive"}) => FileOf(new) \in outbox
        /\ at({"archive"}) => /\ new \in sentAt
                              /\ mailStatus[new] = "reply_processed" => IsValid(new)

(* And the other commands, and the send task between its two steps. *)
OthersInHand ==
    /\ resend.step # "idle" => resend.mail \in (sentAt \cap Recorded) \ fake
    /\ skip.step # "idle" => skip.item \in Payload /\ payload[skip.item] # "absent"
    /\ seed.step # "idle" => seed.last \in MailId /\ seed.next \in 1..seed.last
    /\ sending # NotSending => /\ sending.mail \in MailId /\ mailStatus[sending.mail] = "none"
                               /\ sending.run # 0 /\ sending.items \subseteq Queued
                               /\ sending.items # {}

(* A request in a file is settled, or the health check shows a Mail that   *)
(* carries it.                                                             *)
IsShown(p) == \E n \in Flagged : p \in ldItems[n]
SettledOrShown == \A m \in MailId : \A p \in ldItems[m] : IsSettled(p) \/ IsShown(p)

(* Two files have a request in common only if it was put back in the queue *)
(* or the later file is the remainder of the earlier one.                  *)
Remainder(m, n) ==
    IF mailStatus[m] = "reply_processed" \/ (recreate.old = m /\ recreate.new = n)
    THEN ldItems[m] \ answer[m].refs ELSE {}
OnlyRemaindersShared ==
    failures = 0 /\ reopened = {} =>
        /\ recreate.step # "idle" => /\ mailStatus[recreate.old] = "reply_partially_processed"
                                     /\ answer[recreate.old] = recreate.reply
        /\ \A m, n \in MailId :
              m < n => ldItems[m] \cap ldItems[n] \subseteq requeued \cup Remainder(m, n)

(* A run number that is at hand follows the last seeded one. *)
SeedHolds ==
    goal > 0 =>
        /\ seed.step = "idle"
        /\ \E m \in fake : ldRun[m] = goal /\ \A n \in fake : n <= m
        /\ sending # NotSending => sending.run > goal
        /\ recreate.step # "idle" => recreate.run > goal

CommandsInv ==
    /\ TypeOK /\ RowsFit /\ RecreateInHand /\ OthersInHand
    /\ AwaitingMeansMailed /\ ArchivedIsResent /\ NothingUndone
    /\ SettledOrShown /\ OnlyRemaindersShared /\ SeedHolds /\ SeedFixesTheRun

=============================================================================
