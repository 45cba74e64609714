# TLA+ models of icms-hmrc

icms-hmrc stands between ICMS (the import licensing service) and HMRC's CHIEF
system. ICMS posts licence requests to an HTTP API; celery tasks mail them to
HMRC in numbered `licenceData` files, fetch HMRC's `licenceReply` and
`usageData` messages from a POP3 mailbox, and post the answers back to ICMS.
Everything that makes this correct is in three database tables and in four
periodic tasks that nothing keeps from overlapping, each with an external side
effect (SMTP, POP3, HTTP) in the middle of a database transaction.

This directory models that workflow in TLA+, task by task and as a whole, checks
it with TLC on small instances, and proves with TLAPS, for every size, each
safety invariant and action property that the runs check: of the four tasks, the
file, the reply parser, the commands, and the tasks composed.

## 1. The system

| Component | Source | State | Operations | Model |
|---|---|---|---|---|
| Tables | `mail/models.py`, `mail/enums.py` | `LicencePayload.is_processed`, `Mail.status`, `LicenceData.hmrc_run_number` and its links | all of the below | `HmrcDb` |
| What the tasks promise each other | `mail/tasks.py` | the tables | one commit of a task | `Workflow` |
| Ingest API | `mail/views.py`, `mail/serializers.py` | – | POST a licence request | `HmrcDb` (`Ingest`), `LicenceDataFile` (`Accepted`) |
| Send task | `mail/tasks.py:54-115`, `licence_data/processor.py:28-50` | the rows of its transaction | one run of `send_licence_data_to_hmrc` | `SendLicenceData` |
| licenceData file | `licence_data/processor.py:65-257`, `chiefprotocol.py`, `edifact_validator.py`, `email/utils.py:39-75` | the list of records | write, number, validate, fold to ASCII | `LicenceDataFile` |
| licenceReply parser | `licence_reply/processor.py` | accepted, rejected, the open rejection | one line | `LicenceReply` |
| Mailbox task | `mail/tasks.py:127-168, 402-491`, `utils/pop3.py` | POP3 session, transaction | `process_licence_reply_and_usage_emails` | `ReplyMailbox` |
| ICMS callback task | `mail/tasks.py:171-307`, `mail/requests.py` | row lock on a Mail | `send_licence_data_to_icms` | `SendToIcms` |
| Usage task and parser | `mail/tasks.py:310-368`, `usage_data/` | row lock on a usage Mail | `send_usage_data_to_icms` | `UsageData` |
| Operator commands, seeding | `mail/management/commands/` | objects read earlier | `resend_email`, `recreate_and_send_licence_data_email`, `set_skip_flag_on_payload`, `seed_licence_data` | `OperatorCommands` |
| Health checks | `conf/views.py` | – | two queries | `OperatorCommands` (`Healthy`) |
| The whole | all tasks, HMRC, ICMS | | | `LicencePipeline`, `RequestLife` |

**How they interact.** Only through the tables and the outside world. A request
becomes an unprocessed `LicencePayload`. The send task does nothing while any
`Mail` is unfinished; otherwise it writes all unprocessed payloads into one
file, mails it, and records a `Mail` (`reply_pending`), a `LicenceData` row with
the next run number, and links to the payloads. The mailbox task finds that
`Mail` by the run number in a reply's subject and stores the reply
(`reply_received`). The callback task parses it, tells ICMS, and closes the
`Mail` (`reply_processed`, or `reply_partially_processed` when HMRC could not
read the whole file, which an operator resolves with the recreate command).
A `usageData` message becomes a `Mail` of its own, which the usage task posts to
ICMS and closes.

**What is hard.** Overlapping runs of a task (beat fires whether or not the
last run has ended); guards read outside the transaction they protect; queries
that are run again and see other rows; a crash between an external effect and
the commit, in either order; replies that are late, repeated or unreadable, or
answer a file that was rolled back; one bad row or message that stops everything
behind it; files that lose records on their way; commands that save objects
they read long before; record counts and line numbers that no check looks at; a
file that is changed after it was checked. Every such place is listed under
`hazards` in `PROJECT.json`, with its line and the properties aimed at it.

**What correctness means**, component by component: a request is in one file
only and is out of the queue when a file carries it; a recorded file was
mailed, with that number and content; run numbers leave no gap; one file is
outstanding at a time; the file can be cut back into the requests it was built
from; a rejected transaction gets its own errors; a message is stored exactly
once; an answer is not overwritten, reaches the right licence, and the `Mail` is
closed only then; a usage report reaches ICMS whole, once and in its turn, or
not at all; a command undoes nothing that a task did, but for the saves that are
overtaken; the queue and the mailbox drain, and every request is answered,
unless something named stops them.

## 2. Modules

`HmrcDb` declares the tables as variables that hold *committed* rows. A payload
is its place in the order of `received_at`, a `Mail` its place in the order of
`created_at`, and the columns of a `LicenceData` row are functions of its
`Mail`.

`Workflow` extends it with one step for each *commit*: `Ingest`, `SendFile`,
`StoreReplies`, `CloseMail`. It is the contract between the tasks. Each task's
module takes the commits of the other tasks from it as its environment
(`FileSent`, `RepliesStored`, `ReplyForwarded`, ...), and is shown to make no
other commit than its own one: `ImplementsWorkflow == WorkflowSpec`, under the
identity on the tables.

* **`SendLicenceData`** has one action per SQL statement or external call.
  PostgreSQL runs at READ COMMITTED: a statement takes a snapshot (`want`), and
  a locking statement then waits row by row for rows that another transaction
  holds (`held`), re-checks them and skips those processed meanwhile. `stamp` is
  the transaction's uncommitted `Mail`, `outbox` what the SMTP server accepted.
  `CheckOutstanding` is the guard of `tasks.py:61`; `StartExists`,
  `ExistsFindsRow`, `NothingToSend` are `licences.exists()`; `ReadRunNumber` is
  `processor.py:30-31`; `StartSelect`, `LockNextRow` read the payloads;
  `InvalidFile`, `CreateMail`, `SendEmail`, `StartUpdate`, `Commit` follow the
  code, and `DeadlockVictim` is PostgreSQL's deadlock abort. `Fail` is any exception
  or crash, at any statement.
* **`LicenceDataFile`** writes a file record by record. A text is the class the
  checks can tell apart (too long, too long only with its blanks, holding a
  separator, holding a line break inside or at an end, folding into a separator or
  a line break, growing or vanishing when folded), and every field of a request
  that is written as text has one: the references, names and address lines, EORI
  number, postcode, country code and group, descriptions, commodities, quantities
  and restrictions. `Accepted` is what the serializers let in of the trimmed
  values, `LinesFor` the generator, which writes the raw ones,
  `ResolveLineNumbers` and `CountTransactions` the protocol module,
  `RecordInvalid` the validator, `SendChiefEmail` the transliteration that both
  ways of sending make after the validation.
* **`LicenceReply`** has one action per record type of a reply. `file` is the
  history of lines, which the properties compare with what the processor kept.
* **`ReplyMailbox`** is a POP3 session inside a transaction. A message is its
  place in the order of arrival; `mailbox` is the maildrop, `todo` what the
  session has still to read, `deleted` what it has marked, `tx` the Mails its
  transaction has updated. `Quit` comes before `CommitSession` because the
  connection is the inner context manager.
* **`SendToIcms`** takes a reply as its classification, its run number and the
  references it answers, and follows the task through count, row lock, callback
  and save. `ResponseLost` is a callback ICMS has acted on whose response is
  late or fails verification; `PostRefused` is an error status.
* **`UsageData`** keeps a usageData file as its records. `FileOf` is the file
  that CHIEF writes for a report, `Damaged` what may arrive of it (records lost,
  one of them unreadable, a trailer without a count), `Usages`, `Raises` and
  `FileValid` the parser. A part of a file is taken by places: `Nth` is the k-th
  of a set of places, `Usages` what stands at the places of the headers, so that
  nothing is recursive and everything can be proved about. The task is followed
  through count, the snapshot and the wait of the locking query (`StartLock`,
  `LockMail`), parsing, callback and save. `report` is the history of what CHIEF
  meant to say.
* **`OperatorCommands`** has the commands one statement at a time (they open no
  transaction, and `save()` writes every column as it was read), and the tasks
  one commit at a time; of the send task also the moment it reads and locks, as
  a command can come in between. A reply is its classification and the payloads
  it answers, which the code never compares with those of the file: a valid reply
  may leave some out, a partial one may answer all. `Flagged` and `Healthy` are
  the queries of the health check. `requeued` and `reopened` are histories of the
  saves that were overtaken by a task, `heard` of the replies stored, `fake` and
  `goal` of the seeding.
* **`LicencePipeline`** composes the send, mailbox and callback tasks, each by
  `INSTANCE` of its own module and none of their environment actions, over one
  set of tables, with HMRC as an actor: it answers each file that has reached
  it once, in its own time, also one that was rolled back. The reply a Mail
  holds for the callback task (`AnswerOn`) is the content of the message that
  the mailbox task stored on it.
* **`RequestLife`** is what ICMS may expect of the whole: unknown, waiting,
  sent, answered or dropped, without tables or tasks. `LifeOfRequests` is the
  refinement: a request's stage is computed from the tables and from what ICMS
  was told (`StageOf`).
* The **`MC...`** modules define the constants of the runs, and the
  **`...Proofs`** modules hold the theorems: one for each of
  `SendLicenceData`, `LicenceDataFile`, `LicenceReply`, `ReplyMailbox`,
  `SendToIcms`, `UsageData`, `OperatorCommands` and `LicencePipeline`.

Definitions whose comment begins with *Variant* are what a mutation check puts
in the place of the definition that follows, to see that the property of a run
would notice: `PROJECT.json` pairs each property with one.

## 3. What the runs check

Every cfg says `CHECK_DEADLOCK FALSE`: the file and reply models end with their
file, and the others stop when the bounds on payloads, mails, messages and
failures are used up. `LicenceFiles` and `Commands` also check their `TypeOK`; in
the other modules it is part of the invariant.

| Run | What it asks | Bounds |
|---|---|---|
| `SendOverlap` | Two overlapping runs of the send task: `NoDoubleSend` (no request in two recorded files), `MailedBeforeRecorded` (records never ahead of the outbox), `OutstandingBounded` (one outstanding file per worker at most), `ImplementsWorkflow`, and the inductive `SendInv` | 2 workers, 4 payloads (one unsendable), 4 mails, 1 failure |
| `SendAlone` | The task never overlapping itself: `AloneInv` (one file outstanding, run numbers increase), `NoPhantomFile` (without failures no file is mailed and not recorded), `QueueDrains` | 1 worker, 4 payloads (one unsendable), 4 mails, 2 failures |
| `LicenceFiles` | `ReadsBack` (a file can be cut back into the queued requests), `EachGoodOnce`, `RefusedForOnePayload` (a file is refused exactly when it holds a request that no file can carry), `MailedAsChecked` (what is mailed passes the check that was made before, but for texts that fold into separators or line breaks, outgrow their field or leave nothing of a good) | 2 licences, requests that differ from a plain one in any one field, every text field in every class |
| `ReplyFiles` | `ReplyInv` (each rejection has its own errors), `ValidLosesNothing` (a file called valid loses no answer) | every file of at most 6 lines, 2 references |
| `MailboxSafe` | `StoredExactlyOnce`, `AnswerStands`, `OnlyPoisonBlocks`, `ImplementsWorkflow`, and the inductive `MailboxInv` | 3 messages of 5 kinds, 2 mails, 2 payloads, 1 failure of each sort |
| `IcmsSafe` | Two overlapping callback runs: `ToldTheRightLicence`, `NoAnswerDropped`, `ImplementsWorkflow`, and the inductive `IcmsInv` | 2 processes, 2 mails, 3 payloads, 2 references, 1 failure, replies valid, partial or invalid (the task treats all that it cannot pass on alike) |
| `UsageFiles` | `WholeReportTold` (ICMS hears a whole report or nothing), `PostedInOrder`, `WholeFileIsClosed`, and the inductive `UsageInv` | 2 processes, 2 reports of at most 2 transactions, at most 2 lost records and 1 damaged file, 1 failure |
| `Commands` | All four commands overlapping each other and the tasks: `AwaitingMeansMailed`, `ArchivedIsResent`, `AnsweredNotResent`, `NothingUndone` (only an overtaken save takes a stored reply away or requeues a request), `HealthyMeansSettled` (nothing to show: every request is answered, or left out of a valid reply), `SeedFixesTheRun` | 3 payloads, 3 mails, 3 commands, 1 failure, skip flags only set, never cleared |
| `Pipeline` | The tasks composed: `EachInItsPlace` (each is in the environment its own module assumes), `LifeOfRequests`, `ClosedIsComplete`, `UsableReplyIsClosed`, `EveryRequestIsAnswered` | 1 send worker, 2 callback processes, 3 payloads, 3 mails, 4 messages, 1 failure of any task, replies valid, partial or invalid |
| `SendMarksUnsent`, `SendReusesRun`, `MailboxLoses` | the findings of section 6; each is violated | 2 payloads or 1 message, at most 1 failure |

The inductive invariants contain named properties that therefore need no entry
of their own: `SendInv` has `TypeOK`, `LinkedAreProcessed` (a linked request is
out of the queue) and `RunsContiguous` (run numbers leave no gap); `AloneInv` has
`OneOutstanding` and `RunsIncrease`; `MailboxInv` has `TypeOK` and `ReplyFiled`
(one Mail per reply) and implies `NeverStoredAgain`; `IcmsInv` has `TypeOK`,
`ClosedMeansTold` and `OneSenderPerMail` and implies `PostedOnce`; `UsageInv`
implies its `PostedOnce`; `ReplyInv` is `TypeOK` and `ErrorsBelong`.
`EachInItsPlace` is the conjunction of the specifications of the three tasks.

**Why the bounds are enough.** Overlap in the send, callback and usage tasks is a
matter of pairs: row locks, the guard and the status are compared between two
transactions, and a lock ring of two is the smallest deadlock. Four mails let a
run number be duplicated and then continued. Two payloads of a kind show a set
split; the third and fourth arrive in between. Six lines of a reply hold an
accepted transaction, a whole rejected one, a second header, and the trailer.
Three messages put a good message before and after a bad one. Two licences in a
file distinguish the most recent start record from the first, and the serializer
and validator rules look at one field at a time. A report of two transactions can
lose one, both, or other records. Three commands are enough for one to be cut
short, run again, and overlapped by another. `Flags` has one value in the run,
because nothing reads the flag (section 6); the proofs have both. In the pipeline the fourth message
is the answer to a file that was rolled back; overlap of the send task itself is
in `SendOverlap`, and in the proof of the composition, which has no bound.

**Named bounds.** `MaxPayload`, `MaxMail`, `MaxFailures`, `MaxMessages`,
`MaxLines`, `MaxLicences`, `MaxUsage`, `MaxLost`, `MaxDamaged` and `MaxCommands`
only end the world: in the code these are unbounded. `posts` counts up to one
more than `PostedOnce` allows (`PostCap`).

## 4. Fairness

Celery beat starts each task again and again (`conf/celery.py:31-59`), and a
running task is not preempted for ever: weak fairness of a task's steps, for each
worker or process. HMRC answers and its reply is fetched and passed on: weak
fairness of `ReplyArrives` and `ReplyForwarded` in `SendLicenceData`, of
`HmrcReplies` and of the tasks themselves in the pipeline. `Post` has strong
fairness in `SendToIcms`, `UsageData` and the pipeline: ICMS may refuse a callback any
number of times but not for ever. No failure, arrival of a request, operator or
usage message is assumed to happen, and failures are finitely many.

The liveness properties name what may block them: an unsendable request
(`QueueDrains`), a message that raises (`OnlyPoisonBlocks`), a second Mail in
`reply_received` or a second file with the same number (`UsableReplyIsClosed`), a
second stored usage message (`WholeFileIsClosed`), and for the whole
(`EveryRequestIsAnswered`, by `Obstacle`): the request was marked without being in
a file, an unsendable request is in the queue, HMRC left a file partly or wholly
unanswered, HMRC holds a file that was rolled back, or a session was rolled back
after its QUIT. Crashes anywhere else, and lost responses of ICMS, are made good.

## 5. What is proved

Every invariant and action property of a passing run is a theorem; what is left
to TLC is liveness. A theorem holds for any number of workers, processes, payloads,
mails, messages, lines, records and failures.

**From which assumptions.** The `ASSUME`s of the modules: bounds are natural
numbers, sets of requests, reports and outcomes are of the types the code reads,
`RefOf` gives each payload a reference, and a value that stands for "none"
(`NoRef`, `NoAnswer`) is none of the others. Beyond these, three theorems about
the send task name a hypothesis: `Alone` (one worker: runs do not overlap) for
`AloneInv` and `NoPhantomFile`, as overlapping runs violate them (both pass the
guard; one of them is the deadlock's victim after its e-mail), and
`FiniteWorkers` for `OutstandingBounded`, where it makes `Cardinality(Worker)`
mean something. In the pipeline `Send!Alone` is needed for `LifeOfRequests` and
`ClosedIsComplete`. Conditions inside properties (no failure, no phantom file,
references distinct in a file: `UniqueRefs`) are part of the definitions that
the runs check, and the theorems state the same definitions.

**`SendLicenceDataProofs`**: `SendInvariant` (`Spec => []SendInv`), and from it
`TypeCorrect`, `NeverSentTwice`, `MailedFirst`, `NoGapInRuns`,
`SendImplementsWorkflow`; `StopAndWait` and `NothingUnrecorded` for one worker,
`NeverMoreThanWorkers` for finitely many.
`NoDoubleSend` is not inductive: it holds because a locked row is still
unprocessed and has one holder (`LocksExclude`), because what a transaction links
at its commit it also marks, the rows of its file being among those of the
update's snapshot (last part of `Progress`), and because an uncommitted `Mail` has
left no trace (`StampsFresh`). `MailedBeforeRecorded` needs that between the
e-mail and the commit the file is in the outbox (`Progress`), and
`RunsContiguous` that the predecessor of a number that was read is recorded under
an earlier `Mail` (`RunsFollow`, with the order of `created_at`).
`OutstandingBounded` counts the outstanding files together with the runs that
have passed the guard, which makes it inductive as it stands.

**`LicenceDataFileProofs`**: `FileInvariant` (`Spec => []FileInv`), and from it
`FileTypes`, `FileReadsBack`, `GoodsWrittenOnce`, `OnePayloadRefuses`,
`MailPassesButForFolds`. The checked properties speak of a finished file, so the
invariant must say how it comes about: there is a function `start` that gives each
request its first line (`Layout`: consecutive blocks, one after the other, of the
size that the request alone determines), and every line is the line that
`LinesFor` wrote, then numbered, then folded (`WrittenAt`, `FinishedAt`). The
lemmas before it say what one request contributes: its shape (`LinesShape`), and
when one of its lines is refused (`UnsendableFails`, record by record over every
written field) or broken by folding (`FoldingBreaks`); the end records are counted
by the bijection that `start` is.

**`LicenceReplyProofs`**: `ReplyInvariant`, and from it `ValidFileIsComplete`.
`ErrorsBelong` needs what the open transaction holds (`OpenAtItsHeader`).
`ValidLosesNothing` is a counting argument: rejections have distinct headers
(`HeadersDistinct`), so if as many are kept as the trailer counts headers, none of
them was replaced by the next header or left open.

**`ReplyMailboxProofs`**: `MailboxInvariant`, and from it `NothingLostNorDoubled`,
`StoredIsGone`, `OneReplyPerMail`, the action property `AnswersStand`, and
`MailboxImplementsWorkflow`; `RepliesFiledByRun` for the pipeline.
`StoredExactlyOnce` holds because of where the
open session is (`OpenTransaction`: what it has marked for deletion is still in the
maildrop until QUIT, and every Mail it updates still awaits its reply for everybody
else) and on which side of it each message lies (`Whereabouts`).

**`SendToIcmsProofs`**: `IcmsInvariant`, and from it `PostedOnceOnly`,
`ClosedOnlyAfterTold` and `IcmsImplementsWorkflow`. `PostedOnce` is not
inductive: a count of callbacks does not say whether another one may come.
`PostsAccounted` says that a callback is vouched for by the closed Mail, or by
the process that is about to close it, and that any other is charged to a
failure; `Position` ties a process to its Mail from the lock to the commit, and
`OneSenderPerMail` makes the one that vouches unique. `NoOtherLicenceTold` and
`EveryAnswerTold` rest on `ToldInv`: nobody is told anything before a reply is
stored, and all that will be told has been told from the callback on, not only
from the commit on. What a callback tells is found by the run number and `id_map`
(`Holder`, `IdMap`). The query asks for the one file with that number, so that a
number which two files carry finds nothing and tells nothing; with the Mail's own
number, what it finds are the licences of the Mail's own file.

**`UsageDataProofs`**: `UsageInvariant`, and from it `PostedOnceOnly` and the
action property `ReportsInOrder`. A process that waited for its row has a
snapshot taken before newer Mails came in; the order still holds because a row
that is not in a snapshot is younger than those that are (`SnapshotIsOldest`), so
that the first of them that still waits is the first of all (`WorksOnFirst`).
`WholeReports` (`WholeReportTold`) has two parts. About files, `DamagedTold`: a
file that arrived damaged and passes the checks tells the report it was made
from. If the trailer survives and its count is right, as many headers survive as
there were, so all of them, and the k-th header of what is left is the k-th of the
file (`Ranks`, `Numbered`, `KeptCount` count through sets of places). About the
task, `ToldInvariant`: only a vetted file gets past the checks, and the file does
not change under the process that has it.

**`OperatorCommandsProofs`**: `CommandsInvariant` (`Spec => []CommandsInv`), and
from it the seven properties of the run. They hold each other up: `RowsFit` (a row
is written in the order of its status), `RecreateInHand` and `OthersInHand` (what
each command read earlier, and how far it may be from the row it will save),
`SettledOrShown` (a request that is neither answered nor left out of a valid reply
has a Mail that the health check shows, also when a recreate stopped half way), `OnlyRemaindersShared` (two files
share requests only when the later one resends what the earlier left unanswered)
and `SeedHolds`.

**`LicencePipelineProofs`** puts the tasks together. Each module of a task
assumes an environment that commits what `Workflow` says. The composition has no
such environment: the lemmas `SendStep`, `BoxStep`, `IcmsStep` and `HmrcStep` show
that a step of one task is, for the other two, a step of their environment or
none at all, using the invariant of the task that makes it (a file is linked to
locked, unprocessed rows only because of `SendInv`). From them follow
`PipelineInvariant` (the three invariants hold together) and `TasksInTheirPlaces`
(`Spec => EachInItsPlace`), and so every theorem and every invariant of the
separate tasks holds of the whole. If send runs do not overlap, `LifeInvariant`
adds that one file is out at a time, that a Mail holds a reply with its own run
number (`RepliesMatch`) and that ICMS was told of that Mail's requests only
(`ToldInv`). `RequestsGoForward` is the refinement to `RequestLife`: the steps
that change a request's stage are a commit of a file, a callback and the closing
of a Mail, and every other one is a stutter. `CompleteMeansTold` follows from the
same invariant.

**Only model-checked**: liveness, as fairness and `ENABLED` are out of this prover's
reach: `QueueDrains`, `OnlyPoisonBlocks`, `WholeFileIsClosed`,
`UsableReplyIsClosed`, `EveryRequestIsAnswered`. No model declares a recursive
operator, so that nothing is lost to the lack of induction over data; what the
code does in a loop is stated by places (`Nth`, `Layout`) and counted by bijections.

## 6. Where the code and its own words differ

Checked by runs that are expected to be violated:

* `SendMarksUnsent`: a request that arrives while a file is being sent is marked
  processed by `tasks.py:100` without being in any file; the log line after it
  names only the file's licences. Nothing sends that request later.
* `SendReusesRun`: when the transaction is rolled back after the e-mail, the
  next file has the same run number and may have other content; `types.py:30-31`
  says the number is incremented on each transmission.
* `MailboxLoses`: QUIT precedes the commit, so a failure between the two loses
  the message; `tests/test_tasks.py:252` says everything should roll back.

Seen while modelling, present in the models, without a run of their own:

* `resend_email.py:75` saves the whole Mail as it was read before the e-mail, and
  so can put a Mail back from `reply_received` to `reply_pending` and drop the
  reply; the README's status list has no such change. `set_skip_flag_on_payload.py:55`
  can put a processed payload back into the queue in the same way.
  `NothingUndone` allows these two saves, and shows that nothing else undoes an
  answer or a sending.
* `skip_process` is read by no query, although the command's help says the
  request will not be sent while it is set.
* `resend_email --dry_run` skips the e-mail and saves the Mail all the same;
  `recreate_and_send_licence_data_email --dry_run` is declared and never read.
* A recreate command that fails at the e-mail leaves a Mail in `pending`, which
  the README calls a brief state, and nothing moves it on; it has no `sent_at`,
  so that the health check never shows it. Run again, the command skips a run
  number.
* `resend_email.py:31` expects a single Mail in `reply_pending`; overlapping runs
  of the send task can leave two (`OutstandingBounded` is what does hold).
* `check_unprocessed_payloads` (`conf/views.py:37`) adds the poll interval to the
  present where `check_pending_mail` subtracts its own: a request counts as
  "unprocessed for over" the interval from the moment it is stored.
* `usage_data/types.py:219` calls `transactionCount` optional; without it
  `int()` raises (`usage_data/processor.py:110`) at every run.
* The file is folded to ASCII after it was validated (`email/utils.py:49`), so a
  character that becomes a backslash, a line break, several characters or none is
  mailed unchecked; `MailedAsChecked` says for which requests.
* The serializers check trimmed values and never for a backslash, and the request
  is stored and written as it came: one such field, an EORI number or a country
  code as well as a name, makes every file that holds the request invalid, and
  nothing is sent until the row is changed by hand (`Unsendable`).
* `licence_reply/processor.py:172` says of a valid reply that "each transaction is
  either accepted or rejected"; the code looks at the trailer's counts and the file
  errors, and `tasks.py:195` closes the Mail without comparing the reply with the
  file. A valid reply that leaves requests out closes their Mail, and nothing
  shows them; `HealthyMeansSettled` names this as the one exception.
* A partial reply that answers every request leaves its Mail
  `reply_partially_processed` for good: the recreate command raises for it
  (`recreate_and_send_licence_data_email.py:94-95`), and the send task waits behind it.
* The comment at `licence_data/processor.py:101` counts an update twice;
  `count_transactions` counts each licence once.
* `types.py:187-197` calls currency, unit and value mandatory for lines
  controlled by "B" or "V"; the generator fills them in only for "Q".

## 7. What the models leave out

* Message texts, file names, logging and dates; MIME, SMTP and POP3 transport,
  OAuth. What the workflow sees of them, accepted or failed, is in the tasks.
* Hawk: the signatures are a library's, and the nonce check is one atomic
  `cache.add`, which leaves nothing to interleave. A response that fails
  verification is `ResponseLost`.
* Two mailbox tasks at once. The POP3 server lets one session at a time have the
  maildrop, but only until QUIT: between the QUIT and the commit of one session,
  another can already read the messages that came later. A reply to a Mail that
  the first has updated then waits for its row lock (`tasks.py:421`), finds the Mail
  no longer `reply_pending`, and raises, as it does in the model one session later;
  other messages touch other rows. The model starts the second session after the
  commit.
* The statement snapshot of the callback task's locking query (`tasks.py:191`):
  `LockMail` and `MailGone` take the first received Mail as it is when the lock is
  granted, where PostgreSQL picks the row when the query starts and checks it
  again after a wait. No property depends on the difference.
* What HMRC may answer. In `LicencePipeline` HMRC calls a reply valid only if it
  answers the whole file (`AnswersTo`): an assumption about CHIEF on which
  `ClosedIsComplete` and `EveryRequestIsAnswered` rest, and which the code does not check.
  `SendToIcms` and `OperatorCommands` do without it.
* JSON numbers in the place of text, which the serializers accept, outside
  `restrictions` (where the generator raises): they are written as their digits.
* Texts of two classes at once: the worst decides, and each class is checked in
  each field on its own.
* A payload's `action` and `icms_id` outside `LicenceDataFile`: their uniqueness is
  the database's. Foreign trader records, which nothing generates. The run
  number of a usageData file, which is stored and compared with nothing.
* In `OperatorCommands` the failures of the send task, which are in
  `SendLicenceData`; in the runs of `LicencePipeline` the commands, which their own
  module overlaps with the commits of the tasks.
* The health checks that the database and redis answer, and their XML.
* Development and diagnostic commands, configuration, URL routing, admin pages
  and migrations have no part in the workflow's state.

## 8. Plan

Done: all tasks, both parsers, the file generator with its validator and
transliteration, the operator and seeding commands, the health check's queries;
the composition with HMRC and its refinement to `RequestLife`; proofs of every
safety and action property that the runs check.

Next, in this order:

1. The safety half of the liveness properties: for `UsableReplyIsClosed` and
   `WholeFileIsClosed`, that a Mail which is not named as an obstacle keeps some
   step of a task possible until it is closed.
2. The commands composed into the pipeline, one commit at a time, with
   `AwaitingMeansMailed` and `NothingUndone` carried over.
3. What `RequestLife` may promise when send runs do overlap, from
   `OutstandingBounded` in the place of `AloneInv`.
