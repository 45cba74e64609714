----------------------- MODULE OperatorCommandsProofs -----------------------
(***************************************************************************)
(* Theorems about OperatorCommands for any number of payloads, mails,      *)
(* commands and failures.  CommandsInv is inductive: one lemma per kind of *)
(* step, each with one step per part of the invariant that the step can    *)
(* disturb.                                                                *)
(***************************************************************************)
EXTENDS OperatorCommands, TLAPS

LEMMA InitInv == Init => CommandsInv
  <1> SUFFICES ASSUME Init PROVE CommandsInv
    OBVIOUS
  <1> USE DEF Init, DbInit, NoResend, NoRecreate, NoSkip, NoSeed, NotSending
  <1>1. TypeOK
    BY MaxCommandsAssumption, MaxFailuresAssumption
       DEF TypeOK, DbTypeOK, PayloadState, MailStatus
  <1>2. RowsFit
    BY MaxMailAssumption DEF RowsFit, Taken, MailId
  <1>3. RecreateInHand /\ OthersInHand
    BY DEF RecreateInHand, OthersInHand
  <1>4. AwaitingMeansMailed /\ ArchivedIsResent /\ NothingUndone
    BY DEF AwaitingMeansMailed, ArchivedIsResent, NothingUndone
  <1>5. SettledOrShown /\ OnlyRemaindersShared
    BY DEF SettledOrShown, OnlyRemaindersShared
  <1>6. SeedHolds /\ SeedFixesTheRun
    BY DEF SeedHolds, SeedFixesTheRun
  <1> QED
    BY <1>1, <1>2, <1>3, <1>4, <1>5, <1>6 DEF CommandsInv

(* The parts that speak of rows and of the outside world only. *)
LEMMA RowsUntouched ==
  ASSUME CommandsInv, UNCHANGED <<dbVars, answer, sentAt, fake, requeued, goal, reopened, heard>>,
         outbox \subseteq outbox'
  PROVE  /\ AwaitingMeansMailed' /\ ArchivedIsResent' /\ NothingUndone'
         /\ SettledOrShown' /\ SeedFixesTheRun'
  <1> USE DEF CommandsInv, IsValid, IsPartial
  <1> USE DEF dbVars
  <1>1. AwaitingMeansMailed' /\ ArchivedIsResent'
    BY DEF AwaitingMeansMailed, ArchivedIsResent, FileOf
  <1>2. NothingUndone' /\ SettledOrShown'
    BY DEF NothingUndone, Queued, SettledOrShown, IsSettled, IsShown, Flagged
  <1>3. SeedFixesTheRun'
    BY DEF SeedFixesTheRun, Recorded
  <1> QED
    BY <1>1, <1>2, <1>3

(* Once the seeding has fixed the run, every number read is beyond it. *)
LEMMA FollowsSeed ==
  ASSUME CommandsInv, goal > 0, NEW r \in Run, IsNextRun(r)
  PROVE  r > goal
  <1> USE DEF CommandsInv, IsValid, IsPartial
  <1>1. PICK s \in fake : ldRun[s] = goal /\ \A n \in fake : n <= s
    BY DEF SeedHolds
  <1>2. s \in Recorded /\ goal \in Nat
    BY <1>1, MaxMailAssumption DEF TypeOK, Recorded, Run
  <1>3. PICK m \in Recorded : (\A n \in Recorded : n <= m) /\ r = ldRun[m] + 1
    BY <1>2 DEF IsNextRun
  <1>4. m \in fake => m = s
    BY <1>1, <1>2, <1>3, MaxMailAssumption DEF TypeOK, Recorded, MailId
  <1>5. ldRun[m] >= goal /\ ldRun[m] \in Nat
    BY <1>1, <1>2, <1>3, <1>4, MaxMailAssumption
       DEF TypeOK, DbTypeOK, SeedFixesTheRun, Recorded, Run
  <1> QED
    BY <1>2, <1>3, <1>5

(* A command that looks up its rows, mails, or is cut short. *)
LEMMA ResendKeeps ==
  ASSUME CommandsInv, (\E m \in MailId : ResendRead(m)) \/ ResendEmail \/ ResendFail
  PROVE  CommandsInv'
  <1> USE DEF CommandsInv, IsValid, IsPartial
  <1> USE DEF ResendRead, ResendEmail, ResendFail, Start, CutShort, rowVars,
             history, countVars, dbVars
  <1>1. TypeOK'
    <2>1. starts' \in 0..MaxCommands /\ failures' \in 0..MaxFailures
      BY MaxCommandsAssumption, MaxFailuresAssumption DEF TypeOK
    <2>2. resend' \in [step : {"idle", "email", "save"}, mail : {0} \cup MailId]
      BY DEF TypeOK, NoResend
    <2>3. outbox' \subseteq File
      BY DEF TypeOK, DbTypeOK, OthersInHand, Recorded, FileOf, File
    <2> QED
      BY <2>1, <2>2, <2>3 DEF TypeOK, DbTypeOK
  <1>2. RowsFit'
    BY DEF RowsFit, Taken
  <1>3. RecreateInHand'
    BY DEF RecreateInHand, FileOf, Recorded
  <1>4. OthersInHand'
    <2>1. resend'.step # "idle" => resend'.mail \in (sentAt \cap Recorded) \ fake
      BY DEF TypeOK, OthersInHand, RowsFit, NoResend, Holder
    <2> QED
      BY <2>1 DEF OthersInHand, Recorded, Queued
  <1>5. OnlyRemaindersShared'
    BY MaxFailuresAssumption DEF TypeOK, OnlyRemaindersShared, Remainder
  <1>6. SeedHolds'
    BY DEF SeedHolds
  <1> QED
    BY <1>1, <1>2, <1>3, <1>4, <1>5, <1>6, RowsUntouched

LEMMA RecreateKeeps ==
  ASSUME CommandsInv, (\E m \in MailId : RecreateRead(m)) \/ RecreateEmail \/ RecreateFail
  PROVE  CommandsInv'
  <1> USE DEF CommandsInv, IsValid, IsPartial
  <1> USE DEF RecreateRead, RecreateEmail, RecreateFail, Start, CutShort, rowVars,
             history, countVars, dbVars
  <1>1. TypeOK'
    <2>1. starts' \in 0..MaxCommands /\ failures' \in 0..MaxFailures
      BY MaxCommandsAssumption, MaxFailuresAssumption DEF TypeOK
    <2>2. recreate' \in [step : {"idle", "mail", "data", "links", "email", "save", "archive"},
                         old : {0} \cup MailId, reply : {NoAnswer} \cup Reply,
                         new : {0} \cup MailId, run : {0} \cup Run, items : SUBSET Payload]
      BY DEF TypeOK, DbTypeOK, NoRecreate, Unanswered
    <2>3. outbox' \subseteq File
      BY DEF TypeOK, RecreateInHand, File
    <2> QED
      BY <2>1, <2>2, <2>3 DEF TypeOK, DbTypeOK
  <1>2. RowsFit'
    BY DEF RowsFit, Taken
  <1>3. RecreateInHand'
    <2>1. ASSUME NEW m \in MailId, RecreateRead(m) PROVE RecreateInHand'
      BY <2>1 DEF TypeOK, RecreateInHand, RowsFit, Recorded, Holder, Unanswered, Run
    <2>2. CASE RecreateEmail
      BY <2>2 DEF TypeOK, RecreateInHand, Recorded, FileOf
    <2>3. CASE RecreateFail
      BY <2>3 DEF RecreateInHand, NoRecreate
    <2> QED
      BY <2>1, <2>2, <2>3
  <1>4. OthersInHand'
    BY DEF OthersInHand, Recorded, Queued
  <1>5. OnlyRemaindersShared'
    <2>1. ASSUME NEW m \in MailId, RecreateRead(m) PROVE OnlyRemaindersShared'
      BY <2>1, MaxMailAssumption DEF OnlyRemaindersShared, Remainder, RecreateInHand, NoRecreate, MailId
    <2>2. CASE RecreateEmail
      BY <2>2 DEF TypeOK, OnlyRemaindersShared, Remainder
    <2>3. CASE RecreateFail
      BY <2>3, MaxFailuresAssumption DEF TypeOK, OnlyRemaindersShared
    <2> QED
      BY <2>1, <2>2, <2>3
  <1>6. SeedHolds'
    <2>1. ASSUME NEW m \in MailId, RecreateRead(m) PROVE SeedHolds'
      <3> SUFFICES ASSUME goal > 0 PROVE recreate'.run > goal
        BY <2>1 DEF SeedHolds
      <3>1. PICK r \in Run : IsNextRun(r) /\ recreate'.run = r
        BY <2>1
      <3> QED
        BY <3>1, FollowsSeed
    <2>2. CASE RecreateEmail \/ RecreateFail
      BY <2>2 DEF TypeOK, SeedHolds, NoRecreate
    <2> QED
      BY <2>1, <2>2
  <1> QED
    BY <1>1, <1>2, <1>3, <1>4, <1>5, <1>6, RowsUntouched

LEMMA SkipAndSeedKeep ==
  ASSUME CommandsInv,
         \/ \E p \in Payload, flag \in Flags : SkipRead(p, flag)
         \/ \E n \in MailId : SeedStart(n)
         \/ SeedFail
  PROVE  CommandsInv'
  <1> USE DEF CommandsInv, IsValid, IsPartial
  <1> USE DEF SkipRead, SeedStart, SeedFail, Start, CutShort, rowVars, history, dbVars
  <1>1. TypeOK'
    <2>1. starts' \in 0..MaxCommands /\ failures' \in 0..MaxFailures
      BY MaxCommandsAssumption, MaxFailuresAssumption DEF TypeOK
    <2>2. skip' \in [step : {"idle", "save"}, item : {0} \cup Payload, flag : BOOLEAN]
      BY FlagsAssumption DEF TypeOK
    <2>3. seed' \in [step : {"idle", "mail", "data"}, next : {0} \cup Run, last : {0} \cup Run]
      BY MaxMailAssumption DEF TypeOK, NoSeed, MailId, Run
    <2> QED
      BY <2>1, <2>2, <2>3 DEF TypeOK, DbTypeOK
  <1>2. RowsFit'
    BY DEF RowsFit, Taken
  <1>3. RecreateInHand'
    BY DEF RecreateInHand, FileOf, Recorded
  <1>4. OthersInHand'
    BY MaxMailAssumption DEF OthersInHand, Recorded, Queued, NoSeed, MailId
  <1>5. OnlyRemaindersShared'
    BY MaxFailuresAssumption DEF TypeOK, OnlyRemaindersShared, Remainder
  <1>6. SeedHolds'
    <2>1. goal > 0 => Recorded # {}
      BY DEF TypeOK, SeedHolds, Recorded
    <2> QED
      BY <2>1 DEF SeedHolds, NoSeed
  <1> QED
    BY <1>1, <1>2, <1>3, <1>4, <1>5, <1>6, RowsUntouched

(* The next Mail is after all that are taken. *)
LEMMA NextMailIsNext ==
  ASSUME RowsFit, NEW m \in MailId, NextMail(m)
  PROVE  /\ \A n \in MailId : Taken(n) => n < m
         /\ mailStatus[m] = "none" /\ sending.mail # m
         /\ ldRun[m] = 0 /\ ldItems[m] = {} /\ m \notin sentAt /\ m \notin fake
  BY MaxMailAssumption DEF RowsFit, NextMail, Taken, MailId

LEMMA SendReadsKeeps ==
  ASSUME CommandsInv, NEW m \in MailId, SendReads(m)
  PROVE  CommandsInv'
  <1> USE DEF CommandsInv, IsValid, IsPartial
  <1> USE DEF SendReads, rowVars, history, countVars, dbVars
  <1>1. PICK r \in Run : IsNextRun(r) /\ sending' = [mail |-> m, run |-> r, items |-> Queued]
    OBVIOUS
  <1>2. TypeOK'
    BY <1>1 DEF TypeOK, DbTypeOK, Queued
  <1>3. RowsFit'
    <2>1. \A n \in MailId : Taken(n)' <=> Taken(n) \/ n = m
      BY <1>1, MaxMailAssumption DEF Taken, NotSending, MailId
    <2> QED
      BY <1>1, <2>1 DEF RowsFit, NextMail
  <1>4. RecreateInHand'
    BY DEF RecreateInHand, FileOf, Recorded
  <1>5. OthersInHand'
    BY <1>1, MaxMailAssumption, NextMailIsNext DEF OthersInHand, Recorded, Queued, Run
  <1>6. OnlyRemaindersShared'
    BY DEF OnlyRemaindersShared, Remainder
  <1>7. SeedHolds'
    BY <1>1, FollowsSeed DEF SeedHolds
  <1> QED
    BY <1>2, <1>3, <1>4, <1>5, <1>6, <1>7, RowsUntouched

-----------------------------------------------------------------------------
(* The steps that write rows: the commands. *)

LEMMA ResendSaveKeeps ==
  ASSUME CommandsInv, ResendSave
  PROVE  CommandsInv'
  <1> USE DEF CommandsInv, IsValid, IsPartial
  <1> USE DEF ResendSave, countVars
  <1> DEFINE m == resend.mail
  <1>1. m \in sentAt /\ m \in Recorded /\ m \in MailId /\ m \notin fake
        /\ mailStatus[m] \notin {"none", "pending"}
    BY DEF OthersInHand, RowsFit, TypeOK
  <1>2. /\ \A n \in MailId : mailStatus'[n] = IF n = m THEN "reply_pending" ELSE mailStatus[n]
        /\ \A n \in MailId : answer'[n] = IF n = m THEN NoAnswer ELSE answer[n]
        /\ sentAt' = sentAt /\ resend'.step = "idle"
    BY <1>1 DEF TypeOK, DbTypeOK, NoResend
  <1>3. TypeOK'
    BY <1>1, <1>2 DEF TypeOK, DbTypeOK, MailStatus, NoResend
  <1>4. RowsFit'
    BY <1>1, <1>2 DEF RowsFit, Taken
  <1>5. RecreateInHand'
    BY <1>1, <1>2 DEF RecreateInHand, FileOf, Recorded
  <1>6. OthersInHand'
    BY <1>1, <1>2 DEF OthersInHand, Recorded, Queued
  <1>7. AwaitingMeansMailed' /\ ArchivedIsResent'
    BY <1>1, <1>2 DEF AwaitingMeansMailed, ArchivedIsResent, FileOf
  <1>8. NothingUndone'
    BY <1>1, <1>2 DEF NothingUndone, Queued
  <1>9. SettledOrShown'
    BY <1>1, <1>2 DEF SettledOrShown, IsSettled, IsShown, Flagged
  <1>10. OnlyRemaindersShared'
    <2>1. CASE mailStatus[m] # "reply_pending"
      BY <1>1, <2>1 DEF OnlyRemaindersShared
    <2>2. CASE mailStatus[m] = "reply_pending"
      <3>1. \A n \in MailId : mailStatus'[n] = mailStatus[n] /\ answer'[n] = answer[n]
        BY <1>1, <1>2, <2>2 DEF NothingUndone
      <3>2. recreate.step # "idle" => recreate.old \in MailId
        BY DEF RecreateInHand, TypeOK
      <3> QED
        BY <2>2, <3>1, <3>2 DEF OnlyRemaindersShared, Remainder
    <2> QED
      BY <2>1, <2>2
  <1>11. SeedHolds' /\ SeedFixesTheRun'
    BY DEF SeedHolds, SeedFixesTheRun, Recorded
  <1> QED
    BY <1>3, <1>4, <1>5, <1>6, <1>7, <1>8, <1>9, <1>10, <1>11

(* A Mail that nobody has used yet: of recreate, or of the seeding. *)
LEMMA RecreateMailKeeps ==
  ASSUME CommandsInv, RecreateMail
  PROVE  CommandsInv'
  <1> USE DEF CommandsInv, IsValid, IsPartial
  <1> USE DEF RecreateMail, countVars, rowVars, history
  <1>1. PICK m \in MailId : /\ NextMail(m)
                            /\ mailStatus' = [mailStatus EXCEPT ![m] = "pending"]
                            /\ recreate' = [recreate EXCEPT !.step = "data", !.new = m]
    OBVIOUS
  <1>2. /\ \A n \in MailId : Taken(n) => n < m
        /\ mailStatus[m] = "none" /\ sending.mail # m
        /\ ldRun[m] = 0 /\ ldItems[m] = {} /\ m \notin sentAt /\ m \notin fake
    BY <1>1, NextMailIsNext
  <1>3. /\ \A n \in MailId : mailStatus'[n] = IF n = m THEN "pending" ELSE mailStatus[n]
        /\ recreate'.step = "data" /\ recreate'.new = m
        /\ recreate'.old = recreate.old /\ recreate'.reply = recreate.reply
        /\ recreate'.run = recreate.run /\ recreate'.items = recreate.items
    BY <1>1 DEF TypeOK, DbTypeOK
  <1>4. TypeOK'
    <2>1. recreate' \in [step : {"idle", "mail", "data", "links", "email", "save", "archive"},
                         old : {0} \cup MailId, reply : {NoAnswer} \cup Reply,
                         new : {0} \cup MailId, run : {0} \cup Run, items : SUBSET Payload]
      BY <1>1 DEF TypeOK
    <2> QED
      BY <1>1, <2>1 DEF TypeOK, DbTypeOK, MailStatus
  <1>5. RowsFit'
    <2>1. \A n \in MailId : Taken(n)' <=> Taken(n) \/ n = m
      BY <1>3 DEF Taken
    <2> QED
      BY <1>1, <1>2, <1>3, <2>1 DEF RowsFit, NextMail, NothingUndone
  <1>6. RecreateInHand'
    <2>1. recreate.old < m
      BY <1>2 DEF RecreateInHand, RowsFit, Taken, TypeOK
    <2> QED
      BY <1>2, <1>3, <2>1 DEF RecreateInHand, Recorded
  <1>7. OthersInHand'
    BY <1>2, <1>3 DEF OthersInHand, Recorded, Queued
  <1>8. AwaitingMeansMailed' /\ ArchivedIsResent'
    BY <1>2, <1>3 DEF AwaitingMeansMailed, ArchivedIsResent, FileOf
  <1>9. NothingUndone'
    BY <1>2, <1>3 DEF NothingUndone, Queued
  <1>10. SettledOrShown'
    BY <1>2, <1>3 DEF SettledOrShown, IsSettled, IsShown, Flagged
  <1>11. OnlyRemaindersShared'
    <2> SUFFICES ASSUME failures = 0, reopened = {} PROVE OnlyRemaindersShared'
      BY DEF OnlyRemaindersShared
    <2>1. recreate.old \in MailId /\ recreate.old # m
      BY <1>2 DEF RecreateInHand, RowsFit, TypeOK
    <2>2. \A k, n \in MailId : n # m => Remainder(k, n)' = Remainder(k, n)
      BY <1>2, <1>3, <2>1, MaxMailAssumption DEF Remainder, RecreateInHand, MailId
    <2>3. \A k, n \in MailId : k < n /\ n # m =>
             ldItems[k] \cap ldItems[n] \subseteq requeued \cup Remainder(k, n)'
      BY <2>2 DEF OnlyRemaindersShared
    <2> QED
      BY <1>2, <1>3, <2>1, <2>3 DEF OnlyRemaindersShared
  <1>12. SeedHolds' /\ SeedFixesTheRun'
    BY <1>3 DEF SeedHolds, SeedFixesTheRun, Recorded
  <1> QED
    BY <1>4, <1>5, <1>6, <1>7, <1>8, <1>9, <1>10, <1>11, <1>12

(* The row of the new Mail, and the links to its payloads. *)
LEMMA RecreateDataKeeps ==
  ASSUME CommandsInv, RecreateData
  PROVE  CommandsInv'
  <1> USE DEF CommandsInv, IsValid, IsPartial
  <1> USE DEF RecreateData, countVars, rowVars, history
  <1> DEFINE m == recreate.new
  <1>1. /\ m \in MailId /\ m > recreate.old /\ m \notin fake
        /\ mailStatus[m] = "pending" /\ ldItems[m] = {} /\ m \notin sentAt
        /\ recreate.run \in Run /\ recreate.run # 0
        /\ recreate.old # m
    BY DEF RecreateInHand, RowsFit, TypeOK
  <1>2. /\ \A n \in MailId : ldRun'[n] = IF n = m THEN recreate.run ELSE ldRun[n]
        /\ recreate' = [recreate EXCEPT !.step = "links"]
        /\ recreate'.step = "links" /\ recreate'.new = m
        /\ recreate'.old = recreate.old /\ recreate'.reply = recreate.reply
        /\ recreate'.run = recreate.run /\ recreate'.items = recreate.items
        /\ UNCHANGED <<payload, mailStatus, ldItems>>
    BY DEF TypeOK, DbTypeOK
  <1>3. TypeOK'
    BY <1>1, <1>2 DEF TypeOK, DbTypeOK
  <1>4. RowsFit'
    BY <1>1, <1>2 DEF RowsFit, Taken
  <1>5. Recorded' = Recorded \cup {m}
    BY <1>1, <1>2 DEF Recorded
  <1>6. RecreateInHand' /\ OthersInHand'
    BY <1>1, <1>2, <1>5 DEF RecreateInHand, OthersInHand, Queued
  <1>7. AwaitingMeansMailed'
    BY <1>1, <1>2 DEF AwaitingMeansMailed, FileOf
  <1>8. ArchivedIsResent'
    <2> SUFFICES ASSUME NEW k \in MailId \ fake, mailStatus[k] = "reply_processed", IsPartial(k)
                 PROVE  \E n \in MailId : /\ n > k /\ ldItems[k] \ answer[k].refs \subseteq ldItems[n]
                                          /\ FileOf(n)' \in outbox
      BY <1>2 DEF ArchivedIsResent
    <2>1. PICK n \in MailId : /\ n > k /\ ldItems[k] \ answer[k].refs \subseteq ldItems[n]
                              /\ FileOf(n) \in outbox
      BY DEF ArchivedIsResent
    <2>2. n # m
      BY <1>1, <2>1 DEF RowsFit
    <2> QED
      BY <1>2, <2>1, <2>2 DEF FileOf
  <1>9. NothingUndone' /\ SettledOrShown'
    BY <1>2 DEF NothingUndone, Queued, SettledOrShown, IsSettled, IsShown, Flagged
  <1>10. OnlyRemaindersShared'
    BY <1>1, <1>2 DEF OnlyRemaindersShared, Remainder
  <1>11. SeedHolds' /\ SeedFixesTheRun'
    BY <1>1, <1>2, <1>5 DEF SeedHolds, SeedFixesTheRun, TypeOK
  <1> QED
    BY <1>3, <1>4, <1>6, <1>7, <1>8, <1>9, <1>10, <1>11

LEMMA RecreateLinksKeeps ==
  ASSUME CommandsInv, RecreateLinks
  PROVE  CommandsInv'
  <1> USE DEF CommandsInv, IsValid, IsPartial
  <1> USE DEF RecreateLinks, LinkThen, countVars, rowVars, history
  <1> DEFINE m == recreate.new
             old == recreate.old
             items == recreate.items
  <1>1. /\ m \in MailId /\ m > old /\ m \notin fake
        /\ mailStatus[m] = "pending" /\ ldItems[m] = {} /\ m \notin sentAt
        /\ old \in MailId /\ old # m /\ items \subseteq ldItems[old]
        /\ items = ldItems[old] \ recreate.reply.refs
    BY DEF RecreateInHand, RowsFit, TypeOK
  <1>2. /\ \A n \in MailId : ldItems'[n] = IF n = m THEN items ELSE ldItems[n]
        /\ recreate'.step = "email" /\ recreate'.new = m
        /\ recreate'.old = old /\ recreate'.reply = recreate.reply
        /\ recreate'.run = recreate.run /\ recreate'.items = items
        /\ UNCHANGED <<payload, mailStatus, ldRun>>
    BY DEF TypeOK, DbTypeOK
  <1>3. TypeOK'
    <2>1. recreate' \in [step : {"idle", "mail", "data", "links", "email", "save", "archive"},
                         old : {0} \cup MailId, reply : {NoAnswer} \cup Reply,
                         new : {0} \cup MailId, run : {0} \cup Run, items : SUBSET Payload]
      BY DEF TypeOK
    <2>2. items \in SUBSET Payload
      BY DEF TypeOK
    <2>3. ldItems' \in [MailId -> SUBSET Payload]
      BY <2>2 DEF TypeOK, DbTypeOK
    <2> QED
      BY <2>1, <2>3 DEF TypeOK, DbTypeOK
  <1>4. answer[m] = NoAnswer
    BY <1>1 DEF NothingUndone
  <1>5. RowsFit'
    BY <1>1, <1>2, <1>4 DEF RowsFit, Taken
  <1>6. RecreateInHand'
    BY <1>1, <1>2 DEF RecreateInHand, Recorded
  <1>7. OthersInHand'
    BY <1>1, <1>2 DEF OthersInHand, Recorded, Queued
  <1>8. AwaitingMeansMailed'
    BY <1>1, <1>2 DEF AwaitingMeansMailed, FileOf
  <1>9. ArchivedIsResent'
    <2> SUFFICES ASSUME NEW k \in MailId \ fake, mailStatus[k] = "reply_processed", IsPartial(k)'
                 PROVE  \E n \in MailId : /\ n > k /\ ldItems'[k] \ answer[k].refs \subseteq ldItems'[n]
                                          /\ FileOf(n)' \in outbox
      BY <1>2 DEF ArchivedIsResent
    <2>1. k # m /\ ldItems'[k] = ldItems[k] /\ IsPartial(k)
      BY <1>1, <1>2 DEF RowsFit
    <2>2. PICK n \in MailId : /\ n > k /\ ldItems[k] \ answer[k].refs \subseteq ldItems[n]
                              /\ FileOf(n) \in outbox
      BY <2>1 DEF ArchivedIsResent
    <2>3. n # m
      BY <1>1, <2>1, <2>2 DEF RowsFit
    <2> QED
      BY <1>2, <2>1, <2>2, <2>3 DEF FileOf
  <1>10. NothingUndone'
    BY <1>1, <1>2 DEF NothingUndone, Queued
  <1>11. SettledOrShown'
    <2>1. \A p : IsSettled(p) => IsSettled(p)'
      BY <1>2, <1>4 DEF IsSettled
    <2>2. \A p : IsShown(p) => IsShown(p)'
      BY <1>1, <1>2 DEF IsShown, Flagged
    <2> QED
      BY <1>1, <1>2, <2>1, <2>2 DEF SettledOrShown
  <1>12. OnlyRemaindersShared'
    <2> SUFFICES ASSUME failures = 0, reopened = {}, NEW k \in MailId, NEW n \in MailId, k < n
                 PROVE  ldItems'[k] \cap ldItems'[n] \subseteq requeued \cup Remainder(k, n)'
      BY <1>1, <1>2 DEF OnlyRemaindersShared
    <2>1. mailStatus[old] = "reply_partially_processed" /\ answer[old] = recreate.reply
      BY DEF OnlyRemaindersShared
    <2>2. \A i, j \in MailId : i < j =>
             ldItems[i] \cap ldItems[j] \subseteq requeued \cup Remainder(i, j)
      BY DEF OnlyRemaindersShared
    <2>3. CASE k # m /\ n # m
      BY <1>2, <2>2, <2>3 DEF Remainder
    <2>4. CASE k = m
      <3>1. old < n /\ n # m
        BY <1>1, <2>4, MaxMailAssumption DEF MailId
      <3>2. ldItems[old] \cap ldItems[n] \subseteq requeued
        BY <1>1, <2>1, <2>2, <3>1 DEF Remainder
      <3> QED
        BY <1>1, <1>2, <2>4, <3>1, <3>2
    <2>5. CASE n = m /\ k = old
      <3>1. Remainder(k, n)' = items
        BY <1>1, <1>2, <2>1, <2>5 DEF Remainder
      <3> QED
        BY <1>1, <1>2, <2>5, <3>1
    <2>6. CASE n = m /\ k < old
      <3>1. ldItems[k] \cap ldItems[old] \subseteq requeued \cup Remainder(k, old)
        BY <1>1, <2>2, <2>6
      <3>2. Remainder(k, old) \subseteq Remainder(k, n)' /\ k # m
        BY <1>1, <1>2, <2>6, MaxMailAssumption DEF Remainder, MailId
      <3> QED
        BY <1>1, <1>2, <2>6, <3>1, <3>2
    <2>7. CASE n = m /\ k > old
      <3>1. ldItems[old] \cap ldItems[k] \subseteq requeued /\ k # m
        BY <1>1, <2>1, <2>2, <2>7, MaxMailAssumption DEF Remainder, MailId
      <3> QED
        BY <1>1, <1>2, <2>7, <3>1
    <2> QED
      BY <1>1, <2>3, <2>4, <2>5, <2>6, <2>7, MaxMailAssumption DEF MailId
  <1>13. SeedHolds' /\ SeedFixesTheRun'
    BY <1>2 DEF SeedHolds, SeedFixesTheRun, Recorded
  <1> QED
    BY <1>3, <1>5, <1>6, <1>7, <1>8, <1>9, <1>10, <1>11, <1>12, <1>13

(* The new Mail awaits its reply. *)
LEMMA RecreateSaveKeeps ==
  ASSUME CommandsInv, RecreateSave
  PROVE  CommandsInv'
  <1> USE DEF CommandsInv, IsValid, IsPartial
  <1> USE DEF RecreateSave, SaveWith, countVars, history
  <1> DEFINE m == recreate.new
  <1>1. /\ m \in MailId /\ m # recreate.old /\ m \notin fake
        /\ mailStatus[m] = "pending" /\ FileOf(m) \in outbox /\ answer[m] = NoAnswer
        /\ ldItems[m] # {}
    BY DEF RecreateInHand, RowsFit, NothingUndone, TypeOK
  <1>2. /\ \A n \in MailId : mailStatus'[n] = IF n = m THEN "reply_pending" ELSE mailStatus[n]
        /\ recreate'.step = "archive" /\ recreate'.new = m
        /\ recreate'.old = recreate.old /\ recreate'.reply = recreate.reply
        /\ recreate'.run = recreate.run /\ recreate'.items = recreate.items
        /\ sentAt' = sentAt \cup {m}
        /\ UNCHANGED <<payload, ldRun, ldItems, answer>>
    BY <1>1 DEF TypeOK, DbTypeOK
  <1>3. TypeOK'
    <2>1. recreate' \in [step : {"idle", "mail", "data", "links", "email", "save", "archive"},
                         old : {0} \cup MailId, reply : {NoAnswer} \cup Reply,
                         new : {0} \cup MailId, run : {0} \cup Run, items : SUBSET Payload]
      BY DEF TypeOK
    <2> QED
      BY <1>1, <1>2, <2>1 DEF TypeOK, DbTypeOK, MailStatus
  <1>4. RowsFit'
    BY <1>1, <1>2 DEF RowsFit, Taken
  <1>5. RecreateInHand'
    BY <1>1, <1>2 DEF RecreateInHand, FileOf, Recorded
  <1>6. OthersInHand'
    BY <1>1, <1>2 DEF OthersInHand, Recorded, Queued
  <1>7. AwaitingMeansMailed' /\ ArchivedIsResent'
    <2>1. AwaitingMeansMailed'
      BY <1>1, <1>2 DEF AwaitingMeansMailed, FileOf
    <2>2. ArchivedIsResent'
      BY <1>1, <1>2 DEF ArchivedIsResent, FileOf
    <2> QED
      BY <2>1, <2>2
  <1>8. NothingUndone' /\ SettledOrShown'
    BY <1>1, <1>2 DEF NothingUndone, Queued, SettledOrShown, IsSettled, IsShown, Flagged
  <1>9. OnlyRemaindersShared'
    BY <1>1, <1>2 DEF OnlyRemaindersShared, Remainder
  <1>10. SeedHolds' /\ SeedFixesTheRun'
    BY <1>2 DEF SeedHolds, SeedFixesTheRun, Recorded
  <1> QED
    BY <1>3, <1>4, <1>5, <1>6, <1>7, <1>8, <1>9, <1>10

(* The original Mail is closed; the new one carries what it leaves open. *)
LEMMA RecreateArchiveKeeps ==
  ASSUME CommandsInv, RecreateArchive
  PROVE  CommandsInv'
  <1> USE DEF CommandsInv, IsValid, IsPartial
  <1> USE DEF RecreateArchive, countVars, history
  <1> DEFINE m == recreate.old
             new == recreate.new
  <1>1. /\ m \in MailId /\ m \notin fake /\ m \in sentAt
        /\ recreate.reply.refs \subseteq ldItems[m] /\ recreate.reply \in Reply
        /\ recreate.reply.outcome = "partial" /\ ldItems[new] # {}
        /\ new \in MailId /\ new > m /\ new # m /\ FileOf(new) \in outbox /\ new \in sentAt
        /\ ldItems[new] = ldItems[m] \ recreate.reply.refs
        /\ mailStatus[new] = "reply_processed" => IsValid(new)
    BY MaxMailAssumption DEF RecreateInHand, TypeOK, MailId
  <1>2. mailStatus[m] \notin {"none", "pending"} /\ mailStatus[new] \notin {"none", "pending"}
    BY <1>1 DEF RowsFit
  <1>3. /\ \A n \in MailId : mailStatus'[n] = IF n = m THEN "reply_processed" ELSE mailStatus[n]
        /\ \A n \in MailId : answer'[n] = IF n = m THEN recreate.reply ELSE answer[n]
        /\ recreate.reply # NoAnswer
        /\ recreate'.step = "idle" /\ recreate' = NoRecreate
        /\ UNCHANGED <<payload, ldRun, ldItems, sentAt, outbox>>
    BY <1>1, NoAnswerAssumption DEF TypeOK, DbTypeOK, NoRecreate
  <1>4. TypeOK'
    <2>1. recreate' \in [step : {"idle", "mail", "data", "links", "email", "save", "archive"},
                         old : {0} \cup MailId, reply : {NoAnswer} \cup Reply,
                         new : {0} \cup MailId, run : {0} \cup Run, items : SUBSET Payload]
      BY DEF NoRecreate
    <2>2. answer' \in [MailId -> {NoAnswer} \cup Reply]
      BY <1>1 DEF TypeOK
    <2> QED
      BY <2>1, <2>2 DEF TypeOK, DbTypeOK, MailStatus
  <1>5. RowsFit'
    BY <1>1, <1>2, <1>3 DEF RowsFit, Taken
  <1>6. RecreateInHand'
    BY <1>3 DEF RecreateInHand
  <1>7. OthersInHand'
    BY <1>1, <1>2, <1>3 DEF OthersInHand, Recorded, Queued
  <1>8. AwaitingMeansMailed'
    BY <1>1, <1>2, <1>3 DEF AwaitingMeansMailed, FileOf
  <1>9. ArchivedIsResent'
    <2>1. ldItems[m] \ recreate.reply.refs \subseteq ldItems[new]
      BY <1>1
    <2>2. \A n \in MailId : FileOf(n)' = FileOf(n)
      BY <1>3 DEF FileOf
    <2> QED
      BY <1>1, <1>3, <2>1, <2>2 DEF ArchivedIsResent
  <1>10. NothingUndone'
    BY <1>1, <1>2, <1>3 DEF NothingUndone, Queued
  <1>11. SettledOrShown'
    <2>1. ASSUME NEW p \in ldItems[m] PROVE IsSettled(p)' \/ IsShown(p)'
      <3>1. CASE p \in recreate.reply.refs
        BY <1>1, <1>3, <2>1, <3>1 DEF IsSettled
      <3>2. CASE p \in ldItems[new] /\ mailStatus[new] = "reply_processed"
        BY <1>1, <1>3, <2>1, <3>2 DEF IsSettled, NothingUndone
      <3>3. CASE p \in ldItems[new] /\ mailStatus[new] # "reply_processed"
        BY <1>1, <1>2, <1>3, <2>1, <3>3 DEF IsShown, Flagged
      <3> QED
        BY <1>1, <2>1, <3>1, <3>2, <3>3
    <2>2. ASSUME NEW p, p \notin ldItems[m]
          PROVE  /\ IsSettled(p) => IsSettled(p)'
                 /\ IsShown(p) => IsShown(p)'
      BY <1>1, <1>3, <2>2 DEF IsSettled, IsShown, Flagged
    <2> QED
      BY <1>3, <2>1, <2>2 DEF SettledOrShown
  <1>12. OnlyRemaindersShared'
    <2> SUFFICES ASSUME failures = 0, reopened = {} PROVE OnlyRemaindersShared'
      BY DEF OnlyRemaindersShared
    <2>1. answer[m] = recreate.reply
      BY <1>3 DEF OnlyRemaindersShared
    <2>2. \A k, n \in MailId : Remainder(k, n) \subseteq Remainder(k, n)'
      BY <1>1, <1>3, <2>1 DEF Remainder
    <2> QED
      BY <1>3, <2>2 DEF OnlyRemaindersShared
  <1>13. SeedHolds' /\ SeedFixesTheRun'
    BY <1>3 DEF SeedHolds, SeedFixesTheRun, Recorded
  <1> QED
    BY <1>4, <1>5, <1>6, <1>7, <1>8, <1>9, <1>10, <1>11, <1>12, <1>13

(* The stale save of set_skip_flag_on_payload. *)
LEMMA SkipSaveKeeps ==
  ASSUME CommandsInv, SkipSave
  PROVE  CommandsInv'
  <1> USE DEF CommandsInv, IsValid, IsPartial
  <1> USE DEF SkipSave, countVars, mailVars
  <1> DEFINE i == skip.item
  <1>1. i \in Payload /\ payload[i] \in {"queued", "processed"}
    BY DEF OthersInHand, TypeOK, DbTypeOK, PayloadState
  <1>2. /\ \A p \in Payload : payload'[p] = IF p = i THEN "queued" ELSE payload[p]
        /\ requeued' = requeued \cup ({i} \cap Processed)
        /\ skip'.step = "idle"
        /\ UNCHANGED <<mailStatus, ldRun, ldItems>>
    BY <1>1 DEF TypeOK, DbTypeOK, NoSkip
  <1>3. Queued' = Queued \cup {i}
    BY <1>1, <1>2 DEF Queued
  <1>4. TypeOK'
    BY <1>1 DEF TypeOK, DbTypeOK, PayloadState, NoSkip, Processed
  <1>5. RowsFit' /\ RecreateInHand' /\ OthersInHand'
    BY <1>1, <1>2, <1>3
       DEF TypeOK, DbTypeOK, RowsFit, Taken, RecreateInHand, OthersInHand, FileOf, Recorded
  <1>6. AwaitingMeansMailed' /\ ArchivedIsResent' /\ SettledOrShown'
    BY <1>2 DEF AwaitingMeansMailed, ArchivedIsResent, FileOf, SettledOrShown,
                IsSettled, IsShown, Flagged
  <1>7. NothingUndone'
    BY <1>1, <1>2, <1>3 DEF NothingUndone, Queued, Processed
  <1>8. OnlyRemaindersShared'
    BY <1>2 DEF OnlyRemaindersShared, Remainder
  <1>9. SeedHolds' /\ SeedFixesTheRun'
    BY <1>2 DEF SeedHolds, SeedFixesTheRun, Recorded
  <1> QED
    BY <1>4, <1>5, <1>6, <1>7, <1>8, <1>9

(* What the seeding stores as a reply is one that is never passed on. *)
LEMMA NonsenseIsAReply ==
  /\ Nonsense \in Reply /\ Nonsense # NoAnswer
  /\ Nonsense.refs = {} /\ Nonsense.outcome = "other"
  <1>1. Nonsense \in Reply
    BY DEF Nonsense, Reply
  <1> QED
    BY <1>1, NoAnswerAssumption DEF Nonsense

(* The seeding makes a Mail, then its row. *)
LEMMA SeedMailKeeps ==
  ASSUME CommandsInv, SeedMail
  PROVE  CommandsInv'
  <1> USE DEF CommandsInv, IsValid, IsPartial
  <1> USE DEF SeedMail, countVars
  <1>1. PICK m \in MailId : /\ NextMail(m)
                            /\ mailStatus' = [mailStatus EXCEPT ![m] = "reply_processed"]
                            /\ answer' = [answer EXCEPT ![m] = Nonsense]
                            /\ sentAt' = sentAt \cup {m} /\ fake' = fake \cup {m}
    OBVIOUS
  <1>2. /\ \A n \in MailId : Taken(n) => n < m
        /\ mailStatus[m] = "none" /\ sending.mail # m
        /\ ldRun[m] = 0 /\ ldItems[m] = {} /\ m \notin sentAt /\ m \notin fake
    BY <1>1, NextMailIsNext
  <1>3. /\ \A n \in MailId : mailStatus'[n] = IF n = m THEN "reply_processed" ELSE mailStatus[n]
        /\ \A n \in MailId : answer'[n] = IF n = m THEN Nonsense ELSE answer[n]
        /\ seed'.step = "data" /\ seed'.next = seed.next /\ seed'.last = seed.last
        /\ Nonsense \in Reply /\ Nonsense # NoAnswer
        /\ Nonsense.refs = {} /\ Nonsense.outcome = "other"
        /\ UNCHANGED <<payload, ldRun, ldItems, outbox, recreate, sending, goal>>
    BY <1>1, NonsenseIsAReply DEF TypeOK, DbTypeOK
  <1>4. TypeOK'
    BY <1>1, <1>3 DEF TypeOK, DbTypeOK, MailStatus
  <1>5. RowsFit'
    <2>1. \A n \in MailId : Taken(n)' <=> Taken(n) \/ n = m
      BY <1>3 DEF Taken
    <2>2. ~ IsPartial(m)' /\ \A n \in MailId \ {m} : IsPartial(n)' <=> IsPartial(n)
      BY <1>3
    <2>3. answer'[m].refs \subseteq ldItems'[m]
          /\ \A n \in MailId \ {m} : answer'[n] = answer[n]
      BY <1>1, <1>3
    <2> HIDE DEF IsPartial, IsValid
    <2> QED
      BY <1>1, <1>2, <1>3, <2>1, <2>2, <2>3 DEF RowsFit, NextMail
  <1>6. RecreateInHand'
    <2>1. recreate.step # "idle" => recreate.old # m
      BY <1>2 DEF RecreateInHand
    <2>2. recreate.step \notin {"idle", "mail"} => recreate.new \in MailId /\ recreate.new # m
      BY <1>2 DEF RecreateInHand, TypeOK
    <2>3. recreate.step # "idle" => recreate.old \in (sentAt' \cap Recorded') \ fake'
      BY <1>1, <1>3, <2>1 DEF RecreateInHand, Recorded
    <2> QED
      BY <1>1, <1>3, <2>2, <2>3 DEF RecreateInHand, FileOf
  <1>7. OthersInHand'
    BY <1>1, <1>2, <1>3 DEF OthersInHand, Recorded, Queued
  <1>8. AwaitingMeansMailed' /\ ArchivedIsResent'
    BY <1>1, <1>2, <1>3 DEF AwaitingMeansMailed, ArchivedIsResent, FileOf
  <1>9. NothingUndone' /\ SettledOrShown'
    BY <1>1, <1>2, <1>3 DEF NothingUndone, Queued, SettledOrShown, IsSettled, IsShown, Flagged
  <1>10. OnlyRemaindersShared'
    BY <1>2, <1>3 DEF OnlyRemaindersShared, Remainder, RecreateInHand, RowsFit
  <1>11. SeedHolds' /\ SeedFixesTheRun'
    BY <1>1, <1>3 DEF SeedHolds, SeedFixesTheRun, Recorded, TypeOK
  <1> QED
    BY <1>4, <1>5, <1>6, <1>7, <1>8, <1>9, <1>10, <1>11

LEMMA SeedDataKeeps ==
  ASSUME CommandsInv, SeedData
  PROVE  CommandsInv'
  <1> USE DEF CommandsInv, IsValid, IsPartial
  <1> USE DEF SeedData, SeedRow, countVars, rowVars
  <1> DEFINE r == seed.next
  <1>1. PICK m \in fake : (\A n \in fake : n <= m) /\ ldRun' = [ldRun EXCEPT ![m] = r]
    OBVIOUS
  <1>2. /\ m \in MailId /\ mailStatus[m] = "reply_processed" /\ ldItems[m] = {}
        /\ r \in Run /\ r # 0 /\ seed.last \in MailId /\ r \in 1..seed.last
        /\ seed.last \in Nat \ {0} /\ seed.last \in Run
    BY <1>1, MaxMailAssumption DEF OthersInHand, RowsFit, TypeOK, MailId, Run
  <1>3. /\ \A n \in MailId : ldRun'[n] = IF n = m THEN r ELSE ldRun[n]
        /\ UNCHANGED <<payload, mailStatus, ldItems, answer, sentAt, outbox, fake>>
    BY <1>1 DEF TypeOK, DbTypeOK
  <1>4. Recorded' = Recorded \cup {m}
    BY <1>2, <1>3 DEF Recorded
  <1>5. TypeOK'
    <2>1. ldRun' \in [MailId -> {0} \cup Run]
      BY <1>1, <1>2 DEF TypeOK, DbTypeOK
    <2>2. seed' \in [step : {"idle", "mail", "data"}, next : {0} \cup Run, last : {0} \cup Run]
      <3>1. r # seed.last => r + 1 \in Run
        BY <1>2, MaxMailAssumption DEF MailId, Run
      <3> QED
        BY <3>1 DEF TypeOK, NoSeed
    <2>3. goal' \in {0} \cup Run
      BY <1>2 DEF TypeOK
    <2> QED
      BY <2>1, <2>2, <2>3 DEF TypeOK, DbTypeOK
  <1>6. RowsFit'
    BY <1>2, <1>3 DEF RowsFit, Taken
  <1>7. RecreateInHand'
    BY <1>2, <1>3, <1>4 DEF RecreateInHand, FileOf
  <1>8. OthersInHand'
    <2>1. seed'.step # "idle" =>
            seed'.last = seed.last /\ seed'.next = r + 1 /\ r # seed.last
      BY DEF NoSeed, TypeOK
    <2>2. seed'.step # "idle" => seed'.last \in MailId /\ seed'.next \in 1..seed'.last
      BY <1>2, <2>1
    <2> QED
      BY <1>3, <1>4, <2>2 DEF OthersInHand, Queued
  <1>9. AwaitingMeansMailed'
    BY <1>1, <1>3 DEF AwaitingMeansMailed, FileOf
  <1>10. ArchivedIsResent'
    <2> SUFFICES ASSUME NEW k \in MailId \ fake, mailStatus[k] = "reply_processed", IsPartial(k)
                 PROVE  \E n \in MailId : /\ n > k /\ ldItems[k] \ answer[k].refs \subseteq ldItems[n]
                                          /\ FileOf(n)' \in outbox
      BY <1>3 DEF ArchivedIsResent
    <2>1. PICK n \in MailId : /\ n > k /\ ldItems[k] \ answer[k].refs \subseteq ldItems[n]
                              /\ FileOf(n) \in outbox
      BY DEF ArchivedIsResent
    <2>2. n # m
      BY <1>2, <2>1 DEF RowsFit
    <2> QED
      BY <1>3, <2>1, <2>2 DEF FileOf
  <1>11. NothingUndone' /\ SettledOrShown'
    BY <1>3 DEF NothingUndone, Queued, SettledOrShown, IsSettled, IsShown, Flagged
  <1>12. OnlyRemaindersShared'
    BY <1>3 DEF OnlyRemaindersShared, Remainder
  <1>13. CASE r = seed.last /\ Recorded \subseteq fake /\ sending = NotSending
    <2>1. goal' = r /\ seed'.step = "idle" /\ UNCHANGED <<sending, recreate>>
      BY <1>13 DEF NoSeed
    <2>2. recreate.step = "idle"
      BY <1>13 DEF RecreateInHand
    <2>3. SeedHolds'
      BY <1>1, <1>2, <1>3, <1>13, <2>1, <2>2 DEF SeedHolds
    <2>4. SeedFixesTheRun'
      BY <1>1, <1>3, <1>4, <1>13 DEF SeedFixesTheRun
    <2> QED
      BY <1>5, <1>6, <1>7, <1>8, <1>9, <1>10, <1>11, <1>12, <2>3, <2>4
  <1>14. CASE ~ (r = seed.last /\ Recorded \subseteq fake /\ sending = NotSending)
    <2>1. goal' = goal /\ ~ (goal > 0)
      BY <1>14 DEF SeedHolds
    <2> QED
      BY <1>5, <1>6, <1>7, <1>8, <1>9, <1>10, <1>11, <1>12, <2>1 DEF SeedHolds, SeedFixesTheRun
  <1> QED
    BY <1>13, <1>14

-----------------------------------------------------------------------------
(* The steps that write rows: the tasks. *)

LEMMA ArriveKeeps ==
  ASSUME CommandsInv, NEW p \in Payload, Arrive(p)
  PROVE  CommandsInv'
  <1> USE DEF CommandsInv, IsValid, IsPartial
  <1> USE DEF Arrive, Ingest, cmdVars, rowVars, countVars, history, mailVars
  <1>1. /\ payload[p] = "absent"
        /\ \A q \in Payload : payload'[q] = IF q = p THEN "queued" ELSE payload[q]
    BY DEF TypeOK, DbTypeOK
  <1>2. Queued' = Queued \cup {p}
    BY <1>1 DEF Queued
  <1>3. \A m \in MailId : p \notin ldItems[m]
    BY <1>1 DEF RowsFit
  <1>4. TypeOK'
    BY DEF TypeOK, DbTypeOK, PayloadState
  <1>5. RowsFit' /\ RecreateInHand'
    BY <1>1 DEF TypeOK, DbTypeOK, RowsFit, Taken, RecreateInHand, FileOf, Recorded
  <1>6. OthersInHand'
    BY <1>1, <1>2 DEF TypeOK, OthersInHand, Recorded
  <1>7. AwaitingMeansMailed' /\ ArchivedIsResent' /\ SettledOrShown'
    BY DEF AwaitingMeansMailed, ArchivedIsResent, FileOf, SettledOrShown,
           IsSettled, IsShown, Flagged
  <1>8. NothingUndone'
    BY <1>2, <1>3 DEF NothingUndone
  <1>9. OnlyRemaindersShared' /\ SeedHolds' /\ SeedFixesTheRun'
    BY DEF OnlyRemaindersShared, Remainder, SeedHolds, SeedFixesTheRun, Recorded
  <1> QED
    BY <1>4, <1>5, <1>6, <1>7, <1>8, <1>9

LEMMA SendCommitsKeeps ==
  ASSUME CommandsInv, SendCommits
  PROVE  CommandsInv'
  <1> USE DEF CommandsInv, IsValid, IsPartial
  <1> USE DEF SendCommits, LeftQueue, countVars, history
  <1> DEFINE m == sending.mail
             items == sending.items
  <1>1. /\ m \in MailId /\ mailStatus[m] = "none" /\ items \subseteq Queued
        /\ sending.run \in Run /\ sending.run # 0
        /\ ldRun[m] = 0 /\ ldItems[m] = {} /\ m \notin fake /\ m \notin sentAt
        /\ answer[m] = NoAnswer /\ items # {}
    BY DEF OthersInHand, RowsFit, NothingUndone, TypeOK
  <1>2. /\ \A n \in MailId : mailStatus'[n] = IF n = m THEN "reply_pending" ELSE mailStatus[n]
        /\ \A n \in MailId : ldRun'[n] = IF n = m THEN sending.run ELSE ldRun[n]
        /\ \A n \in MailId : ldItems'[n] = IF n = m THEN items ELSE ldItems[n]
        /\ sentAt' = sentAt \cup {m} /\ sending' = NotSending
        /\ outbox' = outbox \cup {[run |-> sending.run, items |-> items]}
        /\ UNCHANGED <<answer, recreate, resend, skip, seed>>
    BY <1>1 DEF TypeOK, DbTypeOK
  <1>3. Queued' = {} /\ \A p \in Payload : payload[p] # "absent" <=> payload'[p] # "absent"
    BY DEF Queued, TypeOK, DbTypeOK
  <1>4. Recorded' = Recorded \cup {m}
    BY <1>1, <1>2 DEF Recorded
  <1>5. TypeOK'
    <2>1. DbTypeOK'
      BY <1>1 DEF TypeOK, DbTypeOK, MailStatus, PayloadState
    <2>2. sending' \in [mail : {0} \cup MailId, run : {0} \cup Run, items : SUBSET Payload]
      BY DEF NotSending
    <2>3. outbox' \subseteq File
      BY <1>1 DEF TypeOK, File
    <2> QED
      BY <1>1, <1>2, <2>1, <2>2, <2>3 DEF TypeOK
  <1>6. RowsFit'
    <2>1. \A n \in MailId : Taken(n)' <=> Taken(n)
      BY <1>1, <1>2, MaxMailAssumption DEF Taken, NotSending, MailId
    <2>2. \A p \in items : payload'[p] # "absent"
      BY <1>1, <1>3 DEF Queued
    <2>3. \A n \in MailId : \A p \in ldItems[n] : payload'[p] # "absent"
      BY <1>3 DEF RowsFit, TypeOK, DbTypeOK
    <2> QED
      BY <1>1, <1>2, <2>1, <2>2, <2>3 DEF RowsFit
  <1>7. RecreateInHand'
    BY <1>1, <1>2, <1>4 DEF RecreateInHand, FileOf, RowsFit
  <1>8. OthersInHand'
    BY <1>1, <1>2, <1>3, <1>4 DEF OthersInHand
  <1>9. AwaitingMeansMailed'
    BY <1>1, <1>2 DEF AwaitingMeansMailed, FileOf, OthersInHand
  <1>10. ArchivedIsResent'
    <2> SUFFICES ASSUME NEW k \in MailId \ fake, mailStatus[k] = "reply_processed", IsPartial(k)
                 PROVE  \E n \in MailId : /\ n > k /\ ldItems[k] \ answer[k].refs \subseteq ldItems'[n]
                                          /\ FileOf(n)' \in outbox'
      BY <1>1, <1>2 DEF ArchivedIsResent
    <2>1. PICK n \in MailId : /\ n > k /\ ldItems[k] \ answer[k].refs \subseteq ldItems[n]
                              /\ FileOf(n) \in outbox
      BY DEF ArchivedIsResent
    <2>2. n # m
      BY <1>1, <2>1 DEF RowsFit
    <2> QED
      BY <1>2, <2>1, <2>2 DEF FileOf
  <1>11. NothingUndone'
    BY <1>1, <1>2, <1>3 DEF NothingUndone
  <1>12. SettledOrShown'
    <2>1. \A p : IsSettled(p) => IsSettled(p)'
      BY <1>1, <1>2 DEF IsSettled
    <2>2. \A p : IsShown(p) => IsShown(p)'
      BY <1>1, <1>2 DEF IsShown, Flagged
    <2>3. \A p \in items : IsShown(p)'
      BY <1>1, <1>2 DEF IsShown, Flagged
    <2> QED
      BY <1>2, <2>1, <2>2, <2>3 DEF SettledOrShown
  <1>13. OnlyRemaindersShared'
    <2> SUFFICES ASSUME failures = 0, reopened = {} PROVE OnlyRemaindersShared'
      BY DEF OnlyRemaindersShared
    <2>1. \A n \in MailId : ldItems[n] \cap items \subseteq requeued
      BY <1>1 DEF NothingUndone
    <2>2. \A k, n \in MailId : k # m => Remainder(k, n) \subseteq Remainder(k, n)' \/ n = m
      BY <1>2 DEF Remainder
    <2>3. ASSUME NEW k \in MailId, NEW n \in MailId, k < n
          PROVE  ldItems'[k] \cap ldItems'[n] \subseteq requeued \cup Remainder(k, n)'
      <3>1. CASE k = m \/ n = m
        BY <1>1, <1>2, <2>1, <2>3, <3>1, MaxMailAssumption DEF MailId
      <3>2. CASE k # m /\ n # m
        BY <1>2, <2>2, <2>3, <3>2 DEF OnlyRemaindersShared
      <3> QED
        BY <3>1, <3>2
    <2>4. recreate.step # "idle" => recreate.old # m /\ recreate.old \in MailId
      BY <1>1 DEF RecreateInHand, TypeOK
    <2> QED
      BY <1>2, <2>3, <2>4 DEF OnlyRemaindersShared
  <1>14. SeedHolds' /\ SeedFixesTheRun'
    BY <1>1, <1>2, <1>4 DEF SeedHolds, SeedFixesTheRun, TypeOK
  <1> QED
    BY <1>5, <1>6, <1>7, <1>8, <1>9, <1>10, <1>11, <1>12, <1>13, <1>14

LEMMA ReplyArrivesKeeps ==
  ASSUME CommandsInv, NEW m \in MailId, NEW a \in Reply, ReplyArrives(m, a)
  PROVE  CommandsInv'
  <1> USE DEF CommandsInv, IsValid, IsPartial
  <1> USE DEF ReplyArrives, StoreReplies, countVars, history
  <1>1. mailStatus[m] = "reply_pending" /\ answer[m] = NoAnswer /\ m \notin fake
    BY DEF AwaitingReply, NothingUndone, RowsFit
  <1>2. /\ \A n \in MailId : mailStatus'[n] = IF n = m THEN "reply_received" ELSE mailStatus[n]
        /\ \A n \in MailId : answer'[n] = IF n = m THEN a ELSE answer[n]
        /\ a.refs \subseteq ldItems[m] /\ a \in Reply /\ a # NoAnswer
        /\ UNCHANGED <<payload, ldRun, ldItems, sentAt, outbox, recreate>>
    BY NoAnswerAssumption DEF TypeOK, DbTypeOK
  <1>3. TypeOK'
    BY <1>2 DEF TypeOK, DbTypeOK, MailStatus
  <1>4. RowsFit'
    BY <1>1, <1>2 DEF RowsFit, Taken
  <1>5. RecreateInHand'
    BY <1>1, <1>2 DEF RecreateInHand, FileOf, Recorded
  <1>6. OthersInHand'
    BY <1>1, <1>2 DEF OthersInHand, Recorded, Queued
  <1>7. AwaitingMeansMailed' /\ ArchivedIsResent'
    <2>1. AwaitingMeansMailed'
      BY <1>1, <1>2 DEF AwaitingMeansMailed, FileOf
    <2>2. \A n \in MailId : mailStatus'[n] = "reply_processed" =>
             mailStatus[n] = "reply_processed" /\ answer'[n] = answer[n]
      BY <1>2
    <2>3. ArchivedIsResent'
      BY <1>2, <2>2 DEF ArchivedIsResent, FileOf
    <2> QED
      BY <2>1, <2>3
  <1>8. NothingUndone'
    BY <1>1, <1>2 DEF NothingUndone, Queued
  <1>9. SettledOrShown'
    <2>1. \A p : IsSettled(p) => IsSettled(p)'
      BY <1>1, <1>2 DEF IsSettled
    <2>2. \A p : IsShown(p) => IsShown(p)'
      BY <1>1, <1>2 DEF IsShown, Flagged, TypeOK
    <2> QED
      BY <1>2, <2>1, <2>2 DEF SettledOrShown
  <1>10. OnlyRemaindersShared'
    <2> SUFFICES ASSUME failures = 0, reopened = {} PROVE OnlyRemaindersShared'
      BY DEF OnlyRemaindersShared
    <2>1. recreate.step # "idle" => recreate.old \in MailId /\ recreate.old # m
      BY <1>1 DEF OnlyRemaindersShared, RecreateInHand, TypeOK
    <2>2. \A k, n \in MailId : Remainder(k, n) \subseteq Remainder(k, n)'
      BY <1>1, <1>2, <2>1, MaxMailAssumption DEF Remainder, RecreateInHand, NoRecreate, MailId
    <2> QED
      BY <1>2, <2>1, <2>2 DEF OnlyRemaindersShared
  <1>11. SeedHolds' /\ SeedFixesTheRun'
    BY <1>2 DEF SeedHolds, SeedFixesTheRun, Recorded
  <1> QED
    BY <1>3, <1>4, <1>5, <1>6, <1>7, <1>8, <1>9, <1>10, <1>11

LEMMA ReplyForwardedKeeps ==
  ASSUME CommandsInv, NEW m \in MailId, ReplyForwarded(m)
  PROVE  CommandsInv'
  <1> USE DEF CommandsInv, IsValid, IsPartial
  <1> USE DEF ReplyForwarded, CloseMail, cmdVars, rowVars, countVars, history
  <1>1. PICK s \in {"reply_processed", "reply_partially_processed"} :
             /\ mailStatus' = [mailStatus EXCEPT ![m] = s]
             /\ IF s = "reply_processed" THEN IsValid(m) ELSE IsPartial(m)
    OBVIOUS
  <1>2. /\ mailStatus[m] = "reply_received" /\ answer[m] # NoAnswer /\ m \notin fake
        /\ \A n \in MailId : mailStatus'[n] = IF n = m THEN s ELSE mailStatus[n]
        /\ s = "reply_processed" => IsValid(m) /\ ~ IsPartial(m)
        /\ UNCHANGED <<payload, ldRun, ldItems>>
    BY <1>1 DEF RowsFit, TypeOK, DbTypeOK
  <1>3. TypeOK'
    BY <1>1 DEF TypeOK, DbTypeOK, MailStatus
  <1>4. RowsFit'
    <2>1. \A n \in MailId : IsPartial(n)' <=> IsPartial(n)
      OBVIOUS
    <2> HIDE DEF IsPartial, IsValid
    <2> QED
      BY <1>2, <2>1 DEF RowsFit, Taken
  <1>5. RecreateInHand'
    BY <1>1, <1>2 DEF RecreateInHand, FileOf, Recorded
  <1>6. OthersInHand'
    BY <1>2 DEF OthersInHand, Recorded, Queued
  <1>7. AwaitingMeansMailed' /\ ArchivedIsResent'
    BY <1>1, <1>2 DEF AwaitingMeansMailed, ArchivedIsResent, FileOf
  <1>8. NothingUndone'
    BY <1>2 DEF NothingUndone, Queued
  <1>9. SettledOrShown'
    <2>1. \A p : IsSettled(p)' <=> IsSettled(p)
      BY <1>2 DEF IsSettled
    <2>2. ASSUME NEW p, IsShown(p) PROVE IsSettled(p) \/ IsShown(p)'
      BY <1>1, <1>2, <2>2 DEF IsSettled, IsShown, Flagged
    <2> QED
      BY <1>2, <2>1, <2>2 DEF SettledOrShown
  <1>10. OnlyRemaindersShared'
    <2> SUFFICES ASSUME failures = 0, reopened = {} PROVE OnlyRemaindersShared'
      BY DEF OnlyRemaindersShared
    <2>1. recreate.step # "idle" => recreate.old \in MailId /\ recreate.old # m
      BY <1>2 DEF OnlyRemaindersShared, RecreateInHand, TypeOK
    <2>2. \A k, n \in MailId : Remainder(k, n) \subseteq Remainder(k, n)'
      BY <1>2 DEF Remainder
    <2> QED
      BY <1>2, <2>1, <2>2 DEF OnlyRemaindersShared
  <1>11. SeedHolds' /\ SeedFixesTheRun'
    BY <1>2 DEF SeedHolds, SeedFixesTheRun, Recorded
  <1> QED
    BY <1>3, <1>4, <1>5, <1>6, <1>7, <1>8, <1>9, <1>10, <1>11

-----------------------------------------------------------------------------
LEMMA StutterKeeps ==
  ASSUME CommandsInv, UNCHANGED vars
  PROVE  CommandsInv'
  <1> USE DEF CommandsInv, IsValid, IsPartial
  <1> USE DEF vars, cmdVars, dbVars, rowVars, countVars, history
  <1>1. TypeOK' /\ RowsFit'
    BY DEF TypeOK, DbTypeOK, RowsFit, Taken
  <1>2. RecreateInHand' /\ OthersInHand'
    BY DEF RecreateInHand, FileOf, Recorded, OthersInHand, Queued
  <1>3. OnlyRemaindersShared' /\ SeedHolds'
    BY DEF OnlyRemaindersShared, Remainder, SeedHolds
  <1> QED
    BY <1>1, <1>2, <1>3, RowsUntouched

LEMMA NextKeeps == CommandsInv /\ [Next]_vars => CommandsInv'
  <1> SUFFICES ASSUME CommandsInv, [Next]_vars PROVE CommandsInv'
    OBVIOUS
  <1>1. CASE Command
    BY <1>1, ResendKeeps, ResendSaveKeeps, RecreateMailKeeps, RecreateDataKeeps,
       RecreateLinksKeeps, RecreateKeeps, RecreateSaveKeeps, RecreateArchiveKeeps,
       SkipSaveKeeps, SeedMailKeeps, SeedDataKeeps DEF Command
  <1>2. CASE \/ \E m \in MailId : ResendRead(m) \/ RecreateRead(m)
             \/ \E p \in Payload, flag \in Flags : SkipRead(p, flag)
             \/ \E n \in MailId : SeedStart(n)
             \/ ResendFail \/ RecreateFail \/ SeedFail
    BY <1>2, ResendKeeps, RecreateKeeps, SkipAndSeedKeep
  <1>3. CASE \/ \E p \in Payload : Arrive(p)
             \/ \E m \in MailId : SendReads(m)
             \/ SendCommits
    BY <1>3, ArriveKeeps, SendReadsKeeps, SendCommitsKeeps
  <1>4. CASE \/ \E m \in MailId, a \in Reply : ReplyArrives(m, a)
             \/ \E m \in MailId : ReplyForwarded(m)
    BY <1>4, ReplyArrivesKeeps, ReplyForwardedKeeps
  <1>5. CASE UNCHANGED vars
    BY <1>5, StutterKeeps
  <1> QED
    BY <1>1, <1>2, <1>3, <1>4, <1>5 DEF Next

(* However the commands and the tasks overlap, and wherever a command is   *)
(* cut short, the rows, what the commands have in hand and the outside     *)
(* world keep fitting together.                                            *)
THEOREM CommandsInvariant == Spec => []CommandsInv
  <1> QED
    BY InitInv, NextKeeps, PTL DEF Spec

(* Every column and every command's local state keeps its type. *)
THEOREM TypesHold == Spec => []TypeOK
  <1>1. CommandsInv => TypeOK
    BY DEF CommandsInv
  <1> QED
    BY <1>1, CommandsInvariant, PTL

(* A Mail has a status beyond "pending" only when the file of its          *)
(* LicenceData was mailed, with something in it: the commands send before  *)
(* they save, and recreate raises when a reply leaves nothing to send.     *)
THEOREM AwaitingIsMailed == Spec => []AwaitingMeansMailed
  <1>1. CommandsInv => AwaitingMeansMailed
    BY DEF CommandsInv
  <1> QED
    BY <1>1, CommandsInvariant, PTL

(* recreate_and_send_licence_data_email archives the original only after   *)
(* a later file with all its unanswered licences was mailed.               *)
THEOREM ArchivedWasResent == Spec => []ArchivedIsResent
  <1>1. CommandsInv => ArchivedIsResent
    BY DEF CommandsInv
  <1> QED
    BY <1>1, CommandsInvariant, PTL

(* Without a failure or a stale save, no later file repeats a licence that *)
(* HMRC has answered: a file shares with an earlier one only the remainder *)
(* that the earlier reply left unanswered.                                 *)
THEOREM OnlyUnansweredResent == Spec => []AnsweredNotResent
  <1>1. CommandsInv => AnsweredNotResent
    <2> SUFFICES ASSUME CommandsInv, failures = 0, reopened = {},
                        NEW m \in MailId, NEW n \in MailId, m < n, answer[m] # NoAnswer
                 PROVE  answer[m].refs \cap ldItems[n] \subseteq requeued
      BY DEF AnsweredNotResent
    <2>1. ldItems[m] \cap ldItems[n] \subseteq requeued \cup (ldItems[m] \ answer[m].refs)
      BY DEF CommandsInv, OnlyRemaindersShared, Remainder
    <2> QED
      BY <2>1 DEF CommandsInv, RowsFit
  <1> QED
    BY <1>1, CommandsInvariant, PTL

(* The save of a Mail or a payload as it was read earlier takes a stored   *)
(* reply away, or puts a request of a file back in the queue, only if a    *)
(* task changed the row in between; and it leaves no Mail with a status    *)
(* that contradicts its reply.                                             *)
THEOREM StaleSavesUndoNothing == Spec => []NothingUndone
  <1>1. CommandsInv => NothingUndone
    BY DEF CommandsInv
  <1> QED
    BY <1>1, CommandsInvariant, PTL

(* A health check without alerts means that HMRC has answered every        *)
(* request in every file, or left it out of a reply that counts as valid,  *)
(* whatever the commands left unfinished.                                  *)
THEOREM HealthTellsTheTruth == Spec => []HealthyMeansSettled
  <1>1. CommandsInv => HealthyMeansSettled
    BY DEF CommandsInv, SettledOrShown, IsShown, Healthy, HealthyMeansSettled
  <1> QED
    BY <1>1, CommandsInvariant, PTL

(* seed_licence_data, run to its end before a file is sent, fixes the run  *)
(* numbers of all live files above the one it was given.                   *)
THEOREM SeedFixesTheRunNumbers == Spec => []SeedFixesTheRun
  <1>1. CommandsInv => SeedFixesTheRun
    BY DEF CommandsInv
  <1> QED
    BY <1>1, CommandsInvariant, PTL

=============================================================================
