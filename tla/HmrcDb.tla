------------------------------- MODULE HmrcDb -------------------------------
(***************************************************************************)
(* The PostgreSQL tables that every task and command of icms-hmrc shares   *)
(* (mail/models.py): LicencePayload, LicenceData and Mail.  The variables  *)
(* hold COMMITTED rows only: the database runs at READ COMMITTED, so what  *)
(* a transaction has written and not committed is kept by the module of    *)
(* the task that writes it.                                                *)
(*                                                                         *)
(* A payload is known by its place in the order of arrival (received_at),  *)
(* a Mail by its place in the order of created_at.  A LicenceData row      *)
(* belongs to one Mail, so its columns are functions of the Mail.          *)
(***************************************************************************)
EXTENDS Integers, FiniteSets

CONSTANTS MaxPayload,   \* bound: licence requests that ICMS ever posts
          MaxMail       \* bound: licenceData Mail rows ever created

ASSUME MaxPayloadAssumption == MaxPayload \in Nat \ {0}
ASSUME MaxMailAssumption == MaxMail \in Nat \ {0}

Payload == 1..MaxPayload
MailId == 1..MaxMail
Run == 1..(MaxMail + 1)

PayloadState == {"absent", "queued", "processed"}

(* MailStatusEnum, and "none" for a Mail that does not exist. *)
MailStatus == {"none", "pending", "reply_pending", "reply_received",
               "reply_partially_processed", "reply_processed"}

VARIABLES payload,      \* LicencePayload.is_processed, "absent" before the row exists
          mailStatus,   \* Mail.status
          ldRun,        \* LicenceData.hmrc_run_number, 0 where no LicenceData exists
          ldItems       \* LicenceData.licence_payloads

dbVars == <<payload, mailStatus, ldRun, ldItems>>
mailVars == <<mailStatus, ldRun, ldItems>>

DbTypeOK ==
    /\ payload \in [Payload -> PayloadState]
    /\ mailStatus \in [MailId -> MailStatus]
    /\ ldRun \in [MailId -> {0} \cup Run]
    /\ ldItems \in [MailId -> SUBSET Payload]

DbInit ==
    /\ payload = [p \in Payload |-> "absent"]
    /\ mailStatus = [m \in MailId |-> "none"]
    /\ ldRun = [m \in MailId |-> 0]
    /\ ldItems = [m \in MailId |-> {}]

-----------------------------------------------------------------------------
(* Queries. *)

Queued == {p \in Payload : payload[p] = "queued"}
Processed == {p \in Payload : payload[p] = "processed"}

(* Mails whose reply has not been passed on to ICMS. *)
Unfinished == {m \in MailId : mailStatus[m] \notin {"none", "reply_processed"}}

Recorded == {m \in MailId : ldRun[m] # 0}

(* The run number that create_licence_data_mail computes: one more than    *)
(* that of the LicenceData whose Mail was created last, 1 if there is none *)
IsNextRun(r) ==
    IF Recorded = {}
    THEN r = 1
    ELSE \E m \in Recorded : /\ \A n \in Recorded : n <= m
                             /\ r = ldRun[m] + 1

-----------------------------------------------------------------------------
(* LicenceDataIngestView.post: a request that passes the serializer and is *)
(* not a repeat of (icms_id, action) becomes an unprocessed LicencePayload. *)
Ingest(p) ==
    /\ payload[p] = "absent"
    /\ \A q \in Payload : q < p => payload[q] # "absent"
    /\ payload' = [payload EXCEPT ![p] = "queued"]
    /\ UNCHANGED mailVars

=============================================================================
