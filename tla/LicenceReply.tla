---------------------------- MODULE LicenceReply ----------------------------
(***************************************************************************)
(* LicenceReplyProcessor (mail/chief/licence_reply/processor.py): HMRC's   *)
(* licenceReply file is read line by line and then classified.             *)
(*                                                                         *)
(* A line is abstracted to its record type and the fields the processor    *)
(* looks at; an error is known by the number of its line.  The file is     *)
(* kept as the history that the properties compare the processor with.     *)
(***************************************************************************)
EXTENDS Integers, Sequences, FiniteSets

CONSTANTS Ref,          \* transaction references
          NoRef,        \* Python's None: no rejected transaction is open
          Trailer,      \* what a file trailer can state
          MaxLines      \* bound: lines in a file

ASSUME NoRefAssumption == NoRef \notin Ref
ASSUME MaxLinesAssumption == MaxLines \in Nat
ASSUME TrailerAssumption ==
    Trailer \subseteq [accepted : Nat, rejected : Nat, errors : Nat]

VARIABLES file,         \* lines read so far
          accepted,     \* _accepted: references, in file order
          rejected,     \* _rejected: complete rejected transactions
          current,      \* _current_rejected: the open one, if any
          fileErrors,   \* len(file_errors)
          trailer,      \* file_trailer as a set: {} or one record
          raised        \* ValueError: the file cannot be loaded

vars == <<file, accepted, rejected, current, fileErrors, trailer, raised>>

Line ==
    [type : {"accepted", "rejected"}, ref : Ref]
        \cup [type : {"error", "end", "fileError", "unknown"}]
        \cup [type : {"fileTrailer"}, counts : Trailer]

(* RejectedTransaction: header, errors, and where its header stands. *)
Rejection == [ref : Ref \cup {NoRef}, errors : SUBSET (1..MaxLines), at : 0..MaxLines]
NoRejection == [ref |-> NoRef, errors |-> {}, at |-> 0]

TypeOK ==
    /\ file \in Seq(Line) /\ Len(file) <= MaxLines
    /\ accepted \in Seq(Ref)
    /\ rejected \in Seq(Rejection)
    /\ current \in Rejection
    /\ fileErrors \in 0..MaxLines
    /\ trailer \subseteq Trailer /\ Cardinality(trailer) <= 1
    /\ raised \in BOOLEAN

Init ==
    /\ file = <<>>
    /\ accepted = <<>>
    /\ rejected = <<>>
    /\ current = NoRejection
    /\ fileErrors = 0
    /\ trailer = {}
    /\ raised = FALSE

-----------------------------------------------------------------------------
(* _process_line: one action per record type. *)

Read(line) ==
    /\ ~ raised
    /\ Len(file) < MaxLines
    /\ file' = Append(file, line)

(* line_no of the line that is read. *)
LineNo == Len(file) + 1
Open == current.ref # NoRef

AcceptedTransaction(r) ==
    /\ Read([type |-> "accepted", ref |-> r])
    /\ accepted' = Append(accepted, r)
    /\ UNCHANGED <<rejected, current, fileErrors, trailer, raised>>

(* Variant for the mutation checks: the list of errors is shared between   *)
(* transactions (no default_factory).                                      *)
SharesErrors(r) ==
    /\ Read([type |-> "rejected", ref |-> r])
    /\ current' = [ref |-> r, errors |-> current.errors, at |-> LineNo]
    /\ UNCHANGED <<accepted, rejected, fileErrors, trailer, raised>>

(* A header starts a new rejected transaction, also when one is open. *)
RejectedTransactionHeader(r) ==
    /\ Read([type |-> "rejected", ref |-> r])
    /\ current' = [ref |-> r, errors |-> {}, at |-> LineNo]
    /\ UNCHANGED <<accepted, rejected, fileErrors, trailer, raised>>

RejectedTransactionError ==
    /\ Open
    /\ Read([type |-> "error"])
    /\ current' = [current EXCEPT !.errors = @ \cup {LineNo}]
    /\ UNCHANGED <<accepted, rejected, fileErrors, trailer, raised>>

RejectedTransactionTrailer ==
    /\ Open
    /\ Read([type |-> "end"])
    /\ rejected' = Append(rejected, current)
    /\ current' = NoRejection
    /\ UNCHANGED <<accepted, fileErrors, trailer, raised>>

FileError ==
    /\ Read([type |-> "fileError"])
    /\ fileErrors' = fileErrors + 1
    /\ UNCHANGED <<accepted, rejected, current, trailer, raised>>

FileTrailer(t) ==
    /\ Read([type |-> "fileTrailer", counts |-> t])
    /\ trailer' = {t}
    /\ UNCHANGED <<accepted, rejected, current, fileErrors, raised>>

(* "rejected record is out of sequence" *)
OutOfSequence ==
    /\ ~ Open
    /\ \E t \in {"error", "end"} : Read([type |-> t])
    /\ raised' = TRUE
    /\ UNCHANGED <<accepted, rejected, current, fileErrors, trailer>>

(* "Unknown field_type", or a record with the wrong number of fields. *)
UnknownRecord ==
    /\ Read([type |-> "unknown"])
    /\ raised' = TRUE
    /\ UNCHANGED <<accepted, rejected, current, fileErrors, trailer>>

Next ==
    \/ \E r \in Ref : AcceptedTransaction(r) \/ RejectedTransactionHeader(r)
    \/ RejectedTransactionError
    \/ RejectedTransactionTrailer
    \/ FileError
    \/ \E t \in Trailer : FileTrailer(t)
    \/ OutOfSequence
    \/ UnknownRecord

Spec == Init /\ [][Next]_vars

-----------------------------------------------------------------------------
(* The four classifications of a loaded file. *)

(* Variant for the mutation checks: the rejected count is not compared. *)
IgnoresRejectedCount ==
    \E t \in trailer : /\ fileErrors = 0 /\ t.errors = 0
                       /\ Len(accepted) = t.accepted

ReplyFileIsValid ==
    \E t \in trailer : /\ fileErrors = 0 /\ t.errors = 0
                       /\ Len(accepted) = t.accepted
                       /\ Len(rejected) = t.rejected

ReplyFileIsInvalid == fileErrors > 0 /\ accepted = <<>> /\ rejected = <<>>

ReplyFileIsPartiallyValid == fileErrors > 0 /\ (accepted # <<>> \/ rejected # <<>>)

ReplyFileContainsNoData == fileErrors = 0 /\ accepted = <<>> /\ rejected = <<>>

-----------------------------------------------------------------------------
(* What the file says, by its lines. *)

LinesOf(type) == {i \in 1..Len(file) : file[i].type = type}

(* The lines of a rejected transaction: from a header to the first end. *)
Ends(h, e) ==
    /\ h \in LinesOf("rejected") /\ e \in LinesOf("end") /\ h < e
    /\ \A i \in h + 1 .. e - 1 : file[i].type \notin {"rejected", "end"}

Refs(s) == {s[i] : i \in 1..Len(s)}
RejectedRefs == {rejected[k].ref : k \in 1..Len(rejected)}

(* A transaction has the reference of its own header and the errors of its *)
(* own lines.                                                              *)
IsOfTheFile(x) ==
    \E e \in LinesOf("end") :
        /\ Ends(x.at, e)
        /\ x.ref = file[x.at].ref
        /\ x.errors = {i \in LinesOf("error") : x.at < i /\ i < e}

(* Every rejected transaction handed to ICMS carries the errors of its own *)
(* lines and of no other transaction, and the reference of its own header. *)
ErrorsBelong == \A k \in 1..Len(rejected) : IsOfTheFile(rejected[k])

(* The transaction that is open is the one whose header was read last; it  *)
(* has not ended, and holds the errors read since.                         *)
OpenAtItsHeader ==
    Open => /\ current.at \in LinesOf("rejected")
            /\ current.ref = file[current.at].ref
            /\ \A i \in current.at + 1 .. Len(file) : file[i].type \notin {"rejected", "end"}
            /\ current.errors = {i \in LinesOf("error") : current.at < i}

(* No header is handed over twice. *)
HeadersDistinct ==
    \A k, l \in 1..Len(rejected) : rejected[k].at = rejected[l].at => k = l

AcceptedKept == \A i \in LinesOf("accepted") : file[i].ref \in Refs(accepted)

(* What the processor's lists hold, and whose it is: inductive. *)
ReplyInv ==
    /\ TypeOK /\ fileErrors <= Len(file)
    /\ ErrorsBelong /\ OpenAtItsHeader /\ HeadersDistinct /\ AcceptedKept

(* HMRC's trailer counts the transactions it answered. *)
TrailerHonest ==
    \A t \in trailer : /\ t.accepted = Cardinality(LinesOf("accepted"))
                       /\ t.rejected = Cardinality(LinesOf("rejected"))

(* A rejected transaction whose end record is missing is dropped by the    *)
(* processor, but never from a file that it calls valid: if the trailer is *)
(* right then every transaction that the file answers is reported.         *)
ValidLosesNothing ==
    ~ raised /\ ReplyFileIsValid /\ TrailerHonest =>
        /\ \A i \in LinesOf("accepted") : file[i].ref \in Refs(accepted)
        /\ \A i \in LinesOf("rejected") : file[i].ref \in RejectedRefs
        /\ ~ Open

=============================================================================
