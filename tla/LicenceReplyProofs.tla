------------------------- MODULE LicenceReplyProofs -------------------------
(***************************************************************************)
(* Theorems about LicenceReply for files of any length and any references: *)
(* each rejected transaction keeps its own errors, and a file that the     *)
(* processor calls valid, under a trailer that counts right, loses no      *)
(* answer.                                                                 *)
(***************************************************************************)
EXTENDS LicenceReply, SequenceTheorems, FiniteSetTheorems, TLAPS

-----------------------------------------------------------------------------
(* Reading a line. *)

(* A line more changes no earlier line, and adds its number to those of    *)
(* its own type.                                                           *)
LEMMA LineRead ==
  ASSUME file \in Seq(Line), NEW line \in Line, file' = Append(file, line)
  PROVE  /\ file' \in Seq(Line) /\ Len(file) \in Nat /\ Len(file') = Len(file) + 1
         /\ \A i \in 1..Len(file) : file'[i] = file[i]
         /\ file'[Len(file) + 1] = line
         /\ \A type : LinesOf(type)' = IF line.type = type
                                       THEN LinesOf(type) \cup {Len(file) + 1}
                                       ELSE LinesOf(type)
  <1>1. /\ file' \in Seq(Line) /\ Len(file) \in Nat /\ Len(file') = Len(file) + 1
        /\ \A i \in 1..Len(file) : file'[i] = file[i]
        /\ file'[Len(file) + 1] = line
    OBVIOUS
  <1>2. 1..Len(file') = (1..Len(file)) \cup {Len(file) + 1}
    BY <1>1
  <1> QED
    BY <1>1, <1>2 DEF LinesOf

(* What the file says of a transaction is not changed by the lines that    *)
(* are read after its end.                                                 *)
LEMMA OfTheFileKept ==
  ASSUME file \in Seq(Line), NEW line \in Line, file' = Append(file, line),
         NEW x, IsOfTheFile(x)
  PROVE  IsOfTheFile(x)'
  <1> DEFINE h == x.at
  <1>1. PICK e \in LinesOf("end") :
            /\ Ends(h, e)
            /\ x.ref = file[h].ref
            /\ x.errors = {i \in LinesOf("error") : h < i /\ i < e}
    BY DEF IsOfTheFile
  <1>2. h \in 1..Len(file) /\ e \in 1..Len(file) /\ h < e
    BY <1>1 DEF Ends, LinesOf
  <1>3. \A i \in h + 1 .. e - 1 : i \in 1..Len(file)
    BY <1>2
  <1>4. h \in LinesOf("rejected")' /\ e \in LinesOf("end")' /\ file'[h] = file[h]
    BY <1>1, <1>2, LineRead DEF Ends
  <1>5. \A i \in h + 1 .. e - 1 : file'[i].type \notin {"rejected", "end"}
    BY <1>1, <1>3, LineRead DEF Ends
  <1>6. {i \in LinesOf("error")' : h < i /\ i < e} = {i \in LinesOf("error") : h < i /\ i < e}
    BY <1>2, LineRead
  <1>7. Ends(h, e)'
    BY <1>2, <1>4, <1>5 DEF Ends
  <1> QED
    BY <1>1, <1>4, <1>6, <1>7 DEF IsOfTheFile

LEMMA ErrorsStillBelong ==
  ASSUME file \in Seq(Line), NEW line \in Line, file' = Append(file, line),
         ErrorsBelong, rejected' = rejected
  PROVE  ErrorsBelong'
  <1> SUFFICES ASSUME NEW k \in 1..Len(rejected) PROVE IsOfTheFile(rejected[k])'
    BY DEF ErrorsBelong
  <1>1. PICK x : x = rejected[k]
    OBVIOUS
  <1>2. IsOfTheFile(x)
    BY <1>1 DEF ErrorsBelong
  <1>3. IsOfTheFile(x)'
    BY <1>2, OfTheFileKept
  <1> QED
    BY <1>1, <1>3

(* A header that has been handed over has an end, so it is not the header  *)
(* of the transaction that is open.                                        *)
LEMMA OpenNotHandedOver ==
  ASSUME ReplyInv, Open, NEW k \in 1..Len(rejected)
  PROVE  rejected[k].at # current.at
  <1>1. PICK e \in LinesOf("end") : Ends(rejected[k].at, e)
    BY DEF ReplyInv, ErrorsBelong, IsOfTheFile
  <1>2. e \in 1..Len(file) /\ file[e].type = "end" /\ rejected[k].at < e
    BY <1>1 DEF Ends, LinesOf
  <1>3. rejected[k].at \in 0..MaxLines /\ current.at \in 0..MaxLines
    <2>1. rejected \in Seq(Rejection) /\ current \in Rejection
      BY DEF ReplyInv, TypeOK
    <2>2. rejected[k] \in Rejection
      BY <2>1, ElementOfSeq
    <2> QED
      BY <2>1, <2>2 DEF Rejection
  <1> SUFFICES ASSUME rejected[k].at = current.at PROVE FALSE
    OBVIOUS
  <1>4. e \in current.at + 1 .. Len(file)
    BY <1>2, <1>3, MaxLinesAssumption
  <1> QED
    BY <1>2, <1>4 DEF ReplyInv, OpenAtItsHeader

-----------------------------------------------------------------------------
(* The invariant, action by action. *)

LEMMA InitInv == Init => ReplyInv
  <1> SUFFICES ASSUME Init PROVE ReplyInv
    OBVIOUS
  <1> USE DEF Init
  <1>1. LinesOf("accepted") = {}
    BY DEF LinesOf
  <1>2. TypeOK
    <2>1. NoRejection \in Rejection
      BY MaxLinesAssumption DEF NoRejection, Rejection
    <2>2. trailer \subseteq Trailer /\ Cardinality(trailer) <= 1
      BY FS_EmptySet
    <2>3. file \in Seq(Line) /\ Len(file) = 0 /\ accepted \in Seq(Ref) /\ rejected \in Seq(Rejection)
      BY EmptySeq
    <2>4. current \in Rejection /\ raised \in BOOLEAN
      BY <2>1
    <2>5. fileErrors \in 0..MaxLines
      BY MaxLinesAssumption
    <2> HIDE DEF Init
    <2> QED
      BY <2>2, <2>3, <2>4, <2>5, MaxLinesAssumption DEF TypeOK
  <1>3. ErrorsBelong /\ HeadersDistinct /\ ~ Open
    BY DEF ErrorsBelong, HeadersDistinct, Open, NoRejection
  <1> QED
    BY <1>1, <1>2, <1>3 DEF ReplyInv, OpenAtItsHeader, AcceptedKept

LEMMA AcceptedKeeps ==
  ASSUME ReplyInv, NEW r \in Ref, AcceptedTransaction(r)
  PROVE  ReplyInv'
  <1> DEFINE line == [type |-> "accepted", ref |-> r]
  <1>1. line \in Line /\ file' = Append(file, line) /\ line.type = "accepted"
    BY DEF AcceptedTransaction, Read, Line
  <1> USE DEF AcceptedTransaction, Read, ReplyInv
  <1>2. file \in Seq(Line) /\ Len(file) < MaxLines /\ Len(file) \in Nat
    BY DEF TypeOK
  <1> HIDE DEF line
  <1>3. TypeOK' /\ fileErrors' <= Len(file')
    BY <1>1, <1>2, LineRead, MaxLinesAssumption DEF TypeOK
  <1>4. ErrorsBelong'
    BY <1>1, <1>2, ErrorsStillBelong
  <1>5. OpenAtItsHeader'
    BY <1>1, <1>2, LineRead DEF OpenAtItsHeader, Open, LinesOf, TypeOK, Rejection
  <1>6. HeadersDistinct'
    BY DEF HeadersDistinct
  <1>7. AcceptedKept'
    <2>1. Refs(accepted') = Refs(accepted) \cup {r}
      BY DEF Refs, TypeOK
    <2>2. LinesOf("accepted")' = LinesOf("accepted") \cup {Len(file) + 1}
      BY <1>1, <1>2, LineRead
    <2>3. file'[Len(file) + 1].ref = r /\ \A i \in 1..Len(file) : file'[i] = file[i]
      BY <1>1, <1>2, LineRead DEF line
    <2> QED
      BY <2>1, <2>2, <2>3 DEF AcceptedKept, LinesOf
  <1> QED
    BY <1>3, <1>4, <1>5, <1>6, <1>7

(* A header starts afresh, whether or not a transaction is open. *)
LEMMA HeaderKeeps ==
  ASSUME ReplyInv, NEW r \in Ref, RejectedTransactionHeader(r)
  PROVE  ReplyInv'
  <1> DEFINE line == [type |-> "rejected", ref |-> r]
  <1>1. line \in Line /\ file' = Append(file, line) /\ line.type = "rejected" /\ line.ref = r
    BY DEF RejectedTransactionHeader, Read, Line
  <1> USE DEF RejectedTransactionHeader, Read, ReplyInv
  <1>2. file \in Seq(Line) /\ Len(file) < MaxLines /\ Len(file) \in Nat
    BY DEF TypeOK
  <1> HIDE DEF line
  <1>3. TypeOK' /\ fileErrors' <= Len(file')
    <2>1. current' \in Rejection
      BY <1>2, MaxLinesAssumption DEF Rejection, LineNo
    <2> QED
      BY <1>1, <1>2, <2>1, LineRead, MaxLinesAssumption DEF TypeOK
  <1>4. ErrorsBelong'
    BY <1>1, <1>2, ErrorsStillBelong
  <1>5. OpenAtItsHeader'
    <2>1. /\ current'.at = Len(file) + 1 /\ current'.ref = r /\ current'.errors = {}
          /\ Len(file') = Len(file) + 1 /\ file'[Len(file) + 1] = line
      BY <1>1, <1>2, LineRead DEF LineNo
    <2>2. current'.at \in LinesOf("rejected")' /\ file'[current'.at].ref = r
      BY <1>1, <1>2, <2>1, LineRead
    <2>3. {i \in LinesOf("error")' : current'.at < i} = {}
      BY <1>2, <2>1 DEF LinesOf
    <2> QED
      BY <1>2, <2>1, <2>2, <2>3 DEF OpenAtItsHeader
  <1>6. HeadersDistinct'
    BY DEF HeadersDistinct
  <1>7. AcceptedKept'
    BY <1>1, <1>2, LineRead DEF AcceptedKept, LinesOf
  <1> QED
    BY <1>3, <1>4, <1>5, <1>6, <1>7

(* An error line goes to the transaction that is open. *)
LEMMA ErrorKeeps ==
  ASSUME ReplyInv, RejectedTransactionError
  PROVE  ReplyInv'
  <1> DEFINE line == [type |-> "error"]
  <1>1. line \in Line /\ file' = Append(file, line) /\ line.type = "error"
    BY DEF RejectedTransactionError, Read, Line
  <1> USE DEF RejectedTransactionError, Read, ReplyInv
  <1>2. file \in Seq(Line) /\ Len(file) < MaxLines /\ Len(file) \in Nat
    BY DEF TypeOK
  <1> HIDE DEF line
  <1>3. /\ current \in Rejection /\ current' \in Rejection
        /\ current'.ref = current.ref /\ current'.at = current.at
        /\ current'.errors = current.errors \cup {Len(file) + 1}
    <2>1. current \in Rejection /\ current' = [current EXCEPT !.errors = @ \cup {Len(file) + 1}]
      BY DEF TypeOK, LineNo
    <2>2. Len(file) + 1 \in 1..MaxLines
      BY <1>2, MaxLinesAssumption
    <2> QED
      BY <2>1, <2>2 DEF Rejection
  <1>4. TypeOK' /\ fileErrors' <= Len(file')
    BY <1>1, <1>2, <1>3, LineRead, MaxLinesAssumption DEF TypeOK
  <1>5. ErrorsBelong'
    BY <1>1, <1>2, ErrorsStillBelong
  <1>6. OpenAtItsHeader'
    <2>1. /\ current.at \in LinesOf("rejected") /\ current.ref = file[current.at].ref
          /\ \A i \in current.at + 1 .. Len(file) : file[i].type \notin {"rejected", "end"}
          /\ current.errors = {i \in LinesOf("error") : current.at < i}
      BY DEF OpenAtItsHeader
    <2>2. current.at \in 1..Len(file)
      BY <2>1 DEF LinesOf
    <2>3. current'.at \in LinesOf("rejected")' /\ current'.ref = file'[current'.at].ref
      BY <1>1, <1>2, <1>3, <2>1, <2>2, LineRead
    <2>4. ASSUME NEW i \in current'.at + 1 .. Len(file')
          PROVE  file'[i].type \notin {"rejected", "end"}
      BY <1>1, <1>2, <1>3, <2>1, <2>2, LineRead
    <2>5. current'.errors = {i \in LinesOf("error")' : current'.at < i}
      BY <1>1, <1>2, <1>3, <2>1, <2>2, LineRead
    <2> QED
      BY <2>3, <2>4, <2>5 DEF OpenAtItsHeader
  <1>7. HeadersDistinct'
    BY DEF HeadersDistinct
  <1>8. AcceptedKept'
    BY <1>1, <1>2, LineRead DEF AcceptedKept, LinesOf
  <1> QED
    BY <1>4, <1>5, <1>6, <1>7, <1>8

(* The end record hands the open transaction over, with its own errors. *)
LEMMA TrailerKeeps ==
  ASSUME ReplyInv, RejectedTransactionTrailer
  PROVE  ReplyInv'
  <1> DEFINE line == [type |-> "end"]
  <1>0. PICK x, n, h, e : x = current /\ n = Len(rejected) /\ h = x.at /\ e = Len(file) + 1
    OBVIOUS
  <1>1. line \in Line /\ file' = Append(file, line) /\ line.type = "end"
    BY DEF RejectedTransactionTrailer, Read, Line
  <1> USE DEF RejectedTransactionTrailer, Read, ReplyInv
  <1>2. file \in Seq(Line) /\ Len(file) < MaxLines /\ Len(file) \in Nat
    BY DEF TypeOK
  <1> HIDE DEF line
  <1>3. /\ rejected' \in Seq(Rejection) /\ Len(rejected') = n + 1 /\ n \in Nat
        /\ \A k \in 1..n : rejected'[k] = rejected[k]
        /\ rejected'[n + 1] = x
    BY <1>0 DEF TypeOK
  <1>4. ~ Open'
    BY DEF Open, NoRejection
  <1>5. TypeOK' /\ fileErrors' <= Len(file')
    <2>1. current' \in Rejection
      BY MaxLinesAssumption DEF NoRejection, Rejection
    <2> QED
      BY <1>1, <1>2, <1>3, <2>1, LineRead, MaxLinesAssumption DEF TypeOK
  <1>6. /\ h \in LinesOf("rejected") /\ h \in 1..Len(file) /\ x.ref = file[h].ref
        /\ \A i \in h + 1 .. Len(file) : file[i].type \notin {"rejected", "end"}
        /\ x.errors = {i \in LinesOf("error") : h < i}
    BY <1>0 DEF OpenAtItsHeader, LinesOf
  <1>7. ErrorsBelong'
    <2>1. IsOfTheFile(x)'
      <3>1. e \in LinesOf("end")' /\ h \in LinesOf("rejected")' /\ h < e
        BY <1>0, <1>1, <1>2, <1>6, LineRead
      <3>2. \A i \in h + 1 .. e - 1 : file'[i].type \notin {"rejected", "end"}
        BY <1>0, <1>1, <1>2, <1>6, LineRead
      <3>3. {i \in LinesOf("error")' : h < i /\ i < e} = {i \in LinesOf("error") : h < i}
        <4>1. LinesOf("error")' = LinesOf("error")
          BY <1>1, <1>2, LineRead
        <4> QED
          BY <1>0, <1>2, <4>1 DEF LinesOf
      <3>4. file'[h] = file[h]
        BY <1>0, <1>1, <1>2, <1>6, LineRead
      <3>5. Ends(h, e)'
        BY <3>1, <3>2 DEF Ends
      <3> QED
        BY <1>0, <1>6, <3>1, <3>3, <3>4, <3>5 DEF IsOfTheFile
    <2>2. ASSUME NEW k \in 1..n PROVE IsOfTheFile(rejected[k])'
      <3>1. PICK y : y = rejected[k]
        OBVIOUS
      <3>2. IsOfTheFile(y)
        BY <1>0, <3>1 DEF ErrorsBelong
      <3> QED
        BY <1>0, <1>1, <1>2, <1>3, <3>1, <3>2, OfTheFileKept
    <2> QED
      BY <1>0, <1>3, <2>1, <2>2 DEF ErrorsBelong
  <1>8. HeadersDistinct'
    <2>1. \A k \in 1..n : rejected[k].at # current.at
        BY <1>0, OpenNotHandedOver
    <2> QED
      BY <1>0, <1>3, <2>1 DEF HeadersDistinct
  <1>9. AcceptedKept'
    BY <1>1, <1>2, LineRead DEF AcceptedKept, LinesOf
  <1> QED
    BY <1>4, <1>5, <1>7, <1>8, <1>9 DEF OpenAtItsHeader

(* A line that the lists do not depend on. *)
LEMMA OtherLineKeeps ==
  ASSUME ReplyInv, NEW line \in Line, Read(line),
         accepted' = accepted, rejected' = rejected, current' = current,
         line.type \in {"fileError", "fileTrailer", "unknown", "error", "end"},
         Open => line.type \in {"fileError", "fileTrailer", "unknown"},
         fileErrors' \in {fileErrors, fileErrors + 1},
         trailer' \subseteq Trailer, Cardinality(trailer') <= 1, raised' \in BOOLEAN
  PROVE  ReplyInv'
  <1> USE DEF Read, ReplyInv
  <1>1. file \in Seq(Line) /\ Len(file) < MaxLines /\ Len(file) \in Nat
    BY DEF TypeOK
  <1>2. TypeOK' /\ fileErrors' <= Len(file')
    <2>1. fileErrors' \in 0..MaxLines /\ fileErrors' <= Len(file')
      BY <1>1, LineRead, MaxLinesAssumption DEF TypeOK
    <2> QED
      BY <1>1, <2>1, LineRead, MaxLinesAssumption DEF TypeOK
  <1>3. ErrorsBelong'
    BY <1>1, ErrorsStillBelong
  <1>4. OpenAtItsHeader'
    <2> SUFFICES ASSUME Open PROVE OpenAtItsHeader'
      BY DEF OpenAtItsHeader, Open
    <2>1. line.type \in {"fileError", "fileTrailer", "unknown"}
      OBVIOUS
    <2>2. /\ LinesOf("rejected")' = LinesOf("rejected") /\ LinesOf("error")' = LinesOf("error")
          /\ \A i \in 1..Len(file) : file'[i] = file[i]
          /\ Len(file') = Len(file) + 1 /\ file'[Len(file) + 1] = line
      BY <1>1, <2>1, LineRead
    <2>3. current.at \in 1..Len(file)
      BY DEF OpenAtItsHeader, LinesOf
    <2>4. ASSUME NEW i \in current.at + 1 .. Len(file')
          PROVE  file'[i].type \notin {"rejected", "end"}
      BY <1>1, <2>1, <2>2, <2>3 DEF OpenAtItsHeader
    <2> QED
      BY <2>2, <2>3, <2>4 DEF OpenAtItsHeader
  <1>5. HeadersDistinct'
    BY DEF HeadersDistinct
  <1>6. AcceptedKept'
    BY <1>1, LineRead DEF AcceptedKept, LinesOf
  <1> QED
    BY <1>2, <1>3, <1>4, <1>5, <1>6

LEMMA NextKeeps == ReplyInv /\ [Next]_vars => ReplyInv'
  <1> SUFFICES ASSUME ReplyInv, [Next]_vars PROVE ReplyInv'
    OBVIOUS
  <1>0. trailer \subseteq Trailer /\ Cardinality(trailer) <= 1 /\ raised \in BOOLEAN
    BY DEF ReplyInv, TypeOK
  <1>1. ASSUME NEW r \in Ref, AcceptedTransaction(r) \/ RejectedTransactionHeader(r)
        PROVE  ReplyInv'
    BY <1>1, AcceptedKeeps, HeaderKeeps
  <1>2. CASE RejectedTransactionError
    BY <1>2, ErrorKeeps
  <1>3. CASE RejectedTransactionTrailer
    BY <1>3, TrailerKeeps
  <1>4. CASE FileError
    <2>1. PICK line \in Line : line.type = "fileError" /\ Read(line)
      BY <1>4 DEF FileError, Line
    <2>2. fileErrors' = fileErrors + 1
      BY <1>4 DEF FileError
    <2>3. UNCHANGED <<accepted, rejected, current, trailer, raised>>
      BY <1>4 DEF FileError
    <2> QED
      BY <1>0, <2>1, <2>2, <2>3, OtherLineKeeps
  <1>5. ASSUME NEW t \in Trailer, FileTrailer(t)
        PROVE  ReplyInv'
    <2>1. PICK line \in Line : line.type = "fileTrailer" /\ Read(line)
      BY <1>5 DEF FileTrailer, Line
    <2>2. trailer' = {t} /\ Cardinality({t}) = 1
      BY <1>5, FS_Singleton DEF FileTrailer
    <2>3. UNCHANGED <<accepted, rejected, current, fileErrors, raised>>
      BY <1>5 DEF FileTrailer
    <2> QED
      BY <1>0, <2>1, <2>2, <2>3, OtherLineKeeps
  <1>6. CASE OutOfSequence
    <2>1. PICK type \in {"error", "end"} : Read([type |-> type])
      BY <1>6 DEF OutOfSequence
    <2>2. [type |-> type] \in Line
      BY DEF Line
    <2> QED
      BY <1>0, <1>6, <2>1, <2>2, OtherLineKeeps DEF OutOfSequence
  <1>7. CASE UnknownRecord
    <2>1. PICK line \in Line : line.type = "unknown" /\ Read(line)
      BY <1>7 DEF UnknownRecord, Line
    <2>2. raised' \in BOOLEAN
      BY <1>7 DEF UnknownRecord
    <2>3. UNCHANGED <<accepted, rejected, current, fileErrors, trailer>>
      BY <1>7 DEF UnknownRecord
    <2> QED
      BY <1>0, <2>1, <2>2, <2>3, OtherLineKeeps
  <1>8. CASE UNCHANGED vars
    <2> USE <1>8 DEF vars, ReplyInv
    <2>1. TypeOK' /\ fileErrors' <= Len(file')
      BY DEF TypeOK
    <2>2. \A type : LinesOf(type)' = LinesOf(type)
      BY DEF LinesOf
    <2>3. ErrorsBelong' /\ HeadersDistinct'
      BY <2>2 DEF ErrorsBelong, IsOfTheFile, Ends, HeadersDistinct
    <2>4. OpenAtItsHeader' /\ AcceptedKept'
      BY <2>2 DEF OpenAtItsHeader, Open, AcceptedKept, Refs
    <2> QED
      BY <2>1, <2>3, <2>4
  <1> QED
    BY <1>1, <1>2, <1>3, <1>4, <1>5, <1>6, <1>7, <1>8 DEF Next

-----------------------------------------------------------------------------
(* The results. *)

(* However many lines HMRC's file has: every rejected transaction that the *)
(* processor hands to ICMS carries the reference of its own header and the *)
(* errors of its own lines (_current_rejected of the processor).           *)
THEOREM ReplyInvariant == Spec => []ReplyInv
  BY InitInv, NextKeeps, PTL DEF Spec

(* As many rejected transactions as headers, from headers that differ: no  *)
(* header is missing.                                                      *)
LEMMA EveryHeaderHandedOver ==
  ASSUME ReplyInv, Len(rejected) = Cardinality(LinesOf("rejected")),
         NEW i \in LinesOf("rejected")
  PROVE  \E k \in 1..Len(rejected) : rejected[k].at = i
  <1> DEFINE K == 1..Len(rejected)
             H == LinesOf("rejected")
             f == [k \in K |-> rejected[k].at]
  <1>1. Len(rejected) \in Nat /\ Len(file) \in Nat
    BY LenProperties DEF ReplyInv, TypeOK
  <1>2. IsFiniteSet(H)
    <2>1. IsFiniteSet(1..Len(file))
      BY <1>1, FS_Interval
    <2> QED
      BY <2>1, FS_Subset DEF LinesOf
  <1>3. f \in Injection(K, H)
    <2>1. ASSUME NEW k \in K PROVE rejected[k].at \in H
      BY DEF ReplyInv, ErrorsBelong, IsOfTheFile, Ends
    <2>2. \A k, l \in K : rejected[k].at = rejected[l].at => k = l
      BY DEF ReplyInv, HeadersDistinct
    <2> QED
      BY <2>1, <2>2 DEF Injection, IsInjective
  <1>4. Cardinality(K) = Cardinality(H)
    BY <1>1, FS_Interval
  <1>5. f \in Surjection(K, H)
    BY <1>2, <1>3, <1>4, FS_Injection
  <1> QED
    BY <1>5 DEF Surjection

(* A file that the processor calls valid loses no answer: when the trailer *)
(* counts the transactions right, every accepted and every rejected line's *)
(* reference is among those reported, and no transaction is left open.     *)
THEOREM ValidFileIsComplete == Spec => []ValidLosesNothing
  <1>1. ASSUME ReplyInv PROVE ValidLosesNothing
    <2> SUFFICES ASSUME ReplyFileIsValid, TrailerHonest
                 PROVE  /\ \A i \in LinesOf("accepted") : file[i].ref \in Refs(accepted)
                        /\ \A i \in LinesOf("rejected") : file[i].ref \in RejectedRefs
                        /\ ~ Open
      BY DEF ValidLosesNothing
    <2>1. Len(rejected) = Cardinality(LinesOf("rejected"))
      BY DEF ReplyFileIsValid, TrailerHonest
    <2>2. \A i \in LinesOf("rejected") : \E k \in 1..Len(rejected) : rejected[k].at = i
      BY <1>1, <2>1, EveryHeaderHandedOver
    <2>3. \A k \in 1..Len(rejected) : rejected[k].ref = file[rejected[k].at].ref
      BY <1>1 DEF ReplyInv, ErrorsBelong, IsOfTheFile
    <2>4. \A i \in LinesOf("rejected") : file[i].ref \in RejectedRefs
      BY <2>2, <2>3 DEF RejectedRefs
    <2>5. ~ Open
      <3> SUFFICES ASSUME Open PROVE FALSE
        OBVIOUS
      <3>1. current.at \in LinesOf("rejected")
        BY <1>1 DEF ReplyInv, OpenAtItsHeader
      <3> QED
        BY <1>1, <2>2, <3>1, OpenNotHandedOver
    <2> QED
      BY <1>1, <2>4, <2>5 DEF ReplyInv, AcceptedKept
  <1> QED
    BY <1>1, ReplyInvariant, PTL

=============================================================================
