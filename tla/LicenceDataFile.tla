--------------------------- MODULE LicenceDataFile ---------------------------
(***************************************************************************)
(* How queued payloads become a licenceData file: what the ingest API lets *)
(* in (mail/serializers.py), the records that are written for it           *)
(* (licences_to_edifact, generate_lines_for_icms_licence), the numbers     *)
(* that tie the records together (chiefprotocol.py), the check of the file *)
(* (edifact_validator.py), and the transliteration to ASCII that comes     *)
(* after the check (email/utils.py).                                       *)
(*                                                                         *)
(* The API stores the request as it came (data=data), not the serializer's *)
(* cleaned copy, and a text is the class that the checks tell apart:       *)
(*   "long"      too long, or in no form that its field takes              *)
(*   "padded"    too long only with the blanks around it                   *)
(*   "sep"       has a field separator (a backslash)                       *)
(*   "inner"     has a line break inside                                   *)
(*   "outer"     has a line break at an end where it cuts the record: at   *)
(*               the end of the record's last field it only adds a blank   *)
(*               line                                                      *)
(*   "folds"     has a character beyond ASCII, as the fullwidth backslash  *)
(*               or the line separator U+2028, that transliteration makes  *)
(*               a separator or a line break                               *)
(*   "grows"     fits, but is too long when one character becomes several  *)
(*   "vanishes"  nothing is left of it, as of a zero-width space           *)
(***************************************************************************)
EXTENDS Integers, Sequences, FiniteSets

CONSTANTS Data,         \* requests that ICMS posts
          MaxLicences   \* bound: payloads in a file

Text == {"none", "empty", "plain", "long", "padded", "sep", "inner", "outer",
         "folds", "grows", "vanishes"}

(* quantity is "none" when it or its unit is absent, null or zero.         *)
Good == [description : Text, commodity : Text, quantity : Text,
         controlledBy : {"none", "B", "O", "Q", "V"}]

(* name stands for the worst of the organisation's name and address lines  *)
(* (empty: the first address line, which alone must not be), licenceRef    *)
(* for the worse of the licence's and the case's reference. A postcode is  *)
(* "plain" if it is a UK one, with blanks around it or not, and "other" if *)
(* it is neither that nor of another class. dates are the trader's,        *)
(* licenceDates the licence's: "reversed" if as numbers they do not        *)
(* compare in order, "outer" if a line break follows a date that is not    *)
(* its record's last field. "number" is a JSON number.                     *)
Request ==
    [type : {"DFL", "OIL", "SIL", "SAN", "NUCLEAR"},
     action : {"insert", "replace", "cancel", "update"},
     licenceRef : Text, licenceDates : {"plain", "outer"},
     name : Text, eori : Text, dates : {"absent", "inOrder", "reversed", "outer"},
     postcode : {"none", "empty", "plain", "long", "outer", "folds", "other"},
     group : Text, code : Text,
     restrictions : Text \cup {"number"}, goods : Seq(Good)]

ASSUME DataAssumption == Data \subseteq Request
ASSUME MaxLicencesAssumption == MaxLicences \in Nat

VARIABLES batch,        \* the payloads of the file, in queue order
          lines,        \* the records written so far
          outcome       \* "building", then "formatted", then "valid" or
                        \* "invalid", and "mailed"; "raised" by an exception

vars == <<batch, lines, outcome>>

-----------------------------------------------------------------------------
(* What the serializers let in. *)

Imports(d) == d.action \in {"insert", "replace"}

(* CharField: blanks and line breaks around the text do not count. *)
AcceptedText(t) == t \notin {"none", "empty", "long"}

(* validate_eori_number: a prefix and a length, not the digits. *)
AcceptedEori(t) == AcceptedText(t) /\ t # "vanishes"

(* DecimalField reads the trimmed text. *)
AcceptedQuantity(q) == q \in {"none", "plain", "padded", "outer", "folds"}

(* _validate_controlled_by *)
AcceptedControl(g) ==
    /\ AcceptedQuantity(g.quantity)
    /\ g.controlledBy # "none"
    /\ g.controlledBy = "Q" => g.quantity # "none"

(* One of the two is needed; two characters have no room for a line break. *)
AcceptedCountry(d) ==
    /\ d.group = "none" \/ AcceptedText(d.group)
    /\ d.code = "none" \/ (AcceptedText(d.code) /\ d.code # "inner")
    /\ {d.group, d.code} # {"none"}

(* _validate_description_whitespace looks at the trimmed description. *)
AcceptedDescription(g) == AcceptedText(g.description) /\ g.description # "inner"

(* Variant for the mutation checks: the quantity is not checked. *)
AnyQuantity(type, g) ==
    /\ type \in {"SIL", "OIL", "DFL"} => AcceptedDescription(g)
    /\ type \in {"SAN", "NUCLEAR"} => AcceptedText(g.commodity)

(* The serializer of the goods of each licence type. *)
AcceptedGood(type, g) ==
    /\ type \in {"SIL", "OIL", "DFL"} => AcceptedDescription(g)
    /\ type \in {"SAN", "NUCLEAR"} => AcceptedText(g.commodity)
    /\ type \in {"SIL", "SAN", "NUCLEAR"} => AcceptedControl(g)

(* serializer.is_valid(): a cancel has the common fields only. *)
Accepted(d) ==
    /\ d.action # "update"
    /\ AcceptedText(d.licenceRef)
    /\ Imports(d) =>
          /\ AcceptedText(d.name) /\ AcceptedEori(d.eori) /\ d.postcode # "long"
          /\ d.restrictions = "empty" \/ AcceptedText(d.restrictions)
          /\ AcceptedCountry(d)
          /\ \A i \in DOMAIN d.goods : AcceptedGood(d.type, d.goods[i])

-----------------------------------------------------------------------------
(* The records of one licence. *)

LicenceLine(ref, d) ==
    [type_ |-> "licence", lineno |-> 0, transactionRef |-> ref,
     action |-> d.action, licenceRef |-> d.licenceRef, dates |-> d.licenceDates,
     licenceType |-> IF d.type \in {"SIL", "DFL", "NUCLEAR"} THEN "SIL" ELSE d.type]

TraderLine(d) ==
    [type_ |-> "trader", lineno |-> 0, rpaTraderId |-> d.eori, dates |-> d.dates,
     name |-> d.name, postcode |-> d.postcode]

(* A group goes before a code. *)
CountryLine(d) ==
    [type_ |-> "country", lineno |-> 0, use |-> "O", group |-> d.group,
     code |-> IF d.group = "none" THEN d.code ELSE "none"]

(* "|".join(restrictions.splitlines()).strip(), where a line separator is  *)
(* a line break like any other.                                            *)
RestrictionsLine(d) ==
    [type_ |-> "restrictions", lineno |-> 0,
     text |-> IF d.restrictions \in {"sep", "folds"} THEN d.restrictions ELSE "plain"]

GoodsLine(d, i) ==
    LET g == d.goods[i]
        kept == d.type \in {"SIL", "SAN", "NUCLEAR"}
    IN  [type_ |-> "line", lineno |-> 0, lineNum |-> i,
         commodity |-> IF d.type \in {"SAN", "NUCLEAR"} THEN g.commodity ELSE "none",
         description |-> IF d.type = "SAN" THEN "none" ELSE g.description,
         controlledBy |-> IF kept THEN g.controlledBy ELSE "O",
         quantity |-> IF kept /\ g.controlledBy = "Q" THEN g.quantity ELSE "none"]

EndLine == [type_ |-> "end", lineno |-> 0, startRecordType |-> "licence", recordCount |-> 0]

GoodsLines(d) == [i \in DOMAIN d.goods |-> GoodsLine(d, i)]

(* The branch of the sanctions goods. *)
Sanctions(d) == IF d.type = "SAN" THEN GoodsLines(d) ELSE <<>>

(* Variant of GetGoods for the mutation checks: every branch enumerates    *)
(* the goods anew.                                                         *)
EnumeratesAnew(d) == Sanctions(d) \o GoodsLines(d)

(* One enumerate() serves all branches: after the sanctions branch the     *)
(* second `if` falls into its last branch, with what is left of the goods. *)
GetGoods(d) ==
    Sanctions(d) \o SubSeq(GoodsLines(d), Len(Sanctions(d)) + 1, Len(d.goods))

If(condition, line) == IF condition THEN <<line>> ELSE <<>>

(* generate_lines_for_icms_licence *)
LinesFor(ref, d) ==
    <<LicenceLine(ref, d)>>
        \o (IF Imports(d)
            THEN <<TraderLine(d)>>
                 \o If({d.group, d.code} # {"none"}, CountryLine(d))
                 \o If(d.restrictions \notin {"none", "empty"}, RestrictionsLine(d))
                 \o GetGoods(d)
            ELSE <<>>)
        \o <<EndLine>>

(* The generator reads a key that the request does not have, or asks a     *)
(* number for its lines.                                                   *)
GoodRaises(type, g) ==
    \/ type # "SAN" /\ g.description = "none"
    \/ type \in {"SAN", "NUCLEAR"} /\ g.commodity = "none"
    \/ /\ type \in {"SIL", "SAN", "NUCLEAR"}
       /\ g.controlledBy = "none" \/ (g.controlledBy = "Q" /\ g.quantity = "none")

Raises(d) ==
    /\ Imports(d)
    /\ \/ d.restrictions = "number"
       \/ \E i \in DOMAIN d.goods : GoodRaises(d.type, d.goods[i])

-----------------------------------------------------------------------------
(* chiefprotocol.py *)

FileHeader ==
    [type_ |-> "fileHeader", lineno |-> 0, source |-> "ILBDOTI",
     destination |-> "CHIEF", dataId |-> "licenceData", resetRunNum |-> "N"]

PlacesOf(type, s) == {i \in DOMAIN s : s[i].type_ = type}

(* count_transactions: a replace counts once, like the rest. *)
CountTransactions(s) == Cardinality(PlacesOf("licence", s))

(* Variant of StartOf for the mutation checks: the first line of that type *)
(* is kept, not the most recent one.                                       *)
FirstStart(s, i) ==
    CHOOSE k \in PlacesOf(s[i].startRecordType, s) :
        \A j \in PlacesOf(s[i].startRecordType, s) : k <= j

(* starts[line.start_record_type] when line i is reached. *)
StartOf(s, i) ==
    CHOOSE k \in PlacesOf(s[i].startRecordType, s) :
        /\ k < i
        /\ \A j \in PlacesOf(s[i].startRecordType, s) : j < i => j <= k

(* Variant of ResolveLineNumbers for the mutation checks: enumerate from 0. *)
NumbersFromZero(s) ==
    [i \in DOMAIN s |->
        IF s[i].type_ = "end"
        THEN [s[i] EXCEPT !.lineno = i - 1, !.recordCount = i - StartOf(s, i) + 1]
        ELSE [s[i] EXCEPT !.lineno = i - 1]]

ResolveLineNumbers(s) ==
    [i \in DOMAIN s |->
        IF s[i].type_ = "end"
        THEN [s[i] EXCEPT !.lineno = i, !.recordCount = i - StartOf(s, i) + 1]
        ELSE [s[i] EXCEPT !.lineno = i]]

FileTrailer(s) ==
    [type_ |-> "fileTrailer", lineno |-> 0, transactionCount |-> CountTransactions(s)]

-----------------------------------------------------------------------------
(* edifact_validator.py, on the text of the file: a separator in a field   *)
(* or a line break changes the number of tokens of the line, and the rest  *)
(* of a broken line is no record type.                                     *)
Splits(t) == t \in {"sep", "inner", "outer"}

FileHeaderInvalid(r) ==
    \/ r.lineno # 1
    \/ r.source = r.destination
    \/ r.dataId \notin {"licenceData", "licenceReply", "usageData", "usageReply"}
    \/ r.resetRunNum \notin {"Y", "N"}

LicenceInvalid(r) ==
    \/ Splits(r.licenceRef) \/ Splits(r.dates)
    \/ r.action \notin {"insert", "cancel", "replace"}
    \/ r.licenceType \notin {"SIL", "OIL", "SAN"}

TraderInvalid(r) ==
    \/ Splits(r.name) \/ Splits(r.rpaTraderId) \/ Splits(r.dates) \/ Splits(r.postcode)
    \/ r.rpaTraderId \in {"none", "empty"}
    \/ r.dates = "reversed"
    \/ r.name \in {"long", "padded"}
    \/ r.postcode \in {"long", "other"}

CountryInvalid(r) ==
    \/ Splits(r.code) \/ Splits(r.group)
    \/ {r.code, r.group} \cap {"none", "empty"} = {}
    \/ r.use \notin {"D", "E", "O", "P", "R", "S"}

ProductLineInvalid(r) ==
    \/ Splits(r.commodity) \/ Splits(r.description) \/ Splits(r.quantity)
    \/ {r.commodity, r.description} \subseteq {"none", "empty"}
    \/ r.controlledBy \notin {"B", "O", "Q", "V"}

RecordInvalid(r) ==
    CASE r.type_ = "fileHeader" -> FileHeaderInvalid(r)
      [] r.type_ = "licence" -> LicenceInvalid(r)
      [] r.type_ = "trader" -> TraderInvalid(r)
      [] r.type_ = "country" -> CountryInvalid(r)
      [] r.type_ = "restrictions" -> Splits(r.text)
      [] r.type_ = "line" -> ProductLineInvalid(r)
      [] OTHER -> FALSE

(* validate_edifact_file: the numbers that tie records together -- line    *)
(* numbers, record counts, the transaction count -- are not looked at.     *)
FileInvalid(s) == \E i \in DOMAIN s : RecordInvalid(s[i])

-----------------------------------------------------------------------------
(* unidecode_expect_ascii, on the text of the file. *)
TextField == {"licenceRef", "name", "rpaTraderId", "postcode", "code", "group",
              "commodity", "description", "quantity", "text"}

AsciiOf(t) ==
    CASE t = "folds" -> "sep"
      [] t = "grows" -> "long"
      [] t = "vanishes" -> "empty"
      [] OTHER -> t

(* Variant of Transliterated for the mutation checks: left out. *)
AsItWas(s) == s

Transliterated(s) ==
    [i \in DOMAIN s |->
        [f \in DOMAIN s[i] |-> IF f \in TextField THEN AsciiOf(s[i][f]) ELSE s[i][f]]]

-----------------------------------------------------------------------------
Init ==
    /\ batch = <<>>
    /\ lines = <<FileHeader>>
    /\ outcome = "building"

(* One turn of the loop over the queued payloads. *)
WriteLicence(d) ==
    /\ outcome = "building" /\ Len(batch) < MaxLicences
    /\ Accepted(d)
    /\ ~ Raises(d)
    /\ batch' = Append(batch, d)
    /\ lines' = lines \o LinesFor(Len(batch) + 1, d)
    /\ UNCHANGED outcome

RaiseError(d) ==
    /\ outcome = "building" /\ Len(batch) < MaxLicences
    /\ Accepted(d)
    /\ Raises(d)
    /\ batch' = Append(batch, d)
    /\ outcome' = "raised"
    /\ UNCHANGED lines

(* The trailer, then format_lines. *)
FormatLines ==
    /\ outcome = "building" /\ batch # <<>>
    /\ lines' = ResolveLineNumbers(Append(lines, FileTrailer(lines)))
    /\ outcome' = "formatted"
    /\ UNCHANGED batch

Validate ==
    /\ outcome = "formatted"
    /\ outcome' = IF FileInvalid(lines) THEN "invalid" ELSE "valid"
    /\ UNCHANGED <<batch, lines>>

(* send_chief_email: the file is not checked again. *)
SendChiefEmail ==
    /\ outcome = "valid"
    /\ lines' = Transliterated(lines)
    /\ outcome' = "mailed"
    /\ UNCHANGED batch

Next ==
    \/ \E d \in Data : WriteLicence(d) \/ RaiseError(d)
    \/ FormatLines
    \/ Validate
    \/ SendChiefEmail

Spec == Init /\ [][Next]_vars

-----------------------------------------------------------------------------
RecordType == {"fileHeader", "licence", "trader", "country", "restrictions",
               "line", "end", "fileTrailer"}

(* Types; a line is numbered by its place in the file. *)
TypeOK ==
    /\ batch \in Seq(Data) /\ Len(batch) <= MaxLicences
    /\ outcome \in {"building", "formatted", "valid", "invalid", "mailed", "raised"}
    /\ \A i \in 1..Len(lines) :
          /\ lines[i].type_ \in RecordType
          /\ lines[i].lineno = IF outcome \in {"building", "raised"} THEN 0 ELSE i

(* How the reader of the file cuts it: line e ends a transaction that      *)
(* starts as many lines before as its record count says.                   *)
Complete == outcome \in {"formatted", "valid", "invalid", "mailed"}
First(e) == e - lines[e].recordCount + 1
Inside(e) == {j \in 1..Len(lines) : First(e) < j /\ j < e}

(* The file can be read back: its k-th end record closes the transaction   *)
(* of the k-th payload, whose first line the record count finds, nothing   *)
(* lies between two transactions and none reaches into another, and the    *)
(* trailer counts them (the validator checks none of this).                *)
ReadsBack ==
    Complete =>
        LET ends == PlacesOf("end", lines)
            last == Len(lines)
        IN  /\ Cardinality(ends) = Len(batch)
            /\ lines[last].type_ = "fileTrailer"
            /\ lines[last].transactionCount = Len(batch)
            /\ \A k \in 1..Len(batch) : \E e \in ends :
                  /\ Cardinality({f \in ends : f <= e}) = k
                  /\ lines[First(e)].type_ = "licence"
                  /\ lines[First(e)].transactionRef = k
                  /\ lines[First(e)].action = batch[k].action
                  /\ \A j \in Inside(e) : lines[j].type_ \notin {"licence", "end"}
                  /\ lines[e + 1].type_ = IF k = Len(batch) THEN "fileTrailer" ELSE "licence"

(* Every good of a licence is on one line of its transaction, numbered in  *)
(* order, whatever branch of get_goods its licence type takes; a cancel    *)
(* has no line at all.                                                     *)
EachGoodOnce ==
    Complete =>
        \A e \in PlacesOf("end", lines) :
            LET d == batch[lines[First(e)].transactionRef]
                goods == {j \in Inside(e) : lines[j].type_ = "line"}
            IN  IF Imports(d)
                THEN /\ Cardinality(goods) = Len(d.goods)
                     /\ {lines[j].lineNum : j \in goods} = 1..Len(d.goods)
                ELSE Inside(e) = {}

(* The country field that is written.                                      *)
CountryText(d) == IF d.group = "none" THEN d.code ELSE d.group

(* The texts of a good that are written.                                   *)
GoodTexts(type, g) ==
    (IF type = "SAN" THEN {} ELSE {g.description})
        \cup (IF type \in {"SAN", "NUCLEAR"} THEN {g.commodity} ELSE {})

QuantityText(type, g) ==
    IF type \in {"SIL", "SAN", "NUCLEAR"} /\ g.controlledBy = "Q" THEN g.quantity ELSE "none"

(* What the API lets in and no file can carry: text that breaks the record *)
(* it is written into or is too long with its blanks, an overseas post-    *)
(* code, dates in the wrong order or before a line break, restrictions     *)
(* that are a number, nuclear goods without a description.                 *)
UnsendableGood(type, g) ==
    \/ \E t \in GoodTexts(type, g) \cup {QuantityText(type, g)} : Splits(t)
    \/ type = "NUCLEAR" /\ g.description = "none"

Unsendable(d) ==
    \/ Splits(d.licenceRef) \/ d.licenceDates = "outer"
    \/ /\ Imports(d)
       /\ \/ \E t \in {d.name, d.eori, d.postcode, CountryText(d)} : Splits(t)
          \/ d.name = "padded" \/ d.postcode = "other" \/ d.dates \in {"reversed", "outer"}
          \/ d.restrictions \in {"sep", "number"}
          \/ \E i \in DOMAIN d.goods : UnsendableGood(d.type, d.goods[i])

(* A file is refused exactly when it holds one of those, and then whole:   *)
(* no other request fails, and none is saved by the company it keeps.      *)
(* This is what module SendLicenceData takes Unsendable to mean.           *)
RefusedForOnePayload ==
    outcome \in {"valid", "invalid", "mailed", "raised"} =>
        (outcome \in {"valid", "mailed"} <=> \A k \in 1..Len(batch) : ~ Unsendable(batch[k]))

(* Text that passes the check and breaks its record when it is folded: in  *)
(* any field that is written, in a name or address that outgrows it, or in *)
(* a good of which nothing is left.                                        *)
FoldsGood(type, g) ==
    \/ "folds" \in GoodTexts(type, g) \cup {QuantityText(type, g)}
    \/ GoodTexts(type, g) \subseteq {"none", "empty", "vanishes"}

Folds(d) ==
    \/ d.licenceRef = "folds"
    \/ /\ Imports(d)
       /\ \/ "folds" \in {d.name, d.eori, d.postcode, CountryText(d), d.restrictions}
          \/ d.name = "grows"
          \/ \E i \in DOMAIN d.goods : FoldsGood(d.type, d.goods[i])

(* The file that HMRC gets still passes the check that was made before it  *)
(* was transliterated, but for exactly the requests with such text: those  *)
(* reach HMRC as records that HMRC cannot read.                            *)
MailedAsChecked ==
    outcome = "mailed" =>
        (FileInvalid(lines) <=> \E k \in 1..Len(batch) : Folds(batch[k]))

=============================================================================
