-------------------------- MODULE MCLicenceDataFile --------------------------
(* Instances of LicenceDataFile for TLC: one plain request of every type   *)
(* and action, and the requests that differ from one in a single field.    *)
EXTENDS LicenceDataFile

PlainGood(type) ==
    [description |-> IF type = "SAN" THEN "none" ELSE "plain",
     commodity |-> IF type \in {"SAN", "NUCLEAR"} THEN "plain" ELSE "none",
     quantity |-> IF type \in {"SIL", "SAN", "NUCLEAR"} THEN "plain" ELSE "none",
     controlledBy |-> IF type \in {"SIL", "SAN", "NUCLEAR"} THEN "Q" ELSE "none"]

Plain(type, action) ==
    [type |-> type, action |-> action, licenceRef |-> "plain", licenceDates |-> "plain",
     name |-> "plain", eori |-> "plain", dates |-> "absent", postcode |-> "plain",
     group |-> "none", code |-> "plain", restrictions |-> "plain",
     goods |-> IF action = "cancel" THEN <<>>
               ELSE <<PlainGood(type), PlainGood(type)>>]

Types == {"DFL", "OIL", "SIL", "SAN", "NUCLEAR"}
PlainRequests == {Plain(t, a) : t \in Types, a \in {"insert", "cancel"}}

WithGood(d, g) == [d EXCEPT !.goods[1] = g]

(* Variations of the fields that all types share. *)
SharedVariations ==
    LET d == Plain("SIL", "insert")
    IN  {[d EXCEPT !.action = a] : a \in {"replace", "update"}}
        \cup {[d EXCEPT !.licenceRef = t] : t \in Text}
        \cup {[d EXCEPT !.name = t] : t \in Text}
        \cup {[d EXCEPT !.eori = t] : t \in Text}
        \cup {[d EXCEPT !.postcode = c] :
                 c \in {"none", "empty", "long", "outer", "folds", "other"}}
        \cup {[d EXCEPT !.dates = o] : o \in {"inOrder", "reversed", "outer"}}
        \cup {[d EXCEPT !.code = t] : t \in Text}
        \cup {[d EXCEPT !.group = t, !.code = c] : t \in Text, c \in {"none", "plain", "sep"}}
        \cup {[d EXCEPT !.restrictions = t] : t \in Text \cup {"number"}}
        \cup {[d EXCEPT !.goods = <<>>]}
        \cup {[Plain("SIL", a) EXCEPT !.licenceDates = "outer"] : a \in {"insert", "cancel"}}

(* Variations of a good. *)
GoodVariations ==
    UNION {LET g == PlainGood(t)
               goods == {[g EXCEPT !.description = x] : x \in Text}
                        \cup {[g EXCEPT !.commodity = x] : x \in Text}
                        \cup {[g EXCEPT !.controlledBy = c] : c \in {"none", "B", "O", "V"}}
                        \cup {[g EXCEPT !.quantity = x] : x \in Text}
                        \cup {[g EXCEPT !.description = "empty", !.commodity = "vanishes"]}
           IN  {WithGood(Plain(t, "insert"), x) : x \in goods} : t \in Types}

ManyRequests == PlainRequests \cup SharedVariations \cup GoodVariations

=============================================================================
