CONSTANTS
    Data <- ManyRequests
    MaxLicences = 2
SPECIFICATION Spec
INVARIANTS TypeOK ReadsBack EachGoodOnce RefusedForOnePayload MailedAsChecked
CHECK_DEADLOCK FALSE
