CONSTANTS
    w1 = w1
    w2 = w2
    MaxPayload = 2
    MaxMail = 2
    MaxFailures = 1
    Worker <- OneWorker
    Unsendable <- NonePayload
SPECIFICATION Spec
INVARIANTS RunIdentifiesFile
CHECK_DEADLOCK FALSE
