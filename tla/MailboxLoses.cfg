CONSTANTS
    MaxPayload = 1
    MaxMail = 1
    Kinds <- AllKinds
    MaxMessages = 1
    MaxFailures = 1
SPECIFICATION Spec
INVARIANTS RollsBackCompletely
CHECK_DEADLOCK FALSE
