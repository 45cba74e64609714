CONSTANTS
    MaxPayload = 2
    MaxMail = 2
    Kinds <- AllKinds
    MaxMessages = 3
    MaxFailures = 1
SPECIFICATION FairSpec
INVARIANTS MailboxInv StoredExactlyOnce
PROPERTIES AnswerStands OnlyPoisonBlocks ImplementsWorkflow
CHECK_DEADLOCK FALSE
