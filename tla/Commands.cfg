CONSTANTS
    NoAnswer = NoAnswer
    Flags = {TRUE}
    MaxPayload = 3
    MaxMail = 3
    MaxCommands = 3
    MaxFailures = 1
    Commands <- AllCommands
SPECIFICATION Spec
INVARIANTS TypeOK AwaitingMeansMailed ArchivedIsResent AnsweredNotResent NothingUndone HealthyMeansSettled SeedFixesTheRun
CHECK_DEADLOCK FALSE
