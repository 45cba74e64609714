CONSTANTS
    w1 = w1
    w2 = w2
    MaxPayload = 4
    MaxMail = 4
    MaxFailures = 1
    Worker <- TwoWorkers
    Unsendable <- LastPayload
SPECIFICATION Spec
SYMMETRY WorkerSymmetry
INVARIANTS SendInv NoDoubleSend MailedBeforeRecorded OutstandingBounded
PROPERTIES ImplementsWorkflow
CHECK_DEADLOCK FALSE
