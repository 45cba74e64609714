CONSTANTS
    w1 = w1
    w2 = w2
    MaxPayload = 4
    MaxMail = 4
    MaxFailures = 2
    Worker <- OneWorker
    Unsendable <- LastPayload
SPECIFICATION FairSpec
INVARIANTS AloneInv NoPhantomFile
PROPERTIES QueueDrains
CHECK_DEADLOCK FALSE
