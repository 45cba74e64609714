CONSTANTS
    w1 = w1
    w2 = w2
    s1 = s1
    s2 = s2
    NoAnswer = NoAnswer
    MaxPayload = 3
    MaxMail = 3
    MaxMessages = 4
    MaxFailures = 1
    Worker <- OneWorker
    Sender <- TwoSenders
    Unsendable <- NoneUnsendable
    Outcomes <- SomeOutcomes
    Ref <- Payload
    RefOf <- OwnRef
SPECIFICATION FairSpec
INVARIANTS ClosedIsComplete
PROPERTIES EachInItsPlace UsableReplyIsClosed LifeOfRequests EveryRequestIsAnswered
CHECK_DEADLOCK FALSE
