CONSTANTS
    s1 = s1
    s2 = s2
    r1 = r1
    r2 = r2
    NoAnswer = NoAnswer
    MaxPayload = 3
    MaxMail = 2
    MaxFailures = 1
    Outcomes <- MainOutcomes
    Sender <- TwoSenders
    Ref <- TwoRefs
    RefOf <- Refs
SPECIFICATION Spec
INVARIANTS IcmsInv ToldTheRightLicence NoAnswerDropped
PROPERTIES ImplementsWorkflow
CHECK_DEADLOCK FALSE
