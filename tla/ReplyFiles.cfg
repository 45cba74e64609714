CONSTANTS
    Ref = {r1, r2}
    NoRef = NoRef
    MaxLines = 6
    Trailer <- SmallTrailers
SYMMETRY RefSymmetry
SPECIFICATION Spec
INVARIANTS ReplyInv ValidLosesNothing
CHECK_DEADLOCK FALSE
