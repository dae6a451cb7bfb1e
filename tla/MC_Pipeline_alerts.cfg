CONSTANTS
    b1 = b1
    b2 = b2
    x = x
    y = y
    None = None
    NoCall = NoCall
    Bins = {b1, b2}
    Skus = {x, y}
    Requests = {1, 2}
    Callers = {1, 2}
    Expected <- MCExpected
    Batches <- MCBatches
    MaxCalls = 2
    MaxFaults = 1
SPECIFICATION Spec
INVARIANTS
    Inv
    AnsweredIsDone
PROPERTIES
    EscalationStays
CHECK_DEADLOCK FALSE
