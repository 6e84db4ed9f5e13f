CONSTANTS
    Event = {e1}
    Sub = {s1}
    Worker = {w1, w2}
    Retrier = {x1, x2}
    MaxRetries = 2
    MaxFaults = 1
    None = None
SPECIFICATION FairSpec
INVARIANTS StatusIsEarned
PROPERTIES SuccessIsFinal DeliveriesSettle
CHECK_DEADLOCK FALSE
