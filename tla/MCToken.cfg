CONSTANTS
    c1 = c1
    c2 = c2
    c3 = c3
    c4 = c4
    Call = {c1, c2, c3, c4}
    MaxTime = 3
    TTL = 2
    MaxInFlight = 2
    MaxFaults = 1
    None = None
SPECIFICATION Spec
SYMMETRY CallSymmetry
INVARIANTS AnswersAreDistinct ExchangesAreLimited
PROPERTIES RevokedStaysRevoked RevocationHasCause
CHECK_DEADLOCK FALSE
