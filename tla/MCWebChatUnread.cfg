\* The same instance; one property, which a comment of the code states.
CONSTANTS
    a = a
    b = b
    Convs <- TwoConvs
    MaxMessages = 2
    MaxUses = 2
    MaxFiles = 1
SPECIFICATION ChatSpec
SYMMETRY ConvSymmetry
INVARIANT UnreadCountsMessages
CHECK_DEADLOCK FALSE
