\* Two messages, two selections or readings by the others.
CONSTANTS
    a = a
    b = b
    Convs <- TwoConvs
    MaxMessages = 2
    MaxUses = 2
    MaxFiles = 1
SPECIFICATION ChatSpec
SYMMETRY ConvSymmetry
VIEW Uncounted
INVARIANTS
    ShownOnce
    CheckMarksAreHonest
    ViewIsTheConversation
    FilesAreShown
CHECK_DEADLOCK FALSE
