CONSTANTS
    Request = {r1}
    Slot = {s1}
    Call = {c1, c2, c3, c4}
    MaxInFlight = 2
    None = None
SPECIFICATION FairSpec
INVARIANTS TypeOK EventsAreBacked
PROPERTIES AnswersStand RemindersAreTrue StreamIsDrained
