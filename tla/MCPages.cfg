\* Two changes or requests in a behaviour, both in flight together.
CONSTANTS
    Table <- AllPages
    MaxUses = 2
    MaxInFlight = 2
SPECIFICATION Spec
INVARIANTS
    SingleFlight
    NoStuckBusy
    FreshWhenSettled
    DialogsCanBeLeft
PROPERTIES  SentAsRequired
CHECK_DEADLOCK FALSE
