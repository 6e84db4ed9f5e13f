CONSTANTS
    worker = worker
    w1 = w1
    w2 = w2
    Group = {worker}
    Consumer = {w1, w2}
    GroupOf <- OneService
    BatchSize = 3
    Malformed = {2}
    MaxEntries = 5
    MaxCrashes = 2
SPECIFICATION FairSpec
INVARIANTS TypeOK EntryHasOneOwner AckFollowsHandler HandledInOrder
PROPERTIES AtMostOnce EveryEntryIsRead
CHECK_DEADLOCK FALSE
