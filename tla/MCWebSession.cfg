\* Two tabs and two users; three tokens, two exchanges, one waiting operation.
CONSTANTS
    left = left
    right = right
    ann = ann
    bob = bob
    Tabs <- TwoTabs
    Users <- TwoUsers
    MaxTokens = 3
    MaxRequests = 2
    MaxQueue = 1
SPECIFICATION Spec
 
PROPERTIES SignedOutForCause QueuedOperationsEnd
CHECK_DEADLOCK FALSE
