CONSTANTS
    SP = {p1}
    Call = {c1}
    Kinds = {"ad", "callback"}
    Times <- FewTimes
    DaySets <- FewDays
    Scopes = {"GLOBAL", "CATEGORY"}
    MaxRules = 1
    AdCap = 2
    MaxAds = 3
    MaxChanges = 1
    MaxFaults = 1
SPECIFICATION Spec
PROPERTY NothingBypassesPolicy
CHECK_DEADLOCK FALSE
