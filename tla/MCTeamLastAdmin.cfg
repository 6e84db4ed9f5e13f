CONSTANTS
    u1 = u1
    u2 = u2
    u3 = u3
    c1 = c1
    c2 = c2
    c3 = c3
    c4 = c4
    User = {u1, u2}
    Founder = {u1, u2}
    Invite = {}
    Email = {m1}
    Call = {c1, c2}
    MemberOps = {"role", "remove", "deactivate"}
    MaxInFlight = 2
    MaxFaults = 0
    None = None
SPECIFICATION Spec
INVARIANTS LastAdminStays
CHECK_DEADLOCK FALSE
