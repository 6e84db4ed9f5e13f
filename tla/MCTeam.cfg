CONSTANTS
    u1 = u1
    u2 = u2
    u3 = u3
    c1 = c1
    c2 = c2
    c3 = c3
    c4 = c4
    User = {u1, u2, u3}
    Founder = {u1}
    Invite = {i1, i2}
    Email = {m1}
    Call = {c1, c2, c3, c4}
    MemberOps = {"role", "remove", "deactivate"}
    MaxInFlight = 2
    MaxFaults = 1
    None = None
SPECIFICATION Spec
SYMMETRY CallSymmetry
INVARIANTS OnePendingPerEmail AcceptedWasJoined InvitationAdmitsOne
PROPERTIES GuardsKeepAnAdmin DeactivatedStaysOut RevokedAdmitsNobody
CHECK_DEADLOCK FALSE
