----------------------- MODULE TeamMembership_proofs -----------------------
(***************************************************************************)
(* Theorems about TeamMembership, for any users, invitations, calls,       *)
(* overlap and number of failures.                                         *)
(*                                                                         *)
(* What the guards give while calls do not overlap is carried by what the  *)
(* only call in flight has seen and not yet written (SerialInv).           *)
(***************************************************************************)
EXTENDS TeamMembership, FiniteSetTheorems, TLAPS

(***************************************************************************)
(* Types.                                                                  *)
(***************************************************************************)
\* What a call holds, by its next statement.
LEMMA CallFields ==
    ASSUME TypeOK, NEW c \in Call
    PROVE  LET k == call[c] IN
           /\ k.pc = "target" => k \in [pc: {"target"}, op: MemberOps, target: User, role: SPRole]
           /\ k.pc \in {"count", "write"} =>
                k \in [pc: {"count", "write"}, op: MemberOps, target: User, row: RowId, role: SPRole]
           /\ k.pc = "insert" => k \in [pc: {"insert"}, inv: Invite, email: Email, role: SPRole]
           /\ k.pc \in {"expire", "add", "accept"} =>
                k \in [pc: {"expire", "add", "accept"}, inv: Invite, user: User, role: SPRole]
           /\ k.pc \in {"authorize", "revoke"} =>
                k \in [pc: {"authorize", "revoke"}, inv: Invite, actor: User]
  <1>1. call[c] \in CallState
    BY DEF TypeOK
  <1> QED
    BY <1>1 DEF CallState

\* A call that goes on with a legal state leaves the calls typed.
LEMMA GotoTyped ==
    ASSUME TypeOK, NEW c \in Call, NEW s \in CallState, Goto(c, s)
    PROVE  call' \in [Call -> CallState]
  BY DEF TypeOK, Goto

LEMMA DoneTyped == Done \in CallState
  BY DEF Done, CallState

\* A new status leaves the invitations typed, if the invitation is there.
LEMMA SetStatusTyped ==
    ASSUME TypeOK, NEW i \in Invite, invite[i] # None,
           NEW s \in {"PENDING", "ACCEPTED", "EXPIRED", "REVOKED"}, SetStatus(i, s)
    PROVE  invite' \in [Invite -> Invitation \cup {None}]
  <1>1. invite[i] \in Invitation
    BY DEF TypeOK
  <1>2. [invite[i] EXCEPT !.status = s] \in Invitation
    BY <1>1 DEF Invitation
  <1> QED
    BY <1>2 DEF SetStatus, TypeOK

\* The invitation a call works on has been inserted, and a call about to mark it
\* accepted has let somebody in.
CallsBacked ==
    \A c \in Call :
       /\ call[c].pc \in {"expire", "add", "accept", "authorize", "revoke"} => invite[call[c].inv] # None
       /\ call[c].pc = "accept" => joined[call[c].inv] # {}

LEMMA MemberStepTyped ==
    ASSUME TypeOK, NEW c \in Call, MemberStep(c)
    PROVE  TypeOK'
  <1>1. CASE ReadTarget(c)
    <2> DEFINE k == call[c]
               row == member[k.target]
               guarded == row.role = "SP_ADMIN" /\ ~(k.op = "role" /\ k.role = "SP_ADMIN")
               s == [pc |-> IF guarded THEN "count" ELSE "write", op |-> k.op,
                     target |-> k.target, row |-> row.id, role |-> k.role]
    <2>1. k.op \in MemberOps /\ k.target \in User /\ k.role \in SPRole
      BY <1>1, CallFields DEF ReadTarget
    <2>2. row \in Member
      BY <1>1, <2>1 DEF ReadTarget, IsMember, TypeOK
    <2>3. row.id \in RowId
      BY <2>2 DEF Member
    <2>4. s \in CallState
      <3> HIDE DEF guarded, k, row
      <3> QED
        BY <2>1, <2>3 DEF CallState
    <2>5. Goto(c, s)
      BY <1>1 DEF ReadTarget
    <2> QED
      BY <1>1, <2>4, <2>5, GotoTyped DEF ReadTarget, TypeOK
  <1>2. CASE CountAdmins(c)
    <2>1. [call[c] EXCEPT !.pc = "write"] \in CallState
      BY <1>2, CallFields DEF CountAdmins, CallState
    <2> QED
      BY <1>2, <2>1, GotoTyped DEF CountAdmins, TypeOK
  <1>3. CASE WriteMember(c)
    <2> DEFINE k == call[c]
    <2>1. k.op \in MemberOps /\ k.target \in User /\ k.role \in SPRole
      BY <1>3, CallFields DEF WriteMember
    <2>2. member' \in [User -> Member \cup {None}]
      <3>1. CASE ~(IsMember(k.target) /\ member[k.target].id = k.row)
        BY <1>3, <3>1 DEF WriteMember, TypeOK
      <3>2. CASE IsMember(k.target) /\ member[k.target].id = k.row
        <4>1. member[k.target] \in Member
          BY <2>1, <3>2 DEF IsMember, TypeOK
        <4>2. /\ [member[k.target] EXCEPT !.role = k.role] \in Member
              /\ [member[k.target] EXCEPT !.status = "DEACTIVATED"] \in Member
          BY <2>1, <4>1 DEF Member
        <4>3. k.op \in {"role", "remove", "deactivate"}
          BY <2>1, TeamAssumption
        <4>4. CASE k.op = "role"
          <5>1. member' = [member EXCEPT ![k.target] = [member[k.target] EXCEPT !.role = k.role]]
            BY <1>3, <3>2, <4>4 DEF WriteMember
          <5> QED
            BY <4>2, <5>1 DEF TypeOK
        <4>5. CASE k.op = "remove"
          <5>1. member' = [member EXCEPT ![k.target] = None]
            BY <1>3, <3>2, <4>5 DEF WriteMember
          <5> QED
            BY <5>1 DEF TypeOK
        <4>6. CASE k.op = "deactivate"
          <5>1. member' = [member EXCEPT ![k.target] = [member[k.target] EXCEPT !.status = "DEACTIVATED"]]
            BY <1>3, <3>2, <4>6 DEF WriteMember
          <5> QED
            BY <4>2, <5>1 DEF TypeOK
        <4> QED
          BY <4>3, <4>4, <4>5, <4>6
      <3> QED
        BY <3>1, <3>2
    <2> QED
      BY <1>3, <2>2, DoneTyped, GotoTyped DEF WriteMember, TypeOK
  <1> QED
    BY <1>1, <1>2, <1>3 DEF MemberStep

\* A new membership row is typed.
LEMMA NewRowTyped ==
    ASSUME TypeOK, NEW c \in Call, NEW u \in User, NEW r \in SPRole,
           member' = [member EXCEPT ![u] = [id |-> c, role |-> r, status |-> "ACTIVE"]]
    PROVE  member' \in [User -> Member \cup {None}]
  <1>1. [id |-> c, role |-> r, status |-> "ACTIVE"] \in Member
    BY DEF Member, RowId
  <1> QED
    BY <1>1 DEF TypeOK

LEMMA InviteStepTyped ==
    ASSUME TypeOK, CallsBacked, NEW c \in Call, InviteStep(c)
    PROVE  TypeOK'
  <1> DEFINE k == call[c]
  <1>1. CASE InsertInvite(c)
    <2>1. k.inv \in Invite /\ k.email \in Email /\ k.role \in SPRole
      BY <1>1, CallFields DEF InsertInvite
    <2>2. [email |-> k.email, role |-> k.role, expired |-> FALSE, status |-> "PENDING"] \in Invitation
      BY <2>1 DEF Invitation
    <2>3. invite' \in [Invite -> Invitation \cup {None}]
      BY <1>1, <2>2 DEF InsertInvite, TypeOK
    <2> QED
      BY <1>1, <2>3, DoneTyped, GotoTyped DEF InsertInvite, TypeOK
  <1>2. CASE MarkExpired(c) \/ MarkAccepted(c) \/ MarkRevoked(c)
    <2>1. k.inv \in Invite /\ invite[k.inv] # None
      BY <1>2, CallFields DEF MarkExpired, MarkAccepted, MarkRevoked, CallsBacked
    <2>2. invite' \in [Invite -> Invitation \cup {None}]
      BY <1>2, <2>1, SetStatusTyped DEF MarkExpired, MarkAccepted, MarkRevoked
    <2> QED
      BY <1>2, <2>1, <2>2, DoneTyped, GotoTyped DEF MarkExpired, MarkAccepted, MarkRevoked, TypeOK
  <1>3. CASE AddMember(c)
    <2>1. k.inv \in Invite /\ k.user \in User /\ k.role \in SPRole
      BY <1>3, CallFields DEF AddMember
    <2>2. CASE IsMember(k.user)
      BY <1>3, <2>2, DoneTyped, GotoTyped DEF AddMember, TypeOK
    <2>3. CASE ~IsMember(k.user)
      <3>1. [k EXCEPT !.pc = "accept"] \in CallState
        BY <1>3, CallFields DEF AddMember, CallState
      <3>2. call' \in [Call -> CallState]
        BY <1>3, <2>3, <3>1, GotoTyped DEF AddMember
      <3>3. member' \in [User -> Member \cup {None}]
        BY <1>3, <2>1, <2>3, NewRowTyped DEF AddMember
      <3>4. joined' \in [Invite -> SUBSET User]
        BY <1>3, <2>1, <2>3 DEF AddMember, TypeOK
      <3> QED
        BY <1>3, <3>2, <3>3, <3>4 DEF AddMember, TypeOK
    <2> QED
      BY <2>2, <2>3
  <1>4. CASE AuthorizeRevoke(c)
    <2>1. [k EXCEPT !.pc = "revoke"] \in CallState
      BY <1>4, CallFields DEF AuthorizeRevoke, CallState
    <2> QED
      BY <1>4, <2>1, GotoTyped DEF AuthorizeRevoke, TypeOK
  <1> QED
    BY <1>1, <1>2, <1>3, <1>4 DEF InviteStep

\* The next-state relation as one list of cases.
LEMMA NextCases ==
    ASSUME Next
    PROVE  \/ \E c \in Call : MemberStep(c) \/ InviteStep(c) \/ Refuse(c) \/ Fail(c)
           \/ \E c \in Call, u \in User, r \in SPRole : AddSPUser(c, u, r)
           \/ \E c \in Call, op \in MemberOps, actor \in User, target \in User, r \in SPRole :
                 BeginMemberOp(c, op, actor, target, r)
           \/ \E c \in Call, i \in Invite, u \in User, e \in Email, r \in SPRole : BeginInvite(c, i, u, e, r)
           \/ \E c \in Call, i \in Invite, u \in User : BeginAccept(c, i, u) \/ BeginRevoke(c, i, u)
           \/ \E i \in Invite : Expire(i)
  <1>1. "AGENT" \in SPRole
    BY DEF SPRole
  <1> QED
    BY <1>1 DEF Next

\* The next state has its types.
LEMMA TypeStep ==
    ASSUME TypeOK, CallsBacked, Next
    PROVE  TypeOK'
  <1>1. ASSUME NEW c \in Call, MemberStep(c) \/ InviteStep(c) PROVE TypeOK'
    BY <1>1, MemberStepTyped, InviteStepTyped
  <1>2. ASSUME NEW c \in Call, Refuse(c) PROVE TypeOK'
    BY <1>2, DoneTyped, GotoTyped DEF Refuse, TypeOK
  <1>3. ASSUME NEW c \in Call, Fail(c) PROVE TypeOK'
    <2>1. faults' \in 0..MaxFaults
      BY <1>3, TeamAssumption DEF Fail, Fault, TypeOK
    <2> QED
      BY <1>3, <2>1, DoneTyped, GotoTyped DEF Fail, TypeOK
  <1>4. ASSUME NEW c \in Call, NEW u \in User, NEW r \in SPRole, AddSPUser(c, u, r) PROVE TypeOK'
    <2>1. member' \in [User -> Member \cup {None}]
      BY <1>4, NewRowTyped DEF AddSPUser
    <2> QED
      BY <1>4, <2>1, DoneTyped, GotoTyped DEF AddSPUser, TypeOK
  <1>5. ASSUME NEW c \in Call, NEW op \in MemberOps, NEW actor \in User, NEW target \in User,
               NEW r \in SPRole, BeginMemberOp(c, op, actor, target, r)
        PROVE  TypeOK'
    <2>1. [pc |-> "target", op |-> op, target |-> target, role |-> r] \in CallState
      BY DEF CallState
    <2> QED
      BY <1>5, <2>1, GotoTyped DEF BeginMemberOp, Enter, TypeOK
  <1>6. ASSUME NEW c \in Call, NEW i \in Invite, NEW u \in User, NEW e \in Email, NEW r \in SPRole,
               BeginInvite(c, i, u, e, r)
        PROVE  TypeOK'
    <2>1. [pc |-> "insert", inv |-> i, email |-> e, role |-> r] \in CallState
      BY DEF CallState
    <2> QED
      BY <1>6, <2>1, GotoTyped DEF BeginInvite, Enter, TypeOK
  <1>7. ASSUME NEW c \in Call, NEW i \in Invite, NEW u \in User, BeginAccept(c, i, u)
        PROVE  TypeOK'
    <2>1. invite[i].role \in SPRole
      BY <1>7 DEF BeginAccept, Pending, TypeOK, Invitation
    <2>2. [pc |-> IF invite[i].expired THEN "expire" ELSE "add",
           inv |-> i, user |-> u, role |-> invite[i].role] \in CallState
      BY <2>1 DEF CallState
    <2> QED
      BY <1>7, <2>2, GotoTyped DEF BeginAccept, Enter, TypeOK
  <1>8. ASSUME NEW c \in Call, NEW i \in Invite, NEW u \in User, BeginRevoke(c, i, u)
        PROVE  TypeOK'
    <2>1. [pc |-> "authorize", inv |-> i, actor |-> u] \in CallState
      BY DEF CallState
    <2> QED
      BY <1>8, <2>1, GotoTyped DEF BeginRevoke, Enter, TypeOK
  <1>9. ASSUME NEW i \in Invite, Expire(i) PROVE TypeOK'
    <2>1. invite[i] \in Invitation
      BY <1>9 DEF TypeOK, Expire, Pending
    <2>2. [invite[i] EXCEPT !.expired = TRUE] \in Invitation
      BY <2>1 DEF Invitation
    <2>3. invite' \in [Invite -> Invitation \cup {None}]
      BY <1>9, <2>2 DEF Expire, TypeOK
    <2> QED
      BY <1>9, <2>3 DEF Expire, TypeOK
  <1> QED
    BY <1>1, <1>2, <1>3, <1>4, <1>5, <1>6, <1>7, <1>8, <1>9, NextCases

(***************************************************************************)
(* What a step does to the two tables.                                     *)
(***************************************************************************)
\* A step leaves the invitations alone, inserts one where no other with its
\* e-mail address is pending, sets a final status, or lets one run out; who
\* has joined has joined.
InviteEffect ==
    /\ \A i \in Invite : joined[i] \subseteq joined'[i]
    /\ \/ invite' = invite
       \/ \E i \in Invite, e \in Email, r \in SPRole :
             /\ ~\E j \in Invite : Pending(j) /\ invite[j].email = e
             /\ invite' = [invite EXCEPT ![i] = [email |-> e, role |-> r, expired |-> FALSE, status |-> "PENDING"]]
       \/ \E i \in Invite, s \in {"ACCEPTED", "EXPIRED", "REVOKED"} :
             /\ invite[i] # None /\ SetStatus(i, s)
             /\ s = "ACCEPTED" => joined'[i] # {}
       \/ \E i \in Invite :
             invite[i] # None /\ invite' = [invite EXCEPT ![i] = [invite[i] EXCEPT !.expired = TRUE]]

LEMMA InviteSteps ==
    ASSUME TypeOK, CallsBacked, [Next]_vars
    PROVE  InviteEffect
  <1>1. CASE invite' = invite /\ joined' = joined
    BY <1>1 DEF InviteEffect
  <1>2. ASSUME NEW c \in Call, MemberStep(c) \/ Refuse(c) \/ Fail(c) PROVE InviteEffect
    BY <1>1, <1>2 DEF MemberStep, ReadTarget, CountAdmins, WriteMember, Refuse, Fail
  <1>3. ASSUME NEW c \in Call, InviteStep(c) PROVE InviteEffect
    <2>1. CASE InsertInvite(c)
      <3>1. call[c].inv \in Invite /\ call[c].email \in Email /\ call[c].role \in SPRole
        BY <2>1, CallFields DEF InsertInvite
      <3> QED
        BY <1>1, <2>1, <3>1 DEF InsertInvite, InviteEffect
    <2>2. CASE MarkExpired(c) \/ MarkAccepted(c) \/ MarkRevoked(c)
      <3>1. call[c].inv \in Invite /\ invite[call[c].inv] # None /\ joined' = joined
        BY <2>2, CallFields DEF MarkExpired, MarkAccepted, MarkRevoked, CallsBacked
      <3> QED
        BY <2>2, <3>1 DEF MarkExpired, MarkAccepted, MarkRevoked, CallsBacked, InviteEffect
    <2>3. CASE AddMember(c)
      <3>1. \A i \in Invite : joined[i] \subseteq joined'[i]
        BY <2>3, CallFields DEF AddMember, TypeOK
      <3> QED
        BY <2>3, <3>1 DEF AddMember, InviteEffect
    <2>4. CASE AuthorizeRevoke(c)
      BY <1>1, <2>4 DEF AuthorizeRevoke
    <2> QED
      BY <1>3, <2>1, <2>2, <2>3, <2>4 DEF InviteStep
  <1>4. ASSUME NEW c \in Call, NEW u \in User, NEW r \in SPRole, AddSPUser(c, u, r) PROVE InviteEffect
    BY <1>1, <1>4 DEF AddSPUser
  <1>5. ASSUME NEW c \in Call, NEW op \in MemberOps, NEW actor \in User, NEW target \in User,
               NEW r \in SPRole, BeginMemberOp(c, op, actor, target, r)
        PROVE  InviteEffect
    BY <1>1, <1>5 DEF BeginMemberOp
  <1>6. ASSUME NEW c \in Call, NEW i \in Invite, NEW u \in User, NEW e \in Email, NEW r \in SPRole,
               BeginInvite(c, i, u, e, r)
        PROVE  InviteEffect
    BY <1>1, <1>6 DEF BeginInvite
  <1>7. ASSUME NEW c \in Call, NEW i \in Invite, NEW u \in User, BeginAccept(c, i, u) \/ BeginRevoke(c, i, u)
        PROVE  InviteEffect
    BY <1>1, <1>7 DEF BeginAccept, BeginRevoke
  <1>8. ASSUME NEW i \in Invite, Expire(i) PROVE InviteEffect
    BY <1>8 DEF Expire, Pending, InviteEffect
  <1>9. CASE UNCHANGED vars
    BY <1>1, <1>9 DEF vars
  <1> QED
    BY <1>2, <1>3, <1>4, <1>5, <1>6, <1>7, <1>8, <1>9, NextCases

\* An invitation that is there stays there.
LEMMA InvitationsStay ==
    ASSUME TypeOK, InviteEffect, NEW i \in Invite, invite[i] # None
    PROVE  invite'[i] # None
  <1>1. invite[i] \in Invitation
    BY DEF TypeOK
  <1>2. \A s \in {"ACCEPTED", "EXPIRED", "REVOKED"} : [invite[i] EXCEPT !.status = s] \in Invitation
    BY <1>1 DEF Invitation
  <1>3. [invite[i] EXCEPT !.expired = TRUE] \in Invitation
    BY <1>1 DEF Invitation
  <1>4. \A e \in Email, r \in SPRole :
           [email |-> e, role |-> r, expired |-> FALSE, status |-> "PENDING"] \in Invitation
    BY DEF Invitation
  <1>5. \A x \in Invitation : x # None
    BY NoneAssumption
  <1>6. CASE invite' = invite
    BY <1>6
  <1>7. ASSUME NEW j \in Invite, NEW x \in Invitation, invite' = [invite EXCEPT ![j] = x]
        PROVE  invite'[i] # None
    BY <1>5, <1>7 DEF TypeOK
  <1>8. ASSUME NEW j \in Invite, NEW s \in {"ACCEPTED", "EXPIRED", "REVOKED"}, invite[j] # None, SetStatus(j, s)
        PROVE  invite'[i] # None
    <2>1. invite' = [invite EXCEPT ![j] = [invite[j] EXCEPT !.status = s]]
      BY <1>8 DEF SetStatus
    <2>2. CASE j = i
      BY <1>2, <1>7, <2>1, <2>2
    <2>3. CASE j # i
      BY <2>1, <2>3 DEF TypeOK
    <2> QED
      BY <2>2, <2>3
  <1>9. ASSUME NEW j \in Invite, invite' = [invite EXCEPT ![j] = [invite[j] EXCEPT !.expired = TRUE]]
        PROVE  invite'[i] # None
    <2>1. CASE j = i
      BY <1>3, <1>7, <1>9, <2>1
    <2>2. CASE j # i
      BY <1>9, <2>2 DEF TypeOK
    <2> QED
      BY <2>1, <2>2
  <1> QED
    BY <1>4, <1>6, <1>7, <1>8, <1>9 DEF InviteEffect

(***************************************************************************)
(* The inductive invariant.  That an accepted invitation let somebody in   *)
(* needs to know what a call in the middle of accepting has done already   *)
(* (CallsBacked); OnePendingPerEmail needs only the types.                 *)
(***************************************************************************)
IInv == TypeOK /\ CallsBacked /\ OnePendingPerEmail /\ AcceptedWasJoined

\* A call that goes on to a backed state leaves all calls backed.
LEMMA BackedStays ==
    ASSUME TypeOK, CallsBacked, InviteEffect, NEW c \in Call, NEW s, Goto(c, s),
           s.pc \in {"expire", "add", "accept", "authorize", "revoke"} =>
               s.inv \in Invite /\ invite'[s.inv] # None,
           s.pc = "accept" => joined'[s.inv] # {}
    PROVE  CallsBacked'
  <1>1. call'[c] = s /\ \A d \in Call \ {c} : call'[d] = call[d]
    BY DEF Goto, TypeOK
  <1>2. \A i \in Invite : joined[i] # {} => joined'[i] # {}
    BY DEF InviteEffect
  <1>3. ASSUME NEW d \in Call, d # c
        PROVE  /\ call[d].pc \in {"expire", "add", "accept", "authorize", "revoke"} => invite'[call[d].inv] # None
               /\ call[d].pc = "accept" => joined'[call[d].inv] # {}
    <2>1. CASE call[d].pc \in {"expire", "add", "accept", "authorize", "revoke"}
      <3>1. call[d].inv \in Invite
        BY <2>1, CallFields
      <3> QED
        BY <1>2, <2>1, <3>1, InvitationsStay DEF CallsBacked
    <2> QED
      BY <2>1
  <1> QED
    BY <1>1, <1>3 DEF CallsBacked

LEMMA CallsBackedStep ==
    ASSUME TypeOK, CallsBacked, [Next]_vars
    PROVE  CallsBacked'
  <1>0. InviteEffect
    BY InviteSteps
  <1>1. Done.pc = "done"
    BY DEF Done
  <1>2. ASSUME NEW c \in Call, Goto(c, Done) PROVE CallsBacked'
    BY <1>0, <1>1, <1>2, BackedStays
  <1>3. ASSUME NEW c \in Call, MemberStep(c) PROVE CallsBacked'
    <2>1. CASE ReadTarget(c)
      BY <1>0, <2>1, BackedStays DEF ReadTarget
    <2>2. CASE CountAdmins(c)
      <3>1. [call[c] EXCEPT !.pc = "write"].pc = "write"
        BY <2>2, CallFields DEF CountAdmins
      <3> QED
        BY <1>0, <2>2, <3>1, BackedStays DEF CountAdmins
    <2>3. CASE WriteMember(c)
      BY <1>2, <2>3 DEF WriteMember
    <2> QED
      BY <1>3, <2>1, <2>2, <2>3 DEF MemberStep
  <1>4. ASSUME NEW c \in Call, InviteStep(c) PROVE CallsBacked'
    <2>1. CASE AddMember(c) /\ ~IsMember(call[c].user)
      <3> DEFINE k == call[c]
                 s == [k EXCEPT !.pc = "accept"]
      <3>1. k \in [pc: {"expire", "add", "accept"}, inv: Invite, user: User, role: SPRole]
        BY <2>1, CallFields DEF AddMember
      <3>2. s.pc = "accept" /\ s.inv = k.inv /\ k.inv \in Invite
        BY <3>1
      <3>3. invite'[k.inv] # None /\ joined'[k.inv] # {} /\ Goto(c, s)
        BY <2>1, <3>1 DEF AddMember, CallsBacked, TypeOK
      <3> HIDE DEF s
      <3> QED
        BY <1>0, <3>2, <3>3, BackedStays
    <2>2. CASE AuthorizeRevoke(c)
      <3> DEFINE k == call[c]
                 s == [k EXCEPT !.pc = "revoke"]
      <3>1. k \in [pc: {"authorize", "revoke"}, inv: Invite, actor: User]
        BY <2>2, CallFields DEF AuthorizeRevoke
      <3>2. s.pc = "revoke" /\ s.inv = k.inv /\ k.inv \in Invite
        BY <3>1
      <3>3. invite'[k.inv] # None /\ Goto(c, s)
        BY <2>2 DEF AuthorizeRevoke, CallsBacked
      <3> HIDE DEF s
      <3> QED
        BY <1>0, <3>2, <3>3, BackedStays
    <2>3. CASE Goto(c, Done)
      BY <1>2, <2>3
    <2> QED
      BY <1>4, <2>1, <2>2, <2>3 DEF InviteStep, InsertInvite, MarkExpired, AddMember, MarkAccepted, MarkRevoked
  <1>5. ASSUME NEW c \in Call, NEW op \in MemberOps, NEW actor \in User, NEW target \in User,
               NEW r \in SPRole, BeginMemberOp(c, op, actor, target, r)
        PROVE  CallsBacked'
    BY <1>0, <1>5, BackedStays DEF BeginMemberOp
  <1>6. ASSUME NEW c \in Call, NEW i \in Invite, NEW u \in User, NEW e \in Email, NEW r \in SPRole,
               BeginInvite(c, i, u, e, r)
        PROVE  CallsBacked'
    BY <1>0, <1>6, BackedStays DEF BeginInvite
  <1>7. ASSUME NEW c \in Call, NEW i \in Invite, NEW u \in User, BeginAccept(c, i, u)
        PROVE  CallsBacked'
    BY <1>0, <1>7, BackedStays DEF BeginAccept, Pending
  <1>8. ASSUME NEW c \in Call, NEW i \in Invite, NEW u \in User, BeginRevoke(c, i, u)
        PROVE  CallsBacked'
    BY <1>0, <1>8, BackedStays DEF BeginRevoke, Pending
  <1>9. CASE call' = call
    <2>1. \A i \in Invite : joined[i] # {} => joined'[i] # {}
      BY <1>0 DEF InviteEffect
    <2>2. \A c \in Call : call[c].pc \in {"expire", "add", "accept", "authorize", "revoke"} =>
                             call[c].inv \in Invite
      BY CallFields
    <2> QED
      BY <1>0, <1>9, <2>1, <2>2, InvitationsStay DEF CallsBacked
  <1> QED
    BY <1>2, <1>3, <1>4, <1>5, <1>6, <1>7, <1>8, <1>9, NextCases DEF Refuse, Fail, AddSPUser, Expire, vars

LEMMA InvStep == IInv /\ [Next]_vars => IInv'
  <1> SUFFICES ASSUME IInv, [Next]_vars PROVE IInv'
    OBVIOUS
  <1>1. TypeOK /\ CallsBacked /\ OnePendingPerEmail /\ AcceptedWasJoined /\ InviteEffect
    BY InviteSteps DEF IInv
  <1>2. TypeOK'
    <2>1. CASE UNCHANGED vars
      BY <1>1, <2>1 DEF vars, TypeOK
    <2> QED
      BY <1>1, <2>1, TypeStep
  <1>3. CallsBacked'
    BY <1>1, CallsBackedStep
  <1>4. \A i \in Invite : invite[i] # None => invite[i] \in Invitation
    BY <1>1 DEF TypeOK
  <1>5. ASSUME NEW i \in Invite, Pending(i)'
        PROVE  \/ Pending(i) /\ invite'[i].email = invite[i].email
               \/ /\ ~\E j \in Invite : Pending(j) /\ invite[j].email = invite'[i].email
                  /\ \A j \in Invite \ {i} : invite'[j] = invite[j]
    BY <1>1, <1>4, <1>5 DEF InviteEffect, Pending, SetStatus, TypeOK, Invitation
  <1>6. OnePendingPerEmail'
    <2> SUFFICES ASSUME NEW i \in Invite, NEW j \in Invite, Pending(i)', Pending(j)',
                        invite'[i].email = invite'[j].email, i # j
                 PROVE  FALSE
      BY DEF OnePendingPerEmail
    <2>1. CASE Pending(i) /\ invite'[i].email = invite[i].email /\ Pending(j) /\ invite'[j].email = invite[j].email
      BY <1>1, <2>1 DEF OnePendingPerEmail
    <2>2. CASE /\ ~\E k \in Invite : Pending(k) /\ invite[k].email = invite'[i].email
               /\ \A k \in Invite \ {i} : invite'[k] = invite[k]
      BY <2>2 DEF Pending
    <2>3. CASE /\ ~\E k \in Invite : Pending(k) /\ invite[k].email = invite'[j].email
               /\ \A k \in Invite \ {j} : invite'[k] = invite[k]
      BY <2>3 DEF Pending
    <2> QED
      BY <1>5, <2>1, <2>2, <2>3
  <1>7. AcceptedWasJoined'
    <2> SUFFICES ASSUME NEW i \in Invite, invite'[i] # None, invite'[i].status = "ACCEPTED"
                 PROVE  joined'[i] # {}
      BY DEF AcceptedWasJoined
    <2>1. joined[i] # {} => joined'[i] # {}
      BY <1>1 DEF InviteEffect
    <2>2. (invite[i] # None /\ invite[i].status = "ACCEPTED") \/ joined'[i] # {}
      BY <1>1, <1>4 DEF InviteEffect, SetStatus, TypeOK, Invitation
    <2> QED
      BY <1>1, <2>1, <2>2 DEF AcceptedWasJoined
  <1> QED
    BY <1>2, <1>3, <1>6, <1>7 DEF IInv

LEMMA InvHolds == Spec => []IInv
  <1>1. Init => IInv
    <2> SUFFICES ASSUME Init PROVE IInv
      OBVIOUS
    <2>1. member \in [User -> Member \cup {None}]
      BY DEF Init, Member, RowId, SPRole
    <2>2. call \in [Call -> CallState] /\ \A c \in Call : call[c].pc = "idle"
      BY DEF Init, Idle, CallState
    <2>3. /\ invite = [i \in Invite |-> None] /\ joined = [i \in Invite |-> {}]
          /\ revoked = {} /\ overlapped \in BOOLEAN /\ faults = 0
      BY DEF Init
    <2>4. TypeOK
      BY <2>1, <2>2, <2>3, TeamAssumption DEF TypeOK
    <2> QED
      BY <2>2, <2>3, <2>4 DEF IInv, CallsBacked, OnePendingPerEmail, AcceptedWasJoined, Pending
  <1> QED
    BY <1>1, InvStep, PTL DEF Spec

\* Every variable keeps its type.
THEOREM TypeCorrect == Spec => []TypeOK
  BY InvHolds, PTL DEF IInv

\* However calls overlap, an e-mail address has one pending invitation.
THEOREM OnePending == Spec => []OnePendingPerEmail
  BY InvHolds, PTL DEF IInv

\* An invitation is marked accepted only if somebody joined by it.
THEOREM AcceptedJoined == Spec => []AcceptedWasJoined
  BY InvHolds, PTL DEF IInv

\* A deactivated member comes back only after being removed.
THEOREM DeactivatedOut == Spec => DeactivatedStaysOut
  <1> DEFINE Kept == \A u \in User : (IsMember(u) /\ member[u].status = "DEACTIVATED") =>
                                        (member'[u] = None \/ member'[u].status = "DEACTIVATED")
  <1>1. ASSUME IInv, [Next]_vars PROVE [Kept]_vars
    <2> SUFFICES Kept
      OBVIOUS
    <2>1. TypeOK
      BY <1>1 DEF IInv
    <2>2. CASE member' = member
      BY <2>2
    <2>3. ASSUME NEW v \in User, NEW row, ~IsMember(v), member' = [member EXCEPT ![v] = row]
          PROVE  Kept
      BY <2>1, <2>3 DEF IsMember, TypeOK
    <2>4. ASSUME NEW c \in Call, MemberStep(c) PROVE Kept
      <3>1. CASE ~WriteMember(c)
        BY <2>2, <2>4, <3>1 DEF MemberStep, ReadTarget, CountAdmins
      <3>2. CASE WriteMember(c)
        <4> DEFINE t == call[c].target
        <4>1. t \in User /\ call[c].op \in {"role", "remove", "deactivate"}
          BY <2>1, <3>2, CallFields, TeamAssumption DEF WriteMember
        <4>2. CASE member[t] \in Member
          <5>1. /\ [member[t] EXCEPT !.role = call[c].role].status = member[t].status
                /\ [member[t] EXCEPT !.status = "DEACTIVATED"].status = "DEACTIVATED"
            BY <4>2 DEF Member
          <5>2. \/ member' = member
                \/ member' = [member EXCEPT ![t] = [member[t] EXCEPT !.role = call[c].role]]
                \/ member' = [member EXCEPT ![t] = None]
                \/ member' = [member EXCEPT ![t] = [member[t] EXCEPT !.status = "DEACTIVATED"]]
            BY <3>2, <4>1 DEF WriteMember
          <5> QED
            BY <2>1, <4>1, <5>1, <5>2 DEF TypeOK
        <4>3. CASE member[t] = None
          BY <2>2, <3>2, <4>3 DEF WriteMember, IsMember
        <4> QED
          BY <2>1, <4>1, <4>2, <4>3 DEF TypeOK
      <3> QED
        BY <3>1, <3>2
    <2>5. ASSUME NEW c \in Call, InviteStep(c) PROVE Kept
      <3>1. CASE AddMember(c)
        <4>1. call[c].user \in User
          BY <2>1, <3>1, CallFields DEF AddMember
        <4> QED
          BY <2>2, <2>3, <3>1, <4>1 DEF AddMember
      <3>2. CASE ~AddMember(c)
        BY <2>2, <2>5, <3>2
           DEF InviteStep, InsertInvite, MarkExpired, MarkAccepted, AuthorizeRevoke, MarkRevoked
      <3> QED
        BY <3>1, <3>2
    <2>6. ASSUME NEW c \in Call, NEW u \in User, NEW r \in SPRole, AddSPUser(c, u, r) PROVE Kept
      BY <2>3, <2>6 DEF AddSPUser
    <2>7. ASSUME NEW c \in Call, Refuse(c) \/ Fail(c) PROVE Kept
      BY <2>2, <2>7 DEF Refuse, Fail
    <2> QED
      BY <1>1, <2>2, <2>4, <2>5, <2>6, <2>7, NextCases
         DEF BeginMemberOp, BeginInvite, BeginAccept, BeginRevoke, Expire, vars
  <1> QED
    BY <1>1, InvHolds, PTL DEF Spec, DeactivatedStaysOut

(***************************************************************************)
(* Calls one at a time.  As long as none overlaps another, whoever writes  *)
(* finds the tables as its own tests left them: an administrator's row is  *)
(* touched only while there is another administrator, an invitation acted  *)
(* upon is still pending, and a pending invitation has let in at most one  *)
(* user for each call that failed half way.                                *)
(***************************************************************************)
OneAtATime == \A c, d \in InFlight : c = d

\* Between its guard and its write, a call's target is a member, and its write
\* leaves an administrator.
MemberCallSafe(k) ==
    /\ k.pc \in {"count", "write"} => IsMember(k.target)
    /\ k.pc = "write" => \/ ~IsAdmin(k.target)
                         \/ k.op = "role" /\ k.role = "SP_ADMIN"
                         \/ \E u \in User : IsAdmin(u) /\ u # k.target

InviteCallSafe(k) ==
    /\ k.pc = "insert" => invite[k.inv] = None
    /\ k.pc \in {"expire", "add", "accept", "authorize", "revoke"} => Pending(k.inv)

\* An invitation that is still open, with nobody about to mark it accepted.
Untouched(i) == Pending(i) /\ \A c \in Call : ~(call[c].pc = "accept" /\ call[c].inv = i)

JoinsCounted ==
    \A i \in Invite :
       /\ invite[i] = None => joined[i] = {}
       /\ IsFiniteSet(joined[i]) /\ Cardinality(joined[i]) <= 1 + faults
       /\ Untouched(i) => Cardinality(joined[i]) <= faults

RevokedIsClosed == \A i \in revoked : invite[i] # None /\ ~Pending(i)

SerialInv ==
    ~overlapped =>
       /\ OneAtATime /\ LastAdminStays
       /\ \A c \in Call : MemberCallSafe(call[c]) /\ InviteCallSafe(call[c])
       /\ JoinsCounted /\ RevokedIsClosed

\* Every other call is at rest.
Alone(c) == \A d \in Call \ {c} : call[d].pc \in {"idle", "done"}

LEMMA InFlightAlone ==
    ASSUME OneAtATime, NEW c \in Call, call[c].pc \notin {"idle", "done"}
    PROVE  Alone(c)
  BY DEF OneAtATime, InFlight, Alone

\* A call that has begun while none overlapped found every other at rest.
LEMMA EnterAlone ==
    ASSUME TypeOK, NEW c \in Call, Enter(c), ~overlapped'
    PROVE  ~overlapped /\ Alone(c) /\ call[c].pc = "idle"
  BY DEF Enter, InFlight, Alone, TypeOK

\* A step of a call that is alone needs to be looked at for that call only.
LEMMA AloneStep ==
    ASSUME TypeOK, NEW c \in Call, NEW s, Goto(c, s), Alone(c),
           LastAdminStays', MemberCallSafe(s)', InviteCallSafe(s)',
           JoinsCounted', RevokedIsClosed'
    PROVE  SerialInv'
  <1>1. call'[c] = s /\ \A d \in Call \ {c} : call'[d] = call[d]
    BY DEF Goto, TypeOK
  <1>2. OneAtATime'
    BY <1>1 DEF OneAtATime, InFlight, Alone
  <1>3. \A d \in Call \ {c} : MemberCallSafe(call[d])' /\ InviteCallSafe(call[d])'
    BY <1>1 DEF Alone, MemberCallSafe, InviteCallSafe
  <1>4. MemberCallSafe(call[c])' /\ InviteCallSafe(call[c])'
    BY <1>1 DEF MemberCallSafe, InviteCallSafe, IsMember, IsAdmin, Pending
  <1> QED
    BY <1>2, <1>3, <1>4 DEF SerialInv

\* A call that ends has nothing more to be safe about.
LEMMA AtRestIsSafe ==
    ASSUME NEW k, k.pc \in {"idle", "done"}
    PROVE  MemberCallSafe(k)' /\ InviteCallSafe(k)'
  BY DEF MemberCallSafe, InviteCallSafe

\* Who has joined is counted as before if the invitations stay, no call leaves
\* the statement before its last one, and failures are not taken back.
LEMMA JoinsStay ==
    ASSUME TypeOK, JoinsCounted, RevokedIsClosed, UNCHANGED <<invite, joined, revoked>>,
           faults' \in Nat, faults <= faults',
           NEW c \in Call, NEW s, Goto(c, s), call[c].pc # "accept" \/ faults' = faults + 1
    PROVE  JoinsCounted' /\ RevokedIsClosed'
  <1>1. RevokedIsClosed'
    BY DEF RevokedIsClosed, Pending
  <1>2. ASSUME NEW i \in Invite, Untouched(i)' PROVE Cardinality(joined[i]) <= faults'
    <2>1. CASE Untouched(i)
      BY <2>1, FS_CardinalityType DEF JoinsCounted, TypeOK
    <2>2. CASE ~Untouched(i)
      <3>1. PICK d \in Call : call[d].pc = "accept" /\ call[d].inv = i
        BY <1>2, <2>2 DEF Untouched, Pending
      <3>2. d = c
        BY <1>2, <3>1 DEF Untouched, Goto, TypeOK
      <3>3. faults' = faults + 1
        BY <3>1, <3>2
      <3> QED
        BY <3>3 DEF JoinsCounted, TypeOK
    <2> QED
      BY <2>1, <2>2
  <1>3. ASSUME NEW i \in Invite
        PROVE  /\ invite'[i] = None => joined'[i] = {}
               /\ IsFiniteSet(joined'[i]) /\ Cardinality(joined'[i]) <= 1 + faults'
    <2>1. Cardinality(joined[i]) \in Nat /\ Cardinality(joined[i]) <= 1 + faults
      BY FS_CardinalityType DEF JoinsCounted
    <2> QED
      BY <2>1 DEF JoinsCounted, TypeOK
  <1> QED
    BY <1>1, <1>2, <1>3 DEF JoinsCounted
\* More than one administrator means one beside any given user.
LEMMA AnotherAdmin ==
    ASSUME NEW t, Cardinality(Admins) > 1
    PROVE  \E u \in User : IsAdmin(u) /\ u # t
  <1> SUFFICES ASSUME ~\E u \in User : IsAdmin(u) /\ u # t PROVE FALSE
    OBVIOUS
  <1>1. Admins \subseteq {t}
    BY DEF Admins
  <1>2. IsFiniteSet({t}) /\ Cardinality({t}) = 1
    BY FS_Singleton
  <1>3. IsFiniteSet(Admins) /\ Cardinality(Admins) <= 1
    BY <1>1, <1>2, FS_Subset
  <1>4. Cardinality(Admins) \in Nat
    BY <1>3, FS_CardinalityType
  <1> QED
    BY <1>3, <1>4

\* The write of a member call that is safe leaves an administrator.
LEMMA SafeWriteKeepsAdmin ==
    ASSUME TypeOK, LastAdminStays, NEW c \in Call, WriteMember(c), MemberCallSafe(call[c])
    PROVE  LastAdminStays'
  <1> DEFINE k == call[c]
  <1>1. k.op \in MemberOps /\ k.target \in User /\ k.role \in SPRole /\ k.pc = "write"
    BY CallFields DEF WriteMember
  <1>2. \A u \in User \ {k.target} : member'[u] = member[u]
    BY <1>1, TeamAssumption DEF WriteMember, TypeOK
  <1>3. CASE \E u \in User : IsAdmin(u) /\ u # k.target
    <2>1. PICK u \in User : IsAdmin(u) /\ u # k.target
      BY <1>3
    <2>2. member'[u] = member[u]
      BY <1>2, <2>1
    <2>3. IsAdmin(u)'
      BY <2>1, <2>2 DEF IsAdmin, IsMember
    <2> QED
      BY <2>3 DEF LastAdminStays, Admins
  <1>4. CASE ~IsAdmin(k.target)
    BY <1>3, <1>4 DEF LastAdminStays, Admins
  <1>5. CASE k.op = "role" /\ k.role = "SP_ADMIN"
    <2>1. CASE ~(IsMember(k.target) /\ member[k.target].id = k.row)
      BY <2>1 DEF WriteMember, LastAdminStays, Admins, IsAdmin, IsMember
    <2>2. CASE IsMember(k.target) /\ member[k.target].id = k.row
      <3>1. member' = [member EXCEPT ![k.target] = [member[k.target] EXCEPT !.role = k.role]]
        BY <1>5, <2>2 DEF WriteMember
      <3>2. member[k.target] \in Member
        BY <1>1, <2>2 DEF IsMember, TypeOK
      <3>3. /\ [member[k.target] EXCEPT !.role = k.role] \in Member
            /\ [member[k.target] EXCEPT !.role = k.role].role = "SP_ADMIN"
        BY <1>1, <1>5, <3>2 DEF Member
      <3>4. member'[k.target] # None /\ member'[k.target].role = "SP_ADMIN"
        BY <1>1, <3>1, <3>3, NoneAssumption DEF TypeOK
      <3> HIDE DEF k
      <3> QED
        BY <1>1, <3>4 DEF LastAdminStays, Admins, IsAdmin, IsMember
    <2> QED
      BY <2>1, <2>2
  <1> QED
    BY <1>1, <1>3, <1>4, <1>5 DEF MemberCallSafe

LEMMA MemberStepSerial ==
    ASSUME TypeOK, SerialInv, ~overlapped, NEW c \in Call, MemberStep(c)
    PROVE  SerialInv'
  <1> DEFINE k == call[c]
  <1>1. /\ LastAdminStays /\ JoinsCounted /\ RevokedIsClosed /\ MemberCallSafe(k)
        /\ faults \in Nat /\ k.pc \in {"target", "count", "write"}
    BY DEF SerialInv, TypeOK, MemberStep, ReadTarget, CountAdmins, WriteMember
  <1>2. Alone(c)
    BY <1>1, InFlightAlone DEF SerialInv
  <1>3. UNCHANGED <<invite, joined, revoked, faults, overlapped>>
    BY DEF MemberStep, ReadTarget, CountAdmins, WriteMember
  <1>4. ASSUME NEW s, Goto(c, s), LastAdminStays', MemberCallSafe(s)', InviteCallSafe(s)'
        PROVE  SerialInv'
    <2>1. JoinsCounted' /\ RevokedIsClosed'
      BY <1>1, <1>3, <1>4, JoinsStay
    <2> QED
      BY <1>2, <1>4, <2>1, AloneStep
  <1>5. CASE ReadTarget(c)
    <2> DEFINE row == member[k.target]
               guarded == row.role = "SP_ADMIN" /\ ~(k.op = "role" /\ k.role = "SP_ADMIN")
               s == [pc |-> IF guarded THEN "count" ELSE "write", op |-> k.op,
                     target |-> k.target, row |-> row.id, role |-> k.role]
    <2>1. Goto(c, s) /\ IsMember(k.target) /\ member' = member
      BY <1>5 DEF ReadTarget
    <2>2. /\ s.pc \in {"count", "write"} /\ s.target = k.target /\ s.op = k.op /\ s.role = k.role
          /\ s.pc = "write" => ~guarded
      BY DEF s
    <2>3. ~guarded => ~IsAdmin(k.target) \/ (k.op = "role" /\ k.role = "SP_ADMIN")
      BY DEF IsAdmin
    <2>4. LastAdminStays'
      BY <1>1, <2>1 DEF LastAdminStays, Admins, IsAdmin, IsMember
    <2> HIDE DEF s, guarded
    <2>5. ASSUME NEW x, x = s PROVE MemberCallSafe(x)' /\ InviteCallSafe(x)'
      BY <2>1, <2>2, <2>3, <2>5 DEF MemberCallSafe, InviteCallSafe, IsMember, IsAdmin
    <2> QED
      BY <1>4, <2>1, <2>4, <2>5
  <1>6. CASE CountAdmins(c)
    <2> DEFINE s == [k EXCEPT !.pc = "write"]
    <2>1. Goto(c, s) /\ member' = member /\ k.pc = "count" /\ Cardinality(Admins) > 1
      BY <1>6 DEF CountAdmins
    <2>2. s.pc = "write" /\ s.target = k.target
      BY <2>1, CallFields
    <2>3. \E u \in User : IsAdmin(u) /\ u # k.target
      BY <2>1, AnotherAdmin
    <2>4. LastAdminStays'
      BY <1>1, <2>1 DEF LastAdminStays, Admins, IsAdmin, IsMember
    <2> HIDE DEF s
    <2>5. ASSUME NEW x, x = s PROVE MemberCallSafe(x)' /\ InviteCallSafe(x)'
      BY <1>1, <2>1, <2>2, <2>3, <2>5 DEF MemberCallSafe, InviteCallSafe, IsMember, IsAdmin
    <2> QED
      BY <1>4, <2>1, <2>4, <2>5
  <1>7. CASE WriteMember(c)
    <2>1. LastAdminStays'
      BY <1>1, <1>7, SafeWriteKeepsAdmin
    <2> QED
      BY <1>4, <1>7, <2>1, AtRestIsSafe DEF WriteMember, Done
  <1> QED
    BY <1>5, <1>6, <1>7 DEF MemberStep

\* A membership that is added takes nobody's away.
LEMMA AddedMember ==
    ASSUME TypeOK, NEW c \in Call, NEW u \in User, NEW r \in SPRole, ~IsMember(u),
           member' = [member EXCEPT ![u] = [id |-> c, role |-> r, status |-> "ACTIVE"]]
    PROVE  /\ \A v \in User \ {u} : member'[v] = member[v]
           /\ LastAdminStays => LastAdminStays'
  <1>1. \A v \in User \ {u} : member'[v] = member[v]
    BY DEF TypeOK
  <1> QED
    BY <1>1 DEF LastAdminStays, Admins, IsAdmin, IsMember

LEMMA AddSPUserSerial ==
    ASSUME TypeOK, SerialInv, ~overlapped, NEW c \in Call, NEW u \in User, NEW r \in SPRole,
           AddSPUser(c, u, r)
    PROVE  SerialInv'
  <1>1. /\ \A v \in User \ {u} : member'[v] = member[v]
        /\ LastAdminStays' /\ ~IsMember(u)
    BY AddedMember DEF AddSPUser, SerialInv
  <1>2. /\ UNCHANGED <<invite, joined, revoked, faults, overlapped>> /\ Goto(c, Done)
        /\ call[c].pc = "idle" /\ faults \in Nat
    BY DEF AddSPUser, TypeOK
  <1>3. JoinsCounted' /\ RevokedIsClosed'
    BY <1>2, JoinsStay DEF SerialInv
  <1>4. call'[c] = Done /\ \A d \in Call \ {c} : call'[d] = call[d]
    BY <1>2 DEF Goto, TypeOK
  <1>5. OneAtATime'
    BY <1>2, <1>4 DEF SerialInv, OneAtATime, InFlight, Done
  <1>6. ASSUME NEW d \in Call PROVE MemberCallSafe(call[d])' /\ InviteCallSafe(call[d])'
    <2>1. CASE d = c
      BY <1>4, <2>1 DEF Done, MemberCallSafe, InviteCallSafe
    <2>2. CASE d # c
      <3>1. call'[d] = call[d] /\ MemberCallSafe(call[d]) /\ InviteCallSafe(call[d])
        BY <1>4, <2>2 DEF SerialInv
      <3>2. InviteCallSafe(call[d])'
        BY <1>2, <3>1 DEF InviteCallSafe, Pending
      <3>3. MemberCallSafe(call[d])'
        <4>1. CASE call[d].pc \in {"count", "write"}
          <5>1. call[d].target \in User /\ call[d].target # u
            BY <1>1, <3>1, <4>1, CallFields DEF MemberCallSafe
          <5>2. \A v \in User \ {u} : (IsMember(v)' <=> IsMember(v)) /\ (IsAdmin(v)' <=> IsAdmin(v))
            BY <1>1 DEF IsMember, IsAdmin
          <5>3. \A v \in User : IsAdmin(v) => v # u
            BY <1>1 DEF IsAdmin
          <5> QED
            BY <3>1, <4>1, <5>1, <5>2, <5>3 DEF MemberCallSafe
        <4>2. CASE call[d].pc \notin {"count", "write"}
          BY <3>1, <4>2 DEF MemberCallSafe
        <4> QED
          BY <4>1, <4>2
      <3> QED
        BY <3>2, <3>3
    <2> QED
      BY <2>1, <2>2
  <1> QED
    BY <1>1, <1>3, <1>5, <1>6 DEF SerialInv
\* The same for a step that touches one invitation, whose count is looked at apart.
LEMMA JoinsOfOne ==
    ASSUME TypeOK, JoinsCounted, NEW c \in Call, NEW s, Goto(c, s), NEW j \in Invite,
           call[c].pc = "accept" => call[c].inv = j, faults' = faults,
           \A i \in Invite \ {j} : invite'[i] = invite[i] /\ joined'[i] = joined[i],
           invite'[j] = None => joined'[j] = {},
           IsFiniteSet(joined'[j]), Cardinality(joined'[j]) <= 1 + faults,
           Untouched(j)' => Cardinality(joined'[j]) <= faults
    PROVE  JoinsCounted'
  <1>1. ASSUME NEW i \in Invite \ {j}, Untouched(i)' PROVE Untouched(i)
    <2>1. Pending(i)
      BY <1>1 DEF Untouched, Pending
    <2>2. \A d \in Call : call[d].pc = "accept" /\ call[d].inv = i => call'[d] = call[d]
      BY DEF Goto, TypeOK
    <2> QED
      BY <1>1, <2>1, <2>2 DEF Untouched
  <1>2. \A i \in Invite \ {j} :
           /\ invite'[i] = None => joined'[i] = {}
           /\ IsFiniteSet(joined'[i]) /\ Cardinality(joined'[i]) <= 1 + faults'
           /\ Untouched(i)' => Cardinality(joined'[i]) <= faults'
    BY <1>1 DEF JoinsCounted
  <1> QED
    BY <1>2 DEF JoinsCounted

\* A final status closes the invitation.
LEMMA FinalStatus ==
    ASSUME TypeOK, NEW j \in Invite, invite[j] # None,
           NEW s \in {"ACCEPTED", "EXPIRED", "REVOKED"}, SetStatus(j, s)
    PROVE  /\ invite'[j] # None /\ ~Pending(j)'
           /\ \A i \in Invite \ {j} : invite'[i] = invite[i]
  <1>1. invite[j] \in Invitation
    BY DEF TypeOK
  <1>2. invite' = [invite EXCEPT ![j] = [invite[j] EXCEPT !.status = s]]
    BY DEF SetStatus
  <1>3. [invite[j] EXCEPT !.status = s] \in Invitation /\ [invite[j] EXCEPT !.status = s].status = s
    BY <1>1 DEF Invitation
  <1> QED
    BY <1>2, <1>3, NoneAssumption DEF TypeOK, Pending

LEMMA InviteStepSerial ==
    ASSUME TypeOK, CallsBacked, SerialInv, ~overlapped, NEW c \in Call, InviteStep(c)
    PROVE  SerialInv'
  <1> SUFFICES ASSUME NEW j, j = call[c].inv PROVE SerialInv'
    OBVIOUS
  <1> DEFINE k == call[c]
  <1>1. /\ LastAdminStays /\ JoinsCounted /\ RevokedIsClosed /\ InviteCallSafe(k)
        /\ faults \in Nat /\ k.pc \in {"insert", "expire", "add", "accept", "authorize", "revoke"}
    BY DEF SerialInv, TypeOK, InviteStep, InsertInvite, MarkExpired, AddMember, MarkAccepted,
           AuthorizeRevoke, MarkRevoked
  <1>2. Alone(c) /\ j \in Invite
    BY <1>1, InFlightAlone, CallFields DEF SerialInv
  <1>3. UNCHANGED <<faults, overlapped>>
    BY DEF InviteStep, InsertInvite, MarkExpired, AddMember, MarkAccepted, AuthorizeRevoke, MarkRevoked
  <1>4. member' = member => LastAdminStays'
    BY <1>1 DEF LastAdminStays, Admins, IsAdmin, IsMember
  <1>5. /\ IsFiniteSet(joined[j]) /\ Cardinality(joined[j]) \in Nat /\ Cardinality(joined[j]) <= 1 + faults
        /\ Untouched(j) => Cardinality(joined[j]) <= faults
    BY <1>1, <1>2, FS_CardinalityType DEF JoinsCounted
  <1>6. CASE InsertInvite(c)
    <2>1. /\ UNCHANGED <<member, joined, revoked>> /\ Goto(c, Done) /\ k.pc = "insert"
          /\ invite[j] = None
      BY <1>1, <1>6 DEF InsertInvite, InviteCallSafe
    <2>2. joined[j] = {} /\ j \notin revoked /\ Cardinality(joined[j]) = 0
      BY <1>1, <1>2, <2>1, FS_EmptySet DEF JoinsCounted, RevokedIsClosed
    <2>3. \A i \in Invite \ {j} : invite'[i] = invite[i] /\ joined'[i] = joined[i]
      BY <1>6, <2>1 DEF InsertInvite, TypeOK
    <2>4. JoinsCounted'
      <3>1. /\ joined'[j] = {} /\ IsFiniteSet(joined'[j]) /\ faults' = faults
            /\ Cardinality(joined'[j]) <= 1 + faults /\ Cardinality(joined'[j]) <= faults
        BY <1>1, <1>3, <1>5, <2>1, <2>2
      <3>2. k.pc # "accept"
        BY <2>1
      <3> QED
        BY <1>1, <1>2, <2>1, <2>3, <3>1, <3>2, JoinsOfOne
    <2>5. RevokedIsClosed'
      BY <1>1, <2>1, <2>2, <2>3 DEF RevokedIsClosed, Pending, TypeOK
    <2> QED
      BY <1>2, <1>4, <2>1, <2>4, <2>5, AloneStep, AtRestIsSafe DEF Done
  <1>7. CASE MarkExpired(c) \/ MarkAccepted(c) \/ MarkRevoked(c)
    <2>1. /\ UNCHANGED <<member, joined>> /\ Goto(c, Done) /\ invite[j] # None
          /\ \E s \in {"ACCEPTED", "EXPIRED", "REVOKED"} : SetStatus(j, s)
          /\ revoked' \in {revoked, revoked \cup {j}}
      BY <1>7 DEF MarkExpired, MarkAccepted, MarkRevoked, CallsBacked
    <2>2. /\ invite'[j] # None /\ ~Pending(j)'
          /\ \A i \in Invite \ {j} : invite'[i] = invite[i] /\ joined'[i] = joined[i]
      BY <1>2, <2>1, FinalStatus
    <2>3. ~Untouched(j)'
      BY <2>2 DEF Untouched
    <2>4. JoinsCounted'
      BY <1>1, <1>2, <1>3, <1>5, <2>1, <2>2, <2>3, JoinsOfOne
    <2>5. RevokedIsClosed'
      BY <1>1, <2>1, <2>2 DEF RevokedIsClosed, Pending, TypeOK
    <2> QED
      BY <1>2, <1>4, <2>1, <2>4, <2>5, AloneStep, AtRestIsSafe DEF Done
  <1>8. CASE AddMember(c) /\ IsMember(k.user)
    <2>1. UNCHANGED <<member, invite, joined, revoked>> /\ Goto(c, Done) /\ k.pc = "add"
      BY <1>8 DEF AddMember
    <2>2. JoinsCounted' /\ RevokedIsClosed'
      BY <1>1, <1>3, <2>1, JoinsStay
    <2> QED
      BY <1>2, <1>4, <2>1, <2>2, AloneStep, AtRestIsSafe DEF Done
  <1>9. CASE AddMember(c) /\ ~IsMember(k.user)
    <2>1. k \in [pc: {"expire", "add", "accept"}, inv: Invite, user: User, role: SPRole] /\ k.pc = "add"
      BY <1>9, CallFields DEF AddMember
    <2>2. /\ UNCHANGED <<invite, revoked>> /\ Goto(c, [k EXCEPT !.pc = "accept"])
          /\ joined' = [joined EXCEPT ![j] = @ \cup {k.user}]
          /\ member' = [member EXCEPT ![k.user] = [id |-> c, role |-> k.role, status |-> "ACTIVE"]]
      BY <1>9 DEF AddMember
    <2>3. LastAdminStays'
      BY <1>1, <1>9, <2>1, <2>2, AddedMember
    <2>4. Pending(j) /\ Untouched(j)
      BY <1>1, <1>2, <2>1 DEF InviteCallSafe, Untouched, Alone
    <2>5. joined'[j] = joined[j] \cup {k.user}
      BY <1>2, <2>2 DEF TypeOK
    <2>6. IsFiniteSet(joined'[j]) /\ Cardinality(joined'[j]) <= 1 + faults
      <3>1. Cardinality(joined[j]) <= faults
        BY <1>5, <2>4
      <3>2. /\ IsFiniteSet(joined'[j])
            /\ Cardinality(joined'[j]) = Cardinality(joined[j])
                 \/ Cardinality(joined'[j]) = Cardinality(joined[j]) + 1
        BY <1>5, <2>5, FS_AddElement
      <3> QED
        BY <1>1, <1>5, <3>1, <3>2
    <2>7. ASSUME NEW s, s = [k EXCEPT !.pc = "accept"]
          PROVE  /\ s.pc = "accept" /\ s.inv = j /\ Goto(c, s)
                 /\ MemberCallSafe(s)' /\ InviteCallSafe(s)'
      <3>1. s.pc = "accept" /\ s.inv = j /\ Goto(c, s)
        BY <2>1, <2>2, <2>7
      <3> QED
        BY <2>2, <2>4, <3>1 DEF MemberCallSafe, InviteCallSafe, Pending
    <2>8. \E d \in Call : call'[d].pc = "accept" /\ call'[d].inv = j
      BY <2>7 DEF Goto, TypeOK
    <2>9. JoinsCounted'
      <3>1. ~Untouched(j)'
        BY <2>8 DEF Untouched
      <3>2. invite'[j] # None
        BY <2>2, <2>4 DEF Pending
      <3>3. \A i \in Invite \ {j} : invite'[i] = invite[i] /\ joined'[i] = joined[i]
        BY <2>2 DEF TypeOK
      <3> QED
        BY <1>1, <1>2, <1>3, <2>1, <2>2, <2>6, <3>1, <3>2, <3>3, JoinsOfOne
    <2>10. RevokedIsClosed'
      BY <1>1, <2>2 DEF RevokedIsClosed, Pending
    <2> QED
      BY <1>2, <2>3, <2>7, <2>9, <2>10, AloneStep
  <1>10. CASE AuthorizeRevoke(c)
    <2>1. /\ UNCHANGED <<member, invite, joined, revoked>> /\ Goto(c, [k EXCEPT !.pc = "revoke"])
          /\ k.pc = "authorize"
      BY <1>10 DEF AuthorizeRevoke
    <2>2. ASSUME NEW s, s = [k EXCEPT !.pc = "revoke"]
          PROVE  Goto(c, s) /\ MemberCallSafe(s)' /\ InviteCallSafe(s)'
      <3>1. s.pc = "revoke" /\ s.inv = j /\ Goto(c, s)
        BY <2>1, <2>2, CallFields
      <3> QED
        BY <1>1, <2>1, <3>1 DEF MemberCallSafe, InviteCallSafe, Pending
    <2>3. JoinsCounted' /\ RevokedIsClosed'
      BY <1>1, <1>3, <2>1, JoinsStay
    <2> QED
      BY <1>2, <1>4, <2>1, <2>2, <2>3, AloneStep
  <1> QED
    BY <1>6, <1>7, <1>8, <1>9, <1>10 DEF InviteStep
\* A call that ends early, by a test or by a failure.
LEMMA EndEarlySerial ==
    ASSUME TypeOK, SerialInv, ~overlapped, NEW c \in Call, Refuse(c) \/ Fail(c)
    PROVE  SerialInv'
  <1>1. /\ UNCHANGED <<member, invite, joined, revoked, overlapped>> /\ Goto(c, Done)
        /\ call[c].pc \notin {"idle", "done"}
    BY DEF Refuse, Fail, InFlight
  <1>2. /\ faults \in Nat /\ faults' \in Nat /\ faults <= faults'
        /\ call[c].pc # "accept" \/ faults' = faults + 1
    BY DEF Refuse, Fail, Fault, TypeOK
  <1>3. /\ LastAdminStays /\ JoinsCounted /\ RevokedIsClosed /\ Alone(c)
    BY <1>1, InFlightAlone DEF SerialInv
  <1>4. LastAdminStays'
    BY <1>1, <1>3 DEF LastAdminStays, Admins, IsAdmin, IsMember
  <1>5. JoinsCounted' /\ RevokedIsClosed'
    BY <1>1, <1>2, <1>3, JoinsStay
  <1> QED
    BY <1>1, <1>3, <1>4, <1>5, AloneStep, AtRestIsSafe DEF Done

\* A call that begins, while no other is in progress.
LEMMA BeginSerial ==
    ASSUME TypeOK, SerialInv, NEW c \in Call, NEW s, Enter(c), Goto(c, s), ~overlapped',
           UNCHANGED <<member, invite, joined, revoked, faults>>,
           s.pc \notin {"count", "write"}, InviteCallSafe(s)
    PROVE  SerialInv'
  <1>1. ~overlapped /\ Alone(c) /\ call[c].pc = "idle"
    BY EnterAlone
  <1>2. LastAdminStays /\ JoinsCounted /\ RevokedIsClosed /\ faults \in Nat
    BY <1>1 DEF SerialInv, TypeOK
  <1>3. LastAdminStays'
    BY <1>2 DEF LastAdminStays, Admins, IsAdmin, IsMember
  <1>4. JoinsCounted' /\ RevokedIsClosed'
    BY <1>1, <1>2, JoinsStay
  <1>5. MemberCallSafe(s)' /\ InviteCallSafe(s)'
    BY DEF MemberCallSafe, InviteCallSafe, Pending
  <1> QED
    BY <1>1, <1>3, <1>4, <1>5, AloneStep

LEMMA ExpireSerial ==
    ASSUME TypeOK, SerialInv, ~overlapped, NEW j \in Invite, Expire(j)
    PROVE  SerialInv'
  <1>1. UNCHANGED <<member, call, joined, revoked, faults, overlapped>> /\ Pending(j)
    BY DEF Expire
  <1>2. invite[j] \in Invitation
    BY <1>1 DEF TypeOK, Pending
  <1>3. /\ [invite[j] EXCEPT !.expired = TRUE] \in Invitation
        /\ [invite[j] EXCEPT !.expired = TRUE].status = invite[j].status
    BY <1>2 DEF Invitation
  <1>4. invite' = [invite EXCEPT ![j] = [invite[j] EXCEPT !.expired = TRUE]]
    BY DEF Expire
  <1>5. \A i \in Invite : (invite'[i] = None <=> invite[i] = None) /\ (Pending(i)' <=> Pending(i))
    BY <1>1, <1>3, <1>4, NoneAssumption DEF TypeOK, Pending
  <1>6. OneAtATime' /\ LastAdminStays'
    BY <1>1 DEF SerialInv, OneAtATime, InFlight, LastAdminStays, Admins, IsAdmin, IsMember
  <1>7. ASSUME NEW c \in Call PROVE MemberCallSafe(call[c])' /\ InviteCallSafe(call[c])'
    <2>1. call[c].pc \in {"insert", "expire", "add", "accept", "authorize", "revoke"} => call[c].inv \in Invite
      BY CallFields
    <2>2. MemberCallSafe(call[c]) /\ InviteCallSafe(call[c])
      BY DEF SerialInv
    <2> QED
      BY <1>1, <1>5, <2>1, <2>2 DEF MemberCallSafe, InviteCallSafe, IsMember, IsAdmin
  <1>8. JoinsCounted'
    BY <1>1, <1>5 DEF SerialInv, JoinsCounted, Untouched
  <1>9. RevokedIsClosed'
    BY <1>1, <1>5 DEF SerialInv, RevokedIsClosed, TypeOK
  <1> QED
    BY <1>6, <1>7, <1>8, <1>9 DEF SerialInv

LEMMA SerialStep ==
    ASSUME TypeOK, CallsBacked, SerialInv, [Next]_vars
    PROVE  SerialInv'
  <1> SUFFICES ASSUME ~overlapped' PROVE SerialInv'
    BY DEF SerialInv
  <1>1. ASSUME NEW c \in Call, MemberStep(c) \/ InviteStep(c) \/ Refuse(c) \/ Fail(c) PROVE SerialInv'
    <2>1. overlapped' = overlapped
      BY <1>1 DEF MemberStep, ReadTarget, CountAdmins, WriteMember, InviteStep, InsertInvite, MarkExpired,
                  AddMember, MarkAccepted, AuthorizeRevoke, MarkRevoked, Refuse, Fail
    <2> QED
      BY <1>1, <2>1, MemberStepSerial, InviteStepSerial, EndEarlySerial
  <1>2. ASSUME NEW c \in Call, NEW u \in User, NEW r \in SPRole, AddSPUser(c, u, r) PROVE SerialInv'
    BY <1>2, AddSPUserSerial DEF AddSPUser
  <1>3. ASSUME NEW c \in Call, NEW op \in MemberOps, NEW actor \in User, NEW target \in User,
               NEW r \in SPRole, BeginMemberOp(c, op, actor, target, r)
        PROVE  SerialInv'
    BY <1>3, BeginSerial DEF BeginMemberOp, InviteCallSafe
  <1>4. ASSUME NEW c \in Call, NEW i \in Invite, NEW u \in User, NEW e \in Email, NEW r \in SPRole,
               BeginInvite(c, i, u, e, r)
        PROVE  SerialInv'
    BY <1>4, BeginSerial DEF BeginInvite, InviteCallSafe
  <1>5. ASSUME NEW c \in Call, NEW i \in Invite, NEW u \in User, BeginAccept(c, i, u)
        PROVE  SerialInv'
    BY <1>5, BeginSerial DEF BeginAccept, InviteCallSafe
  <1>6. ASSUME NEW c \in Call, NEW i \in Invite, NEW u \in User, BeginRevoke(c, i, u)
        PROVE  SerialInv'
    BY <1>6, BeginSerial DEF BeginRevoke, InviteCallSafe
  <1>7. ASSUME NEW i \in Invite, Expire(i) PROVE SerialInv'
    BY <1>7, ExpireSerial DEF Expire
  <1>8. CASE UNCHANGED vars
    BY <1>8 DEF vars, SerialInv, OneAtATime, InFlight, LastAdminStays, Admins, IsAdmin, IsMember,
                MemberCallSafe, InviteCallSafe, JoinsCounted, Untouched, RevokedIsClosed, Pending
  <1> QED
    BY <1>1, <1>2, <1>3, <1>4, <1>5, <1>6, <1>7, <1>8, NextCases

LEMMA SerialHolds == Spec => []SerialInv
  <1>1. Init => SerialInv
    <2> SUFFICES ASSUME Init PROVE SerialInv
      OBVIOUS
    <2>1. PICK u \in Founder : u \in User
      BY TeamAssumption
    <2>2. member[u] = [id |-> "founder", role |-> "SP_ADMIN", status |-> "ACTIVE"]
      BY <2>1 DEF Init
    <2>3. member[u] \in Member
      BY <2>2 DEF Member, RowId, SPRole
    <2>4. LastAdminStays
      BY <2>1, <2>2, <2>3, NoneAssumption DEF LastAdminStays, Admins, IsAdmin, IsMember
    <2>5. \A c \in Call : call[c].pc = "idle"
      BY DEF Init, Idle
    <2>6. JoinsCounted
      <3>1. \A i \in Invite : joined[i] = {} /\ faults = 0
        BY DEF Init
      <3>2. IsFiniteSet({}) /\ Cardinality({}) = 0
        BY FS_EmptySet
      <3> QED
        BY <3>1, <3>2 DEF JoinsCounted
    <2>7. RevokedIsClosed /\ OneAtATime
      BY <2>5 DEF Init, RevokedIsClosed, OneAtATime, InFlight
    <2> QED
      BY <2>4, <2>5, <2>6, <2>7 DEF SerialInv, MemberCallSafe, InviteCallSafe
  <1>2. IInv /\ SerialInv /\ [Next]_vars => SerialInv'
    BY SerialStep DEF IInv
  <1> QED
    BY <1>1, <1>2, InvHolds, PTL DEF Spec

\* While calls do not overlap, the guards of ChangeUserRole, RemoveTeamMember and
\* DeactivateUser keep an active administrator as long as they count no deactivated
\* one, whatever fails in between.
THEOREM GuardsKeep == Spec => GuardsKeepAnAdmin
  <1> DEFINE AllActive == \A u \in Admins : member[u].status = "ACTIVE"
             Left == \E u \in User : IsAdmin(u)' /\ member'[u].status = "ACTIVE"
  <1>1. ASSUME TypeOK, SerialInv, [Next]_vars PROVE [(~overlapped' /\ AllActive) => Left]_vars
    <2> SUFFICES ASSUME ~overlapped', AllActive, [Next]_vars PROVE Left
      BY <1>1
    <2>1. ASSUME NEW u \in User, IsAdmin(u), member'[u] = member[u] PROVE Left
      BY <2>1 DEF Admins, IsAdmin, IsMember
    <2>2. ASSUME NEW c \in Call, WriteMember(c) PROVE Left
      <3> DEFINE k == call[c]
      <3>1. /\ ~overlapped /\ k.pc = "write" /\ k.target \in User /\ LastAdminStays /\ MemberCallSafe(k)
            /\ \A u \in User \ {k.target} : member'[u] = member[u]
        <4>1. ~overlapped /\ k.pc = "write" /\ k.target \in User
          BY <1>1, <2>2, CallFields DEF WriteMember
        <4>2. LastAdminStays /\ MemberCallSafe(k)
          BY <1>1, <4>1 DEF SerialInv
        <4>3. \A u \in User \ {k.target} : member'[u] = member[u]
          <5>1. k.op \in MemberOps /\ MemberOps \subseteq {"role", "remove", "deactivate"}
            BY <1>1, <4>1, CallFields, TeamAssumption
          <5> QED
            BY <1>1, <2>2, <4>1, <5>1 DEF WriteMember, TypeOK
        <4> QED
          BY <4>1, <4>2, <4>3
      <3>2. PICK u \in User : IsAdmin(u)
        BY <3>1 DEF LastAdminStays, Admins
      <3>3. CASE ~IsAdmin(k.target)
        BY <2>1, <3>1, <3>2, <3>3
      <3>4. CASE IsAdmin(k.target) /\ k.op = "role" /\ k.role = "SP_ADMIN"
        <4>1. member'[k.target] = member[k.target] \/ member'[k.target] = [member[k.target] EXCEPT !.role = "SP_ADMIN"]
          BY <1>1, <2>2, <3>1, <3>4 DEF WriteMember, TypeOK
        <4>2. member[k.target] \in Member /\ member[k.target].status = "ACTIVE"
          BY <1>1, <3>1, <3>4 DEF TypeOK, IsAdmin, IsMember, Admins
        <4>3. [member[k.target] EXCEPT !.role = "SP_ADMIN"] \in Member
          BY <4>2 DEF Member, SPRole
        <4>4. member'[k.target] \in Member /\ member'[k.target].role = "SP_ADMIN" /\ member'[k.target].status = "ACTIVE"
          BY <3>4, <4>1, <4>2, <4>3 DEF Member, IsAdmin
        <4> QED
          BY <3>1, <4>4, NoneAssumption DEF IsAdmin, IsMember
      <3>5. CASE \E v \in User : IsAdmin(v) /\ v # k.target
        BY <2>1, <3>1, <3>5
      <3> QED
        BY <3>1, <3>3, <3>4, <3>5 DEF MemberCallSafe
    <2>3. ASSUME ~overlapped, \A u \in User : IsAdmin(u) => member'[u] = member[u] PROVE Left
      BY <1>1, <2>1, <2>3 DEF SerialInv, LastAdminStays, Admins
    <2>4. ASSUME NEW c \in Call, AddMember(c) PROVE Left
      <3>1. ~overlapped /\ call[c].user \in User
        BY <1>1, <2>4, CallFields DEF AddMember
      <3> QED
        BY <1>1, <2>3, <2>4, <3>1 DEF AddMember, IsAdmin, TypeOK
    <2>5. ASSUME NEW c \in Call, NEW u \in User, NEW r \in SPRole, AddSPUser(c, u, r) PROVE Left
      BY <1>1, <2>3, <2>5 DEF AddSPUser, IsAdmin, TypeOK
    <2>6. ASSUME member' = member, ~overlapped PROVE Left
      BY <2>3, <2>6
    <2>7. ASSUME NEW c \in Call, MemberStep(c) \/ InviteStep(c) \/ Refuse(c) \/ Fail(c) PROVE Left
      BY <2>2, <2>4, <2>6, <2>7 DEF MemberStep, ReadTarget, CountAdmins, InviteStep, InsertInvite,
                              MarkExpired, MarkAccepted, AuthorizeRevoke, MarkRevoked, Refuse, Fail
    <2>8. ASSUME NEW c \in Call, Enter(c), member' = member PROVE Left
      BY <2>6, <2>8 DEF Enter
    <2>9. CASE UNCHANGED vars \/ \E i \in Invite : Expire(i)
      BY <2>6, <2>9 DEF Expire, vars
    <2> QED
      BY <2>5, <2>7, <2>8, <2>9, NextCases DEF BeginMemberOp, BeginInvite, BeginAccept, BeginRevoke
  <1>2. IInv => TypeOK
    BY DEF IInv
  <1> QED
    BY <1>1, <1>2, InvHolds, SerialHolds, PTL DEF Spec, GuardsKeepAnAdmin

\* While calls do not overlap, an invitation lets one user in, and one more for
\* each call that failed half way.
THEOREM AdmitsOne == Spec => []InvitationAdmitsOne
  <1>1. SerialInv => InvitationAdmitsOne
    BY DEF SerialInv, JoinsCounted, InvitationAdmitsOne
  <1> QED
    BY <1>1, SerialHolds, PTL

\* While calls do not overlap, nobody joins by an invitation after its
\* revocation has been confirmed.
THEOREM RevokedNobody == Spec => RevokedAdmitsNobody
  <1> DEFINE Kept == ~overlapped' => \A i \in revoked : joined'[i] = joined[i]
  <1>1. ASSUME TypeOK, SerialInv, [Next]_vars PROVE [Kept]_vars
    <2> SUFFICES ASSUME ~overlapped', NEW i \in revoked PROVE joined'[i] = joined[i]
      OBVIOUS
    <2>1. ASSUME NEW c \in Call, AddMember(c) PROVE joined'[i] = joined[i]
      <3>1. overlapped' = overlapped /\ call[c].pc = "add" /\ call[c].inv \in Invite
        BY <1>1, <2>1, CallFields DEF AddMember
      <3>2. Pending(call[c].inv) /\ ~Pending(i) /\ i \in Invite
        BY <1>1, <3>1 DEF SerialInv, InviteCallSafe, RevokedIsClosed, TypeOK
      <3>3. i # call[c].inv
        BY <3>2
      <3> QED
        BY <1>1, <2>1, <3>2, <3>3 DEF AddMember, TypeOK
    <2>2. CASE joined' = joined
      BY <2>2
    <2>3. ASSUME NEW c \in Call, MemberStep(c) \/ InviteStep(c) \/ Refuse(c) \/ Fail(c)
          PROVE  joined'[i] = joined[i]
      BY <2>1, <2>2, <2>3 DEF MemberStep, ReadTarget, CountAdmins, WriteMember, InviteStep, InsertInvite,
                              MarkExpired, MarkAccepted, AuthorizeRevoke, MarkRevoked, Refuse, Fail
    <2> QED
      BY <1>1, <2>2, <2>3, NextCases
         DEF AddSPUser, BeginMemberOp, BeginInvite, BeginAccept, BeginRevoke, Expire, vars
  <1>2. IInv => TypeOK
    BY DEF IInv
  <1> QED
    BY <1>1, <1>2, InvHolds, SerialHolds, PTL DEF Spec, RevokedAdmitsNobody
=============================================================================
