--------------------------- MODULE TeamMembership ---------------------------
(***************************************************************************)
(* organization-service: the team of one service provider.  Every          *)
(* operation of TeamUseCase is a handful of separate statements on         *)
(* service_provider_users and invitations, in no transaction: read, test,  *)
(* write by row id.  One step here is one statement (InviteUser's two      *)
(* look-ups are one step), and calls overlap up to MaxInFlight.            *)
(*                                                                         *)
(* Names, tokens and the events published after a success are left out.    *)
(***************************************************************************)
EXTENDS Naturals, FiniteSets

CONSTANTS
    User,
    Founder,       \* administrators at the start; one is the SP's creator
    Invite,        \* invitation ids
    Email,
    Call,          \* calls of the use case; each runs at most once
    MemberOps,     \* which of "role", "remove", "deactivate" are called
    MaxInFlight,   \* bound: calls that overlap
    MaxFaults,     \* bound: statements that fail, callers that give up
    None

ASSUME TeamAssumption ==
    /\ Founder \subseteq User /\ Founder # {} /\ None \notin User
    /\ MemberOps \subseteq {"role", "remove", "deactivate"}
    /\ MaxInFlight \in Nat \ {0} /\ MaxFaults \in Nat

SPRole == {"SP_ADMIN", "AGENT"}          \* ANALYST is treated as AGENT is

VARIABLES
    member,        \* service_provider_users, at most one row per user
    invite,        \* invitations
    call,          \* what each call holds
    joined,        \* users who joined through each invitation
    revoked,       \* invitations somebody was told are revoked
    overlapped,    \* history: have two calls ever been in progress together
    faults

vars == <<member, invite, call, joined, revoked, overlapped, faults>>

RowId == {"founder"} \cup Call           \* a row is named by the call that added it
Member == [id: RowId, role: SPRole, status: {"ACTIVE", "DEACTIVATED"}]
Invitation ==
    [email: Email, role: SPRole, expired: BOOLEAN, status: {"PENDING", "ACCEPTED", "EXPIRED", "REVOKED"}]

\* A missing row is no row.
ASSUME NoneAssumption == None \notin Member \cup Invitation

IsMember(u) == member[u] # None
IsAdmin(u)  == IsMember(u) /\ member[u].role = "SP_ADMIN"
Admins == {u \in User : IsAdmin(u)}
Pending(i) == invite[i] # None /\ invite[i].status = "PENDING"

Idle == [pc |-> "idle"]
Done == [pc |-> "done"]
InFlight == {c \in Call : call[c].pc \notin {"idle", "done"}}
Enter(c) ==
    /\ call[c].pc = "idle" /\ Cardinality(InFlight) < MaxInFlight
    /\ overlapped' = (overlapped \/ InFlight # {})
Goto(c, next) == call' = [call EXCEPT ![c] = next]
Fault == faults < MaxFaults /\ faults' = faults + 1

SetStatus(i, s) == invite' = [invite EXCEPT ![i].status = s]

Init ==
    /\ member = [u \in User |->
          IF u \in Founder THEN [id |-> "founder", role |-> "SP_ADMIN", status |-> "ACTIVE"] ELSE None]
    /\ invite = [i \in Invite |-> None]
    /\ call = [c \in Call |-> Idle]
    /\ joined = [i \in Invite |-> {}] /\ revoked = {} /\ overlapped = FALSE /\ faults = 0

(***************************************************************************)
(* ChangeUserRole, RemoveTeamMember, DeactivateUser: the caller is an      *)
(* administrator, the target a member; if that takes an administrator      *)
(* away, administrators are counted and must be more than one.             *)
(***************************************************************************)
\* The caller's role is looked up; the status of its membership is not.
BeginMemberOp(c, op, actor, target, role) ==
    /\ Enter(c) /\ IsAdmin(actor)
    /\ Goto(c, [pc |-> "target", op |-> op, target |-> target, role |-> role])
    /\ UNCHANGED <<member, invite, joined, revoked, faults>>

\* Mutant of ReadTarget: deactivation is not guarded.
ReadTargetLoose(c) ==
    /\ call[c].pc = "target" /\ IsMember(call[c].target)
    /\ LET row == member[call[c].target]
           guarded == row.role = "SP_ADMIN" /\ call[c].op # "deactivate"
                      /\ ~(call[c].op = "role" /\ call[c].role = "SP_ADMIN")
       IN  Goto(c, [pc |-> IF guarded THEN "count" ELSE "write", op |-> call[c].op,
                    target |-> call[c].target, row |-> row.id, role |-> call[c].role])
    /\ UNCHANGED <<member, invite, joined, revoked, faults, overlapped>>

\* The target's row is read, and with it whether the guard applies.
ReadTarget(c) ==
    /\ call[c].pc = "target" /\ IsMember(call[c].target)
    /\ LET row == member[call[c].target]
           guarded == row.role = "SP_ADMIN" /\ ~(call[c].op = "role" /\ call[c].role = "SP_ADMIN")
       IN  Goto(c, [pc |-> IF guarded THEN "count" ELSE "write", op |-> call[c].op,
                    target |-> call[c].target, row |-> row.id, role |-> call[c].role])
    /\ UNCHANGED <<member, invite, joined, revoked, faults, overlapped>>


\* CountByRole counts the rows with the role, whatever their status.
CountAdmins(c) ==
    /\ call[c].pc = "count" /\ Cardinality(Admins) > 1
    /\ Goto(c, [call[c] EXCEPT !.pc = "write"])
    /\ UNCHANGED <<member, invite, joined, revoked, faults, overlapped>>

\* The write, by the row id that was read.
WriteMember(c) ==
    /\ call[c].pc = "write"
    /\ LET k == call[c]
           hit == IsMember(k.target) /\ member[k.target].id = k.row
       IN  member' = IF ~hit THEN member ELSE
                CASE k.op = "role"       -> [member EXCEPT ![k.target].role = k.role]
                  [] k.op = "remove"     -> [member EXCEPT ![k.target] = None]
                  [] k.op = "deactivate" -> [member EXCEPT ![k.target].status = "DEACTIVATED"]
    /\ Goto(c, Done)
    /\ UNCHANGED <<invite, joined, revoked, faults, overlapped>>

\* AddSPUser, an RPC of its own: no invitation and no look at the caller.
AddSPUser(c, u, role) ==
    /\ call[c].pc = "idle" /\ ~IsMember(u)
    /\ member' = [member EXCEPT ![u] = [id |-> c, role |-> role, status |-> "ACTIVE"]]
    /\ Goto(c, Done)
    /\ UNCHANGED <<invite, joined, revoked, faults, overlapped>>

(***************************************************************************)
(* Invitations.                                                            *)
(***************************************************************************)
\* InviteUser: the caller is an administrator; no pending invitation is found.
BeginInvite(c, i, actor, email, role) ==
    /\ Enter(c) /\ IsAdmin(actor) /\ invite[i] = None
    /\ ~\E j \in Invite : Pending(j) /\ invite[j].email = email
    /\ \A d \in InFlight : call[d].pc = "insert" => call[d].inv # i
    /\ Goto(c, [pc |-> "insert", inv |-> i, email |-> email, role |-> role])
    /\ UNCHANGED <<member, invite, joined, revoked, faults>>

\* Mutant of InsertInvite: only the earlier look-up keeps duplicates out.
InsertInviteAlways(c) ==
    /\ call[c].pc = "insert"
    /\ invite' = [invite EXCEPT ![call[c].inv] =
          [email |-> call[c].email, role |-> call[c].role, expired |-> FALSE, status |-> "PENDING"]]
    /\ Goto(c, Done)
    /\ UNCHANGED <<member, joined, revoked, faults, overlapped>>

\* The INSERT, under the unique index on pending (email, provider).
InsertInvite(c) ==
    /\ call[c].pc = "insert"
    /\ invite' = IF \E j \in Invite : Pending(j) /\ invite[j].email = call[c].email THEN invite
                 ELSE [invite EXCEPT ![call[c].inv] = [email |-> call[c].email, role |-> call[c].role,
                                                       expired |-> FALSE, status |-> "PENDING"]]
    /\ Goto(c, Done)
    /\ UNCHANGED <<member, joined, revoked, faults, overlapped>>

\* expires_at passes.
Expire(i) ==
    /\ Pending(i) /\ ~invite[i].expired
    /\ invite' = [invite EXCEPT ![i].expired = TRUE]
    /\ UNCHANGED <<member, call, joined, revoked, faults, overlapped>>

\* Mutant of BeginAccept: the status of the invitation is not tested.
BeginAcceptAny(c, i, u) ==
    /\ Enter(c) /\ invite[i] # None
    /\ Goto(c, [pc |-> IF invite[i].expired THEN "expire" ELSE "add",
                inv |-> i, user |-> u, role |-> invite[i].role])
    /\ UNCHANGED <<member, invite, joined, revoked, faults>>

\* AcceptInvitation by whoever holds the token: the invitation is read and must
\* be pending; expired or not decides what is written.
BeginAccept(c, i, u) ==
    /\ Enter(c) /\ Pending(i)
    /\ Goto(c, [pc |-> IF invite[i].expired THEN "expire" ELSE "add",
                inv |-> i, user |-> u, role |-> invite[i].role])
    /\ UNCHANGED <<member, invite, joined, revoked, faults>>

MarkExpired(c) ==
    /\ call[c].pc = "expire" /\ SetStatus(call[c].inv, "EXPIRED") /\ Goto(c, Done)
    /\ UNCHANGED <<member, joined, revoked, faults, overlapped>>

\* Mutant of AddMember: the INSERT replaces an existing row.
AddMemberUpsert(c) ==
    /\ call[c].pc = "add"
    /\ member' = [member EXCEPT ![call[c].user] = [id |-> c, role |-> call[c].role, status |-> "ACTIVE"]]
    /\ joined' = [joined EXCEPT ![call[c].inv] = @ \cup {call[c].user}]
    /\ Goto(c, [call[c] EXCEPT !.pc = "accept"])
    /\ UNCHANGED <<invite, revoked, faults, overlapped>>

\* Mutant of AddMember: the error of the INSERT is dropped.
AddMemberNoError(c) ==
    /\ call[c].pc = "add"
    /\ LET u == call[c].user
       IN  IF IsMember(u) THEN UNCHANGED <<member, joined>>
           ELSE /\ member' = [member EXCEPT ![u] = [id |-> c, role |-> call[c].role, status |-> "ACTIVE"]]
                /\ joined' = [joined EXCEPT ![call[c].inv] = @ \cup {u}]
    /\ Goto(c, [call[c] EXCEPT !.pc = "accept"])
    /\ UNCHANGED <<invite, revoked, faults, overlapped>>

\* The INSERT of the membership, unique per user: a member's second one fails
\* the call and the invitation stays pending.
AddMember(c) ==
    /\ call[c].pc = "add"
    /\ LET u == call[c].user
       IN  IF IsMember(u) THEN Goto(c, Done) /\ UNCHANGED <<member, joined>>
           ELSE /\ member' = [member EXCEPT ![u] = [id |-> c, role |-> call[c].role, status |-> "ACTIVE"]]
                /\ joined' = [joined EXCEPT ![call[c].inv] = @ \cup {u}]
                /\ Goto(c, [call[c] EXCEPT !.pc = "accept"])
    /\ UNCHANGED <<invite, revoked, faults, overlapped>>

MarkAccepted(c) ==
    /\ call[c].pc = "accept" /\ SetStatus(call[c].inv, "ACCEPTED") /\ Goto(c, Done)
    /\ UNCHANGED <<member, joined, revoked, faults, overlapped>>

\* RevokeInvitation: the invitation is read first, the caller's role second.
BeginRevoke(c, i, actor) ==
    /\ Enter(c) /\ Pending(i)
    /\ Goto(c, [pc |-> "authorize", inv |-> i, actor |-> actor])
    /\ UNCHANGED <<member, invite, joined, revoked, faults>>

AuthorizeRevoke(c) ==
    /\ call[c].pc = "authorize" /\ IsAdmin(call[c].actor)
    /\ Goto(c, [call[c] EXCEPT !.pc = "revoke"])
    /\ UNCHANGED <<member, invite, joined, revoked, faults, overlapped>>

MarkRevoked(c) ==
    /\ call[c].pc = "revoke"
    /\ SetStatus(call[c].inv, "REVOKED") /\ revoked' = revoked \cup {call[c].inv}
    /\ Goto(c, Done)
    /\ UNCHANGED <<member, joined, faults, overlapped>>

\* A call ends early: one of its tests fails, which changes nothing.
Refuse(c) ==
    /\ \/ call[c].pc = "target" /\ ~IsMember(call[c].target)
       \/ call[c].pc = "count" /\ Cardinality(Admins) <= 1
       \/ call[c].pc = "authorize" /\ ~IsAdmin(call[c].actor)
    /\ Goto(c, Done) /\ UNCHANGED <<member, invite, joined, revoked, faults, overlapped>>

\* A statement fails, or the caller is gone: what was written stays.
Fail(c) ==
    /\ c \in InFlight /\ Fault
    /\ Goto(c, Done) /\ UNCHANGED <<member, invite, joined, revoked, overlapped>>

MemberStep(c) == ReadTarget(c) \/ CountAdmins(c) \/ WriteMember(c)
InviteStep(c) ==
    InsertInvite(c) \/ MarkExpired(c) \/ AddMember(c) \/ MarkAccepted(c) \/ AuthorizeRevoke(c) \/ MarkRevoked(c)

Next ==
    \/ \E c \in Call :
          \/ MemberStep(c) \/ InviteStep(c) \/ Refuse(c) \/ Fail(c)
          \/ \E u \in User, r \in SPRole : AddSPUser(c, u, r)
          \/ \E actor, target \in User :
                \/ \E r \in SPRole : "role" \in MemberOps /\ BeginMemberOp(c, "role", actor, target, r)
                \/ \E op \in MemberOps \ {"role"} : BeginMemberOp(c, op, actor, target, "AGENT")
          \/ \E i \in Invite, u \in User :
                \/ \E e \in Email, r \in SPRole : BeginInvite(c, i, u, e, r)
                \/ BeginAccept(c, i, u) \/ BeginRevoke(c, i, u)
    \/ \E i \in Invite : Expire(i)

Spec == Init /\ [][Next]_vars

(***************************************************************************)
(* Properties.                                                             *)
(***************************************************************************)
\* What a call holds at each of its statements.
CallState ==
    [pc: {"idle", "done"}]
    \cup [pc: {"target"}, op: MemberOps, target: User, role: SPRole]
    \cup [pc: {"count", "write"}, op: MemberOps, target: User, row: RowId, role: SPRole]
    \cup [pc: {"insert"}, inv: Invite, email: Email, role: SPRole]
    \cup [pc: {"expire", "add", "accept"}, inv: Invite, user: User, role: SPRole]
    \cup [pc: {"authorize", "revoke"}, inv: Invite, actor: User]

\* Every variable has its type.
TypeOK ==
    /\ member \in [User -> Member \cup {None}]
    /\ invite \in [Invite -> Invitation \cup {None}]
    /\ call \in [Call -> CallState]
    /\ joined \in [Invite -> SUBSET User]
    /\ revoked \subseteq Invite /\ overlapped \in BOOLEAN /\ faults \in 0..MaxFaults

\* The provider always has somebody with the administrator's role: the guards
\* of ChangeUserRole, RemoveTeamMember and DeactivateUser.
LastAdminStays == Admins # {}

\* As long as calls do not overlap and the administrators are active, those guards
\* keep an active one: whatever was tested when, no role change, removal or
\* deactivation takes the last.  (Once an administrator is deactivated the guards
\* go on counting the row, and the next deactivation may leave nobody active.)
GuardsKeepAnAdmin ==
    [][(~overlapped' /\ \A u \in Admins : member[u].status = "ACTIVE") =>
          \E u \in User : IsAdmin(u)' /\ member'[u].status = "ACTIVE"]_vars

\* At most one pending invitation of an e-mail address, however calls overlap:
\* the look-up in InviteUser cannot give that, the unique index does.
OnePendingPerEmail ==
    \A i, j \in Invite : (Pending(i) /\ Pending(j) /\ invite[i].email = invite[j].email) => i = j

\* An invitation is marked accepted only if somebody joined by it.
AcceptedWasJoined ==
    \A i \in Invite : (invite[i] # None /\ invite[i].status = "ACCEPTED") => joined[i] # {}

\* As long as calls do not overlap, an invitation lets one user in, and one more
\* for each call that failed between adding the member and marking the invitation.
InvitationAdmitsOne == overlapped \/ \A i \in Invite : Cardinality(joined[i]) <= 1 + faults

\* As long as calls do not overlap, nobody joins by an invitation whose
\* revocation has been confirmed.
RevokedAdmitsNobody == [][~overlapped' => \A i \in revoked : joined'[i] = joined[i]]_vars

\* A deactivated member comes back only after being removed: neither a role
\* change nor another invitation reactivates the membership.
DeactivatedStaysOut ==
    [][\A u \in User : (IsMember(u) /\ member[u].status = "DEACTIVATED") =>
                          (member'[u] = None \/ member'[u].status = "DEACTIVATED")]_vars
=============================================================================
