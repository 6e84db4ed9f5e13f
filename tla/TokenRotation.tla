--------------------------- MODULE TokenRotation ---------------------------
(***************************************************************************)
(* auth-service: the refresh tokens of one user.  A token is a JWT whose   *)
(* claims are the user, the issuer and two times in whole seconds, so two  *)
(* tokens made in the same second are the same string: here a token IS the *)
(* second it was made in.  refresh_tokens holds their hashes, unique; the  *)
(* calls of AuthUseCase are separate statements on it.                     *)
(*                                                                         *)
(* Passwords, access tokens and other users, whose tokens never collide    *)
(* with these, are left out.                                               *)
(***************************************************************************)
EXTENDS Naturals, FiniteSets

CONSTANTS
    Call,          \* calls of Login, Register, RefreshToken; each runs at most once
    MaxTime,       \* bound: seconds
    TTL,           \* refresh expiry (7 days in the code), in seconds
    MaxInFlight,   \* bound: calls that overlap
    MaxFaults,     \* bound: statements that fail, callers that give up
    None

ASSUME TokenAssumption ==
    /\ MaxTime \in Nat /\ TTL \in Nat \ {0} /\ None \notin Nat
    /\ MaxInFlight \in Nat \ {0} /\ MaxFaults \in Nat

Token == 0..MaxTime

VARIABLES
    now,
    user,          \* does the account exist
    row,           \* refresh_tokens, by token
    call,          \* what each call holds
    presented,     \* tokens some RefreshToken call has accepted
    answer,        \* the token each call has returned, None before or with an error
    exchanged,     \* for each token, successful exchanges of it
    faults

db == <<user, row>>
vars == <<now, user, row, call, presented, answer, exchanged, faults>>

Row == [revoked: BOOLEAN, expires: 0..(MaxTime + TTL)]
ASSUME NoneAssumption == None \notin Row            \* a missing row is no row

Kind == {"login", "register", "refresh"}
CallState ==
    [pc: {"idle"}] \cup [pc: {"done"}, kind: Kind]
    \cup [pc: {"revoke", "mint"}, kind: {"refresh"}, old: Token]
    \cup [pc: {"store"}, kind: Kind, old: Token \cup {None}, new: Token]

Stored(t) == row[t] # None
Live(t) == Stored(t) /\ ~row[t].revoked
Accepted(t) == now < t + TTL                     \* ValidateRefreshToken
InFlight == {c \in Call : call[c].pc \notin {"idle", "done"}}
MayStart(c) == call[c].pc = "idle" /\ Cardinality(InFlight) < MaxInFlight
Goto(c, next) == call' = [call EXCEPT ![c] = next]
Answer(c, a) ==
    answer' = [answer EXCEPT ![c] = a] /\ Goto(c, [pc |-> "done", kind |-> call[c].kind])
Fault == faults < MaxFaults /\ faults' = faults + 1

Init ==
    /\ now = 0 /\ user = FALSE /\ faults = 0
    /\ row = [t \in Token |-> None]
    /\ call = [c \in Call |-> [pc |-> "idle"]]
    /\ presented = {} /\ answer = [c \in Call |-> None]
    /\ exchanged = [t \in Token |-> 0]

Tick ==
    /\ now < MaxTime /\ now' = now + 1
    /\ UNCHANGED <<db, call, presented, answer, exchanged, faults>>

\* Login with the right password: a token is made.
Login(c) ==
    /\ MayStart(c) /\ user
    /\ Goto(c, [pc |-> "store", kind |-> "login", old |-> None, new |-> now])
    /\ UNCHANGED <<now, db, presented, answer, exchanged, faults>>

\* Register, once the name and the row of the user are through.
Register(c) ==
    /\ MayStart(c) /\ ~user /\ user' = TRUE
    /\ Goto(c, [pc |-> "store", kind |-> "register", old |-> None, new |-> now])
    /\ UNCHANGED <<now, row, presented, answer, exchanged, faults>>

\* Mutant of ReadToken: the revoked flag is not tested.
ReadTokenAny(c, t) ==
    /\ MayStart(c) /\ Accepted(t) /\ Stored(t)
    /\ Goto(c, [pc |-> "revoke", kind |-> "refresh", old |-> t])
    /\ presented' = presented \cup {t}
    /\ UNCHANGED <<now, db, answer, exchanged, faults>>

\* RefreshToken, the look-up: signature and expiry hold, the row exists, is not
\* revoked and not past its own expiry.
ReadToken(c, t) ==
    /\ MayStart(c) /\ Accepted(t) /\ Live(t) /\ ~(row[t].expires < now)
    /\ Goto(c, [pc |-> "revoke", kind |-> "refresh", old |-> t])
    /\ presented' = presented \cup {t}
    /\ UNCHANGED <<now, db, answer, exchanged, faults>>

\* The old token is revoked, whatever has become of it; an error is dropped.
Revoke(c) ==
    /\ call[c].pc = "revoke"
    /\ \/ row' = [row EXCEPT ![call[c].old].revoked = TRUE] /\ faults' = faults
       \/ row' = row /\ Fault
    /\ Goto(c, [call[c] EXCEPT !.pc = "mint"])
    /\ UNCHANGED <<now, user, presented, answer, exchanged>>

\* The user is looked up and the new token is made.
Mint(c) ==
    /\ call[c].pc = "mint"
    /\ Goto(c, [pc |-> "store", kind |-> "refresh", old |-> call[c].old, new |-> now])
    /\ UNCHANGED <<now, db, presented, answer, exchanged, faults>>

\* Mutants of Store: a second INSERT of the hash replaces the row, or is
\* reported as a success; the expiry stored is the access token's.
StoreUpsert(c) ==
    /\ call[c].pc = "store"
    /\ row' = [row EXCEPT ![call[c].new] = [revoked |-> FALSE, expires |-> now + TTL]]
    /\ Answer(c, call[c].new)
    /\ UNCHANGED <<now, user, presented, exchanged, faults>>
StoreIgnored(c) ==
    /\ call[c].pc = "store"
    /\ row' = IF Stored(call[c].new) THEN row
              ELSE [row EXCEPT ![call[c].new] = [revoked |-> FALSE, expires |-> now + TTL]]
    /\ Answer(c, call[c].new)
    /\ UNCHANGED <<now, user, presented, exchanged, faults>>
StoreShort(c) ==
    /\ call[c].pc = "store" /\ ~Stored(call[c].new)
    /\ row' = [row EXCEPT ![call[c].new] = [revoked |-> FALSE, expires |-> now]]
    /\ Answer(c, call[c].new)
    /\ UNCHANGED <<now, user, presented, exchanged, faults>>

\* The new hash is inserted; a hash that is there already, or a failing
\* statement, fails the call, except Register, which drops the error.
Store(c) ==
    /\ call[c].pc = "store"
    /\ LET k == call[c]
           ok == [row EXCEPT ![k.new] = [revoked |-> FALSE, expires |-> now + TTL]]
       IN  \E inserted \in BOOLEAN :
             /\ inserted => ~Stored(k.new)
             /\ row' = IF inserted THEN ok ELSE row
             /\ IF inserted \/ Stored(k.new) THEN faults' = faults ELSE Fault
             /\ Answer(c, IF inserted \/ k.kind = "register" THEN k.new ELSE None)
             /\ exchanged' = IF inserted /\ k.kind = "refresh"
                             THEN [exchanged EXCEPT ![k.old] = @ + 1] ELSE exchanged
    /\ UNCHANGED <<now, user, presented>>

\* The caller is gone, the process dies or the user cannot be looked up: what
\* was written stays.
Fail(c) ==
    /\ c \in InFlight /\ Fault /\ Answer(c, None)
    /\ UNCHANGED <<now, db, presented, exchanged>>

\* worker-service, hourly: expireRefreshTokens.
ExpireRefreshTokens ==
    /\ \E t \in Token : Live(t) /\ row[t].expires < now
    /\ row' = [t \in Token |-> IF Live(t) /\ row[t].expires < now
                               THEN [row[t] EXCEPT !.revoked = TRUE] ELSE row[t]]
    /\ UNCHANGED <<now, user, call, presented, answer, exchanged, faults>>

Next ==
    \/ Tick \/ ExpireRefreshTokens
    \/ \E c \in Call :
          \/ Login(c) \/ Register(c) \/ Revoke(c) \/ Mint(c) \/ Store(c) \/ Fail(c)
          \/ \E t \in Token : ReadToken(c, t)

Spec == Init /\ [][Next]_vars

(***************************************************************************)
(* Properties.                                                             *)
(***************************************************************************)
\* Every variable has its type.
TypeOK ==
    /\ now \in Token /\ user \in BOOLEAN /\ faults \in 0..MaxFaults
    /\ row \in [Token -> Row \cup {None}] /\ call \in [Call -> CallState]
    /\ presented \subseteq Token
    /\ answer \in [Call -> Token \cup {None}] /\ exchanged \in [Token -> Nat]

\* A revoked token never becomes valid again, though the same string may be
\* made a second time.
RevokedStaysRevoked ==
    [][\A t \in Token : (Stored(t) /\ row[t].revoked) => (row'[t] # None /\ row'[t].revoked)]_row

\* A token loses its validity only because somebody presented it or its time is
\* over: neither the hourly job nor another session's rotation ends a session.
RevocationHasCause ==
    [][\A t \in Token : (Live(t) /\ row'[t].revoked) => (t \in presented \/ ~Accepted(t))]_row

\* A refresh token is exchanged at most as often as calls overlap, and once more
\* for each fault: only calls that read it before the first of them revoked it
\* get a new one.  Calls that do not overlap exchange it once.
ExchangesAreLimited == \A t \in Token : exchanged[t] <= MaxInFlight + faults

\* No two logins or rotations answer with the same refresh token, though two of
\* the same second make the same one: the unique hash turns one of them down.
AnswersAreDistinct ==
    \A c, d \in {x \in Call : call[x].pc = "done" /\ call[x].kind # "register"} :
        (answer[c] # None /\ answer[c] = answer[d]) => c = d
=============================================================================
