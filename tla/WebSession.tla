------------------------------- MODULE WebSession ------------------------------
(* The session of apps/web: the tabs of a browser share what lib/auth-context.tsx
   keeps in localStorage, and each tab has three parts that exchange the refresh token
   without knowing of each other: the timer of AuthProvider, the error link of
   lib/apollo-client.ts and the chat, when XMPP rejects its credentials.  The server
   takes a refresh token once (TokenRotation).                                       *)
EXTENDS Naturals, FiniteSets

CONSTANTS
    Tabs,
    Users,
    MaxTokens,    \* bound on the refresh tokens the server makes
    MaxRequests,  \* bound on the exchanges that are asked for
    MaxQueue      \* bound on the operations that wait for an exchange

None    == "none"
Tokens  == 1 .. MaxTokens
Askers  == {"timer", "apollo", "chat"}

ASSUME WebSessionAssumption ==
    /\ None \notin Users /\ MaxTokens \in Nat /\ MaxRequests \in Nat /\ MaxQueue \in Nat

VARIABLES
    owner,     \* token -> the user it was made for, None while it is not made
    live,      \* tokens the server would take
    stored,    \* localStorage: the user, and the refresh token (0: none)
    tab,       \* tab -> [token (React state), armed, refreshing, queue]
    calls,     \* POST /api/auth/refresh under way
    requests,  \* how many were sent so far
    clean,     \* no answer was lost and nothing was revoked so far
    overlap,   \* a token was presented while it was being exchanged already
    late       \* somebody signed in or out while a token was being exchanged

session == <<owner, live>>
ghosts  == <<clean, overlap, late>>
vars    == <<session, stored, tab, calls, requests, ghosts>>

Nobody  == [user |-> None, refresh |-> 0]
Idle    == [token |-> 0, armed |-> FALSE, refreshing |-> FALSE, queue |-> 0]
Made    == {i \in Tokens : owner[i] # None}
Fresh   == CHOOSE i \in Tokens : i \notin Made   \* which one does not matter
Mint(u) == owner' = [owner EXCEPT ![Fresh] = u]

Init ==
    /\ owner = [i \in Tokens |-> None] /\ live = {}
    /\ stored = Nobody
    /\ tab = [t \in Tabs |-> Idle]
    /\ calls = {} /\ requests = 0
    /\ clean = TRUE /\ overlap = FALSE /\ late = FALSE

--------------------------------------------------------------------------------
(* Signing in and out                                                            *)

(* Restore session on mount: both the token and the user must be there.            *)
Open(t) ==
    /\ tab[t].token = 0
    /\ stored.refresh # 0 /\ stored.user # None
    /\ tab' = [tab EXCEPT ![t].token = stored.refresh, ![t].armed = TRUE]
    /\ UNCHANGED <<session, stored, calls, requests, ghosts>>

(* login and register: everything is stored at once; the new token arms the timer. *)
Login(t, u) ==
    /\ tab[t].token = 0 /\ Made # Tokens
    /\ Mint(u)
    /\ live' = live \cup {Fresh}
    /\ stored' = [user |-> u, refresh |-> Fresh]
    /\ tab' = [tab EXCEPT ![t].token = Fresh, ![t].armed = TRUE]
    /\ late' = (late \/ calls # {})
    /\ UNCHANGED <<calls, requests, clean, overlap>>

(* logout clears the storage and the state; the refresh token stays good on the server
   and requests under way go on.                                                     *)
LeaveAs(t, state, cs) ==
    /\ stored' = Nobody
    /\ tab' = [tab EXCEPT ![t] = state]
    /\ late' = (late \/ cs # {})
Out(t) == [tab[t] EXCEPT !.token = 0, !.armed = FALSE]
Logout(t) ==
    /\ tab[t].token # 0
    /\ LeaveAs(t, Out(t), calls)
    /\ UNCHANGED <<session, calls, requests, clean, overlap>>

(* A tab is closed, or loaded again: its requests go on, their answers find nobody.  *)
Close(t) ==
    /\ tab[t] # Idle
    /\ tab' = [tab EXCEPT ![t] = Idle]
    /\ calls' = {c \in calls : c.tab # t}
    /\ clean' = (clean /\ \A c \in calls : c.tab # t)
    /\ UNCHANGED <<session, stored, requests, overlap, late>>

--------------------------------------------------------------------------------
(* Exchanging the token                                                          *)

AskByState(t, by) ==   \* (mutant) the token of the tab, not the one in the storage
    /\ requests < MaxRequests
    /\ requests' = requests + 1
    /\ calls' = calls \cup {[tab |-> t, by |-> by, n |-> requests, old |-> tab[t].token,
                             stage |-> "sent", new |-> 0]}
    /\ overlap' = (overlap \/ \E c \in calls : c.old = tab[t].token)
    /\ UNCHANGED <<session, clean>>
Ask(t, by) ==
    /\ requests < MaxRequests
    /\ requests' = requests + 1
    /\ calls' = calls \cup {[tab |-> t, by |-> by, n |-> requests, old |-> stored.refresh,
                             stage |-> "sent", new |-> 0]}
    /\ overlap' = (overlap \/ \E c \in calls : c.old = stored.refresh)
    /\ UNCHANGED <<session, clean>>

(* scheduleRefresh: two minutes before the token of the tab expires the token in the
   storage is exchanged; when another tab has signed out there is none.  (A token that
   has less than two minutes left when it comes is exchanged at once.)               *)
TimerFires(t) ==
    /\ tab[t].armed
    /\ IF stored.refresh # 0
         THEN /\ Ask(t, "timer")
              /\ tab' = [tab EXCEPT ![t].armed = FALSE]
              /\ UNCHANGED <<stored, late>>
         ELSE LeaveAs(t, Out(t), calls) /\ UNCHANGED <<session, calls, requests, clean, overlap>>

(* XMPP answers "not-authorized": the chat exchanges the token.                      *)
ChatRejected(t) ==
    /\ tab[t].token # 0 /\ stored.refresh # 0
    /\ Ask(t, "chat")
    /\ UNCHANGED <<stored, tab, late>>

(* errorLink: the first operation that is refused exchanges the token, the others of the
   tab wait; with no token in the storage, or a failing exchange, the page is left.    *)
Reloaded(t) ==
    /\ LeaveAs(t, Idle, {c \in calls : c.tab # t})
    /\ calls' = {c \in calls : c.tab # t}
    /\ clean' = (clean /\ \A c \in calls : c.tab # t)
Unauthenticated(t) ==
    /\ tab[t].token # 0
    /\ \/ /\ tab[t].refreshing /\ tab[t].queue < MaxQueue
          /\ tab' = [tab EXCEPT ![t].queue = @ + 1]
          /\ UNCHANGED <<session, stored, calls, requests, ghosts>>
       \/ /\ ~tab[t].refreshing /\ stored.refresh # 0
          /\ Ask(t, "apollo")
          /\ tab' = [tab EXCEPT ![t].refreshing = TRUE]
          /\ UNCHANGED <<stored, late>>
       \/ /\ ~tab[t].refreshing /\ stored.refresh = 0
          /\ Reloaded(t)
          /\ UNCHANGED <<session, requests, overlap>>

(* HTTP 401, which is how the gateway (rbac_middleware.go) refuses an access token that
   has run out, is a network error to the link: the page is left without an exchange.  *)
Rejected(t) ==
    /\ tab[t].token # 0 /\ stored.refresh # 0
    /\ Reloaded(t)
    /\ UNCHANGED <<session, requests, overlap>>

(* The server takes a live token and makes another one for its owner.                *)
Take(c) ==
    /\ c.stage = "sent" /\ c.old \in live /\ Made # Tokens
    /\ Mint(owner[c.old])
    /\ live' = (live \ {c.old}) \cup {Fresh}
    /\ calls' = (calls \ {c}) \cup {[c EXCEPT !.stage = "taken", !.new = Fresh]}
    /\ UNCHANGED <<stored, tab, requests, ghosts>>
Refuse(c) ==
    /\ c.stage = "sent" /\ c.old \notin live
    /\ calls' = (calls \ {c}) \cup {[c EXCEPT !.stage = "refused"]}
    /\ UNCHANGED <<session, stored, tab, requests, ghosts>>
Revoke(i) ==
    /\ i \in live
    /\ live' = live \ {i}
    /\ clean' = FALSE
    /\ UNCHANGED <<owner, stored, tab, calls, requests, overlap, late>>

AnsweredKeepingToken(c) ==   \* (mutant) the new refresh token is not stored
    /\ c.stage = "taken"
    /\ tab' = IF c.by = "apollo"
                THEN [tab EXCEPT ![c.tab].refreshing = FALSE, ![c.tab].queue = 0]
                ELSE [tab EXCEPT ![c.tab].token = c.new, ![c.tab].armed = TRUE]
    /\ calls' = calls \ {c}
    /\ UNCHANGED <<session, stored, requests, ghosts>>
AnsweredForgettingQueue(c) ==   \* (mutant) resolvePendingRequests is not called
    /\ c.stage = "taken"
    /\ stored' = [stored EXCEPT !.refresh = c.new]
    /\ tab' = IF c.by = "apollo"
                THEN [tab EXCEPT ![c.tab].refreshing = FALSE]
                ELSE [tab EXCEPT ![c.tab].token = c.new, ![c.tab].armed = TRUE]
    /\ calls' = calls \ {c}
    /\ UNCHANGED <<session, requests, ghosts>>
(* A good answer is stored, whatever is stored by then; AuthProvider keeps the token as
   its state too and arms its timer, the error link lets the waiting operations go.    *)
Answered(c) ==
    /\ c.stage = "taken"
    /\ stored' = [stored EXCEPT !.refresh = c.new]
    /\ tab' = IF c.by = "apollo"
                THEN [tab EXCEPT ![c.tab].refreshing = FALSE, ![c.tab].queue = 0]
                ELSE [tab EXCEPT ![c.tab].token = c.new, ![c.tab].armed = TRUE]
    /\ calls' = calls \ {c}
    /\ UNCHANGED <<session, requests, ghosts>>

(* A failing exchange: the timer signs out, the error link leaves the page, the chat
   gives up its own credentials only.                                                *)
GivenUp(c) ==
    CASE c.by = "timer"  -> /\ LeaveAs(c.tab, Out(c.tab), calls \ {c})
                            /\ calls' = calls \ {c}
                            /\ clean' = (clean /\ c.stage = "refused")
      [] c.by = "apollo" -> /\ LeaveAs(c.tab, Idle, {d \in calls : d.tab # c.tab})
                            /\ calls' = {d \in calls : d.tab # c.tab}
                            /\ clean' = (clean /\ c.stage = "refused" /\ \A d \in calls : d.tab = c.tab => d = c)
      [] OTHER           -> /\ calls' = calls \ {c}
                            /\ clean' = (clean /\ c.stage = "refused")
                            /\ UNCHANGED <<stored, tab, late>>
Refused(c) == c.stage = "refused" /\ GivenUp(c) /\ UNCHANGED <<session, requests, overlap>>
Lost(c)    == c.stage # "refused" /\ GivenUp(c) /\ UNCHANGED <<session, requests, overlap>>

--------------------------------------------------------------------------------
Next ==
    \/ \E t \in Tabs : \/ Open(t) \/ Logout(t) \/ Close(t) \/ \E u \in Users : Login(t, u)
                       \/ TimerFires(t) \/ ChatRejected(t) \/ Unauthenticated(t) \/ Rejected(t)
    \/ \E c \in calls : Take(c) \/ Refuse(c) \/ Answered(c) \/ Refused(c) \/ Lost(c)
    \/ \E i \in Tokens : Revoke(i)

(* Every fetch settles: it is answered, or the browser gives it up.                 *)
Settles(t) == \E c \in calls : c.tab = t /\ (Answered(c) \/ Refused(c) \/ Lost(c))
Spec == Init /\ [][Next]_vars /\ \A t \in Tabs : WF_vars(Settles(t))

--------------------------------------------------------------------------------
(* With nothing under way the stored token is one the server takes, and it is the stored
   user's, however many tabs and parts exchanged it side by side; the user may be
   another one only after a sign-in or -out while a token was being exchanged.      *)
StoredTokenIsGood ==
    calls = {} /\ clean /\ stored.refresh # 0 =>
        /\ stored.refresh \in live
        /\ ~late => owner[stored.refresh] = stored.user

(* Nobody is signed out without a cause: the token was revoked or an answer lost, two
   exchanges of one token overlapped, the gateway answered 401, or the user signed out,
   here or in another tab.                                                          *)
SignedOutForCause ==
    [][stored.refresh # 0 /\ stored'.refresh = 0 =>
          ~clean \/ overlap \/ (\E c \in calls : Lost(c)) \/ \E t \in Tabs : Logout(t) \/ Rejected(t)]_vars

(* An operation that waits for an exchange does not wait for ever.                   *)
QueuedOperationsEnd == \A t \in Tabs : tab[t].queue > 0 ~> tab[t].queue = 0
================================================================================
