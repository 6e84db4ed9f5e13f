----------------------------- MODULE WebApp_proofs ----------------------------
(***************************************************************************)
(* Theorems about the customer application: WebSession, for any tabs,      *)
(* users, tokens and exchanges, then WebChat, for any conversations,       *)
(* messages and readings.  The two share nothing.                          *)
(*                                                                         *)
(* Session.  While an exchange is under way the stored token may be one    *)
(* the server has taken already: then the answer that replaces it is on    *)
(* its way (StoredIsReplaceable), and nobody else can have used the token  *)
(* in that answer, because it was never stored (NewIsUnused).  Without     *)
(* overlap no exchange is refused (LoneExchangesSucceed).                  *)
(*                                                                         *)
(* Chat.  Whatever a line on screen lacks is under way: a pending line has *)
(* its POST under way (LineInv); a line without files has its POST, or the *)
(* fetch that asks for them, under way, or it was read before they were    *)
(* linked (FilesInv), for the gateway sends the event of a message only    *)
(* after its files are linked or the linking failed (GateInv).  Whatever   *)
(* the view lacks is under way too, as an event, in the gateway or as the  *)
(* answer of the only fetch (ViewInv).  The rest says that what is under   *)
(* way was composed, posted and stored once.                               *)
(***************************************************************************)
EXTENDS WebSession, WebChat, TLAPS

(***************************************************************************)
(* The session.                                                            *)
(***************************************************************************)
CallType == [tab : Tabs, by : Askers, n : Nat, old : Tokens, stage : {"sent", "taken", "refused"},
             new : Tokens \cup {0}]
Taken(c) == c.stage = "taken"

TypeInv ==
    /\ owner \in [Tokens -> Users \cup {None}]
    /\ live \subseteq Made
    /\ stored \in [user : Users \cup {None}, refresh : Tokens \cup {0}]
    /\ stored.refresh # 0 => stored.refresh \in Made
    /\ calls \subseteq CallType /\ requests \in Nat
    /\ \A c \in calls : c.old \in Made /\ (Taken(c) => c.new \in Made)

\* A token in an answer under way is in no other answer, not stored and presented
\* by nobody.
NewIsUnused ==
    \A c \in calls : Taken(c) =>
        /\ c.new # stored.refresh
        /\ \A d \in calls : c.new # d.old /\ (Taken(d) /\ c.new = d.new => c = d)
NewIsLive == clean => \A c \in calls : Taken(c) => c.new \in live

\* What is stored is good, or the answer that replaces it is under way.
StoredIsReplaceable ==
    clean /\ stored.refresh # 0 => stored.refresh \in live \/ \E c \in calls : Taken(c) /\ c.old = stored.refresh

\* Tokens of one user only are under way, unless somebody came or went.
OneIdentity ==
    ~late => /\ stored.refresh # 0 => owner[stored.refresh] = stored.user
             /\ \A c \in calls : owner[c.old] = stored.user /\ (Taken(c) => owner[c.new] = stored.user)

\* Exchanges of different tokens do not disturb each other.
LoneExchangesSucceed ==
    ~overlap => /\ \A c, d \in calls : c.old = d.old => c = d
                /\ clean => \A c \in calls : c.stage # "refused" /\ (c.stage = "sent" => c.old \in live)

IInv == TypeInv /\ NewIsUnused /\ NewIsLive /\ StoredIsReplaceable /\ OneIdentity /\ LoneExchangesSucceed

(***************************************************************************)
(* Helpers.                                                                *)
(***************************************************************************)
LEMMA FreshIsNew ==
    ASSUME TypeInv, Made # Tokens
    PROVE  Fresh \in Tokens /\ Fresh \notin Made /\ Fresh # 0
  <1>1. \E i \in Tokens : i \notin Made
    BY DEF Made
  <1>2. Fresh \in Tokens /\ Fresh \notin Made
    BY <1>1 DEF Fresh
  <1> QED
    BY <1>2, WebSessionAssumption DEF Tokens

\* A new token for the user u leaves the others alone.
LEMMA MintTypes ==
    ASSUME TypeInv, Made # Tokens, NEW u \in Users, Mint(u)
    PROVE  /\ owner' \in [Tokens -> Users \cup {None}] /\ Made' = Made \cup {Fresh}
           /\ owner'[Fresh] = u /\ \A i \in Made : owner'[i] = owner[i]
  <1>1. Fresh \in Tokens /\ Fresh \notin Made
    BY FreshIsNew
  <1>2. u # None
    BY WebSessionAssumption
  <1>3. owner \in [Tokens -> Users \cup {None}]
    BY DEF TypeInv
  <1>4. /\ owner' \in [Tokens -> Users \cup {None}] /\ owner'[Fresh] = u
        /\ \A i \in Tokens \ {Fresh} : owner'[i] = owner[i]
    BY <1>1, <1>3 DEF Mint
  <1> QED
    BY <1>1, <1>2, <1>4 DEF Made

LEMMA OwnersAreUsers ==
    ASSUME TypeInv, NEW i \in Made
    PROVE  i \in Tokens /\ owner[i] \in Users
  BY DEF TypeInv, Made

(***************************************************************************)
(* The steps, each seen as what it does to the store and the exchanges.    *)
(***************************************************************************)
\* Nothing that the invariant is about changes but that exchanges end; while all
\* goes well none ends that the server took.
LEMMA FewerCalls ==
    ASSUME IInv, UNCHANGED <<owner, live, stored, requests>>, calls' \subseteq calls,
           clean' => clean, late' = late, overlap' = overlap,
           clean' => \A c \in calls \ calls' : c.stage = "refused"
    PROVE  IInv'
  <1>1. TypeInv'
    BY DEF IInv, TypeInv, Made
  <1>2. NewIsUnused' /\ NewIsLive' /\ OneIdentity' /\ LoneExchangesSucceed'
    BY DEF IInv, NewIsUnused, NewIsLive, OneIdentity, LoneExchangesSucceed
  <1>3. StoredIsReplaceable'
    <2> SUFFICES ASSUME clean', stored.refresh # 0, stored.refresh \notin live
                 PROVE  \E c \in calls' : Taken(c) /\ c.old = stored.refresh
      BY DEF StoredIsReplaceable
    <2>1. PICK c \in calls : Taken(c) /\ c.old = stored.refresh
      BY DEF IInv, StoredIsReplaceable
    <2>2. c \in calls'
      BY <2>1 DEF Taken
    <2> QED
      BY <2>1, <2>2
  <1> QED
    BY <1>1, <1>2, <1>3 DEF IInv

\* Somebody leaves: nothing is stored any more.
LEMMA LeftBehind ==
    ASSUME IInv, UNCHANGED <<owner, live, requests>>, stored' = Nobody, calls' \subseteq calls,
           clean' => clean, overlap' = overlap, ~late' => calls' = {}
    PROVE  IInv'
  <1>1. stored' \in [user : Users \cup {None}, refresh : Tokens \cup {0}] /\ stored'.refresh = 0
    BY DEF Nobody
  <1>2. TypeInv'
    BY <1>1 DEF IInv, TypeInv, Made
  <1>3. NewIsUnused'
    <2>1. ASSUME NEW c \in calls, Taken(c) PROVE c.new # 0
      BY <2>1, OwnersAreUsers, WebSessionAssumption DEF IInv, TypeInv, Tokens
    <2> QED
      BY <1>1, <2>1 DEF IInv, NewIsUnused
  <1>4. NewIsLive' /\ StoredIsReplaceable' /\ OneIdentity' /\ LoneExchangesSucceed'
    BY <1>1 DEF IInv, NewIsLive, StoredIsReplaceable, OneIdentity, LoneExchangesSucceed
  <1> QED
    BY <1>2, <1>3, <1>4 DEF IInv

LEMMA LoginStep ==
    ASSUME IInv, NEW t \in Tabs, NEW u \in Users, Login(t, u)
    PROVE  IInv'
  <1>f. Fresh \in Tokens /\ Fresh \notin Made /\ Fresh # 0 /\ TypeInv
    BY FreshIsNew DEF Login, IInv
  <1>m. /\ owner' \in [Tokens -> Users \cup {None}] /\ Made' = Made \cup {Fresh}
        /\ owner'[Fresh] = u /\ \A i \in Made : owner'[i] = owner[i]
    BY <1>f, MintTypes DEF Login
  <1>1. /\ live' = live \cup {Fresh} /\ stored' = [user |-> u, refresh |-> Fresh]
        /\ UNCHANGED <<calls, requests, clean, overlap>>
        /\ (~late' => calls = {})
    BY DEF Login
  <1>2. stored'.refresh = Fresh /\ stored'.user = u
    BY <1>1
  <1>3. TypeInv'
    BY <1>f, <1>m, <1>1, <1>2 DEF TypeInv
  <1>4. NewIsUnused' /\ NewIsLive'
    BY <1>f, <1>1, <1>2 DEF IInv, TypeInv, NewIsUnused, NewIsLive
  <1>5. StoredIsReplaceable' /\ OneIdentity' /\ LoneExchangesSucceed'
    BY <1>m, <1>1, <1>2 DEF IInv, StoredIsReplaceable, OneIdentity, LoneExchangesSucceed
  <1> QED
    BY <1>3, <1>4, <1>5 DEF IInv

LEMMA AskStep ==
    ASSUME IInv, NEW t \in Tabs, NEW by \in Askers, stored.refresh # 0, Ask(t, by), UNCHANGED <<stored, late>>
    PROVE  IInv'
  <1> DEFINE new == [tab |-> t, by |-> by, n |-> requests, old |-> stored.refresh, stage |-> "sent", new |-> 0]
  <1>1. /\ calls' = calls \cup {new} /\ UNCHANGED <<owner, live, clean, stored, late>> /\ requests' = requests + 1
        /\ ~overlap' => ~overlap /\ \A c \in calls : c.old # stored.refresh
    BY DEF Ask, session
  <1>2. new.stage = "sent" /\ new.old = stored.refresh /\ ~Taken(new)
    BY DEF Taken
  <1>3. new \in CallType /\ stored.refresh \in Made
    BY DEF IInv, TypeInv, CallType
  <1> HIDE DEF new
  <1>4. TypeInv'
    BY <1>1, <1>2, <1>3 DEF IInv, TypeInv, Made
  <1>5. NewIsUnused' /\ NewIsLive' /\ StoredIsReplaceable'
    BY <1>1, <1>2 DEF IInv, NewIsUnused, NewIsLive, StoredIsReplaceable
  <1>6. OneIdentity'
    BY <1>1, <1>2 DEF IInv, OneIdentity
  <1>7. LoneExchangesSucceed'
    <2> SUFFICES ASSUME ~overlap' PROVE LoneExchangesSucceed'
      BY DEF LoneExchangesSucceed
    <2>1. \A c, d \in calls' : c.old = d.old => c = d
      BY <1>1, <1>2 DEF IInv, LoneExchangesSucceed
    <2>2. clean => stored.refresh \in live
      BY <1>1 DEF IInv, StoredIsReplaceable
    <2>3. clean => \A c \in calls' : c.stage # "refused" /\ (c.stage = "sent" => c.old \in live)
      BY <1>1, <1>2, <2>2 DEF IInv, LoneExchangesSucceed
    <2> QED
      BY <1>1, <2>1, <2>3 DEF LoneExchangesSucceed
  <1> QED
    BY <1>4, <1>5, <1>6, <1>7 DEF IInv

LEMMA TakeStep ==
    ASSUME IInv, NEW c \in calls, Take(c)
    PROVE  IInv'
  <1> DEFINE new == [c EXCEPT !.stage = "taken", !.new = Fresh]
  <1>c. c \in CallType /\ c.old \in Made /\ TypeInv /\ c.stage = "sent" /\ c.old \in live /\ ~Taken(c)
    BY DEF IInv, TypeInv, Take, Taken
  <1>f. Fresh \in Tokens /\ Fresh \notin Made /\ Fresh # 0 /\ owner[c.old] \in Users
    BY <1>c, FreshIsNew, OwnersAreUsers DEF Take
  <1>m. /\ owner' \in [Tokens -> Users \cup {None}] /\ Made' = Made \cup {Fresh}
        /\ owner'[Fresh] = owner[c.old] /\ \A i \in Made : owner'[i] = owner[i]
    BY <1>c, <1>f, MintTypes DEF Take
  <1>n. /\ new \in CallType /\ Taken(new) /\ new.stage = "taken" /\ new.old = c.old /\ new.new = Fresh
    BY <1>c, <1>f DEF CallType, Taken
  <1>1. /\ calls' = (calls \ {c}) \cup {new} /\ live' = (live \ {c.old}) \cup {Fresh}
        /\ UNCHANGED <<stored, requests, clean, overlap, late>>
    BY DEF Take, ghosts
  <1> HIDE DEF new
  <1>2. TypeInv'
    BY <1>c, <1>f, <1>m, <1>n, <1>1 DEF TypeInv
  <1>3. \A d \in calls : d.old # Fresh /\ (Taken(d) => d.new # Fresh /\ d.new # c.old)
    BY <1>f DEF IInv, TypeInv, NewIsUnused
  <1>4. stored.refresh # Fresh
    BY <1>f DEF IInv, TypeInv
  <1>5. NewIsUnused'
    BY <1>n, <1>1, <1>3, <1>4 DEF IInv, NewIsUnused
  <1>6. NewIsLive'
    BY <1>n, <1>1, <1>3 DEF IInv, NewIsLive
  <1>7. StoredIsReplaceable'
    <2> SUFFICES ASSUME clean, stored.refresh # 0, stored.refresh \notin live'
                 PROVE  \E d \in calls' : Taken(d) /\ d.old = stored.refresh
      BY <1>1 DEF StoredIsReplaceable
    <2>1. CASE stored.refresh = c.old
      BY <2>1, <1>n, <1>1
    <2>2. CASE stored.refresh # c.old
      <3>1. PICK d \in calls : Taken(d) /\ d.old = stored.refresh
        BY <2>2, <1>1 DEF IInv, StoredIsReplaceable
      <3>2. d \in calls'
        BY <3>1, <1>c, <1>1
      <3> QED
        BY <3>1, <3>2
    <2> QED
      BY <2>1, <2>2
  <1>8. OneIdentity'
    <2> SUFFICES ASSUME ~late PROVE OneIdentity'
      BY <1>1 DEF OneIdentity
    <2>1. stored.refresh # 0 => stored.refresh \in Made
      BY <1>c DEF TypeInv
    <2>2. stored.refresh # 0 => owner'[stored.refresh] = stored.user
      BY <2>1, <1>m DEF IInv, OneIdentity
    <2>3. ASSUME NEW d \in calls PROVE owner'[d.old] = stored.user /\ (Taken(d) => owner'[d.new] = stored.user)
      BY <1>c, <1>m DEF IInv, OneIdentity, TypeInv
    <2>4. owner'[new.old] = stored.user /\ owner'[new.new] = stored.user
      BY <2>3, <1>n, <1>m DEF IInv, OneIdentity
    <2> QED
      BY <2>2, <2>3, <2>4, <1>1 DEF OneIdentity
  <1>9. LoneExchangesSucceed'
    <2> SUFFICES ASSUME ~overlap PROVE LoneExchangesSucceed'
      BY <1>1 DEF LoneExchangesSucceed
    <2>1. \A d \in calls \ {c} : d.old # c.old
      BY DEF IInv, LoneExchangesSucceed
    <2>2. \A d, e \in calls' : d.old = e.old => d = e
      BY <2>1, <1>n, <1>1 DEF IInv, LoneExchangesSucceed
    <2>3. clean => \A d \in calls' : d.stage # "refused" /\ (d.stage = "sent" => d.old \in live')
      BY <2>1, <1>n, <1>1 DEF IInv, LoneExchangesSucceed
    <2> QED
      BY <2>2, <2>3, <1>1 DEF LoneExchangesSucceed
  <1> QED
    BY <1>2, <1>5, <1>6, <1>7, <1>8, <1>9 DEF IInv

LEMMA RefuseStep ==
    ASSUME IInv, NEW c \in calls, Refuse(c)
    PROVE  IInv'
  <1> DEFINE new == [c EXCEPT !.stage = "refused"]
  <1>c. c \in CallType /\ c.stage = "sent" /\ c.old \notin live /\ ~Taken(c)
    BY DEF IInv, TypeInv, Refuse, Taken
  <1>n. new \in CallType /\ ~Taken(new) /\ new.old = c.old
    BY <1>c DEF CallType, Taken
  <1>1. calls' = (calls \ {c}) \cup {new} /\ UNCHANGED <<owner, live, stored, requests, clean, overlap, late>>
    BY DEF Refuse, session, ghosts
  <1> HIDE DEF new
  <1>2. TypeInv'
    BY <1>n, <1>1 DEF IInv, TypeInv, Made
  <1>3. NewIsUnused' /\ NewIsLive' /\ OneIdentity'
    BY <1>n, <1>1 DEF IInv, NewIsUnused, NewIsLive, OneIdentity
  <1>4. StoredIsReplaceable'
    BY <1>c, <1>n, <1>1 DEF IInv, StoredIsReplaceable
  <1>5. LoneExchangesSucceed'
    BY <1>c, <1>n, <1>1 DEF IInv, LoneExchangesSucceed
  <1> QED
    BY <1>2, <1>3, <1>4, <1>5 DEF IInv

LEMMA AnsweredStep ==
    ASSUME IInv, NEW c \in calls, Answered(c)
    PROVE  IInv'
  <1>c. c \in CallType /\ Taken(c) /\ c.new \in Made /\ c.new \in Tokens
    BY OwnersAreUsers DEF IInv, TypeInv, Answered, Taken
  <1>1. /\ stored' = [stored EXCEPT !.refresh = c.new] /\ calls' = calls \ {c}
        /\ UNCHANGED <<owner, live, requests, clean, overlap, late>>
    BY DEF Answered, session, ghosts
  <1>2. /\ stored'.refresh = c.new /\ stored'.user = stored.user
        /\ stored' \in [user : Users \cup {None}, refresh : Tokens \cup {0}]
    BY <1>c, <1>1 DEF IInv, TypeInv
  <1>3. TypeInv'
    BY <1>c, <1>1, <1>2 DEF IInv, TypeInv, Made
  <1>4. NewIsUnused' /\ NewIsLive'
    BY <1>c, <1>1, <1>2 DEF IInv, NewIsUnused, NewIsLive
  <1>5. StoredIsReplaceable'
    BY <1>c, <1>1, <1>2 DEF IInv, NewIsLive, StoredIsReplaceable
  <1>6. OneIdentity' /\ LoneExchangesSucceed'
    BY <1>c, <1>1, <1>2 DEF IInv, OneIdentity, LoneExchangesSucceed
  <1> QED
    BY <1>3, <1>4, <1>5, <1>6 DEF IInv

\* A failing exchange: the page is left, or only the exchange ends.
LEMMA GivenUpStep ==
    ASSUME IInv, NEW c \in calls, GivenUp(c), UNCHANGED <<session, requests, overlap>>
    PROVE  IInv'
  <1>1. UNCHANGED <<owner, live, requests, overlap>>
    BY DEF session
  <1>2. CASE c.by = "timer"
    BY <1>1, <1>2, LeftBehind DEF GivenUp, LeaveAs
  <1>3. CASE c.by = "apollo"
    <2>1. calls' \subseteq calls /\ (clean' => clean) /\ stored' = Nobody /\ (~late' => calls' = {})
      BY <1>3 DEF GivenUp, LeaveAs
    <2> QED
      BY <1>1, <2>1, LeftBehind
  <1>4. CASE c.by \notin {"timer", "apollo"}
    <2>1. calls' = calls \ {c} /\ clean' = (clean /\ c.stage = "refused") /\ UNCHANGED <<stored, late>>
      BY <1>4 DEF GivenUp
    <2> QED
      BY <1>1, <2>1, FewerCalls
  <1> QED
    BY <1>2, <1>3, <1>4

LEMMA TabStep ==
    ASSUME IInv, NEW t \in Tabs,
           Open(t) \/ Logout(t) \/ Close(t) \/ TimerFires(t) \/ ChatRejected(t) \/ Unauthenticated(t) \/ Rejected(t)
    PROVE  IInv'
  <1>1. CASE Open(t)
    BY <1>1, FewerCalls DEF Open, session, ghosts
  <1>2. CASE Logout(t)
    BY <1>2, LeftBehind DEF Logout, LeaveAs, session
  <1>3. CASE Close(t)
    <2>1. /\ UNCHANGED <<owner, live, stored, requests, overlap, late>> /\ calls' \subseteq calls /\ (clean' => clean)
          /\ clean' => calls' = calls
      BY <1>3 DEF Close, session
    <2> QED
      BY <2>1, FewerCalls
  <1>4. CASE TimerFires(t)
    BY <1>4, AskStep, LeftBehind DEF TimerFires, LeaveAs, session, Askers
  <1>5. CASE ChatRejected(t)
    BY <1>5, AskStep DEF ChatRejected, Askers
  <1>6. ASSUME Reloaded(t), UNCHANGED <<session, requests, overlap>> PROVE IInv'
    <2>1. /\ calls' \subseteq calls /\ (clean' => clean) /\ stored' = Nobody /\ (~late' => calls' = {})
          /\ UNCHANGED <<owner, live, requests, overlap>>
      BY <1>6 DEF Reloaded, LeaveAs, session
    <2> QED
      BY <2>1, LeftBehind
  <1>7. CASE Unauthenticated(t)
    <2>1. CASE UNCHANGED <<session, stored, calls, requests, ghosts>>
      BY <2>1, FewerCalls DEF session, ghosts
    <2>2. CASE stored.refresh # 0 /\ Ask(t, "apollo") /\ UNCHANGED <<stored, late>>
      BY <2>2, AskStep DEF Askers
    <2> QED
      BY <1>6, <1>7, <2>1, <2>2 DEF Unauthenticated
  <1>8. CASE Rejected(t)
    BY <1>6, <1>8 DEF Rejected
  <1> QED
    BY <1>1, <1>2, <1>3, <1>4, <1>5, <1>7, <1>8

LEMMA RevokeStep ==
    ASSUME IInv, NEW i \in Tokens, Revoke(i)
    PROVE  IInv'
  <1>1. live' = live \ {i} /\ ~clean' /\ UNCHANGED <<owner, stored, calls, requests, overlap, late>>
    BY DEF Revoke
  <1>2. TypeInv'
    BY <1>1 DEF IInv, TypeInv, Made
  <1> QED
    BY <1>1, <1>2 DEF IInv, NewIsUnused, NewIsLive, StoredIsReplaceable, OneIdentity, LoneExchangesSucceed

LEMMA Step == IInv /\ [Next]_vars => IInv'
  <1> SUFFICES ASSUME IInv, [Next]_vars PROVE IInv'
    OBVIOUS
  <1>1. ASSUME NEW c \in calls, Take(c) \/ Refuse(c) \/ Answered(c) \/ Refused(c) \/ Lost(c) PROVE IInv'
    BY <1>1, TakeStep, RefuseStep, AnsweredStep, GivenUpStep DEF Refused, Lost
  <1>2. CASE UNCHANGED vars
    BY <1>2, FewerCalls DEF vars, session, ghosts
  <1> QED
    BY <1>1, <1>2, TabStep, LoginStep, RevokeStep DEF Next

LEMMA InitHolds == Init => IInv
  <1> SUFFICES ASSUME Init PROVE IInv
    OBVIOUS
  <1>1. stored \in [user : Users \cup {None}, refresh : Tokens \cup {0}] /\ stored.refresh = 0
    BY DEF Init, Nobody
  <1>2. TypeInv
    BY <1>1 DEF Init, TypeInv
  <1> QED
    BY <1>1, <1>2 DEF Init, IInv, NewIsUnused, NewIsLive, StoredIsReplaceable, OneIdentity, LoneExchangesSucceed

LEMMA Invariance == Spec => []IInv
  <1>1. Spec => Init /\ [][Next]_vars
    BY PTL DEF Spec
  <1>2. Init => IInv
    BY InitHolds
  <1>3. IInv /\ [Next]_vars => IInv'
    BY Step
  <1> QED
    BY <1>1, <1>2, <1>3, PTL

\* With nothing under way the stored token is one the server takes, and the stored
\* user's, however many tabs and parts exchanged it side by side.
THEOREM StoredIsGood == Spec => []StoredTokenIsGood
  <1>1. IInv => StoredTokenIsGood
    BY DEF IInv, StoredIsReplaceable, OneIdentity, StoredTokenIsGood
  <1> QED
    BY <1>1, Invariance, PTL

\* Nobody is signed out without a cause.
THEOREM SignedOutForACause == Spec => SignedOutForCause
  <1> DEFINE Cause == ~clean \/ overlap \/ (\E c \in calls : Lost(c)) \/ \E t \in Tabs : Logout(t) \/ Rejected(t)
             Out0  == stored.refresh # 0 /\ stored'.refresh = 0
  <1>1. IInv /\ [Next]_vars => [Out0 => Cause]_vars
    <2> SUFFICES ASSUME IInv, Next, Out0, ~Cause PROVE FALSE
      OBVIOUS
    <2>1. \A c \in calls : ~Refused(c) /\ ~Lost(c)
      BY DEF IInv, LoneExchangesSucceed, Refused
    <2>2. \A t \in Tabs : ~Logout(t) /\ ~Rejected(t)
      OBVIOUS
    <2>3. ASSUME NEW c \in calls, Take(c) \/ Refuse(c) \/ Answered(c) PROVE FALSE
      <3>1. ~Answered(c)
        <4>1. Answered(c) => stored'.refresh = c.new /\ c.stage = "taken"
          BY DEF Answered, IInv, TypeInv
        <4>2. c.stage = "taken" => c.new \in Tokens
          BY OwnersAreUsers DEF IInv, TypeInv, Taken
        <4> QED
          BY <4>1, <4>2, WebSessionAssumption DEF Tokens
      <3> QED
        BY <2>3, <3>1 DEF Take, Refuse
    <2>4. ASSUME NEW t \in Tabs, NEW u \in Users, Login(t, u) PROVE FALSE
      BY <2>4, FreshIsNew DEF Login, IInv
    <2>5. ASSUME NEW t \in Tabs, Open(t) \/ Close(t) \/ TimerFires(t) \/ ChatRejected(t) \/ Unauthenticated(t) PROVE FALSE
      BY <2>5 DEF Open, Close, TimerFires, ChatRejected, Unauthenticated
    <2>6. ASSUME NEW i \in Tokens, Revoke(i) PROVE FALSE
      BY <2>6 DEF Revoke
    <2> QED
      BY <2>1, <2>2, <2>3, <2>4, <2>5, <2>6 DEF Next
  <1>2. Spec => [][Next]_vars
    BY PTL DEF Spec
  <1> QED
    BY <1>1, <1>2, Invariance, PTL DEF SignedOutForCause

(***************************************************************************)
(* The chat.                                                               *)
(***************************************************************************)
MadeType == [conv : Convs, by : {"peer", "me", "forward"}, kind : Kinds]
LineType == [id : Nat, status : {"pending", "sent", "delivered", "read"}, whole : BOOLEAN]
WireType == [type : {"chat_message", "message_read"}, id : Nat, conv : Convs]
LoadType == [n : Nat, conv : Convs, read : BOOLEAN, has : Seq(LineType), unread : BOOLEAN]
PostType == [id : Nat, stage : {"sent", "taken"}, echo : BOOLEAN]

ChatTypes ==
    /\ made \in Seq(MadeType) /\ log \in [Convs -> Seq(Nat)] /\ uses \in Nat
    /\ events \in Seq(WireType) /\ shown \in Seq(LineType)
    /\ active \in Convs \cup {NoConv} /\ known \in SUBSET Convs
    /\ loads \in SUBSET LoadType /\ posts \in SUBSET PostType
    /\ lossless \in BOOLEAN /\ hasty \in BOOLEAN

\* A conversation's list in the gateway has its own messages, each once.
LogInv ==
    \A c \in Convs :
        /\ \A k \in DOMAIN log[c] : log[c][k] \in Of(c)
        /\ \A j, k \in DOMAIN log[c] : log[c][j] = log[c][k] => j = k

\* Files are linked to what is stored, and its event is sent after them, unless
\* something was lost.
GateInv ==
    /\ linked \subseteq Logged /\ handled \subseteq Logged
    /\ lossless => \A i \in Logged : Whole(i) \/ i \in handled

\* Only what was composed is under way; an event is about what the gateway is done with.
Carried(e) == e.type = "chat_message" => e.id \in Logged /\ e.id \notin handled
WireInv ==
    /\ \A i \in wire : i \in Msgs /\ ~Mine(i)
    /\ finds \subseteq Msgs
    /\ \A k \in DOMAIN events : Carried(events[k])

\* A message is posted once, and stored by the time it is answered.
Posted(p) ==
    /\ p.id \in Msgs /\ Mine(p.id) /\ (p.echo => made[p.id].by = "me")
    /\ p.stage = "taken" <=> p.id \in Logged
PostInv == \A p \in posts : Posted(p) /\ \A q \in posts : p.id = q.id => p = q

\* What a fetch has read is stored in its conversation, each message once.
Fetched(l) ==
    l.read => /\ \A k \in DOMAIN l.has : /\ l.has[k].id \in Of(l.conv) \cap Logged
                                         /\ l.has[k].status \in {"sent", "read"}
                                         /\ ~l.has[k].whole => made[l.has[k].id].kind = "file"
              /\ \A j, k \in DOMAIN l.has : l.has[j].id = l.has[k].id => j = k
LoadInv == \A l \in loads : Fetched(l)

\* An own line that is pending was shown when its POST left, and waits for the answer,
\* unless something was lost or the message never reached the gateway.
Awaited(i) == \E p \in posts : p.id = i /\ p.echo
Waits(i) ==
    /\ made[i].by = "me" /\ \A p \in posts : p.id = i => p.echo
    /\ lossless /\ i \in Logged => Awaited(i)
Pending(l) == l.status = "pending"
Shows(l) ==
    /\ l.id \in Msgs
    /\ made[l.id].by = "me" /\ l.status \in {"sent", "delivered"} => l.id \in Logged
    /\ Mine(l.id) /\ Pending(l) => Waits(l.id)
LineInv == \A k \in DOMAIN shown : Shows(shown[k])

\* A line that lacks its files waits for the answer, or for the fetch that asks for
\* them, or was left so by a read that came before the files, unless something was lost.
Lacks(l) ==
    ~l.whole => /\ made[l.id].kind = "file"
                /\ ~lossless \/ l.id \in hydrates \cup early \/ Waits(l.id)
FilesInv == \A k \in DOMAIN shown : Lacks(shown[k])

\* While nothing interfered with the view: what is on screen, or will be by a fetch or
\* an answer, belongs to the conversation, and what is stored is there or will be.
Announced(i) == \E k \in DOMAIN events : events[k].type = "chat_message" /\ events[k].id = i
Brings(l, i) == ~l.read \/ \E k \in DOMAIN l.has : l.has[k].id = i
ViewInv ==
    ~hasty /\ active # NoConv =>
        /\ OnScreen \subseteq Of(active)
        /\ \A l \in loads : l.conv = active /\ shown = <<>> /\ \A m \in loads : m = l
        /\ \A p \in posts : made[p.id].by = "me" /\ ~p.echo => made[p.id].conv = active
        /\ lossless => \A i \in Of(active) \cap Logged :
                          i \in OnScreen \/ Announced(i) \/ i \in handled \/ \E l \in loads : Brings(l, i)

ChatInv ==
    ChatTypes /\ LogInv /\ GateInv /\ WireInv /\ PostInv /\ LoadInv /\ ShownOnce /\ LineInv /\ FilesInv /\ ViewInv

\* Sequences.
LEMMA AppendedTo ==
    ASSUME NEW S, NEW s \in Seq(S), NEW x \in S
    PROVE  /\ Append(s, x) \in Seq(S) /\ Len(Append(s, x)) = Len(s) + 1 /\ Len(s) \in Nat
           /\ Len(s) + 1 \in DOMAIN Append(s, x) /\ Append(s, x)[Len(s) + 1] = x
           /\ \A k \in DOMAIN s : k \in DOMAIN Append(s, x) /\ Append(s, x)[k] = s[k]
           /\ \A k \in DOMAIN Append(s, x) : k \in DOMAIN s \/ k = Len(s) + 1
           /\ Len(s) + 1 \notin DOMAIN s
  OBVIOUS

LEMMA TailOf ==
    ASSUME NEW S, NEW s \in Seq(S), s # <<>>
    PROVE  /\ Tail(s) \in Seq(S) /\ Head(s) = s[1] /\ 1 \in DOMAIN s
           /\ \A k \in DOMAIN Tail(s) : k + 1 \in DOMAIN s /\ Tail(s)[k] = s[k + 1]
           /\ \A k \in DOMAIN s : k = 1 \/ (k - 1 \in DOMAIN Tail(s) /\ Tail(s)[k - 1] = s[k])
  OBVIOUS

LEMMA MappedOver ==
    ASSUME NEW S, NEW s \in Seq(S), NEW f, f = [k \in DOMAIN s |-> f[k]], \A k \in DOMAIN s : f[k] \in S
    PROVE  f \in Seq(S) /\ DOMAIN f = DOMAIN s /\ Len(f) = Len(s)
  <1>1. Len(s) \in Nat /\ DOMAIN s = 1 .. Len(s)
    OBVIOUS
  <1>2. f \in [1 .. Len(s) -> S]
    BY <1>1
  <1>3. f \in Seq(S)
    BY <1>1, <1>2
  <1> QED
    BY <1>1, <1>2, <1>3

\* A line is edited in place.
Edited(t) ==
    /\ t \in Seq(LineType) /\ DOMAIN t = DOMAIN shown /\ Len(t) = Len(shown)
    /\ \A k \in DOMAIN shown : t[k].id = shown[k].id

LEMMA Edit ==
    ASSUME ChatTypes, NEW t, t = [k \in DOMAIN shown |-> t[k]],
           \A k \in DOMAIN shown : t[k] \in LineType /\ t[k].id = shown[k].id
    PROVE  Edited(t)
  BY MappedOver DEF ChatTypes, Edited

LEMMA LinesTyped ==
    ASSUME ChatTypes
    PROVE  \A k \in DOMAIN shown : shown[k] \in LineType
  BY DEF ChatTypes

LEMMA EditedLine ==
    ASSUME NEW l \in LineType, NEW s \in {"pending", "sent", "delivered", "read"}, NEW w \in BOOLEAN
    PROVE  /\ [l EXCEPT !.status = s] \in LineType /\ [l EXCEPT !.status = s].id = l.id
           /\ Line(l.id, s, w) \in LineType /\ Line(l.id, s, w).id = l.id
  BY DEF LineType, Line

LEMMA ReadMarks ==
    ASSUME ChatTypes, OnMessageRead, active = Head(events).conv
    PROVE  /\ Edited(shown')
           /\ \A k \in DOMAIN shown : shown'[k] = IF Mine(shown[k].id) THEN [shown[k] EXCEPT !.status = "read"] ELSE shown[k]
  <1>1. shown' = [k \in DOMAIN shown |-> IF Mine(shown[k].id) THEN [shown[k] EXCEPT !.status = "read"] ELSE shown[k]]
    BY DEF OnMessageRead, Revised
  <1> QED
    BY <1>1, LinesTyped, EditedLine, Edit

LEMMA Receipts ==
    ASSUME ChatTypes, NEW i, OnReceipt(i)
    PROVE  /\ Edited(shown')
           /\ \A k \in DOMAIN shown : shown'[k] = IF shown[k].id = i /\ shown[k].status = "sent"
                                                  THEN [shown[k] EXCEPT !.status = "delivered"] ELSE shown[k]
  <1>1. shown' = [k \in DOMAIN shown |-> IF shown[k].id = i /\ shown[k].status = "sent"
                                        THEN [shown[k] EXCEPT !.status = "delivered"] ELSE shown[k]]
    BY DEF OnReceipt, Revised
  <1> QED
    BY <1>1, LinesTyped, EditedLine, Edit

LEMMA Upgrades ==
    ASSUME ChatTypes, NEW i
    PROVE  /\ Edited(Upgraded(i))
           /\ \A k \in DOMAIN shown : Upgraded(i)[k] = IF shown[k].id = i /\ shown[k].status = "pending"
                                                       THEN [shown[k] EXCEPT !.status = "sent"] ELSE shown[k]
  <1> DEFINE t == Upgraded(i)
  <1>1. t = [k \in DOMAIN shown |-> IF shown[k].id = i /\ shown[k].status = "pending"
                                   THEN [shown[k] EXCEPT !.status = "sent"] ELSE shown[k]]
    BY DEF Revised, Upgraded
  <1> HIDE DEF t
  <1>2. Edited(t) /\ \A k \in DOMAIN shown : t[k] = IF shown[k].id = i /\ shown[k].status = "pending"
                                                  THEN [shown[k] EXCEPT !.status = "sent"] ELSE shown[k]
    BY <1>1, LinesTyped, EditedLine, Edit
  <1> QED
    BY <1>2 DEF t

\* What a line is replaced with.
LEMMA Replaced ==
    ASSUME ChatTypes, NEW i, NEW s \in {"sent", "read"}, NEW w \in BOOLEAN,
           NEW t, t = [k \in DOMAIN shown |-> t[k]],
           \A k \in DOMAIN shown : t[k] = IF shown[k].id = i THEN Line(i, s, w) ELSE shown[k]
    PROVE  Edited(t)
  <1>1. ASSUME NEW k \in DOMAIN shown, shown[k].id = i
        PROVE  Line(i, s, w) \in LineType /\ Line(i, s, w).id = i
    BY <1>1, LinesTyped, EditedLine
  <1> QED
    BY <1>1, LinesTyped, Edit

LEMMA FilesFetched ==
    ASSUME ChatTypes, NEW i, Hydrate(i), i \in Logged
    PROVE  /\ Edited(shown') /\ Status(i) \in {"sent", "read"}
           /\ \A k \in DOMAIN shown : shown'[k] = IF shown[k].id = i THEN Line(i, Status(i), Whole(i)) ELSE shown[k]
  <1>1. shown' = [k \in DOMAIN shown |-> IF shown[k].id = i THEN Line(i, Status(i), Whole(i)) ELSE shown[k]]
    BY DEF Hydrate, Revised
  <1>2. Status(i) \in {"sent", "read"}
    BY DEF Status
  <1>3. Whole(i) \in BOOLEAN
    BY DEF Whole
  <1> QED
    BY <1>1, <1>2, <1>3, Replaced

LEMMA FilesConfirmed ==
    ASSUME ChatTypes, NEW i, made[i].kind = "file"
    PROVE  /\ Edited(Confirmed(i))
           /\ \A k \in DOMAIN shown : Confirmed(i)[k] = IF shown[k].id = i THEN Line(i, "sent", Whole(i)) ELSE shown[k]
  <1> DEFINE t == Confirmed(i)
  <1>1. t = [k \in DOMAIN shown |-> IF shown[k].id = i THEN Line(i, "sent", Whole(i)) ELSE shown[k]]
    BY DEF Confirmed, Revised
  <1> HIDE DEF t
  <1>2. Edited(t)
    <2>1. Whole(i) \in BOOLEAN
      BY DEF Whole
    <2> QED
      BY <1>1, <2>1, Replaced
  <1> QED
    BY <1>1, <1>2 DEF t

(***************************************************************************)
(* What is composed and stored only grows.                                 *)
(***************************************************************************)
Grows ==
    /\ Msgs \subseteq Msgs' /\ \A i \in Msgs : made'[i] = made[i]
    /\ Logged \subseteq Logged' /\ LogInv'

LEMMA ListsStored ==
    ASSUME LogInv
    PROVE  \A c \in Convs : \A k \in DOMAIN log[c] : log[c][k] \in Of(c) \cap Logged
  BY DEF LogInv, Of, Logged

LEMMA Composed ==
    ASSUME ChatTypes, LogInv, NEW m \in MadeType, made' = Append(made, m), log' = log
    PROVE  /\ Len(made) + 1 \in Nat /\ Len(made) + 1 \notin Msgs /\ Len(made) + 1 \notin Logged
           /\ Msgs' = Msgs \cup {Len(made) + 1} /\ made'[Len(made) + 1] = m
           /\ made' \in Seq(MadeType)
           /\ Logged' = Logged /\ Grows
  <1> DEFINE n == Len(made) + 1
  <1>1. /\ made' \in Seq(MadeType) /\ Len(made') = n /\ n \in Nat /\ n \notin Msgs
        /\ Msgs' = Msgs \cup {n} /\ made'[n] = m /\ \A i \in Msgs : made'[i] = made[i]
    BY DEF ChatTypes, Msgs
  <1> HIDE DEF n
  <1>2. \A c \in Convs : \A k \in DOMAIN log[c] : log[c][k] # n
    BY <1>1 DEF LogInv, Of
  <1>3. m.conv \in Convs
    BY DEF MadeType
  <1>4. n \notin Logged'
    BY <1>1, <1>2, <1>3 DEF Logged
  <1>5. Logged' = Logged
    BY <1>1, <1>4 DEF Logged
  <1>6. \A c \in Convs : Of(c) \subseteq Of(c)'
    BY <1>1 DEF Of
  <1>7. LogInv'
    BY <1>6 DEF LogInv
  <1>8. n \notin Logged
    BY <1>1 DEF Logged
  <1> QED
    BY <1>1, <1>5, <1>7, <1>8 DEF n, Grows

LEMMA MadeTyped ==
    ASSUME ChatTypes
    PROVE  \A i \in Msgs : i \in Nat /\ made[i] \in MadeType /\ made[i].conv \in Convs
  <1>1. \A i \in Msgs : i \in Nat /\ made[i] \in MadeType
    BY DEF ChatTypes, Msgs
  <1>2. \A m \in MadeType : m.conv \in Convs
    BY DEF MadeType
  <1> QED
    BY <1>1, <1>2

LEMMA Stored ==
    ASSUME ChatTypes, LogInv, NEW i \in Msgs, i \notin Logged, made' = made,
           log' = [log EXCEPT ![made[i].conv] = Append(@, i)]
    PROVE  /\ Logged' = Logged \cup {i} /\ Msgs' = Msgs /\ log' \in [Convs -> Seq(Nat)] /\ Grows
  <1> DEFINE c == made[i].conv
  <1>1. c \in Convs /\ i \in Nat /\ log[c] \in Seq(Nat) /\ Msgs' = Msgs
    BY MadeTyped DEF ChatTypes, Msgs
  <1> HIDE DEF c
  <1>2. log'[c] = Append(log[c], i) /\ \A d \in Convs : d # c => log'[d] = log[d]
    BY <1>1 DEF ChatTypes, c
  <1>3. log' \in [Convs -> Seq(Nat)]
    <2>1. Append(log[c], i) \in Seq(Nat)
      BY <1>1
    <2>2. log' = [log EXCEPT ![c] = Append(log[c], i)]
      BY DEF c
    <2> QED
      BY <2>1, <2>2 DEF ChatTypes
  <1>4. /\ \A k \in DOMAIN log[c] : k \in DOMAIN log'[c] /\ log'[c][k] = log[c][k]
        /\ \A k \in DOMAIN log'[c] : k \in DOMAIN log[c] \/ k = Len(log[c]) + 1
        /\ Len(log[c]) + 1 \in DOMAIN log'[c] /\ log'[c][Len(log[c]) + 1] = i
    BY <1>1, <1>2, AppendedTo
  <1>5. Logged' = Logged \cup {i}
    <2>1. \A j \in Msgs : made[j].conv \in Convs
      BY MadeTyped
    <2>2. \A j \in Msgs \ {i} : j \in Logged <=> j \in Logged'
      BY <1>1, <1>2, <1>4, <2>1 DEF Logged
    <2>3. i \in Logged'
      BY <1>1, <1>4 DEF Logged, c
    <2> QED
      BY <1>1, <2>2, <2>3 DEF Logged
  <1>6. \A d \in Convs : Of(d)' = Of(d)
    BY <1>1 DEF Of
  <1>7. i \in Of(c)
    BY DEF Of, c
  <1>8. \A k \in DOMAIN log[c] : log[c][k] # i
    BY <1>1 DEF Logged, c
  <1>9. LogInv'
    <2> SUFFICES ASSUME NEW d \in Convs
                 PROVE  /\ \A k \in DOMAIN log'[d] : log'[d][k] \in Of(d)
                        /\ \A j, k \in DOMAIN log'[d] : log'[d][j] = log'[d][k] => j = k
      BY <1>6 DEF LogInv
    <2>1. CASE d # c
      BY <2>1, <1>2 DEF LogInv
    <2>2. CASE d = c
      BY <2>2, <1>1, <1>4, <1>7, <1>8 DEF LogInv
    <2> QED
      BY <2>1, <2>2
  <1> QED
    BY <1>1, <1>3, <1>5, <1>9 DEF Grows

LEMMA Kept ==
    ASSUME LogInv, made' = made, log' = log
    PROVE  Msgs' = Msgs /\ Logged' = Logged /\ Grows /\ \A c \in Convs : Of(c)' = Of(c)
  BY DEF Msgs, Logged, Grows, LogInv, Of

(***************************************************************************)
(* Types.                                                                  *)
(***************************************************************************)
LEMMA NewLine ==
    ASSUME NEW i \in Nat, NEW s \in {"pending", "sent", "delivered", "read"}, NEW w \in BOOLEAN
    PROVE  /\ Line(i, s, w) \in LineType /\ Line(i, s, w).id = i
           /\ Line(i, s, w).status = s /\ Line(i, s, w).whole = w
  BY DEF Line, LineType

LEMMA HistoryTyped ==
    ASSUME ChatTypes, NEW c \in Convs
    PROVE  /\ History(c) \in Seq(LineType) /\ DOMAIN History(c) = DOMAIN log[c]
           /\ \A k \in DOMAIN log[c] : /\ History(c)[k].id = log[c][k]
                                       /\ History(c)[k].whole <=> Whole(log[c][k])
                                       /\ History(c)[k].status \in {"sent", "read"}
  <1> DEFINE h == History(c)
  <1>1. log[c] \in Seq(Nat) /\ \A k \in DOMAIN log[c] : log[c][k] \in Nat
    BY DEF ChatTypes
  <1>2. \A i : Status(i) \in {"sent", "read"} /\ Whole(i) \in BOOLEAN
    BY DEF Status, Whole
  <1>3. h = [k \in DOMAIN log[c] |-> Line(log[c][k], Status(log[c][k]), Whole(log[c][k]))]
    BY DEF History
  <1> HIDE DEF h
  <1>4. ASSUME NEW k \in DOMAIN log[c]
        PROVE  /\ h[k] \in LineType /\ h[k].id = log[c][k] /\ (h[k].whole <=> Whole(log[c][k]))
               /\ h[k].status \in {"sent", "read"}
    <2>1. h[k] = Line(log[c][k], Status(log[c][k]), Whole(log[c][k])) /\ log[c][k] \in Nat
      BY <1>1, <1>3
    <2>2. ASSUME NEW i \in Nat, NEW s \in {"sent", "read"}, NEW w \in BOOLEAN
          PROVE  /\ Line(i, s, w) \in LineType /\ Line(i, s, w).id = i /\ Line(i, s, w).whole = w
                 /\ Line(i, s, w).status \in {"sent", "read"}
      BY NewLine
    <2> QED
      BY <2>1, <2>2, <1>2
  <1>5. h \in [DOMAIN log[c] -> LineType] /\ DOMAIN h = DOMAIN log[c]
    BY <1>3, <1>4
  <1>6. h \in Seq(LineType)
    <2>1. Len(log[c]) \in Nat /\ DOMAIN log[c] = 1 .. Len(log[c])
      BY <1>1
    <2> QED
      BY <2>1, <1>5
  <1> QED
    BY <1>4, <1>5, <1>6 DEF h

\* Whatever an answer makes of the lines.
LEMMA AnswerLines ==
    ASSUME ChatTypes, NEW i \in Msgs
    PROVE  /\ \A w \in BOOLEAN : Append(shown, Line(i, "sent", w)) \in Seq(LineType)
           /\ Whole(i) \in BOOLEAN /\ Confirmed(i) \in Seq(LineType)
  <1>1. i \in Nat /\ shown \in Seq(LineType)
    BY DEF ChatTypes, Msgs
  <1>2. \A w \in BOOLEAN : Append(shown, Line(i, "sent", w)) \in Seq(LineType)
    BY <1>1, NewLine, AppendedTo
  <1>3. Confirmed(i) \in Seq(LineType)
    BY Upgrades, FilesConfirmed DEF Confirmed, Edited
  <1>4. Whole(i) \in BOOLEAN
    BY DEF Whole
  <1> QED
    BY <1>2, <1>3, <1>4

LEMMA ShownTyped ==
    ASSUME ChatTypes, PostInv, LoadInv, WireInv, [ChatNext]_chatVars
    PROVE  shown' \in Seq(LineType)
  <1>t. /\ shown \in Seq(LineType) /\ \A i \in Msgs : i \in Nat
        /\ \A i : Status(i) \in {"sent", "read"}
    BY MadeTyped DEF ChatTypes, Status
  <1>a. \A i \in Nat, s \in {"pending", "sent"}, w \in BOOLEAN : Append(shown, Line(i, s, w)) \in Seq(LineType)
    BY <1>t, NewLine, AppendedTo
  <1>1. ASSUME NEW i \in Msgs, OnStanza(i) PROVE shown' \in Seq(LineType)
    BY <1>1, <1>t, <1>a DEF OnStanza, Arrives, Becomes
  <1>2. CASE OnChatMessage
    <2>1. Head(events) \in WireType
      BY <1>2 DEF OnChatMessage, ChatTypes
    <2>2. Head(events).id \in Nat
      BY <2>1 DEF WireType
    <2>3. Whole(Head(events).id) \in BOOLEAN
      BY DEF Whole
    <2> QED
      BY <1>2, <2>2, <2>3, <1>t, <1>a DEF OnChatMessage, Arrives, Becomes
  <1>3. CASE OnMessageRead
    BY <1>3, <1>t, ReadMarks DEF OnMessageRead, Edited
  <1>4. ASSUME NEW i \in Msgs, OnReceipt(i) PROVE shown' \in Seq(LineType)
    BY <1>4, Receipts DEF Edited
  <1>5. ASSUME NEW i \in Msgs, Hydrate(i) PROVE shown' \in Seq(LineType)
    BY <1>5, <1>t, FilesFetched DEF Hydrate, Edited
  <1>6. ASSUME NEW c \in Convs, Select(c) PROVE shown' \in Seq(LineType)
    BY <1>6 DEF Select, Becomes
  <1>7. CASE Back
    BY <1>7 DEF Back, Becomes
  <1>8. ASSUME NEW l \in loads, ApplyLoad(l) \/ FailLoad(l) PROVE shown' \in Seq(LineType)
    <2>1. l \in LoadType
      BY DEF ChatTypes
    <2>2. l.has \in Seq(LineType) /\ <<>> \in Seq(LineType)
      BY <2>1 DEF LoadType
    <2> QED
      BY <1>8, <2>2 DEF ApplyLoad, FailLoad, Loaded, Becomes
  <1>9. ASSUME NEW up \in BOOLEAN, NEW k \in Kinds, SendMessage(k, up) PROVE shown' \in Seq(LineType)
    <2>1. Len(made) + 1 \in Nat
      BY DEF ChatTypes
    <2>2. (k = "text") \in BOOLEAN
      OBVIOUS
    <2> QED
      BY <1>9, <2>1, <2>2, <1>t, <1>a DEF SendMessage, Becomes
  <1>10. ASSUME NEW p \in posts, PostAnswered(p) \/ PostFailed(p) \/ BodyLost(p) PROVE shown' \in Seq(LineType)
    <2>1. p.id \in Msgs
      BY DEF PostInv, Posted
    <2> QED
      BY <1>10, <2>1, <1>t, AnswerLines, Upgrades
      DEF PostAnswered, PostFailed, BodyLost, PostEnded, Forwarded, Becomes, Edited
  <1>11. \/ ~ChatNext
         \/ Others
         \/ \E i \in finds : Found(i)
         \/ \E l \in loads : ReadLoad(l)
         \/ \E p \in posts : PostTaken(p)
         \/ \E c \in Convs : CreateConversation(c)
         \/ \E up \in BOOLEAN, c \in Convs : ForwardMessage(c, up)
         => shown' = shown
    BY DEF chatVars, Others, PeerReads, PeerComposes, PeerPosted, LinkFiles, Publish, LoseEvent, Found, ReadLoad,
           PostTaken, CreateConversation, ForwardMessage, view, gateway
  <1> QED
    BY <1>1, <1>2, <1>3, <1>4, <1>5, <1>6, <1>7, <1>8, <1>9, <1>10, <1>11, <1>t DEF ChatNext, Arrivals, User

\* The variables keep their types; what is composed stays, what is stored stays stored.
LEMMA ChatTyped ==
    ASSUME ChatTypes, LogInv, GateInv, WireInv, PostInv, LoadInv, [ChatNext]_chatVars
    PROVE  ChatTypes' /\ Grows
  <1>s. shown' \in Seq(LineType)
    BY ShownTyped
  <1>t. /\ \A i \in Msgs : i \in Nat /\ made[i].conv \in Convs
        /\ Logged \subseteq Msgs /\ handled \subseteq Msgs
    BY MadeTyped DEF Logged, GateInv
  <1> DEFINE Rest ==
        /\ uses \in Nat /\ events \in Seq(WireType) /\ active \in Convs \cup {NoConv} /\ known \in SUBSET Convs
        /\ loads \in SUBSET LoadType /\ posts \in SUBSET PostType
        /\ lossless \in BOOLEAN /\ hasty \in BOOLEAN
  <1>r. Rest
    BY DEF ChatTypes
  <1>k. /\ made' = made /\ log' = log => made' \in Seq(MadeType) /\ log' \in [Convs -> Seq(Nat)] /\ Grows
        /\ \A m \in MadeType : made' = Append(made, m) /\ log' = log
               => made' \in Seq(MadeType) /\ log' \in [Convs -> Seq(Nat)] /\ Grows
        /\ \A i \in Msgs \ Logged : made' = made /\ Insert(i)
               => made' \in Seq(MadeType) /\ log' \in [Convs -> Seq(Nat)] /\ Grows
    BY Kept, Composed, Stored DEF ChatTypes, Insert
  <1> DEFINE Base == made' \in Seq(MadeType) /\ log' \in [Convs -> Seq(Nat)] /\ Grows
  <1>e. \A t \in {"chat_message", "message_read"}, i \in Nat, c \in Convs :
            Append(events, [type |-> t, id |-> i, conv |-> c]) \in Seq(WireType)
    BY <1>r DEF WireType
  <1>q. events # <<>> => Tail(events) \in Seq(WireType)
    BY <1>r
  <1>m. \A c \in Convs, b \in {"peer", "me", "forward"}, k \in Kinds : [conv |-> c, by |-> b, kind |-> k] \in MadeType
    BY DEF MadeType
  <1>p. \A i \in Nat, b \in BOOLEAN : [id |-> i, stage |-> "sent", echo |-> b] \in PostType
    BY DEF PostType
  <1>n. Len(made) + 1 \in Nat
    BY DEF ChatTypes
  <1> HIDE DEF Base, Rest
  <1>1. ASSUME NEW c \in Convs, NEW k \in Kinds, PeerComposes(c, k) PROVE Base /\ Rest'
    <2>1. Base
      BY <1>1, <1>k, <1>m DEF PeerComposes, Base, gateway
    <2> QED
      BY <1>1, <1>r, <2>1 DEF PeerComposes, Rest, view, asked, marks, gateway
  <1>2. ASSUME NEW i \in Msgs, PeerPosted(i) PROVE Base /\ Rest'
    <2>1. Base
      BY <1>2, <1>k DEF PeerPosted, Base
    <2> QED
      BY <1>2, <1>r, <1>t, <1>e, <2>1 DEF PeerPosted, Insert, Sent, Rest, view, asked, marks
  <1>3. ASSUME NEW c \in Convs, PeerReads(c) PROVE Base /\ Rest'
    BY <1>3, <1>r, <1>e, <1>k DEF PeerReads, Base, Rest, view, asked, marks, gateway
  <1>4. ASSUME LoseEvent PROVE Base /\ Rest'
    BY <1>4, <1>r, <1>q, <1>k DEF LoseEvent, Base, Rest, server, gateway, view, asked
  <1>5. ASSUME NEW i \in Msgs, OnStanza(i) PROVE Base /\ Rest'
    BY <1>5, <1>r, <1>k DEF OnStanza, Arrives, Becomes, Base, Rest, server, gateway
  <1>6. ASSUME OnChatMessage PROVE Base /\ Rest'
    BY <1>6, <1>r, <1>q, <1>k DEF OnChatMessage, Arrives, Becomes, Base, Rest, server, gateway
  <1>7. ASSUME OnMessageRead PROVE Base /\ Rest'
    BY <1>7, <1>r, <1>q, <1>k DEF OnMessageRead, Base, Rest, server, gateway, asked, marks
  <1>8. ASSUME NEW i \in Msgs, OnReceipt(i) PROVE Base /\ Rest'
    BY <1>8, <1>r, <1>k DEF OnReceipt, Base, Rest, server, gateway, links, asked, marks
  <1>9. ASSUME NEW i \in Msgs, Hydrate(i) PROVE Base /\ Rest'
    BY <1>9, <1>r, <1>k DEF Hydrate, Base, Rest, server, gateway, links
  <1>10. ASSUME NEW i \in finds, Found(i) PROVE Base /\ Rest'
    BY <1>10, <1>r, <1>t, <1>k DEF Found, WireInv, Base, Rest, server, gateway, links, marks
  <1>11. ASSUME NEW c \in Convs, Select(c) PROVE Base /\ Rest'
    <2> DEFINE l == [n |-> uses, conv |-> c, read |-> FALSE, has |-> <<>>, unread |-> unread[c] > 0]
    <2>1. l \in LoadType
      BY <1>r DEF Rest, LoadType
    <2>2. UnderWay \in BOOLEAN
      BY DEF UnderWay
    <2>3. loads' = loads \cup {l}
      BY <1>11 DEF Select
    <2> HIDE DEF l
    <2> QED
      BY <1>11, <1>r, <1>k, <2>1, <2>2, <2>3 DEF Select, Becomes, Base, Rest, server, gateway, links
  <1>12. ASSUME Back PROVE Base /\ Rest'
    <2>1. UnderWay \in BOOLEAN
      BY DEF UnderWay
    <2> QED
      BY <1>12, <1>r, <1>k, <2>1 DEF Back, Becomes, Base, Rest, server, gateway, links, asked
  <1>13. ASSUME NEW l \in loads, ReadLoad(l) PROVE Base /\ Rest'
    <2>1. l \in LoadType
      BY <1>r DEF Rest
    <2>2. l.conv \in Convs
      BY <2>1 DEF LoadType
    <2>3. [l EXCEPT !.read = TRUE, !.has = History(l.conv)] \in LoadType
      <3>1. History(l.conv) \in Seq(LineType)
        BY <2>2, HistoryTyped
      <3> QED
        BY <2>1, <3>1 DEF LoadType
    <2> QED
      BY <1>13, <1>r, <1>k, <2>3 DEF ReadLoad, Base, Rest, server, gateway, links, view, marks
  <1>14. ASSUME NEW l \in loads, ApplyLoad(l) \/ FailLoad(l) PROVE Base /\ Rest'
    BY <1>14, <1>r, <1>k DEF ApplyLoad, FailLoad, Loaded, Becomes, Base, Rest, server, gateway, links
  <1>15. ASSUME NEW c \in Convs, CreateConversation(c) PROVE Base /\ Rest'
    BY <1>15, <1>r, <1>k DEF CreateConversation, Base, Rest, server, gateway, links, asked, marks
  <1>16. ASSUME NEW up \in BOOLEAN, NEW k \in Kinds, SendMessage(k, up) PROVE Base /\ Rest'
    <2>1. active \in Convs
      BY <1>16, <1>r DEF SendMessage, Rest
    <2>2. Base
      BY <1>16, <2>1, <1>k, <1>m DEF SendMessage, Compose, Base, gateway
    <2> QED
      BY <1>16, <1>r, <2>2, <1>p, <1>n DEF SendMessage, Compose, Becomes, Rest, gateway
  <1>17. ASSUME NEW up \in BOOLEAN, NEW c \in Convs, ForwardMessage(c, up) PROVE Base /\ Rest'
    <2>1. Base
      BY <1>17, <1>k, <1>m DEF ForwardMessage, Compose, Kinds, Base, gateway
    <2> QED
      BY <1>17, <1>r, <2>1, <1>p, <1>n DEF ForwardMessage, Compose, Rest, gateway
  <1>18. ASSUME NEW p \in posts, PostTaken(p) PROVE Base /\ Rest'
    <2>1. p \in PostType /\ p.id \in Msgs \ Logged
      BY <1>18, <1>r DEF PostTaken, PostInv, Posted, Rest
    <2>2. Base
      BY <1>18, <2>1, <1>k DEF PostTaken, Base
    <2>3. [p EXCEPT !.stage = "taken"] \in PostType
      BY <2>1 DEF PostType
    <2> QED
      BY <1>18, <1>r, <1>t, <1>e, <2>1, <2>2, <2>3 DEF PostTaken, Insert, Sent, Rest, view, marks
  <1>19. ASSUME NEW p \in posts, PostAnswered(p) \/ PostFailed(p) \/ BodyLost(p) PROVE Base /\ Rest'
    BY <1>19, <1>r, <1>k DEF PostAnswered, PostFailed, BodyLost, PostEnded, Becomes, Base, Rest, server, gateway, links
  <1>20. ASSUME UNCHANGED chatVars PROVE Base /\ Rest'
    BY <1>20, <1>r, <1>k DEF chatVars, server, gateway, links, view, asked, marks, Base, Rest
  <1>22. ASSUME NEW i \in handled, LinkFiles(i) PROVE Base /\ Rest'
    BY <1>22, <1>r, <1>k DEF LinkFiles, Base, Rest, links, view, asked, marks
  <1>23. ASSUME NEW i \in handled, i \in Msgs, Publish(i) PROVE Base /\ Rest'
    BY <1>23, <1>r, <1>k, <1>t, <1>e DEF Publish, Sent, Base, Rest, links, view, asked, gateway
  <1>21. Base /\ Rest'
    BY <1>1, <1>2, <1>3, <1>4, <1>5, <1>6, <1>7, <1>8, <1>9, <1>10, <1>11, <1>12, <1>13, <1>14, <1>15, <1>16, <1>17,
       <1>18, <1>19, <1>20, <1>22, <1>23, <1>t DEF ChatNext, Others, Arrivals, User
  <1> QED
    BY <1>s, <1>21 DEF ChatTypes, Base, Rest

\* What is lost stays lost.
LEMMA LostForGood ==
    ASSUME [ChatNext]_chatVars
    PROVE  lossless' => lossless
  BY DEF ChatNext, Others, Arrivals, User, PeerReads, PeerComposes, PeerPosted, LinkFiles, Publish, LoseEvent, OnStanza,
         OnReceipt, Hydrate, OnChatMessage, OnMessageRead, Found, ReadLoad, ApplyLoad, FailLoad, PostTaken, PostAnswered,
         PostFailed, BodyLost, Back, Select, CreateConversation, SendMessage, ForwardMessage, Compose, chatVars, marks

\* Files are linked before the event is sent, or something is lost.
LEMMA GateStep ==
    ASSUME ChatTypes, LogInv, GateInv, PostInv, Grows, [ChatNext]_chatVars
    PROVE  GateInv' /\ \A i \in Logged : i \in handled' => i \in handled
  <1> DEFINE Goal == GateInv' /\ \A i \in Logged : i \in handled' => i \in handled
  <1>m. Logged \subseteq Msgs /\ Logged \subseteq Logged' /\ \A i \in Msgs : made'[i] = made[i]
    BY DEF Logged, Grows
  <1>l. lossless' => lossless
    BY LostForGood
  <1>g. ASSUME linked' \subseteq linked \cup Logged, handled' \subseteq Logged', linked \subseteq linked',
               \A i \in Logged' : i \in handled' => i \in handled \/ i \notin Logged,
               lossless' => \A i \in Logged' : \/ i \in handled' \/ made'[i].kind = "text" \/ i \in linked'
                                            \/ i \in Logged \ handled
        PROVE  Goal
    <2>1. \A i \in Logged : Whole(i) => made'[i].kind = "text" \/ i \in linked'
      BY <1>g, <1>m DEF Whole
    <2>2. lossless' => \A i \in Logged' : i \in handled' \/ made'[i].kind = "text" \/ i \in linked'
      BY <1>g, <1>l, <2>1 DEF GateInv
    <2> QED
      BY <1>g, <1>m, <2>2 DEF GateInv, Whole
  <1>k. ASSUME Logged' = Logged, linked' = linked, handled' = handled PROVE Goal
    BY <1>k, <1>g DEF GateInv
  <1> HIDE DEF Goal
  <1>1. ASSUME NEW i \in Msgs, i \notin Logged, made' = made, linked' = linked, Insert(i) PROVE Goal
    <2>1. Logged' = Logged \cup {i}
      BY <1>1, Stored DEF Insert
    <2> QED
      BY <1>1, <2>1, <1>g DEF Insert, GateInv
  <1>2. ASSUME NEW i \in Msgs, PeerPosted(i) PROVE Goal
    BY <1>2, <1>1 DEF PeerPosted
  <1>3. ASSUME NEW p \in posts, PostTaken(p) PROVE Goal
    <2>1. p.id \in Msgs /\ p.id \notin Logged
      BY <1>3 DEF PostTaken, PostInv, Posted
    <2> QED
      BY <1>3, <2>1, <1>1 DEF PostTaken
  <1>4. ASSUME NEW i \in handled, LinkFiles(i) PROVE Goal
    <2>1. Logged' = Logged /\ linked' = linked \cup {i} /\ handled' = handled
      BY <1>4, Kept DEF LinkFiles
    <2> QED
      BY <2>1, <1>g DEF GateInv
  <1>5. ASSUME NEW i \in handled, Publish(i) PROVE Goal
    <2>1. Logged' = Logged /\ linked' = linked /\ handled' = handled \ {i} /\ (lossless' => i \in linked)
      BY <1>5, Kept DEF Publish
    <2> QED
      BY <2>1, <1>g DEF GateInv
  <1>6. ASSUME NEW m \in MadeType, made' = Append(made, m), UNCHANGED gateway PROVE Goal
    <2>1. Logged' = Logged /\ linked' = linked /\ handled' = handled
      BY <1>6, Composed DEF gateway
    <2> QED
      BY <2>1, <1>k
  <1>7. ASSUME NEW c \in Convs, NEW k \in Kinds, PeerComposes(c, k) PROVE Goal
    <2>1. [conv |-> c, by |-> "peer", kind |-> k] \in MadeType
      BY DEF MadeType
    <2> QED
      BY <1>7, <2>1, <1>6 DEF PeerComposes
  <1>8. ASSUME NEW up \in BOOLEAN, NEW k \in Kinds, SendMessage(k, up) PROVE Goal
    <2>1. [conv |-> active, by |-> "me", kind |-> k] \in MadeType
      BY <1>8 DEF SendMessage, ChatTypes, MadeType
    <2> QED
      BY <1>8, <2>1, <1>6 DEF SendMessage, Compose
  <1>9. ASSUME NEW up \in BOOLEAN, NEW c \in Convs, ForwardMessage(c, up) PROVE Goal
    <2>1. [conv |-> c, by |-> "forward", kind |-> "text"] \in MadeType
      BY DEF MadeType, Kinds
    <2> QED
      BY <1>9, <2>1, <1>6 DEF ForwardMessage, Compose
  <1>10. ASSUME \/ \E c \in Convs : PeerReads(c) \/ Select(c) \/ CreateConversation(c)
                \/ LoseEvent \/ OnChatMessage \/ OnMessageRead \/ Back
                \/ \E i \in Msgs : OnStanza(i) \/ OnReceipt(i) \/ Hydrate(i)
                \/ \E i \in finds : Found(i)
                \/ \E l \in loads : ReadLoad(l) \/ ApplyLoad(l) \/ FailLoad(l)
                \/ \E p \in posts : PostAnswered(p) \/ PostFailed(p) \/ BodyLost(p)
                \/ UNCHANGED chatVars
         PROVE  made' = made /\ UNCHANGED gateway
    BY <1>10 DEF PeerReads, Select, CreateConversation, LoseEvent, OnChatMessage, OnMessageRead, Back, OnStanza, OnReceipt,
                 Hydrate, Found, ReadLoad, ApplyLoad, FailLoad, Loaded, PostAnswered, PostFailed, BodyLost, PostEnded,
                 chatVars, server
  <1>11. made' = made /\ UNCHANGED gateway => Goal
    BY <1>k, Kept DEF gateway
  <1>12. Goal
    BY <1>2, <1>3, <1>4, <1>5, <1>7, <1>8, <1>9, <1>10, <1>11 DEF ChatNext, Others, Arrivals, User
  <1> QED
    BY <1>12 DEF Goal

(***************************************************************************)
(* What is under way.                                                      *)
(***************************************************************************)
LEMMA OldOnesStand ==
    ASSUME ChatTypes, Grows
    PROVE  /\ \A i \in Msgs : i \in Msgs' /\ Mine(i)' = Mine(i)
           /\ \A l \in LoadType : Fetched(l) => Fetched(l)'
           /\ \A p : Posted(p) /\ (p.id \in Logged' => p.id \in Logged) => Posted(p)'
  <1>1. \A i \in Msgs : i \in Msgs' /\ made'[i] = made[i]
    BY DEF Grows
  <1>2. \A i \in Msgs : i \in Msgs' /\ Mine(i)' = Mine(i)
    BY <1>1 DEF Mine
  <1>4. \A c \in Convs : Of(c) \cap Logged \subseteq Of(c)' \cap Logged'
    BY <1>1 DEF Grows, Of
  <1>5. \A l \in LoadType : l.conv \in Convs
    BY DEF LoadType
  <1>6. \A l \in LoadType : Fetched(l) => Fetched(l)'
    <2> SUFFICES ASSUME NEW l \in LoadType, Fetched(l) PROVE Fetched(l)'
      OBVIOUS
    <2> HIDE DEF LoadType
    <2>1. Of(l.conv) \cap Logged \subseteq Of(l.conv)' \cap Logged'
      BY <1>4, <1>5
    <2>2. \A i \in Of(l.conv) : made'[i] = made[i]
      BY <1>1 DEF Of
    <2> QED
      BY <2>1, <2>2 DEF Fetched
  <1>7. \A p : Posted(p) /\ (p.id \in Logged' => p.id \in Logged) => Posted(p)'
    BY <1>1, <1>2 DEF Posted, Grows
  <1> QED
    BY <1>2, <1>6, <1>7

\* What is under way was composed, and an event is about a stored message.
LEMMA WireStep ==
    ASSUME ChatTypes, ChatTypes', LogInv, GateInv, WireInv, PostInv, Grows, [ChatNext]_chatVars
    PROVE  WireInv'
  <1>o. /\ Msgs \subseteq Msgs' /\ finds \subseteq Msgs'
        /\ \A i \in wire : i \in Msgs' /\ made'[i].by = "peer"
        /\ \A k \in DOMAIN events : events[k].type = "chat_message" => events[k].id \in Logged' \ handled'
    BY GateStep DEF Grows, WireInv, Carried, Mine
  <1>e. events \in Seq(WireType)
    BY DEF ChatTypes
  <1> DEFINE Announces == \A k \in DOMAIN events' : events'[k].type = "chat_message" => events'[k].id \in Logged' \ handled'
  <1>a. \A e \in WireType : (e.type = "chat_message" => e.id \in Logged' \ handled') /\ events' = Append(events, e) => Announces
    <2> SUFFICES ASSUME NEW e \in WireType, e.type = "chat_message" => e.id \in Logged' \ handled',
                        events' = Append(events, e), NEW k \in DOMAIN events'
                 PROVE  events'[k].type = "chat_message" => events'[k].id \in Logged' \ handled'
      OBVIOUS
    <2>1. (k \in DOMAIN events /\ events'[k] = events[k]) \/ events'[k] = e
      BY <1>e, AppendedTo
    <2> QED
      BY <2>1, <1>o
  <1>q. events # <<>> /\ events' = Tail(events) => Announces
    BY <1>e, <1>o, TailOf
  <1>k. events' = events => Announces
    BY <1>o
  <1> HIDE DEF Announces
  <1> DEFINE Good == Announces /\ (\A i \in wire' : i \in Msgs' /\ made'[i].by = "peer") /\ finds' \subseteq Msgs'
  <1>1. ASSUME NEW c \in Convs, NEW k \in Kinds, PeerComposes(c, k) PROVE Good
    <2> DEFINE m == [conv |-> c, by |-> "peer", kind |-> k]
               n == Len(made) + 1
    <2>1. m \in MadeType
      BY DEF MadeType
    <2>2. made' = Append(made, m) /\ log' = log /\ wire' = wire \cup {n} /\ events' = events /\ finds' = finds
      BY <1>1 DEF PeerComposes, asked, gateway
    <2>3. n \in Msgs' /\ made'[n] = m /\ m.by = "peer"
      BY <2>1, <2>2, Composed
    <2> HIDE DEF m, n
    <2> QED
      BY <2>2, <2>3, <1>o, <1>k
  <1>2. ASSUME NEW i \in Msgs, PeerPosted(i) \/ (\E p \in posts : p.id = i /\ PostTaken(p)) PROVE Good
    <2>1. /\ made' = made /\ Insert(i) /\ i \notin Logged /\ wire' = wire /\ finds' = finds
      BY <1>2 DEF PeerPosted, PostTaken, asked, PostInv, Posted
    <2>2. i \in Logged' /\ i \in Nat /\ made[i].conv \in Convs /\ i \notin handled
      BY <2>1, Stored, MadeTyped DEF Insert, GateInv
    <2> DEFINE e == [type |-> "chat_message", id |-> i, conv |-> made[i].conv]
    <2>3. e \in WireType /\ e.id = i
      BY <2>2 DEF WireType
    <2>4. events' = events \/ (events' = Append(events, e) /\ handled' = handled)
      BY <2>1 DEF Insert, Sent
    <2> HIDE DEF e
    <2> QED
      BY <2>1, <2>2, <2>3, <2>4, <1>o, <1>a, <1>k
  <1>16. ASSUME NEW i \in handled, Publish(i) PROVE Good
    <2>1. i \in Logged' /\ i \in Nat /\ made[i].conv \in Convs /\ handled' = handled \ {i}
      BY <1>16, MadeTyped DEF Publish, GateInv, Grows, Logged
    <2> DEFINE e == [type |-> "chat_message", id |-> i, conv |-> made[i].conv]
    <2>2. e \in WireType /\ e.id = i
      BY <2>1 DEF WireType
    <2>3. events' = Append(events, e) /\ wire' = wire /\ finds' = finds
      BY <1>16 DEF Publish, Sent, asked
    <2> HIDE DEF e
    <2> QED
      BY <2>1, <2>2, <2>3, <1>o, <1>a
  <1>17. ASSUME NEW i \in handled, LinkFiles(i) PROVE Good
    BY <1>17, <1>o, <1>k DEF LinkFiles, links, asked
  <1>3. ASSUME NEW c \in Convs, PeerReads(c) PROVE Good
    <2> DEFINE e == [type |-> "message_read", id |-> 0, conv |-> c]
    <2>1. e \in WireType /\ e.type = "message_read"
      BY DEF WireType
    <2>2. events' = Append(events, e) /\ wire' = wire /\ finds' = finds
      BY <1>3 DEF PeerReads, asked, gateway
    <2> HIDE DEF e
    <2> QED
      BY <2>1, <2>2, <1>o, <1>a
  <1>4. ASSUME LoseEvent \/ OnMessageRead PROVE Good
    BY <1>4, <1>o, <1>q DEF LoseEvent, OnMessageRead, asked
  <1>5. ASSUME OnChatMessage PROVE Good
    <2>1. Head(events).id \in Msgs
      <3>1. Head(events) = events[1] /\ 1 \in DOMAIN events
        BY <1>5, <1>e, TailOf DEF OnChatMessage
      <3>2. Carried(Head(events))
        BY <3>1 DEF WireInv
      <3> QED
        BY <3>2, <1>5 DEF OnChatMessage, Carried, Logged
    <2>2. events # <<>> /\ events' = Tail(events) /\ wire' = wire /\ finds' \subseteq finds \cup {Head(events).id}
      BY <1>5 DEF OnChatMessage, Arrives
    <2> QED
      BY <2>1, <2>2, <1>o, <1>q
  <1>6. ASSUME NEW i \in Msgs, OnStanza(i) PROVE Good
    <2>1. events' = events /\ wire' \subseteq wire /\ finds' \subseteq finds \cup {i}
      BY <1>6 DEF OnStanza, Arrives
    <2> QED
      BY <2>1, <1>o, <1>k
  <1>7. ASSUME NEW i \in finds, Found(i) PROVE Good
    BY <1>7, <1>o, <1>k DEF Found, links
  <1>8. ASSUME NEW i \in Msgs, OnReceipt(i) \/ Hydrate(i) PROVE Good
    BY <1>8, <1>o, <1>k DEF OnReceipt, Hydrate, links, asked
  <1>9. ASSUME Back \/ \E c \in Convs : Select(c) \/ CreateConversation(c) PROVE Good
    BY <1>9, <1>o, <1>k DEF Back, Select, CreateConversation, links, asked
  <1>10. ASSUME NEW l \in loads, ReadLoad(l) \/ ApplyLoad(l) \/ FailLoad(l) PROVE Good
    BY <1>10, <1>o, <1>k DEF ReadLoad, ApplyLoad, FailLoad, Loaded, links
  <1>11. ASSUME NEW up \in BOOLEAN, (\E k \in Kinds : SendMessage(k, up)) \/ (\E c \in Convs : ForwardMessage(c, up)) PROVE Good
    BY <1>11, <1>o, <1>k DEF SendMessage, ForwardMessage, Compose, gateway
  <1>12. ASSUME NEW p \in posts, PostAnswered(p) \/ PostFailed(p) \/ BodyLost(p) PROVE Good
    BY <1>12, <1>o, <1>k DEF PostAnswered, PostFailed, BodyLost, PostEnded, links
  <1>13. ASSUME UNCHANGED chatVars PROVE Good
    BY <1>13, <1>o, <1>k DEF chatVars, links, asked
  <1>14. \A p \in posts : PostTaken(p) => \E i \in Msgs : \E q \in posts : q.id = i /\ PostTaken(q)
    BY DEF PostInv, Posted
  <1> HIDE DEF Good
  <1>15. Good
    BY <1>1, <1>2, <1>3, <1>4, <1>5, <1>6, <1>7, <1>8, <1>9, <1>10, <1>11, <1>12, <1>13, <1>14, <1>16, <1>17
    DEF ChatNext, Others, Arrivals, User
  <1> QED
    BY <1>15 DEF Good, Announces, WireInv, Carried, Mine

\* A message is posted once, and its POST is taken when it is stored.
LEMMA PostStep ==
    ASSUME ChatTypes, LogInv, PostInv, Grows, [ChatNext]_chatVars
    PROVE  PostInv'
  <1> USE DEF PostInv
  <1>1. ASSUME posts' \subseteq posts, \A p \in posts' : p.id \in Logged' => p.id \in Logged PROVE PostInv'
    BY <1>1, OldOnesStand
  <1>2. ASSUME NEW m \in MadeType, NEW b \in BOOLEAN, made' = Append(made, m), log' = log, m.by # "peer", b => m.by = "me",
               posts' = posts \cup {[id |-> Len(made) + 1, stage |-> "sent", echo |-> b]}
        PROVE  PostInv'
    <2> DEFINE n == Len(made) + 1
               x == [id |-> n, stage |-> "sent", echo |-> b]
    <2>1. n \notin Msgs /\ n \notin Logged' /\ n \in Msgs' /\ made'[n] = m /\ Logged' = Logged
      BY <1>2, Composed
    <2>2. x.id = n /\ x.stage = "sent" /\ (x.echo <=> b)
      OBVIOUS
    <2>3. posts' = posts \cup {x}
      BY <1>2
    <2> HIDE DEF x, n
    <2>4. ASSUME NEW y, y = x PROVE Posted(y)'
      BY <1>2, <2>1, <2>2, <2>4 DEF Posted, Mine
    <2>5. \A p \in posts : Posted(p)' /\ p.id # n
      BY <2>1, OldOnesStand DEF Posted
    <2> QED
      BY <2>2, <2>3, <2>4, <2>5
  <1>3. ASSUME NEW p \in posts, PostTaken(p) PROVE PostInv'
    <2> DEFINE x == [p EXCEPT !.stage = "taken"]
    <2>1. p \in PostType /\ p.id \in Msgs \ Logged /\ Posted(p)
      BY <1>3 DEF ChatTypes, PostTaken, Posted
    <2>2. x.id = p.id /\ x.stage = "taken" /\ x.echo = p.echo
      BY <2>1 DEF PostType
    <2>3. posts' = (posts \ {p}) \cup {x} /\ Logged' = Logged \cup {p.id} /\ made' = made
      BY <1>3, <2>1, Stored DEF PostTaken, Insert
    <2> HIDE DEF x
    <2>4. ASSUME NEW y, y = x PROVE Posted(y)'
      BY <2>1, <2>2, <2>3, <2>4 DEF Posted, Mine, Msgs
    <2>5. \A q \in posts \ {p} : Posted(q)' /\ q.id # p.id
      BY <2>3, OldOnesStand
    <2> QED
      BY <2>2, <2>3, <2>4, <2>5
  <1>4. ASSUME NEW i \in Msgs, PeerPosted(i) PROVE PostInv'
    <2>1. ~Mine(i) /\ i \notin Logged /\ Logged' = Logged \cup {i} /\ posts' = posts
      BY <1>4, Stored DEF PeerPosted, Insert, asked
    <2> QED
      BY <2>1, <1>1 DEF Posted
  <1>5. ASSUME NEW c \in Convs, NEW k \in Kinds, PeerComposes(c, k) PROVE PostInv'
    <2>1. [conv |-> c, by |-> "peer", kind |-> k] \in MadeType
      BY DEF MadeType
    <2>2. Logged' = Logged /\ posts' = posts
      BY <1>5, <2>1, Composed DEF PeerComposes, asked, gateway
    <2> QED
      BY <2>2, <1>1
  <1>6. ASSUME NEW up \in BOOLEAN, NEW k \in Kinds, SendMessage(k, up) PROVE PostInv'
    <2> DEFINE m == [conv |-> active, by |-> "me", kind |-> k]
    <2>1. m \in MadeType /\ m.by = "me"
      BY <1>6 DEF SendMessage, ChatTypes, MadeType
    <2>2. made' = Append(made, m) /\ log' = log /\ posts' = posts \cup {[id |-> Len(made) + 1, stage |-> "sent", echo |-> up]}
      BY <1>6 DEF SendMessage, Compose, gateway
    <2> HIDE DEF m
    <2> QED
      BY <2>1, <2>2, <1>2
  <1>7. ASSUME NEW up \in BOOLEAN, NEW c \in Convs, ForwardMessage(c, up) PROVE PostInv'
    <2> DEFINE m == [conv |-> c, by |-> "forward", kind |-> "text"]
    <2>1. m \in MadeType /\ m.by = "forward"
      BY DEF MadeType, Kinds
    <2>2. made' = Append(made, m) /\ log' = log /\ posts' = posts \cup {[id |-> Len(made) + 1, stage |-> "sent", echo |-> FALSE]}
      BY <1>7 DEF ForwardMessage, Compose, gateway
    <2> HIDE DEF m
    <2> QED
      BY <2>1, <2>2, <1>2
  <1>8. ASSUME NEW p \in posts, PostAnswered(p) \/ PostFailed(p) \/ BodyLost(p) PROVE posts' \subseteq posts /\ made' = made /\ log' = log
    BY <1>8 DEF PostAnswered, PostFailed, BodyLost, PostEnded, server, gateway
  <1>9. ASSUME \/ \E c \in Convs : PeerReads(c) \/ Select(c) \/ CreateConversation(c)
               \/ LoseEvent \/ OnChatMessage \/ OnMessageRead \/ Back
               \/ \E i \in handled : LinkFiles(i) \/ Publish(i)
               \/ \E i \in Msgs : OnStanza(i) \/ OnReceipt(i) \/ Hydrate(i)
               \/ \E i \in finds : Found(i)
               \/ \E l \in loads : ReadLoad(l) \/ ApplyLoad(l) \/ FailLoad(l)
               \/ UNCHANGED chatVars
        PROVE  posts' = posts /\ made' = made /\ log' = log
    BY <1>9 DEF PeerReads, LinkFiles, Publish, Select, CreateConversation, LoseEvent, OnChatMessage, OnMessageRead, Back, OnStanza, OnReceipt,
                Hydrate, Found, ReadLoad, ApplyLoad, FailLoad, Loaded, chatVars, server, gateway, asked
  <1>10. posts' \subseteq posts /\ made' = made /\ log' = log => PostInv'
    BY <1>1, Kept
  <1> HIDE DEF PostInv
  <1> QED
    BY <1>3, <1>4, <1>5, <1>6, <1>7, <1>8, <1>9, <1>10 DEF ChatNext, Others, Arrivals, User

\* What a fetch has read was stored in its conversation.
LEMMA LoadStep ==
    ASSUME ChatTypes, LogInv, LoadInv, Grows, [ChatNext]_chatVars
    PROVE  LoadInv'
  <1>o. \A l \in loads : Fetched(l)'
    BY OldOnesStand DEF LoadInv, ChatTypes
  <1>1. ASSUME NEW c \in Convs, Select(c) PROVE LoadInv'
    <2> DEFINE x == [n |-> uses, conv |-> c, read |-> FALSE, has |-> <<>>, unread |-> unread[c] > 0]
    <2>1. loads' = loads \cup {x} /\ ~x.read
      BY <1>1 DEF Select
    <2> HIDE DEF x
    <2>2. ASSUME NEW y, y = x PROVE Fetched(y)'
      BY <2>1, <2>2 DEF Fetched
    <2> QED
      BY <2>1, <2>2, <1>o DEF LoadInv
  <1>2. ASSUME NEW l \in loads, ReadLoad(l) PROVE LoadInv'
    <2> DEFINE x == [l EXCEPT !.read = TRUE, !.has = History(l.conv)]
    <2>1. l \in LoadType
      BY DEF ChatTypes
    <2>2. l.conv \in Convs /\ x.conv = l.conv /\ x.has = History(l.conv)
      BY <2>1 DEF LoadType
    <2>3. loads' = (loads \ {l}) \cup {x} /\ made' = made /\ log' = log
      BY <1>2 DEF ReadLoad, server, gateway
    <2> HIDE DEF x
    <2>4. Of(l.conv)' = Of(l.conv) /\ Logged' = Logged
      BY <2>2, <2>3, Kept
    <2>5. /\ \A k \in DOMAIN x.has : /\ x.has[k].id \in Of(l.conv) \cap Logged
                                     /\ x.has[k].status \in {"sent", "read"}
                                     /\ ~x.has[k].whole => made[x.has[k].id].kind = "file"
          /\ \A j, k \in DOMAIN x.has : x.has[j].id = x.has[k].id => j = k
      <3>1. \A i \in Of(l.conv) : ~Whole(i) => made[i].kind = "file"
        BY MadeTyped DEF Whole, Of, MadeType, Kinds
      <3> QED
        BY <2>2, <3>1, HistoryTyped, ListsStored DEF LogInv
    <2>6. ASSUME NEW y, y = x PROVE Fetched(y)'
      <3>1. Of(y.conv)' = Of(y.conv)
        BY <2>2, <2>3, <2>6 DEF Of, Msgs
      <3> QED
        BY <2>2, <2>3, <2>4, <2>5, <2>6, <3>1 DEF Fetched
    <2> QED
      BY <2>3, <2>6, <1>o DEF LoadInv
  <1>3. ASSUME loads' \subseteq loads PROVE LoadInv'
    BY <1>3, <1>o DEF LoadInv
  <1>4. ASSUME NEW l \in loads, ApplyLoad(l) \/ FailLoad(l) PROVE loads' \subseteq loads
    BY <1>4 DEF ApplyLoad, FailLoad, Loaded
  <1>5. ASSUME \/ Others \/ OnChatMessage \/ OnMessageRead \/ Back
               \/ \E c \in Convs : CreateConversation(c)
               \/ \E i \in Msgs : OnStanza(i) \/ OnReceipt(i) \/ Hydrate(i)
               \/ \E i \in finds : Found(i)
               \/ \E p \in posts : PostTaken(p) \/ PostAnswered(p) \/ PostFailed(p) \/ BodyLost(p)
               \/ UNCHANGED chatVars
        PROVE  loads' = loads
    BY <1>5 DEF Others, PeerReads, PeerComposes, PeerPosted, LinkFiles, Publish, LoseEvent, OnChatMessage, OnMessageRead, Back,
                CreateConversation, OnStanza, OnReceipt, Hydrate, Found, PostTaken, PostAnswered, PostFailed, BodyLost,
                PostEnded, chatVars, asked, gateway
  <1>6. ASSUME NEW up \in BOOLEAN, (\E k \in Kinds : SendMessage(k, up)) \/ (\E c \in Convs : ForwardMessage(c, up))
        PROVE  loads' = loads
    BY <1>6 DEF SendMessage, ForwardMessage, Compose, gateway
  <1> QED
    BY <1>1, <1>2, <1>3, <1>4, <1>5, <1>6 DEF ChatNext, Arrivals, User

(***************************************************************************)
(* What is on screen.                                                      *)
(***************************************************************************)
LEMMA OnceStep ==
    ASSUME ChatTypes, LogInv, WireInv, PostInv, LoadInv, LineInv, ShownOnce, Grows, [ChatNext]_chatVars
    PROVE  ShownOnce'
  <1>o. /\ \A k \in DOMAIN shown : shown[k] \in LineType /\ shown[k].id \in Msgs
        /\ \A k \in DOMAIN shown : made'[shown[k].id] = made[shown[k].id]
        /\ shown \in Seq(LineType)
    BY LinesTyped DEF LineInv, Shows, Grows, ChatTypes
  <1>e. Edited(shown') => ShownOnce'
    BY <1>o DEF Edited, ShownOnce
  <1>k. shown' = shown => ShownOnce'
    BY <1>o DEF ShownOnce
  <1>n. shown' = <<>> => ShownOnce'
    BY DEF ShownOnce
  <1>a. \A x \in LineType : shown' = Append(shown, x) /\ (x.id \notin OnScreen \/ made'[x.id].by = "forward") => ShownOnce'
    <2> SUFFICES ASSUME NEW x \in LineType, shown' = Append(shown, x), x.id \notin OnScreen \/ made'[x.id].by = "forward"
                 PROVE  ShownOnce'
      OBVIOUS
    <2>1. \A k \in DOMAIN shown' : (k \in DOMAIN shown /\ shown'[k] = shown[k]) \/ (k = Len(shown) + 1 /\ shown'[k] = x)
      BY <1>o, AppendedTo
    <2>2. \A k \in DOMAIN shown : shown[k].id = x.id => made'[x.id].by = "forward"
      BY DEF OnScreen
    <2> QED
      BY <2>1, <2>2, <1>o DEF ShownOnce
  <1>l. \A i \in Nat, s \in {"pending", "sent"}, w \in BOOLEAN : Line(i, s, w) \in LineType /\ Line(i, s, w).id = i
    BY NewLine
  <1>m. \A i \in Msgs : i \in Nat
    BY DEF Msgs
  <1>1. ASSUME NEW i \in Msgs, OnStanza(i) PROVE ShownOnce'
    <2>1. shown' = shown \/ (shown' = Append(shown, Line(i, "sent", made[i].kind = "text")) /\ i \notin OnScreen)
      BY <1>1 DEF OnStanza, Arrives, Becomes
    <2>2. (made[i].kind = "text") \in BOOLEAN
      OBVIOUS
    <2> QED
      BY <2>1, <2>2, <1>a, <1>k, <1>l, <1>m
  <1>2. ASSUME OnChatMessage PROVE ShownOnce'
    <2> DEFINE i == Head(events).id
    <2>1. i \in Nat
      <3>1. Head(events) \in WireType
        BY <1>2 DEF OnChatMessage, ChatTypes
      <3> QED
        BY <3>1 DEF WireType
    <2>2. shown' = shown \/ (shown' = Append(shown, Line(i, "sent", Whole(i))) /\ i \notin OnScreen)
      BY <1>2 DEF OnChatMessage, Arrives, Becomes
    <2>3. Whole(i) \in BOOLEAN
      BY DEF Whole
    <2> HIDE DEF i
    <2> QED
      BY <2>1, <2>2, <2>3, <1>a, <1>k, <1>l
  <1>3. ASSUME OnMessageRead PROVE ShownOnce'
    BY <1>3, <1>e, <1>k, ReadMarks DEF OnMessageRead
  <1>4. ASSUME NEW i \in Msgs, OnReceipt(i) PROVE ShownOnce'
    BY <1>4, <1>e, Receipts
  <1>5. ASSUME NEW i \in Msgs, Hydrate(i) PROVE ShownOnce'
    BY <1>5, <1>e, <1>k, FilesFetched DEF Hydrate
  <1>6. ASSUME Back \/ \E c \in Convs : Select(c) PROVE shown' = <<>>
    BY <1>6 DEF Back, Select, Becomes
  <1>7. ASSUME NEW l \in loads, ApplyLoad(l) \/ FailLoad(l) PROVE ShownOnce'
    <2>1. shown' = <<>> \/ (shown' = l.has /\ l.read)
      BY <1>7 DEF ApplyLoad, FailLoad, Loaded, Becomes
    <2> QED
      BY <2>1, <1>n DEF LoadInv, Fetched, ShownOnce
  <1>8. ASSUME NEW up \in BOOLEAN, NEW k \in Kinds, SendMessage(k, up) PROVE ShownOnce'
    <2>1. shown' = shown \/ shown' = Append(shown, Line(Len(made) + 1, "pending", k = "text"))
      BY <1>8 DEF SendMessage, Becomes
    <2>2. (k = "text") \in BOOLEAN /\ Len(made) + 1 \in Nat /\ Len(made) + 1 \notin OnScreen
      BY <1>o DEF ChatTypes, OnScreen, Msgs
    <2> QED
      BY <2>1, <2>2, <1>a, <1>k, <1>l
  <1>9. ASSUME NEW p \in posts, PostAnswered(p) \/ PostFailed(p) \/ BodyLost(p) PROVE ShownOnce'
    <2>1. p.id \in Msgs /\ p.id \in Nat /\ made'[p.id] = made[p.id]
      BY <1>m DEF PostInv, Posted, Grows
    <2>2. \/ shown' = shown \/ shown' = Confirmed(p.id) \/ shown' = Upgraded(p.id)
          \/ /\ \E w \in BOOLEAN : shown' = Append(shown, Line(p.id, "sent", w))
             /\ p.id \notin OnScreen \/ made[p.id].by = "forward"
      BY <1>9, AnswerLines, <2>1 DEF PostAnswered, PostFailed, BodyLost, PostEnded, Forwarded, Becomes
    <2>3. Edited(Confirmed(p.id)) /\ Edited(Upgraded(p.id))
      BY Upgrades, FilesConfirmed DEF Confirmed
    <2> QED
      BY <2>1, <2>2, <2>3, <1>a, <1>k, <1>l, <1>e
  <1>10. ASSUME \/ Others
                \/ \E i \in finds : Found(i)
                \/ \E l \in loads : ReadLoad(l)
                \/ \E p \in posts : PostTaken(p)
                \/ \E c \in Convs : CreateConversation(c)
                \/ \E up \in BOOLEAN, c \in Convs : ForwardMessage(c, up)
                \/ UNCHANGED chatVars
         PROVE shown' = shown
    BY <1>10 DEF chatVars, Others, PeerReads, PeerComposes, PeerPosted, LinkFiles, Publish, LoseEvent, Found, ReadLoad,
           PostTaken, CreateConversation, ForwardMessage, view, gateway
  <1> QED
    BY <1>1, <1>2, <1>3, <1>4, <1>5, <1>6, <1>7, <1>8, <1>9, <1>10, <1>n, <1>k DEF ChatNext, Arrivals, User

\* What waits for its answer goes on waiting until it is there.
LEMMA StillWaits ==
    ASSUME ChatTypes, LogInv, PostInv, Grows, [ChatNext]_chatVars,
           NEW i \in Msgs, Waits(i), \A p \in posts : PostAnswered(p) => p.id # i
    PROVE  Waits(i)'
  <1>o. made'[i] = made[i] /\ Mine(i)
    BY DEF Grows, Waits, Mine
  <1>d. /\ \A p \in posts : p.id = i => p.echo
        /\ lossless /\ i \in Logged => \E p \in posts : p.id = i /\ p.echo
    BY DEF Waits, Awaited
  <1>w. ASSUME \A p \in posts' : p.id = i => p.echo,
               lossless' /\ i \in Logged' => \E p \in posts' : p.id = i /\ p.echo
        PROVE  Waits(i)'
    BY <1>w, <1>o DEF Waits, Awaited
  <1>l. lossless' => lossless
    BY LostForGood
  <1>q. ASSUME posts' = posts, i \in Logged' => i \in Logged
        PROVE  Waits(i)'
    BY <1>q, <1>w, <1>d, <1>l
  <1>g. PostInv /\ \A p \in posts : p.id \in Msgs /\ (p.stage = "taken" <=> p.id \in Logged)
    BY DEF PostInv, Posted
  <1>1. ASSUME NEW j \in Msgs, PeerPosted(j) PROVE Waits(i)'
    <2>1. ~Mine(j) /\ Logged' = Logged \cup {j}
      BY <1>1, Stored DEF PeerPosted, Insert
    <2> QED
      BY <2>1, <1>1, <1>o, <1>q DEF PeerPosted, asked
  <1>2. ASSUME NEW p \in posts, PostTaken(p) PROVE Waits(i)'
    <2> DEFINE x == [p EXCEPT !.stage = "taken"]
    <2>1. p \in PostType
      BY DEF ChatTypes
    <2>2. x.id = p.id /\ x.echo = p.echo
      BY <2>1 DEF PostType
    <2>3. posts' = (posts \ {p}) \cup {x}
      BY <1>2 DEF PostTaken
    <2>4. p.id \in Msgs /\ p.id \notin Logged /\ Logged' = Logged \cup {p.id}
      <3>1. p.id \in Msgs /\ p.id \notin Logged
        BY <1>2, <1>g DEF PostTaken
      <3> QED
        BY <1>2, <3>1, Stored DEF PostTaken, Insert
    <2> HIDE DEF x
    <2> QED
      BY <2>2, <2>3, <2>4, <1>d, <1>w, <1>l
  <1>3. ASSUME NEW m \in MadeType, NEW b \in BOOLEAN, made' = Append(made, m), log' = log,
               posts' = posts \cup {[id |-> Len(made) + 1, stage |-> "sent", echo |-> b]}
        PROVE  Waits(i)'
    <2> DEFINE n == Len(made) + 1
               x == [id |-> n, stage |-> "sent", echo |-> b]
    <2>1. n \notin Msgs /\ Logged' = Logged /\ x.id = n
      BY <1>3, Composed
    <2>2. posts' = posts \cup {x}
      BY <1>3
    <2> HIDE DEF x, n
    <2> QED
      BY <2>1, <2>2, <1>d, <1>w, <1>l, <1>o
  <1>4. ASSUME NEW up \in BOOLEAN, NEW k \in Kinds, SendMessage(k, up) PROVE Waits(i)'
    <2>1. [conv |-> active, by |-> "me", kind |-> k] \in MadeType
      BY <1>4 DEF SendMessage, ChatTypes, MadeType
    <2> QED
      BY <1>4, <2>1, <1>3 DEF SendMessage, Compose, gateway
  <1>5. ASSUME NEW up \in BOOLEAN, NEW c \in Convs, ForwardMessage(c, up) PROVE Waits(i)'
    <2>1. [conv |-> c, by |-> "forward", kind |-> "text"] \in MadeType
      BY DEF MadeType, Kinds
    <2> QED
      BY <1>5, <2>1, <1>3 DEF ForwardMessage, Compose, gateway
  <1>6. ASSUME NEW p \in posts, PostAnswered(p) \/ PostFailed(p) \/ BodyLost(p) PROVE Waits(i)'
    <2>1. posts' = posts \ {p} /\ made' = made /\ log' = log
      BY <1>6 DEF PostAnswered, PostFailed, BodyLost, PostEnded, server, gateway
    <2>2. Logged' = Logged
      BY <2>1, Kept
    <2>3. CASE i # p.id
      BY <2>3, <2>1, <2>2, <1>d, <1>w, <1>l
    <2>4. CASE i = p.id
      <3>1. lossless' => i \notin Logged
        BY <1>6, <2>4, <1>g DEF PostFailed, BodyLost
      <3> QED
        BY <3>1, <2>1, <2>2, <1>d, <1>w
    <2> QED
      BY <2>3, <2>4
  <1>7. ASSUME NEW c \in Convs, NEW k \in Kinds, PeerComposes(c, k) PROVE Waits(i)'
    <2>1. [conv |-> c, by |-> "peer", kind |-> k] \in MadeType
      BY DEF MadeType
    <2>2. Logged' = Logged
      BY <1>7, <2>1, Composed DEF PeerComposes, gateway
    <2> QED
      BY <1>7, <2>2, <1>q DEF PeerComposes, asked
  <1>8. ASSUME \/ \E c \in Convs : PeerReads(c) \/ Select(c) \/ CreateConversation(c)
               \/ LoseEvent \/ OnChatMessage \/ OnMessageRead \/ Back
               \/ \E j \in handled : LinkFiles(j) \/ Publish(j)
               \/ \E j \in Msgs : OnStanza(j) \/ OnReceipt(j) \/ Hydrate(j)
               \/ \E j \in finds : Found(j)
               \/ \E l \in loads : ReadLoad(l) \/ ApplyLoad(l) \/ FailLoad(l)
               \/ UNCHANGED chatVars
        PROVE  posts' = posts /\ made' = made /\ log' = log
    BY <1>8 DEF PeerReads, Select, CreateConversation, LoseEvent, OnChatMessage, OnMessageRead, Back, LinkFiles, Publish,
                OnStanza, OnReceipt, Hydrate, Found, ReadLoad, ApplyLoad, FailLoad, Loaded, chatVars, server, gateway, asked
  <1>9. made' = made /\ log' = log => Logged' = Logged
    BY Kept
  <1> QED
    BY <1>1, <1>2, <1>4, <1>5, <1>6, <1>7, <1>8, <1>9, <1>q DEF ChatNext, Others, Arrivals, User

\* A step leaves what was said of a line true, except of one that is confirmed.
LEMMA StillShows ==
    ASSUME ChatTypes, LogInv, PostInv, Grows, [ChatNext]_chatVars,
           NEW y, Shows(y), \A p \in posts : PostAnswered(p) /\ y.id = p.id => ~(Mine(y.id) /\ Pending(y))
    PROVE  Shows(y)'
  <1>1. /\ y.id \in Msgs /\ y.id \in Msgs' /\ made'[y.id] = made[y.id]
        /\ y.id \in Logged => y.id \in Logged'
    BY DEF Shows, Grows
  <1>2. Mine(y.id) /\ Pending(y) => Waits(y.id)'
    BY <1>1, StillWaits DEF Shows
  <1> QED
    BY <1>1, <1>2 DEF Shows, Mine, Pending

\* A line of a stored message that is not pending.
LEMMA PlainLine ==
    ASSUME NEW i \in Msgs', i \in Logged', NEW y, y.id = i, y.status # "pending"
    PROVE  Shows(y)'
  BY DEF Shows, Pending

\* Each pending line on screen waits for its answer.
LEMMA LineStep ==
    ASSUME ChatTypes, LogInv, WireInv, PostInv, LoadInv, LineInv, Grows, [ChatNext]_chatVars
    PROVE  LineInv'
  <1> DEFINE Stands(y) == Shows(y)'
             AllStand == \A k \in DOMAIN shown' : \A y : y = shown'[k] => Stands(y)
  <1>i. AllStand => LineInv'
    BY DEF LineInv, Shows, Pending, Waits, Awaited, Mine
  <1>o. /\ \A k \in DOMAIN shown : shown[k] \in LineType /\ Shows(shown[k])
        /\ shown \in Seq(LineType)
        /\ \A i \in Msgs : i \in Nat /\ i \in Msgs' /\ made'[i] = made[i]
        /\ \A i \in Logged : i \in Msgs /\ i \in Logged'
    <2>1. /\ \A k \in DOMAIN shown : shown[k] \in LineType /\ Shows(shown[k])
          /\ shown \in Seq(LineType)
      BY LinesTyped DEF LineInv, ChatTypes
    <2>2. \A i \in Msgs : i \in Nat /\ i \in Msgs' /\ made'[i] = made[i]
      BY MadeTyped DEF Grows
    <2>3. \A i \in Logged : i \in Msgs /\ i \in Logged'
      BY DEF Grows, Logged
    <2> QED
      BY <2>1, <2>2, <2>3
  <1>s. ASSUME NEW y, Shows(y),
               \A p \in posts : PostAnswered(p) /\ y.id = p.id => ~(Mine(y.id) /\ Pending(y))
        PROVE  Stands(y)
    BY <1>s, StillShows
  <1>n. shown' = <<>> => AllStand
    OBVIOUS
  <1>p. ASSUME NEW i \in Logged, NEW y, y.id = i, y.status # "pending"
        PROVE  Stands(y)
    BY <1>p, <1>o, PlainLine
  <1>l. \A i \in Nat, s \in {"pending", "sent"}, w \in BOOLEAN :
            /\ Line(i, s, w) \in LineType /\ Line(i, s, w).id = i
            /\ Line(i, s, w).status = s /\ Line(i, s, w).whole = w
    BY NewLine
  <1> HIDE DEF Stands
  <1>a. ASSUME NEW x \in LineType, shown' = Append(shown, x), \A z : z = x => Stands(z),
               \A k \in DOMAIN shown : \A y : y = shown[k] => Stands(y)
        PROVE  AllStand
    <2> SUFFICES ASSUME NEW k \in DOMAIN shown', NEW y, y = shown'[k] PROVE Stands(y)
      OBVIOUS
    <2>1. (k \in DOMAIN shown /\ y = shown[k]) \/ y = x
      BY <1>a, <1>o, AppendedTo
    <2> QED
      BY <2>1, <1>a
  <1> HIDE DEF AllStand
  <1>k. ASSUME \A p \in posts : ~PostAnswered(p)
        PROVE  \A k \in DOMAIN shown : \A y : y = shown[k] => Stands(y)
    BY <1>k, <1>s, <1>o
  <1>c. ASSUME shown' = shown, \A k \in DOMAIN shown : \A y : y = shown[k] => Stands(y) PROVE AllStand
    BY <1>c DEF AllStand
  <1>1. ASSUME NEW i \in Msgs, OnStanza(i) PROVE AllStand
    <2>1. \/ shown' = shown
          \/ /\ shown' = Append(shown, Line(i, "sent", made[i].kind = "text"))
             /\ active = made[i].conv
      BY <1>1 DEF OnStanza, Arrives, Becomes
    <2>2. ~Mine(i) /\ made'[i] = made[i]
      BY <1>1, <1>o DEF OnStanza, WireInv
    <2> DEFINE x == Line(i, "sent", made[i].kind = "text")
    <2>3. x \in LineType /\ x.id = i /\ x.status = "sent"
      BY <1>o DEF Line, LineType
    <2> HIDE DEF x
    <2>4. ASSUME active = made[i].conv, NEW z, z = x PROVE Stands(z)
      <3>1. made'[i].by = "peer" /\ i \in Msgs'
        BY <2>2, <1>o DEF Mine
      <3> QED
        BY <2>3, <2>4, <3>1 DEF Stands, Shows, Mine
    <2>5. \A k \in DOMAIN shown : \A y : y = shown[k] => Stands(y)
      <3>1. wire' # wire
        BY <1>1 DEF OnStanza
      <3> QED
        BY <3>1, <1>k DEF PostAnswered, PostEnded, links
    <2> QED
      BY <2>1, <2>3, <2>4, <2>5, <1>a, <1>c DEF x
  <1>2. ASSUME OnChatMessage PROVE AllStand
    <2> DEFINE i == Head(events).id
               x == Line(i, "sent", Whole(i))
    <2>1. i \in Logged
      <3>1. Head(events) = events[1] /\ 1 \in DOMAIN events
        BY <1>2, TailOf DEF OnChatMessage, ChatTypes
      <3> QED
        BY <3>1, <1>2 DEF OnChatMessage, WireInv, Carried
    <2>2. shown' = shown \/ shown' = Append(shown, x)
      BY <1>2 DEF OnChatMessage, Arrives, Becomes
    <2> HIDE DEF i
    <2>3. x \in LineType /\ x.id = i /\ x.status = "sent"
      <3>1. Whole(i) \in BOOLEAN
        BY DEF Whole
      <3> QED
        BY <2>1, <3>1, <1>o DEF Line, LineType
    <2> HIDE DEF x
    <2>4. \A z : z = x => Stands(z)
      BY <2>1, <2>3, <1>p
    <2>5. events' # events
      <3>1. events # <<>> /\ events' = Tail(events) /\ events \in Seq(WireType)
        BY <1>2 DEF OnChatMessage, ChatTypes
      <3> QED
        BY <3>1
    <2>6. \A k \in DOMAIN shown : \A y : y = shown[k] => Stands(y)
      BY <2>5, <1>k DEF PostAnswered, PostEnded, links
    <2> QED
      BY <2>2, <2>3, <2>4, <2>6, <1>a, <1>c
  <1>3. ASSUME OnMessageRead PROVE AllStand
    <2>1. events' # events
      <3>1. events # <<>> /\ events' = Tail(events) /\ events \in Seq(WireType)
        BY <1>3 DEF OnMessageRead, ChatTypes
      <3> QED
        BY <3>1
    <2>2. \A k \in DOMAIN shown : \A y : y = shown[k] => Stands(y)
      BY <2>1, <1>k DEF PostAnswered, PostEnded, links
    <2>3. CASE active # Head(events).conv
      BY <1>3, <2>2, <2>3, <1>c DEF OnMessageRead
    <2>4. CASE active = Head(events).conv
      <3>1. /\ DOMAIN shown' = DOMAIN shown
            /\ \A k \in DOMAIN shown : shown'[k] = IF Mine(shown[k].id) THEN [shown[k] EXCEPT !.status = "read"] ELSE shown[k]
        BY <1>3, <2>4, ReadMarks DEF Edited
      <3>2. ASSUME NEW z \in LineType, Stands(z), NEW y, y = [z EXCEPT !.status = "read"] PROVE Stands(y)
        <4>1. y.id = z.id /\ y.whole = z.whole /\ y.status = "read"
          BY <3>2 DEF LineType
        <4>2. Pending(y)' => Pending(z)'
          BY <4>1 DEF Pending
        <4> QED
          BY <4>1, <4>2, <3>2 DEF Stands, Shows
      <3>3. ASSUME NEW k \in DOMAIN shown', NEW y, y = shown'[k] PROVE Stands(y)
        <4>1. PICK z \in LineType : z = shown[k]
          BY <3>1, <3>3, <1>o
        <4>2. Stands(z)
          BY <4>1, <3>1, <3>3, <2>2
        <4>3. y = z \/ y = [z EXCEPT !.status = "read"]
          BY <4>1, <3>1, <3>3
        <4> QED
          BY <4>2, <4>3, <3>2
      <3> QED
        BY <3>3 DEF AllStand
    <2> QED
      BY <2>3, <2>4
  <1>4. ASSUME NEW i \in Msgs, OnReceipt(i) PROVE AllStand
    <2>1. posts' = posts
      BY <1>4 DEF OnReceipt, asked
    <2>2. \A k \in DOMAIN shown : \A y : y = shown[k] => Stands(y)
      BY <2>1, <1>k DEF PostAnswered, PostEnded
    <2>3. /\ DOMAIN shown' = DOMAIN shown
          /\ \A k \in DOMAIN shown : shown'[k] = IF shown[k].id = i /\ shown[k].status = "sent"
                                                 THEN [shown[k] EXCEPT !.status = "delivered"] ELSE shown[k]
      BY <1>4, Receipts DEF Edited
    <2>4. ASSUME NEW z \in LineType, z.status = "sent", Stands(z), NEW y, y = [z EXCEPT !.status = "delivered"] PROVE Stands(y)
      <3>1. y.id = z.id /\ y.whole = z.whole /\ y.status = "delivered"
        BY <2>4 DEF LineType
      <3>2. Pending(y)' => Pending(z)'
        BY <3>1 DEF Pending
      <3> QED
        BY <3>1, <3>2, <2>4 DEF Stands, Shows
    <2>5. ASSUME NEW k \in DOMAIN shown', NEW y, y = shown'[k] PROVE Stands(y)
      <3>1. PICK z \in LineType : z = shown[k]
        BY <2>3, <2>5, <1>o
      <3>2. Stands(z)
        BY <3>1, <2>3, <2>5, <2>2
      <3>3. y = z \/ (z.status = "sent" /\ y = [z EXCEPT !.status = "delivered"])
        BY <3>1, <2>3, <2>5
      <3> QED
        BY <3>2, <3>3, <2>4
    <2> QED
      BY <2>5 DEF AllStand
  <1>5. ASSUME NEW i \in Msgs, Hydrate(i) PROVE AllStand
    <2>1. \A k \in DOMAIN shown : \A y : y = shown[k] => Stands(y)
      <3>1. posts' = posts
        BY <1>5 DEF Hydrate
      <3> QED
        BY <3>1, <1>k DEF PostAnswered, PostEnded
    <2>2. CASE i \notin Logged
      BY <1>5, <2>1, <2>2, <1>c DEF Hydrate
    <2>3. CASE i \in Logged
      <3>1. /\ DOMAIN shown' = DOMAIN shown /\ Status(i) \in {"sent", "read"}
            /\ \A k \in DOMAIN shown : shown'[k] = IF shown[k].id = i THEN Line(i, Status(i), Whole(i)) ELSE shown[k]
        BY <1>5, <2>3, FilesFetched DEF Edited
      <3>2. ASSUME NEW y, y = Line(i, Status(i), Whole(i)) PROVE Stands(y)
        <4>1. y.id = i /\ y.status # "pending"
          BY <3>1, <3>2 DEF Line
        <4> QED
          BY <4>1, <2>3, <1>p
      <3> QED
        BY <3>1, <3>2, <2>1 DEF AllStand
    <2> QED
      BY <2>2, <2>3
  <1>6. ASSUME Back \/ \E c \in Convs : Select(c) PROVE shown' = <<>>
    BY <1>6 DEF Back, Select, Becomes
  <1>7. ASSUME NEW l \in loads, ApplyLoad(l) \/ FailLoad(l) PROVE AllStand
    <2>1. shown' = <<>> \/ (shown' = l.has /\ l.read)
      BY <1>7 DEF ApplyLoad, FailLoad, Loaded, Becomes
    <2>2. CASE shown' = l.has /\ l.read
      <3>1. \A k \in DOMAIN shown' : shown'[k].id \in Logged /\ shown'[k].status \in {"sent", "read"}
        BY <2>2 DEF LoadInv, Fetched
      <3> QED
        BY <3>1, <1>p DEF AllStand
    <2> QED
      BY <2>1, <2>2, <1>n
  <1>8. ASSUME NEW up \in BOOLEAN, NEW k \in Kinds, SendMessage(k, up) PROVE AllStand
    <2> DEFINE n == Len(made) + 1
               x == Line(n, "pending", k = "text")
               m == [conv |-> active, by |-> "me", kind |-> k]
    <2>1. m \in MadeType /\ m.by = "me" /\ m.kind = k
      BY <1>8 DEF SendMessage, ChatTypes, MadeType
    <2>2. n \in Nat /\ n \notin Msgs /\ n \in Msgs' /\ made'[n] = m /\ n \notin Logged'
      BY <1>8, <2>1, Composed DEF SendMessage, Compose, gateway
    <2>3. x \in LineType /\ x.id = n /\ x.status = "pending"
      BY <2>2 DEF Line, LineType
    <2>4. (up /\ shown' = Append(shown, x)) \/ shown' = shown
      BY <1>8 DEF SendMessage, Becomes
    <2>5. up => posts' = posts \cup {[id |-> n, stage |-> "sent", echo |-> TRUE]}
      BY <1>8 DEF SendMessage, Compose, gateway
    <2> HIDE DEF x, m, n
    <2>6. \A p \in posts : p.id # n
      BY <2>2 DEF PostInv, Posted
    <2>7. ASSUME up, NEW z, z = x PROVE Stands(z)
      <3>1. \A p \in posts' : p.id = n => p.echo
        BY <2>5, <2>6, <2>7
      <3>2. made'[n].by = "me" /\ n \notin Logged' /\ n \in Msgs'
        BY <2>1, <2>2
      <3> QED
        BY <2>3, <2>7, <3>1, <3>2 DEF Stands, Shows, Waits, Mine
    <2>8. \A j \in DOMAIN shown : \A y : y = shown[j] => Stands(y)
      <3>1. made' # made
        BY <2>2 DEF Msgs
      <3> QED
        BY <3>1, <1>k DEF PostAnswered, PostEnded, server, gateway
    <2> QED
      BY <2>3, <2>4, <2>7, <2>8, <1>a, <1>c
  <1>9. ASSUME NEW p \in posts, PostAnswered(p) PROVE AllStand
    <2> DEFINE i == p.id
    <2>1. i \in Logged /\ Posted(p) /\ p \in PostType /\ made[i] \in MadeType /\ i \in Nat
      BY <1>9, <1>o, MadeTyped DEF PostAnswered, PostInv, Posted, ChatTypes
    <2>2. ASSUME NEW y, NEW k \in DOMAIN shown, y = shown[k], y.id = i => ~(Mine(i) /\ Pending(y)) PROVE Stands(y)
      <3>1. \A q \in posts : PostAnswered(q) /\ y.id = q.id => ~(Mine(y.id) /\ Pending(y))
        <4>1. \A q \in posts : PostAnswered(q) => q = p
          BY <1>9 DEF PostAnswered, PostEnded
        <4> QED
          BY <4>1, <2>2
      <3> QED
        BY <2>2, <3>1, <1>s, <1>o
    <2>3. ASSUME NEW y, y.id = i, y.status # "pending" PROVE Stands(y)
      BY <2>1, <2>3, <1>p
    <2>4. ASSUME NEW y, NEW k \in DOMAIN shown, y = shown[k], y.id = i, Mine(i), Pending(y) PROVE p.echo
      BY <2>4, <1>o DEF Shows, Waits
    <2>x. ASSUME NEW w \in BOOLEAN
          PROVE  Line(i, "sent", w) \in LineType /\ \A z : z = Line(i, "sent", w) => Stands(z)
      <3>1. Line(i, "sent", w) \in LineType
        BY <2>1, <1>l
      <3>2. \A z : z = Line(i, "sent", w) => z.id = i /\ z.status # "pending"
        BY DEF Line
      <3> QED
        BY <3>1, <3>2, <2>3
    <2>b. Whole(i) \in BOOLEAN
      BY DEF Whole
    <2>5. CASE p.echo /\ made[i].by # "forward" /\ made[i].kind = "file"
      <3>1. shown' = Confirmed(i)
        BY <1>9, <2>5 DEF PostAnswered, PostEnded, Becomes
      <3>2. /\ DOMAIN shown' = DOMAIN shown
            /\ \A k \in DOMAIN shown : shown'[k] = IF shown[k].id = i THEN Line(i, "sent", Whole(i)) ELSE shown[k]
        BY <3>1, <2>5, FilesConfirmed DEF Edited
      <3>3. \A k \in DOMAIN shown : shown[k].id # i => \A y : y = shown[k] => Stands(y)
        BY <2>2
      <3>4. \A z : z = Line(i, "sent", Whole(i)) => Stands(z)
        BY <2>x, <2>b
      <3> QED
        BY <3>2, <3>3, <3>4 DEF AllStand
    <2>6. CASE p.echo /\ made[i].by # "forward" /\ made[i].kind # "file"
      <3>1. shown' = Upgraded(i)
        BY <1>9, <2>6 DEF PostAnswered, PostEnded, Becomes, Confirmed
      <3>2. /\ DOMAIN shown' = DOMAIN shown
            /\ \A k \in DOMAIN shown : shown'[k] = IF shown[k].id = i /\ shown[k].status = "pending"
                                                   THEN [shown[k] EXCEPT !.status = "sent"] ELSE shown[k]
        BY <3>1, Upgrades DEF Edited
      <3>3. ASSUME NEW k \in DOMAIN shown', NEW y, y = shown'[k] PROVE Stands(y)
        <4>1. PICK z \in LineType : z = shown[k] /\ Shows(z)
          BY <3>2, <3>3, <1>o
        <4>2. CASE z.id = i /\ z.status = "pending"
          <5>1. y = [z EXCEPT !.status = "sent"]
            BY <4>1, <4>2, <3>2, <3>3
          <5>2. y.id = i /\ y.status = "sent"
            BY <5>1, <4>2 DEF LineType
          <5> QED
            BY <5>2, <2>3
        <4>3. CASE ~(z.id = i /\ z.status = "pending")
          <5>1. y = z
            BY <4>1, <4>3, <3>2, <3>3
          <5>2. z.id = i => ~Pending(z)
            BY <4>1, <4>3, <2>6 DEF Shows, Pending
          <5> QED
            BY <5>1, <5>2, <4>1, <2>2, <3>2, <3>3
        <4> QED
          BY <4>2, <4>3
      <3> QED
        BY <3>3 DEF AllStand
    <2>7. CASE ~p.echo \/ made[i].by = "forward"
      <3>e. ~p.echo
        BY <2>1, <2>7 DEF Posted
      <3>1. ASSUME NEW k \in DOMAIN shown, NEW y, y = shown[k] PROVE Stands(y)
        <4>1. y.id = i => ~(Mine(i) /\ Pending(y))
          BY <3>e, <3>1, <2>4
        <4> QED
          BY <4>1, <3>1, <2>2
      <3>2. shown' = shown \/ \E w \in BOOLEAN : shown' = Append(shown, Line(i, "sent", w))
        BY <1>9, <3>e, <2>b DEF PostAnswered, PostEnded, Becomes, Forwarded
      <3> QED
        BY <3>1, <3>2, <2>x, <1>a, <1>c
    <2> QED
      BY <2>5, <2>6, <2>7
  <1>10. ASSUME NEW p \in posts, PostFailed(p) \/ BodyLost(p), ~PostAnswered(p) PROVE AllStand
    <2> DEFINE i == p.id
    <2>1. \A q \in posts : ~PostAnswered(q)
      BY <1>10 DEF PostFailed, BodyLost, PostAnswered, PostEnded
    <2>2. \A k \in DOMAIN shown : \A y : y = shown[k] => Stands(y)
      BY <1>10, <2>1, <1>k DEF PostFailed, BodyLost, Hydrate, PostEnded
    <2>3. i \in Msgs /\ i \in Nat
      BY <1>o DEF PostInv, Posted
    <2>4. CASE PostFailed(p)
      <3>1. shown' = shown \/ (made[i].by = "forward" /\ shown' = Append(shown, Line(i, "sent", TRUE)))
        BY <2>4 DEF PostFailed, PostEnded, Becomes, Forwarded
      <3>2. Line(i, "sent", TRUE) \in LineType
        BY <2>3, <1>l
      <3>3. ASSUME made[i].by = "forward", NEW z, z = Line(i, "sent", TRUE) PROVE Stands(z)
        <4>1. z.id = i /\ z.whole /\ z.status = "sent" /\ i \in Msgs' /\ made'[i].by = "forward"
          BY <3>3, <2>3, <1>o DEF Line
        <4> QED
          BY <4>1 DEF Stands, Shows, Pending
      <3> QED
        BY <3>1, <3>2, <3>3, <2>2, <1>a, <1>c
    <2>5. CASE BodyLost(p)
      <3>1. /\ DOMAIN shown' = DOMAIN shown /\ i \in Logged
            /\ \A k \in DOMAIN shown : shown'[k] = IF shown[k].id = i /\ shown[k].status = "pending"
                                                   THEN [shown[k] EXCEPT !.status = "sent"] ELSE shown[k]
        BY <2>5, Upgrades DEF BodyLost, PostEnded, Becomes, Edited, PostInv, Posted
      <3>2. ASSUME NEW z \in LineType, z.id = i, z.status = "pending", Stands(z), NEW y, y = [z EXCEPT !.status = "sent"]
            PROVE  Stands(y)
        <4>1. y.id = z.id /\ y.whole = z.whole /\ y.status = "sent"
          BY <3>2 DEF LineType
        <4>2. Pending(z)' /\ i \in Logged'
          BY <3>1, <3>2, <1>o DEF Pending
        <4> QED
          BY <4>1, <4>2, <3>2 DEF Stands, Shows
      <3>3. ASSUME NEW k \in DOMAIN shown', NEW y, y = shown'[k] PROVE Stands(y)
        <4>1. PICK z \in LineType : z = shown[k]
          BY <3>1, <3>3, <1>o
        <4>2. Stands(z)
          BY <4>1, <3>1, <3>3, <2>2
        <4>3. y = z \/ (z.id = i /\ z.status = "pending" /\ y = [z EXCEPT !.status = "sent"])
          BY <4>1, <3>1, <3>3
        <4> QED
          BY <4>2, <4>3, <3>2
      <3> QED
        BY <3>3 DEF AllStand
    <2> QED
      BY <1>10, <2>4, <2>5
  <1>11. ASSUME \/ Others
                \/ \E i \in finds : Found(i)
                \/ \E l \in loads : ReadLoad(l)
                \/ \E p \in posts : PostTaken(p)
                \/ \E c \in Convs : CreateConversation(c)
                \/ \E up \in BOOLEAN, c \in Convs : ForwardMessage(c, up)
                \/ UNCHANGED chatVars
         PROVE shown' = shown
    BY <1>11 DEF chatVars, Others, PeerReads, PeerComposes, PeerPosted, LinkFiles, Publish, LoseEvent, Found, ReadLoad,
           PostTaken, CreateConversation, ForwardMessage, view, gateway
  <1>12. ASSUME shown' = shown, \A p \in posts : ~PostAnswered(p) PROVE AllStand
    BY <1>12, <1>k, <1>c
  <1>13. AllStand
    BY <1>1, <1>2, <1>3, <1>4, <1>5, <1>6, <1>7, <1>8, <1>9, <1>10, <1>11, <1>12, <1>n DEF ChatNext, Arrivals, User
  <1> QED
    BY <1>13, <1>i

(***************************************************************************)
(* The files of what is on screen.                                         *)
(***************************************************************************)
LEMMA StillLacks ==
    ASSUME ChatTypes, LogInv, PostInv, Grows, [ChatNext]_chatVars,
           NEW y, y.id \in Msgs, Lacks(y), y.id \in hydrates \cup early => y.id \in hydrates' \cup early',
           \A p \in posts : PostAnswered(p) /\ p.id = y.id => ~Waits(y.id) \/ y.whole
    PROVE  Lacks(y)'
  <1>1. made'[y.id] = made[y.id] /\ (lossless' => lossless)
    BY LostForGood DEF Grows
  <1>2. ~y.whole /\ Waits(y.id) => Waits(y.id)'
    BY StillWaits
  <1> QED
    BY <1>1, <1>2 DEF Lacks

\* Each line without files on screen waits for them, or was left so by an early read.
LEMMA FilesStep ==
    ASSUME ChatTypes, LogInv, GateInv, WireInv, PostInv, LoadInv, LineInv, FilesInv, Grows, [ChatNext]_chatVars
    PROVE  FilesInv'
  <1> DEFINE Has(y) == Lacks(y)'
             AllHave == \A k \in DOMAIN shown' : \A y : y = shown'[k] => Has(y)
             OldHave == \A k \in DOMAIN shown : \A y : y = shown[k] => Has(y)
  <1>i. AllHave => FilesInv'
    BY DEF FilesInv, Lacks, Waits, Awaited
  <1>o. /\ \A k \in DOMAIN shown : shown[k] \in LineType /\ shown[k].id \in Msgs /\ Lacks(shown[k])
        /\ \A k \in DOMAIN shown : shown[k].id \in OnScreen
        /\ shown \in Seq(LineType)
    BY LinesTyped DEF LineInv, Shows, FilesInv, OnScreen, ChatTypes
  <1>m. \A i \in Msgs : /\ i \in Nat /\ (~Whole(i) => made[i].kind = "file") /\ Whole(i) \in BOOLEAN
                        /\ made[i].kind # "text" => made[i].kind = "file"
    BY MadeTyped DEF Whole, MadeType, Kinds
  <1>g. \A i \in Msgs : made'[i] = made[i]
    BY DEF Grows
  <1>l. lossless' => lossless
    BY LostForGood
  <1>n. shown' = <<>> => AllHave
    OBVIOUS
  <1>s. ASSUME NEW k \in DOMAIN shown, NEW y, y = shown[k],
               y.id \in hydrates \cup early => y.id \in hydrates' \cup early',
               \A p \in posts : PostAnswered(p) /\ p.id = y.id => ~Waits(y.id) \/ y.whole
        PROVE  Has(y)
    BY <1>s, <1>o, StillLacks
  <1>w. ASSUME NEW y, y.whole PROVE Has(y)
    BY <1>w DEF Lacks
  <1>c. ASSUME NEW z, NEW y, y.id = z.id, y.whole = z.whole, Has(z) PROVE Has(y)
    BY <1>c DEF Lacks
  <1>x. ASSUME NEW i \in Msgs, NEW y, y.id = i, y.whole <=> Whole(i), i \in Logged \ handled PROVE Has(y)
    BY <1>x, <1>m, <1>g, <1>l DEF Lacks, GateInv
  <1>d. ASSUME NEW i \in Nat, NEW s \in {"pending", "sent", "read"}, NEW w \in BOOLEAN, NEW y, y = Line(i, s, w)
        PROVE  y \in LineType /\ y.id = i /\ (y.whole <=> w)
    BY <1>d, NewLine
  <1> HIDE DEF Has
  <1>a. ASSUME NEW x \in LineType, shown' = Append(shown, x), \A z : z = x => Has(z), OldHave PROVE AllHave
    <2> SUFFICES ASSUME NEW k \in DOMAIN shown', NEW y, y = shown'[k] PROVE Has(y)
      OBVIOUS
    <2>1. (k \in DOMAIN shown /\ y = shown[k]) \/ y = x
      BY <1>a, <1>o, AppendedTo
    <2> QED
      BY <2>1, <1>a
  <1>e. ASSUME Edited(shown'), OldHave, \A k \in DOMAIN shown : shown'[k].whole = shown[k].whole PROVE AllHave
    <2> SUFFICES ASSUME NEW k \in DOMAIN shown, NEW y, y = shown'[k], NEW z, z = shown[k] PROVE Has(y)
      BY <1>e DEF Edited
    <2>1. y.id = z.id /\ y.whole = z.whole /\ Has(z)
      BY <1>e DEF Edited
    <2> QED
      BY <2>1, <1>c
  <1>k. ASSUME \A p \in posts : ~PostAnswered(p), hydrates \subseteq hydrates',
               \A i \in early \cap OnScreen : i \in early'
        PROVE  OldHave
    BY <1>k, <1>s, <1>o
  <1>u. shown' = shown /\ OldHave => AllHave
    OBVIOUS
  <1> HIDE DEF AllHave, OldHave
  <1>1. ASSUME NEW i \in Msgs, OnStanza(i) PROVE AllHave
    <2> DEFINE x == Line(i, "sent", made[i].kind = "text")
    <2>1. \/ shown' = shown
          \/ /\ shown' = Append(shown, x)
             /\ made[i].kind = "file" => i \in hydrates'
      BY <1>1 DEF OnStanza, Arrives, Becomes
    <2>2. x \in LineType /\ x.id = i /\ (x.whole <=> made[i].kind = "text")
      BY <1>m DEF Line, LineType
    <2> HIDE DEF x
    <2>3. ASSUME made[i].kind = "file" => i \in hydrates', NEW z, z = x PROVE Has(z)
      <3>1. ~z.whole => made'[i].kind = "file"
        BY <2>2, <2>3, <1>m, <1>g
      <3> QED
        BY <2>2, <2>3, <3>1, <1>g DEF Has, Lacks
    <2>4. OldHave
      <3>1. posts' = posts /\ hydrates \subseteq hydrates' /\ \A j \in early \cap OnScreen : j \in early'
        BY <1>1 DEF OnStanza, Arrives
      <3> QED
        BY <3>1, <1>k DEF PostAnswered, PostEnded
    <2> QED
      BY <2>1, <2>2, <2>3, <2>4, <1>a, <1>u
  <1>2. ASSUME OnChatMessage PROVE AllHave
    <2> DEFINE i == Head(events).id
               x == Line(i, "sent", Whole(i))
    <2>1. i \in Logged \ handled /\ i \in Msgs
      <3>1. Head(events) = events[1] /\ 1 \in DOMAIN events
        BY <1>2, TailOf DEF OnChatMessage, ChatTypes
      <3>2. Carried(Head(events))
        BY <3>1 DEF WireInv
      <3> QED
        BY <3>2, <1>2 DEF OnChatMessage, Carried, Logged
    <2>2. shown' = shown \/ shown' = Append(shown, x)
      BY <1>2 DEF OnChatMessage, Arrives, Becomes
    <2> HIDE DEF i
    <2>3. x \in LineType /\ x.id = i /\ (x.whole <=> Whole(i))
      BY <2>1, <1>d, <1>m
    <2> HIDE DEF x
    <2>4. OldHave
      <3>1. posts' = posts /\ hydrates' = hydrates /\ \A j \in early \cap OnScreen : j \in early'
        BY <1>2 DEF OnChatMessage, Arrives
      <3> QED
        BY <3>1, <1>k DEF PostAnswered, PostEnded
    <2>5. \A z : z = x => Has(z)
      BY <2>1, <2>3, <1>x
    <2> QED
      BY <2>2, <2>3, <2>4, <2>5, <1>a, <1>u
  <1>3. ASSUME OnMessageRead \/ \E i \in Msgs : OnReceipt(i) PROVE AllHave
    <2>1. OldHave
      <3>1. posts' = posts /\ hydrates' = hydrates /\ early' = early
        BY <1>3 DEF OnMessageRead, OnReceipt, asked, marks
      <3> QED
        BY <3>1, <1>k DEF PostAnswered, PostEnded
    <2>2. shown' = shown \/ (Edited(shown') /\ \A k \in DOMAIN shown : shown'[k].whole = shown[k].whole)
      <3>1. \A z \in LineType, s \in {"read", "delivered"} : [z EXCEPT !.status = s].whole = z.whole
        BY DEF LineType
      <3>2. ASSUME OnMessageRead, active = Head(events).conv
            PROVE  Edited(shown') /\ \A k \in DOMAIN shown : shown'[k].whole = shown[k].whole
        BY <3>1, <3>2, <1>o, ReadMarks
      <3>3. ASSUME NEW i \in Msgs, OnReceipt(i)
            PROVE  Edited(shown') /\ \A k \in DOMAIN shown : shown'[k].whole = shown[k].whole
        BY <3>1, <3>3, <1>o, Receipts
      <3> QED
        BY <1>3, <3>2, <3>3 DEF OnMessageRead
    <2> QED
      BY <2>1, <2>2, <1>e, <1>u
  <1>4. ASSUME NEW i \in Msgs, Hydrate(i) PROVE AllHave
    <2>1. /\ posts' = posts /\ hydrates' = hydrates \ {i} /\ \A j \in early : j = i \/ j \in early'
          /\ ~Whole(i) /\ i \in OnScreen => i \in early'
      BY <1>4 DEF Hydrate
    <2>2. ASSUME NEW k \in DOMAIN shown, NEW y, y = shown[k], y.id # i \/ ~Whole(i) PROVE Has(y)
      <3>1. y.id \in hydrates \cup early => y.id \in hydrates' \cup early'
        BY <2>1, <2>2, <1>o
      <3> QED
        BY <2>1, <2>2, <3>1, <1>s DEF PostAnswered, PostEnded
    <2>3. CASE i \notin Logged
      <3>1. shown' = shown
        BY <1>4, <2>3 DEF Hydrate
      <3>2. ASSUME NEW k \in DOMAIN shown, NEW y, y = shown[k], y.id = i, Whole(i) PROVE Has(y)
        <4>1. made[i].kind = "text"
          BY <2>3, <3>2 DEF Whole, GateInv
        <4>2. y.whole
          BY <3>2, <4>1, <1>o DEF Lacks, LineType
        <4> QED
          BY <4>2, <1>w
      <3> QED
        BY <3>1, <3>2, <2>2 DEF AllHave
    <2>4. CASE i \in Logged
      <3>1. /\ DOMAIN shown' = DOMAIN shown /\ Status(i) \in {"sent", "read"}
            /\ \A k \in DOMAIN shown : shown'[k] = IF shown[k].id = i THEN Line(i, Status(i), Whole(i)) ELSE shown[k]
        BY <1>4, <2>4, FilesFetched DEF Edited
      <3>2. ASSUME NEW y, y = Line(i, Status(i), Whole(i)), NEW k \in DOMAIN shown, shown[k].id = i PROVE Has(y)
        <4>1. y.id = i /\ (y.whole <=> Whole(i)) /\ i \in OnScreen
          BY <3>1, <3>2, <1>d, <1>m, <1>o
        <4> QED
          BY <4>1, <2>1, <1>m, <1>g DEF Has, Lacks
      <3> QED
        BY <3>1, <3>2, <2>2 DEF AllHave
    <2> QED
      BY <2>3, <2>4
  <1>5. ASSUME Back \/ \E c \in Convs : Select(c) PROVE shown' = <<>>
    BY <1>5 DEF Back, Select, Becomes
  <1>6. ASSUME NEW l \in loads, ApplyLoad(l) \/ FailLoad(l) PROVE AllHave
    <2>1. shown' = <<>> \/ (shown' = l.has /\ l.read)
      BY <1>6 DEF ApplyLoad, FailLoad, Loaded, Becomes
    <2>2. CASE shown' = l.has /\ l.read
      <3>1. early' = {shown'[k].id : k \in {j \in DOMAIN shown' : ~shown'[j].whole}}
        BY <1>6, <2>2 DEF ApplyLoad, FailLoad, Loaded, Becomes
      <3>2. ASSUME NEW k \in DOMAIN shown', NEW y, y = shown'[k], ~y.whole
            PROVE  y.id \in early' /\ made'[y.id].kind = "file"
        BY <2>2, <3>1, <3>2, <1>g DEF LoadInv, Fetched, Of
      <3> QED
        BY <3>2 DEF AllHave, Has, Lacks
    <2> QED
      BY <2>1, <2>2, <1>n
  <1>7. ASSUME NEW up \in BOOLEAN, NEW k \in Kinds, SendMessage(k, up) PROVE AllHave
    <2> DEFINE n == Len(made) + 1
               x == Line(n, "pending", k = "text")
               m == [conv |-> active, by |-> "me", kind |-> k]
    <2>1. m \in MadeType /\ m.by = "me" /\ m.kind = k
      BY <1>7 DEF SendMessage, ChatTypes, MadeType
    <2>2. n \in Nat /\ n \notin Msgs /\ made'[n] = m /\ n \notin Logged'
      BY <1>7, <2>1, Composed DEF SendMessage, Compose, gateway
    <2>3. x \in LineType /\ x.id = n /\ (x.whole <=> k = "text")
      BY <2>2 DEF Line, LineType
    <2>4. (up /\ shown' = Append(shown, x)) \/ shown' = shown
      BY <1>7 DEF SendMessage, Becomes
    <2>5. up => posts' = posts \cup {[id |-> n, stage |-> "sent", echo |-> TRUE]}
      BY <1>7 DEF SendMessage, Compose
    <2>a. hydrates' = hydrates /\ early' = early /\ posts \subseteq posts'
      BY <1>7 DEF SendMessage, Compose
    <2> HIDE DEF x, m, n
    <2>6. \A p \in posts : p.id # n
      BY <2>2 DEF PostInv, Posted
    <2>7. ASSUME up, NEW z, z = x PROVE Has(z)
      <3>1. \A p \in posts' : p.id = n => p.echo
        BY <2>5, <2>6, <2>7
      <3>2. Waits(z.id)'
        BY <2>1, <2>2, <2>3, <2>7, <3>1 DEF Waits
      <3> QED
        BY <2>1, <2>2, <2>3, <2>7, <3>2 DEF Has, Lacks, Kinds
    <2>8. OldHave
      BY <2>a, <1>k DEF PostAnswered, PostEnded
    <2> QED
      BY <2>3, <2>4, <2>7, <2>8, <1>a, <1>u
  <1>8. ASSUME NEW p \in posts, PostAnswered(p) PROVE AllHave
    <2> DEFINE i == p.id
    <2>1. i \in Logged \ handled /\ i \in Msgs /\ i \in Nat /\ Posted(p) /\ Whole(i) \in BOOLEAN
      BY <1>8, <1>m DEF PostAnswered, PostInv, Posted
    <2>2. ASSUME NEW y, NEW k \in DOMAIN shown, y = shown[k], y.id = i => ~Waits(i) \/ y.whole PROVE Has(y)
      <3>1. \A q \in posts : PostAnswered(q) => q = p
        BY <1>8 DEF PostAnswered, PostEnded
      <3>2. hydrates' = hydrates /\ early' = early
        BY <1>8 DEF PostAnswered, PostEnded
      <3> QED
        BY <2>2, <3>1, <3>2, <1>s
    <2>3. ASSUME NEW y, y.id = i, y.whole <=> Whole(i) PROVE Has(y)
      BY <2>1, <2>3, <1>x
    <2>4. CASE p.echo /\ made[i].by # "forward" /\ made[i].kind = "file"
      <3>1. shown' = Confirmed(i)
        BY <1>8, <2>4 DEF PostAnswered, PostEnded, Becomes
      <3>2. /\ DOMAIN shown' = DOMAIN shown
            /\ \A k \in DOMAIN shown : shown'[k] = IF shown[k].id = i THEN Line(i, "sent", Whole(i)) ELSE shown[k]
        BY <3>1, <2>4, FilesConfirmed DEF Edited
      <3>3. \A z : z = Line(i, "sent", Whole(i)) => Has(z)
        BY <2>1, <2>3, <1>d
      <3>4. \A k \in DOMAIN shown : shown[k].id # i => \A y : y = shown[k] => Has(y)
        BY <2>2
      <3> QED
        BY <3>2, <3>3, <3>4 DEF AllHave
    <2>5. CASE ~(p.echo /\ made[i].by # "forward" /\ made[i].kind = "file")
      <3>1. ASSUME NEW k \in DOMAIN shown, shown[k].id = i PROVE ~Waits(i) \/ shown[k].whole
        BY <2>1, <2>5, <3>1, <1>o DEF Waits, Lacks, Posted
      <3>2. OldHave
        BY <3>1, <2>2 DEF OldHave
      <3>3. CASE p.echo /\ made[i].by # "forward"
        <4>1. shown' = Upgraded(i)
          BY <1>8, <2>5, <3>3 DEF PostAnswered, PostEnded, Becomes, Confirmed
        <4>2. /\ Edited(shown')
              /\ \A k \in DOMAIN shown : shown'[k] = IF shown[k].id = i /\ shown[k].status = "pending"
                                                     THEN [shown[k] EXCEPT !.status = "sent"] ELSE shown[k]
          BY <4>1, Upgrades
        <4>3. \A z \in LineType : [z EXCEPT !.status = "sent"].whole = z.whole
          BY DEF LineType
        <4> QED
          BY <4>2, <4>3, <3>2, <1>e, <1>o
      <3>4. CASE ~(p.echo /\ made[i].by # "forward")
        <4>1. \/ shown' = shown \/ shown' = Append(shown, Line(i, "sent", TRUE))
              \/ shown' = Append(shown, Line(i, "sent", Whole(i)))
          <5>1. ~p.echo
            BY <2>1, <3>4 DEF Posted
          <5> QED
            BY <1>8, <5>1 DEF PostAnswered, PostEnded, Becomes, Forwarded
        <4>2. Line(i, "sent", TRUE) \in LineType /\ \A z : z = Line(i, "sent", TRUE) => Has(z)
          BY <2>1, <1>d, <1>w
        <4>3. Line(i, "sent", Whole(i)) \in LineType /\ \A z : z = Line(i, "sent", Whole(i)) => Has(z)
          BY <2>1, <2>3, <1>d
        <4> QED
          BY <4>1, <4>2, <4>3, <3>2, <1>a, <1>u
      <3> QED
        BY <3>3, <3>4
    <2> QED
      BY <2>4, <2>5
  <1>9. ASSUME NEW p \in posts, PostFailed(p) \/ BodyLost(p), ~PostAnswered(p) PROVE AllHave
    <2> DEFINE i == p.id
    <2>1. OldHave
      <3>1. \A q \in posts : ~PostAnswered(q)
        BY <1>9 DEF PostFailed, BodyLost, PostAnswered, PostEnded
      <3>2. hydrates' = hydrates /\ early' = early
        BY <1>9 DEF PostFailed, BodyLost, PostEnded
      <3> QED
        BY <3>1, <3>2, <1>k
    <2>2. i \in Nat
      BY <1>m DEF PostInv, Posted
    <2>3. CASE PostFailed(p)
      <3>1. shown' = shown \/ shown' = Append(shown, Line(i, "sent", TRUE))
        BY <2>3 DEF PostFailed, PostEnded, Becomes, Forwarded
      <3>2. Line(i, "sent", TRUE) \in LineType /\ \A z : z = Line(i, "sent", TRUE) => Has(z)
        BY <2>2, <1>d, <1>w
      <3> QED
        BY <3>1, <3>2, <2>1, <1>a, <1>u
    <2>4. CASE BodyLost(p)
      <3>1. /\ Edited(shown')
            /\ \A k \in DOMAIN shown : shown'[k] = IF shown[k].id = i /\ shown[k].status = "pending"
                                                   THEN [shown[k] EXCEPT !.status = "sent"] ELSE shown[k]
        BY <2>4, Upgrades DEF BodyLost, PostEnded, Becomes
      <3>2. \A z \in LineType : [z EXCEPT !.status = "sent"].whole = z.whole
        BY DEF LineType
      <3> QED
        BY <3>1, <3>2, <2>1, <1>e, <1>o
    <2> QED
      BY <1>9, <2>3, <2>4
  <1>10. ASSUME \/ Others
                \/ \E i \in finds : Found(i)
                \/ \E l \in loads : ReadLoad(l)
                \/ \E p \in posts : PostTaken(p)
                \/ \E c \in Convs : CreateConversation(c)
                \/ UNCHANGED chatVars
         PROVE  shown' = shown /\ hydrates' = hydrates /\ early' = early
    BY <1>10 DEF chatVars, Others, PeerReads, PeerComposes, PeerPosted, LinkFiles, Publish, LoseEvent, Found, ReadLoad,
           PostTaken, CreateConversation, view, asked, marks
  <1>11. ASSUME NEW up \in BOOLEAN, NEW c \in Convs, ForwardMessage(c, up)
         PROVE  shown' = shown /\ hydrates' = hydrates /\ early' = early
    BY <1>11 DEF ForwardMessage, Compose
  <1>12. ASSUME shown' = shown, hydrates' = hydrates, early' = early, \A p \in posts : ~PostAnswered(p) PROVE AllHave
    BY <1>12, <1>k, <1>u
  <1>13. AllHave
    BY <1>1, <1>2, <1>3, <1>4, <1>5, <1>6, <1>7, <1>8, <1>9, <1>10, <1>11, <1>12, <1>n DEF ChatNext, Arrivals, User
  <1> QED
    BY <1>13, <1>i DEF AllHave, Has

(***************************************************************************)
(* The view.                                                               *)
(***************************************************************************)
LEMMA ScreenAfter ==
    ASSUME ChatTypes
    PROVE  /\ \A x \in LineType : shown' = Append(shown, x) => OnScreen' = OnScreen \cup {x.id}
           /\ Edited(shown') => OnScreen' = OnScreen /\ (shown = <<>> => shown' = <<>>)
           /\ shown' = shown => OnScreen' = OnScreen
           /\ shown' = <<>> => OnScreen' = {}
  <1>1. ASSUME NEW x \in LineType, shown' = Append(shown, x) PROVE OnScreen' = OnScreen \cup {x.id}
    <2>1. shown \in Seq(LineType)
      BY DEF ChatTypes
    <2>2. /\ \A k \in DOMAIN shown : k \in DOMAIN shown' /\ shown'[k] = shown[k]
          /\ \A k \in DOMAIN shown' : k \in DOMAIN shown \/ (k = Len(shown) + 1 /\ shown'[k] = x)
          /\ Len(shown) + 1 \in DOMAIN shown' /\ shown'[Len(shown) + 1] = x
      BY <1>1, <2>1, AppendedTo
    <2> QED
      BY <2>2 DEF OnScreen
  <1>2. ASSUME Edited(shown') PROVE OnScreen' = OnScreen /\ (shown = <<>> => shown' = <<>>)
    <2>1. OnScreen' = OnScreen
      BY <1>2 DEF Edited, OnScreen
    <2>2. shown = <<>> => shown' = <<>>
      BY <1>2 DEF Edited
    <2> QED
      BY <2>1, <2>2
  <1>3. shown' = shown => OnScreen' = OnScreen
    BY DEF OnScreen
  <1>4. shown' = <<>> => OnScreen' = {}
    BY DEF OnScreen
  <1> QED
    BY <1>1, <1>2, <1>3, <1>4

LEMMA EventsAfter ==
    ASSUME ChatTypes
    PROVE  /\ \A e \in WireType : events' = Append(events, e) =>
                  /\ \A i : Announced(i) => Announced(i)'
                  /\ e.type = "chat_message" => Announced(e.id)'
           /\ events # <<>> /\ events' = Tail(events) =>
                  \A i : Announced(i) => Announced(i)' \/ (Head(events).type = "chat_message" /\ Head(events).id = i)
           /\ events' = events => \A i : Announced(i) => Announced(i)'
  <1>e. events \in Seq(WireType)
    BY DEF ChatTypes
  <1>1. ASSUME NEW e \in WireType, events' = Append(events, e)
        PROVE  /\ \A i : Announced(i) => Announced(i)'
               /\ e.type = "chat_message" => Announced(e.id)'
    <2>1. /\ \A k \in DOMAIN events : k \in DOMAIN events' /\ events'[k] = events[k]
          /\ Len(events) + 1 \in DOMAIN events' /\ events'[Len(events) + 1] = e
      BY <1>1, <1>e, AppendedTo
    <2> QED
      BY <2>1 DEF Announced
  <1>2. ASSUME events # <<>>, events' = Tail(events), NEW i, Announced(i)
        PROVE  Announced(i)' \/ (Head(events).type = "chat_message" /\ Head(events).id = i)
    <2>1. PICK k \in DOMAIN events : events[k].type = "chat_message" /\ events[k].id = i
      BY <1>2 DEF Announced
    <2>2. CASE k = 1
      BY <1>2, <1>e, <2>1, <2>2, TailOf
    <2>3. CASE k # 1
      <3>1. k - 1 \in DOMAIN events' /\ events'[k - 1] = events[k]
        BY <1>2, <1>e, <2>3, TailOf
      <3> QED
        BY <2>1, <3>1 DEF Announced
    <2> QED
      BY <2>2, <2>3
  <1>3. events' = events => \A i : Announced(i) => Announced(i)'
    BY DEF Announced
  <1> QED
    BY <1>1, <1>2, <1>3

\* The view has, or will have, what is stored in the conversation.
LEMMA ViewStep ==
    ASSUME ChatTypes, ChatTypes', LogInv, GateInv, WireInv, PostInv, LoadInv, LineInv, ViewInv, Grows, [ChatNext]_chatVars
    PROVE  ViewInv'
  <1> SUFFICES ASSUME hasty' = FALSE, active' # NoConv PROVE ViewInv'
    BY DEF ViewInv, ChatTypes
  <1>o. \A i \in Msgs : i \in Nat /\ i \in Msgs' /\ made'[i] = made[i]
    BY MadeTyped DEF Grows
  <1>f. \A i : /\ i \in Of(active)' <=> i \in Msgs' /\ made'[i].conv = active'
               /\ i \in Of(active) <=> i \in Msgs /\ made[i].conv = active
    BY DEF Of
  <1>m. Logged \subseteq Msgs /\ Logged' \subseteq Msgs' /\ OnScreen \subseteq Msgs
    BY DEF Logged, OnScreen, LineInv, Shows
  <1>p. \A p \in posts : p.id \in Msgs
    BY DEF PostInv, Posted
  <1>r. ASSUME NEW i \in Msgs, Sent(i) = events'
        PROVE  Announced(i)' /\ \A j : Announced(j) => Announced(j)'
    <2> DEFINE e == [type |-> "chat_message", id |-> i, conv |-> made[i].conv]
    <2>1. e \in WireType /\ e.id = i /\ e.type = "chat_message"
      BY MadeTyped DEF WireType
    <2>2. events' = Append(events, e)
      BY <1>r DEF Sent
    <2> HIDE DEF e
    <2> QED
      BY <2>1, <2>2, EventsAfter
  <1>h. \A i \in handled : i \in handled' \/ Announced(i)'
    <2>1. ASSUME NEW i \in handled, Publish(i) PROVE handled' = handled \ {i} /\ Announced(i)'
      <3>1. i \in Msgs /\ Sent(i) = events'
        BY <2>1, <1>m DEF Publish, GateInv
      <3> QED
        BY <2>1, <3>1, <1>r DEF Publish
    <2>2. (\E i \in handled : Publish(i)) \/ handled \subseteq handled'
      BY DEF ChatNext, Others, Arrivals, User, PeerReads, PeerComposes, PeerPosted, Insert, LinkFiles, LoseEvent,
             OnStanza, OnReceipt, Hydrate, OnChatMessage, OnMessageRead, Found, ReadLoad, ApplyLoad, FailLoad, Loaded,
             PostTaken, PostAnswered, PostFailed, BodyLost, PostEnded, Back, Select, CreateConversation, SendMessage,
             ForwardMessage, Compose, chatVars, server, gateway
    <2> QED
      BY <2>1, <2>2
  <1>v. ~hasty /\ active # NoConv =>
           /\ OnScreen \subseteq Of(active)
           /\ \A l \in loads : l.conv = active /\ shown = <<>> /\ \A m \in loads : m = l
           /\ \A p \in posts : made[p.id].by = "me" /\ ~p.echo => made[p.id].conv = active
           /\ lossless => \A i \in Of(active) \cap Logged :
                             i \in OnScreen \/ Announced(i) \/ i \in handled \/ \E l \in loads : Brings(l, i)
    BY DEF ViewInv
  <1>w. ASSUME OnScreen' \subseteq Of(active)',
               \A l \in loads' : l.conv = active' /\ shown' = <<>> /\ \A m \in loads' : m = l,
               \A p \in posts' : made'[p.id].by = "me" /\ ~p.echo => made'[p.id].conv = active',
               lossless' => \A i \in Of(active)' \cap Logged' :
                               i \in OnScreen' \/ Announced(i)' \/ i \in handled' \/ \E l \in loads' : Brings(l, i)
        PROVE  ViewInv'
    BY <1>w DEF ViewInv
  <1>g. ASSUME active' = active, ~hasty, loads' = loads,
               OnScreen \subseteq OnScreen', \A i \in OnScreen' : i \in OnScreen \/ (i \in Msgs' /\ made'[i].conv = active),
               loads # {} /\ shown = <<>> => shown' = <<>>,
               \A p \in posts' : \/ made'[p.id].by # "me" \/ p.echo \/ made'[p.id].conv = active
                                 \/ \E q \in posts : q.id = p.id /\ q.echo = p.echo,
               \A i \in Logged' : i \in Logged \/ Announced(i)' \/ i \in handled',
               lossless' => lossless /\ \A i \in Of(active) : Announced(i) => Announced(i)' \/ i \in OnScreen'
        PROVE  ViewInv'
    <2>1. OnScreen' \subseteq Of(active)'
      BY <1>g, <1>o, <1>f, <1>v
    <2>2. \A l \in loads' : l.conv = active' /\ shown' = <<>> /\ \A m \in loads' : m = l
      BY <1>g, <1>v
    <2>3. \A p \in posts' : made'[p.id].by = "me" /\ ~p.echo => made'[p.id].conv = active'
      BY <1>g, <1>o, <1>p, <1>v
    <2>4. lossless' => \A i \in Of(active)' \cap Logged' :
                               i \in OnScreen' \/ Announced(i)' \/ i \in handled' \/ \E l \in loads' : Brings(l, i)
      <3> SUFFICES ASSUME lossless', NEW i \in Of(active)' \cap Logged', i \in Logged
                   PROVE  i \in OnScreen' \/ Announced(i)' \/ i \in handled' \/ \E l \in loads' : Brings(l, i)
        BY <1>g
      <3>1. i \in Of(active)
        BY <1>g, <1>o, <1>f, <1>m
      <3> QED
        BY <3>1, <1>g, <1>h, <1>v
    <2> QED
      BY <2>1, <2>2, <2>3, <2>4, <1>w
  <1>l. lossless' => lossless
    BY LostForGood
  <1>s. ASSUME active' = active, hasty' = hasty, loads' = loads, posts' = posts, OnScreen' = OnScreen,
               shown = <<>> => shown' = <<>>,
               \A i \in Logged' : i \in Logged \/ Announced(i)' \/ i \in handled',
               lossless' => \A i : Announced(i) => Announced(i)'
        PROVE  ViewInv'
    BY <1>s, <1>g, <1>l
  <1>e. /\ events' = events => \A i : Announced(i) => Announced(i)'
        /\ made' = made /\ log' = log => Logged' = Logged
        /\ shown' = shown => OnScreen' = OnScreen
    BY EventsAfter, ScreenAfter, Kept
  <1>x. \A i \in Nat, s \in {"pending", "sent"}, w \in BOOLEAN : Line(i, s, w) \in LineType /\ Line(i, s, w).id = i
    BY NewLine
  <1>1. ASSUME NEW c \in Convs, NEW k \in Kinds, PeerComposes(c, k) PROVE ViewInv'
    <2>1. [conv |-> c, by |-> "peer", kind |-> k] \in MadeType
      BY DEF MadeType
    <2>2. Logged' = Logged
      BY <1>1, <2>1, Composed DEF PeerComposes, gateway
    <2> QED
      BY <1>1, <2>2, <1>e, <1>s DEF PeerComposes, view, asked, marks, gateway
  <1>2. ASSUME NEW i \in Msgs, i \notin Logged, made' = made, Insert(i)
        PROVE  /\ Logged' = Logged \cup {i} /\ (Announced(i)' \/ i \in handled')
               /\ handled \subseteq handled' /\ \A j : Announced(j) => Announced(j)'
    <2>1. Logged' = Logged \cup {i}
      BY <1>2, Stored DEF Insert
    <2> QED
      BY <1>2, <2>1, <1>r, <1>e DEF Insert
  <1>20. ASSUME NEW i \in handled, Publish(i) PROVE ViewInv'
    <2>1. i \in Msgs /\ handled' = handled \ {i} /\ Sent(i) = events' /\ Logged' = Logged
      BY <1>20, <1>m, Kept DEF Publish, GateInv
    <2>2. Announced(i)' /\ \A j : Announced(j) => Announced(j)'
      BY <2>1, <1>r
    <2> QED
      BY <1>20, <2>1, <2>2, <1>e, <1>s DEF Publish, view, asked
  <1>21. ASSUME NEW i \in handled, LinkFiles(i) PROVE ViewInv'
    BY <1>21, <1>e, <1>s DEF LinkFiles, links, view, asked, marks
  <1>3. ASSUME NEW i \in Msgs, PeerPosted(i) PROVE ViewInv'
    BY <1>3, <1>2, <1>e, <1>s DEF PeerPosted, view, asked, marks
  <1>4. ASSUME NEW p \in posts, PostTaken(p) PROVE ViewInv'
    <2> DEFINE x == [p EXCEPT !.stage = "taken"]
    <2>1. p \in PostType /\ p.id \in Msgs /\ p.id \notin Logged
      BY <1>4 DEF ChatTypes, PostTaken, PostInv, Posted
    <2>2. x.id = p.id /\ x.echo = p.echo /\ posts' = (posts \ {p}) \cup {x}
      BY <1>4, <2>1 DEF PostTaken, PostType
    <2>3. /\ Logged' = Logged \cup {p.id} /\ (Announced(p.id)' \/ p.id \in handled') /\ \A j : Announced(j) => Announced(j)'
          /\ active' = active /\ shown' = shown /\ hasty' = hasty /\ loads' = loads
      BY <1>4, <2>1, <1>2 DEF PostTaken, view, marks
    <2> HIDE DEF x
    <2>4. \A q \in posts' : \E r \in posts : r.id = q.id /\ r.echo = q.echo
      BY <2>2
    <2> QED
      BY <2>3, <2>4, <1>g, <1>e, <1>l
  <1>5. ASSUME NEW c \in Convs, PeerReads(c) PROVE ViewInv'
    <2>1. [type |-> "message_read", id |-> 0, conv |-> c] \in WireType
      BY DEF WireType
    <2>2. \A i : Announced(i) => Announced(i)'
      BY <1>5, <2>1, EventsAfter DEF PeerReads, gateway
    <2> QED
      BY <1>5, <2>2, <1>e, <1>s DEF PeerReads, view, asked, marks, gateway
  <1>6. ASSUME LoseEvent PROVE ViewInv'
    BY <1>6, <1>e, <1>s DEF LoseEvent, server, gateway, view, asked
  <1>7. ASSUME NEW i \in Msgs, OnStanza(i) PROVE ViewInv'
    <2> DEFINE x == Line(i, "sent", made[i].kind = "text")
    <2>1. x \in LineType /\ x.id = i
      BY <1>o DEF Line, LineType
    <2> HIDE DEF x
    <2>2. (shown' = Append(shown, x) /\ active = made[i].conv /\ loads = {}) \/ shown' = shown
      BY <1>7 DEF OnStanza, Arrives, Becomes, x
    <2>3. /\ active' = active /\ ~hasty /\ loads' = loads /\ posts' = posts /\ events' = events
          /\ Logged' = Logged
      BY <1>7, <1>e DEF OnStanza, Arrives, Becomes, server, gateway
    <2>4. OnScreen' = OnScreen \/ (OnScreen' = OnScreen \cup {i} /\ active = made[i].conv /\ loads = {})
      BY <2>1, <2>2, ScreenAfter
    <2> QED
      BY <2>2, <2>3, <2>4, <1>e, <1>g, <1>o, <1>l
  <1>8. ASSUME OnChatMessage PROVE ViewInv'
    <2> DEFINE i == Head(events).id
               x == Line(i, "sent", Whole(i))
    <2>1. i \in Msgs /\ events # <<>> /\ events' = Tail(events)
      <3>1. Head(events) = events[1] /\ 1 \in DOMAIN events
        BY <1>8, TailOf DEF OnChatMessage, ChatTypes
      <3> QED
        BY <3>1, <1>8, <1>m DEF OnChatMessage, WireInv, Carried
    <2>2. \/ shown' = Append(shown, x) /\ active = made[i].conv /\ loads = {}
          \/ shown' = shown /\ (active # made[i].conv \/ i \in OnScreen)
      BY <1>8 DEF OnChatMessage, Arrives, Becomes
    <2>3. /\ active' = active /\ ~hasty /\ loads' = loads /\ posts' = posts /\ Logged' = Logged
      BY <1>8, <1>e DEF OnChatMessage, Arrives, Becomes, server, gateway
    <2>4. \A j : Announced(j) => Announced(j)' \/ j = i
      BY <2>1, EventsAfter
    <2> HIDE DEF i
    <2>5. x \in LineType /\ x.id = i
      <3>1. Whole(i) \in BOOLEAN
        BY DEF Whole
      <3> QED
        BY <2>1, <3>1, <1>o DEF Line, LineType
    <2> HIDE DEF x
    <2>6. \/ OnScreen' = OnScreen \cup {i} /\ active = made[i].conv /\ loads = {}
          \/ OnScreen' = OnScreen /\ (active # made[i].conv \/ i \in OnScreen) /\ shown' = shown
      BY <2>2, <2>5, ScreenAfter
    <2>7. lossless' => lossless /\ \A j \in Of(active) : Announced(j) => Announced(j)' \/ j \in OnScreen'
      BY <2>4, <2>6, <1>f, <1>l
    <2> QED
      BY <2>1, <2>3, <2>6, <2>7, <1>g, <1>o
  <1>9. ASSUME OnMessageRead PROVE ViewInv'
    <2>1. \A i : Announced(i) => Announced(i)'
      BY <1>9, EventsAfter DEF OnMessageRead
    <2>2. OnScreen' = OnScreen /\ (shown = <<>> => shown' = <<>>)
      BY <1>9, ReadMarks, ScreenAfter DEF OnMessageRead
    <2> QED
      BY <1>9, <2>1, <2>2, <1>e, <1>s DEF OnMessageRead, server, gateway, asked, marks
  <1>10. ASSUME NEW i \in Msgs, OnReceipt(i) PROVE ViewInv'
    <2>1. OnScreen' = OnScreen /\ (shown = <<>> => shown' = <<>>)
      BY <1>10, Receipts, ScreenAfter
    <2> QED
      BY <1>10, <2>1, <1>e, <1>s DEF OnReceipt, server, gateway, links, asked, marks
  <1>11. ASSUME NEW i \in Msgs, Hydrate(i) PROVE ViewInv'
    <2>1. OnScreen' = OnScreen /\ (shown = <<>> => shown' = <<>>)
      BY <1>11, FilesFetched, ScreenAfter DEF Hydrate
    <2> QED
      BY <1>11, <2>1, <1>e, <1>s DEF Hydrate, server, gateway, links
  <1>12. ASSUME (\E i \in finds : Found(i)) \/ (\E c \in Convs : CreateConversation(c)) \/ UNCHANGED chatVars PROVE ViewInv'
    BY <1>12, <1>e, <1>s DEF Found, CreateConversation, chatVars, server, gateway, links, view, asked, marks
  <1>13. ASSUME NEW up \in BOOLEAN, NEW c \in Convs, ForwardMessage(c, up) PROVE ViewInv'
    <2> DEFINE m == [conv |-> c, by |-> "forward", kind |-> "text"]
               n == Len(made) + 1
    <2>1. m \in MadeType /\ m.by = "forward"
      BY DEF MadeType, Kinds
    <2>2. made' = Append(made, m) /\ log' = log /\ posts' = posts \cup {[id |-> n, stage |-> "sent", echo |-> FALSE]}
      BY <1>13 DEF ForwardMessage, Compose, gateway
    <2>3. Logged' = Logged /\ made'[n] = m
      BY <2>1, <2>2, Composed
    <2> HIDE DEF m, n
    <2>4. \A p \in posts' : made'[p.id].by # "me" \/ \E q \in posts : q.id = p.id /\ q.echo = p.echo
      <3>1. m.by # "me"
        BY <2>1
      <3>2. \A p : p = [id |-> n, stage |-> "sent", echo |-> FALSE] => p.id = n
        OBVIOUS
      <3>3. \A p \in posts' : p.id = n \/ p \in posts
        BY <2>2, <3>2
      <3>4. \A p \in posts' : p.id = n => made'[p.id].by # "me"
        BY <2>3, <3>1
      <3> QED
        BY <3>3, <3>4
    <2>5. active' = active /\ ~hasty /\ loads' = loads /\ shown' = shown /\ events' = events
      BY <1>13 DEF ForwardMessage, Compose, gateway
    <2> QED
      BY <2>3, <2>4, <2>5, <1>e, <1>g, <1>l
  <1>14. ASSUME NEW up \in BOOLEAN, NEW k \in Kinds, SendMessage(k, up) PROVE ViewInv'
    <2> DEFINE m == [conv |-> active, by |-> "me", kind |-> k]
               n == Len(made) + 1
               x == Line(n, "pending", k = "text")
               y == [id |-> n, stage |-> "sent", echo |-> up /\ "me" = "me"]
    <2>1. m \in MadeType /\ m.conv = active
      BY <1>14 DEF SendMessage, ChatTypes, MadeType
    <2>2. /\ made' = Append(made, m) /\ log' = log /\ posts' = posts \cup {y} /\ y.id = n
          /\ active' = active /\ ~hasty /\ loads = {} /\ loads' = loads /\ events' = events
          /\ shown' = Append(shown, x) \/ shown' = shown
      BY <1>14 DEF SendMessage, Compose, Becomes, gateway
    <2>3. Logged' = Logged /\ made'[n] = m /\ n \in Msgs' /\ n \in Nat
      BY <2>1, <2>2, Composed
    <2>4. x \in LineType /\ x.id = n
      BY <2>3 DEF Line, LineType
    <2> HIDE DEF m, n, x, y
    <2>5. OnScreen' = OnScreen \/ OnScreen' = OnScreen \cup {n}
      BY <2>2, <2>4, ScreenAfter
    <2>6. \A p \in posts' : made'[p.id].conv = active \/ \E q \in posts : q.id = p.id /\ q.echo = p.echo
      BY <2>1, <2>2, <2>3
    <2> QED
      BY <2>1, <2>2, <2>3, <2>5, <2>6, <1>e, <1>g, <1>l
  <1>15. ASSUME NEW p \in posts, PostAnswered(p) \/ PostFailed(p) \/ BodyLost(p) PROVE ViewInv'
    <2> DEFINE i == p.id
               Adds(w) == shown' = Append(shown, Line(i, "sent", w))
    <2>1. i \in Msgs /\ i \in Nat /\ p \in posts
      BY <1>p, <1>o
    <2>2. /\ active' = active /\ ~hasty /\ loads' = loads /\ posts' \subseteq posts /\ events' = events
          /\ Logged' = Logged /\ made' = made
      BY <1>15, <1>e DEF PostAnswered, PostFailed, BodyLost, PostEnded, Becomes, server, gateway, links
    <2>3. Whole(i) \in BOOLEAN /\ \A w \in BOOLEAN : Line(i, "sent", w) \in LineType /\ Line(i, "sent", w).id = i
      BY <2>1, <1>x DEF Whole
    <2>4. \/ shown' = shown \/ shown' = Confirmed(i) \/ shown' = Upgraded(i)
          \/ /\ \E w \in BOOLEAN : Adds(w)
             /\ \/ made[i].by = "forward" /\ active = made[i].conv
                \/ made[i].by # "forward" /\ ~p.echo
      BY <1>15, <2>3 DEF PostAnswered, PostFailed, BodyLost, PostEnded, Forwarded, Becomes
    <2>5. CASE shown' = shown \/ shown' = Confirmed(i) \/ shown' = Upgraded(i)
      <3>1. Edited(Confirmed(i)) /\ Edited(Upgraded(i))
        BY Upgrades, FilesConfirmed DEF Confirmed
      <3>2. OnScreen' = OnScreen /\ (shown = <<>> => shown' = <<>>)
        BY <2>5, <3>1, ScreenAfter
      <3> QED
        BY <2>2, <3>2, <1>e, <1>g, <1>l
    <2>6. ASSUME NEW w \in BOOLEAN, Adds(w), \/ made[i].by = "forward" /\ active = made[i].conv
                                             \/ made[i].by # "forward" /\ ~p.echo
          PROVE  ViewInv'
      <3>1. loads = {}
        <4>1. shown \in Seq(LineType) /\ Len(shown') = Len(shown) + 1
          BY <2>3, <2>6, AppendedTo DEF ChatTypes
        <4>2. Len(shown') # Len(shown)
          BY <4>1
        <4>3. \A sh : PostEnded(p, sh) => loads = {}
          BY <4>2 DEF PostEnded, Becomes
        <4>4. \E sh : PostEnded(p, sh)
          BY <1>15 DEF PostAnswered, PostFailed, BodyLost
        <4> QED
          BY <4>3, <4>4
      <3>2. made[i].conv = active
        <4>1. made[i] \in MadeType /\ Mine(i)
          BY <2>1, MadeTyped DEF PostInv, Posted
        <4>2. made[i].by \in {"me", "forward"}
          BY <4>1 DEF MadeType, Mine
        <4> QED
          BY <2>1, <2>2, <2>6, <4>2, <1>v
      <3>3. OnScreen' = OnScreen \cup {i}
        BY <2>3, <2>6, ScreenAfter
      <3> QED
        BY <2>1, <2>2, <3>1, <3>2, <3>3, <1>e, <1>g, <1>l, <1>o
    <2> QED
      BY <2>4, <2>5, <2>6
  <1>16. ASSUME NEW c \in Convs, Select(c) PROVE ViewInv'
    <2> DEFINE x == [n |-> uses, conv |-> c, read |-> FALSE, has |-> <<>>, unread |-> unread[c] > 0]
    <2>1. /\ active' = c /\ shown' = <<>> /\ loads = {} /\ loads' = {x} /\ ~x.read /\ x.conv = c
          /\ posts' = posts /\ \A p \in posts : p.echo
      BY <1>16 DEF Select, Becomes, UnderWay
    <2> HIDE DEF x
    <2>2. OnScreen' = {}
      BY <2>1, ScreenAfter
    <2> QED
      BY <2>1, <2>2, <1>w DEF Brings
  <1>17. ASSUME Back PROVE FALSE
    BY <1>17 DEF Back, Becomes
  <1>18. ASSUME NEW l \in loads, ReadLoad(l) PROVE ViewInv'
    <2> DEFINE x == [l EXCEPT !.read = TRUE, !.has = History(l.conv)]
    <2>1. l \in LoadType
      BY DEF ChatTypes
    <2>2. l.conv \in Convs /\ x.conv = l.conv /\ x.has = History(l.conv)
      BY <2>1 DEF LoadType
    <2>3. /\ loads' = (loads \ {l}) \cup {x} /\ made' = made /\ log' = log /\ active' = active /\ shown' = shown
          /\ posts' = posts /\ events' = events /\ ~hasty
      BY <1>18 DEF ReadLoad, server, gateway, links, view, marks
    <2>4. loads' = {x} /\ l.conv = active
      BY <2>3, <1>v
    <2> HIDE DEF x
    <2>5. \A i \in Of(active) \cap Logged : Brings(x, i)
      <3> SUFFICES ASSUME NEW i \in Of(active) \cap Logged PROVE \E k \in DOMAIN x.has : x.has[k].id = i
        BY DEF Brings
      <3>1. made[i].conv = active
        BY <1>f
      <3>2. PICK k \in DOMAIN log[active] : log[active][k] = i
        BY <3>1 DEF Logged
      <3> QED
        BY <2>2, <2>4, <3>2, HistoryTyped
    <2>6. Logged' = Logged /\ OnScreen' = OnScreen /\ Msgs' = Msgs
      BY <2>3, <1>e DEF Msgs
    <2>7. \A i : i \in Of(active)' <=> i \in Of(active)
      BY <1>f, <2>3, <2>6
    <2> QED
      BY <2>2, <2>3, <2>4, <2>5, <2>6, <2>7, <1>v, <1>w
  <1>19. ASSUME NEW l \in loads, ApplyLoad(l) \/ FailLoad(l) PROVE ViewInv'
    <2>1. /\ loads' = loads \ {l} /\ made' = made /\ log' = log /\ active' = active
          /\ posts' = posts /\ events' = events /\ ~hasty
          /\ (ApplyLoad(l) /\ shown' = l.has /\ l.read) \/ (FailLoad(l) /\ shown' = <<>> /\ ~lossless')
      BY <1>19 DEF ApplyLoad, FailLoad, Loaded, Becomes, server, gateway, links
    <2>2. loads' = {} /\ l.conv = active /\ OnScreen = {} /\ \A m \in loads : m = l
      <3>1. shown = <<>> /\ l.conv = active /\ \A m \in loads : m = l
        BY <2>1, <1>v
      <3> QED
        BY <2>1, <3>1 DEF OnScreen
    <2>3. Logged' = Logged /\ Msgs' = Msgs
      BY <2>1, <1>e DEF Msgs
    <2>4. \A i : i \in Of(active)' <=> i \in Of(active)
      BY <1>f, <2>1, <2>3
    <2>5. \A p \in posts' : made'[p.id].by = "me" /\ ~p.echo => made'[p.id].conv = active'
      BY <2>1, <1>v
    <2>6. CASE FailLoad(l) /\ shown' = <<>> /\ ~lossless'
      BY <2>2, <2>5, <2>6, <1>w, ScreenAfter
    <2>7. CASE ApplyLoad(l) /\ shown' = l.has /\ l.read
      <3>1. \A k \in DOMAIN l.has : l.has[k].id \in Of(active)
        BY <2>2, <2>7 DEF LoadInv, Fetched
      <3>2. \A i : i \in OnScreen' <=> \E k \in DOMAIN l.has : l.has[k].id = i
        BY <2>7 DEF OnScreen
      <3>3. OnScreen' \subseteq Of(active)'
        BY <3>1, <3>2, <2>4
      <3>4. ASSUME lossless', NEW i \in Of(active)' \cap Logged'
            PROVE  i \in OnScreen' \/ Announced(i)' \/ i \in handled'
        <4>1. i \in Of(active) \cap Logged /\ lossless
          BY <2>3, <2>4, <3>4, <1>l
        <4>2. Announced(i) \/ i \in handled \/ Brings(l, i)
          BY <2>1, <2>2, <4>1, <1>v
        <4> QED
          BY <2>1, <2>7, <4>2, <3>2, <1>e, <1>h DEF Brings
      <3> QED
        BY <2>2, <2>5, <3>3, <3>4, <1>w
    <2> QED
      BY <2>1, <2>6, <2>7
  <1> QED
    BY <1>1, <1>3, <1>4, <1>5, <1>6, <1>7, <1>8, <1>9, <1>10, <1>11, <1>12, <1>13, <1>14, <1>15, <1>16, <1>17, <1>18, <1>19,
       <1>20, <1>21 DEF ChatNext, Others, Arrivals, User
\* The invariant holds at first, and every step preserves it.
LEMMA ChatStart == ChatInit => ChatInv
  <1> SUFFICES ASSUME ChatInit PROVE ChatInv
    OBVIOUS
  <1>1. made = <<>> /\ events = <<>> /\ shown = <<>> /\ wire = {} /\ finds = {} /\ loads = {} /\ posts = {}
    BY DEF ChatInit
  <1>2. \A c \in Convs : log[c] = <<>>
    BY DEF ChatInit
  <1>3. ChatTypes
    <2>1. \A S : <<>> \in Seq(S)
      OBVIOUS
    <2>2. log \in [Convs -> Seq(Nat)]
      BY <2>1 DEF ChatInit
    <2>3. known \in SUBSET Convs /\ active = NoConv /\ uses = 0 /\ lossless = TRUE /\ hasty = FALSE
      BY DEF ChatInit
    <2> QED
      BY <1>1, <2>1, <2>2, <2>3 DEF ChatTypes
  <1>4. LogInv /\ GateInv
    <2>1. LogInv
      BY <1>2 DEF LogInv
    <2>2. Logged = {} /\ linked = {} /\ handled = {}
      BY <1>1 DEF ChatInit, Logged, Msgs
    <2> QED
      BY <2>1, <2>2 DEF GateInv
  <1>5. WireInv /\ PostInv /\ LoadInv
    BY <1>1 DEF WireInv, PostInv, LoadInv
  <1>6. ShownOnce /\ LineInv /\ FilesInv
    BY <1>1 DEF ShownOnce, LineInv, FilesInv
  <1>7. ViewInv
    BY DEF ChatInit, ViewInv
  <1> QED
    BY <1>3, <1>4, <1>5, <1>6, <1>7 DEF ChatInv

LEMMA ChatStep == ChatInv /\ [ChatNext]_chatVars => ChatInv'
  <1> SUFFICES ASSUME ChatInv, [ChatNext]_chatVars PROVE ChatInv'
    OBVIOUS
  <1> USE DEF ChatInv
  <1>1. ChatTypes' /\ Grows
    BY ChatTyped
  <1>2. LogInv' /\ GateInv'
    BY <1>1, GateStep DEF Grows
  <1>3. WireInv'
    BY <1>1, WireStep
  <1>4. PostInv' /\ LoadInv'
    BY <1>1, PostStep, LoadStep
  <1>5. ShownOnce'
    BY <1>1, OnceStep
  <1>6. LineInv' /\ FilesInv'
    BY <1>1, LineStep, FilesStep
  <1>7. ViewInv'
    BY <1>1, ViewStep
  <1> QED
    BY <1>1, <1>2, <1>3, <1>4, <1>5, <1>6, <1>7

LEMMA ChatInvariance == ChatSpec => []ChatInv
  BY ChatStart, ChatStep, PTL DEF ChatSpec

\* However a message comes, and in whatever order, it is on screen once.  (WebChat,
\* Arrives, SendMessage, PostAnswered, Loaded.)
THEOREM DisplayedOnce == ChatSpec => []ShownOnce
  <1>1. ChatInv => ShownOnce
    BY DEF ChatInv
  <1> QED
    BY <1>1, ChatInvariance, PTL

\* An own message whose check mark says sent or delivered is stored, and a stored one
\* does not stay pending.  (WebChat, OnReceipt, Confirmed, BodyLost.)
THEOREM HonestMarks == ChatSpec => []CheckMarksAreHonest
  <1>1. ChatInv => CheckMarksAreHonest
    <2> SUFFICES ASSUME ChatInv, NEW k \in DOMAIN shown, made[shown[k].id].by = "me",
                        NEW y, y = shown[k]
                 PROVE  /\ y.status \in {"sent", "delivered"} => y.id \in Logged
                        /\ y.status = "pending" /\ Settled /\ lossless => y.id \notin Logged
      BY DEF CheckMarksAreHonest
    <2>1. Shows(y)
      BY DEF ChatInv, LineInv
    <2>2. y.status = "pending" => Waits(y.id)
      BY <2>1 DEF Shows, Pending, Mine
    <2> QED
      BY <2>1, <2>2 DEF Shows, Waits, Awaited, Settled
  <1> QED
    BY <1>1, ChatInvariance, PTL

\* Once everything has arrived, the view of a conversation that nothing interfered with
\* has all its stored messages and no other's.  (WebChat, Select, Loaded, Arrives.)
THEOREM WholeConversation == ChatSpec => []ViewIsTheConversation
  <1>1. ChatInv => ViewIsTheConversation
    <2> SUFFICES ASSUME ChatInv, Settled, lossless, ~hasty, active # NoConv
                 PROVE  OnScreen \subseteq Of(active) /\ Of(active) \cap Logged \subseteq OnScreen
      BY DEF ViewIsTheConversation
    <2>1. /\ OnScreen \subseteq Of(active)
          /\ \A i \in Of(active) \cap Logged : i \in OnScreen \/ Announced(i) \/ i \in handled \/ \E l \in loads : Brings(l, i)
      BY DEF ChatInv, ViewInv
    <2>2. \A i : ~Announced(i)
      BY DEF Settled, Announced
    <2> QED
      BY <2>1, <2>2 DEF Settled
  <1> QED
    BY <1>1, ChatInvariance, PTL

\* Files that were linked to a message on screen are there in the end, except on a line
\* that a list or a fetch brought before they were linked and that was not displayed
\* anew since.  (WebChat, OnStanza, Hydrate, LinkFiles, Publish, PostAnswered.)
THEOREM FilesArrive == ChatSpec => []FilesAreShown
  <1>1. ChatInv => FilesAreShown
    <2> SUFFICES ASSUME ChatInv, Settled, lossless, NEW k \in DOMAIN shown, NEW y, y = shown[k],
                        y.id \in Logged, ~y.whole
                 PROVE  y.id \in early
      BY DEF FilesAreShown
    <2>1. Lacks(y)
      BY DEF ChatInv, FilesInv
    <2>2. ~Waits(y.id)
      BY DEF Waits, Awaited, Settled
    <2> QED
      BY <2>1, <2>2 DEF Lacks, Settled
  <1> QED
    BY <1>1, ChatInvariance, PTL
================================================================================
