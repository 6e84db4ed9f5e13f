----------------------------- MODULE PolicyGate -----------------------------
(***************************************************************************)
(* policy-service's Evaluate, one query after another, each a statement of *)
(* its own, and what happens around it: users and administrators change    *)
(* what the queries look at, and advertisements are created.  Who asks is  *)
(* bot-service, whose tool evaluate_policy calls EvaluateCommunication;    *)
(* who creates does not: the mains of notification-service and             *)
(* communication-service pass a nil policy checker, so that                *)
(* CreateNotification and CreateCallbackRequest go straight to their       *)
(* INSERT.  Of what they create, an evaluation looks at advertisements.    *)
(*                                                                         *)
(* One user.  Category and type preferences are one switch per kind of     *)
(* communication, the spam score is whether it reaches the threshold; the  *)
(* do-not-disturb rules and the clock are QuietHours'.  Evaluate writes    *)
(* nothing that another evaluation reads.                                  *)
(***************************************************************************)
EXTENDS QuietHours

CONSTANTS
    Call,          \* EvaluateCommunication calls
    Kinds,         \* among "personal", "ad", "callback"
    AdCap,         \* adCapPerOrgPerDay (3 in the code)
    MaxAds,        \* bound: advertisements of a provider in a day
    MaxChanges,    \* bound: changes by users, administrators and the clock
    MaxFaults      \* bound: failing queries, callers that give up

ASSUME GateAssumption ==
    /\ Kinds \subseteq {"personal", "ad", "callback"} /\ AdCap \in Nat \ {0} /\ MaxAds \in Nat
    /\ MaxChanges \in Nat /\ MaxFaults \in Nat

VARIABLES
    allow,         \* kinds the user's preferences allow
    approval,      \* require_call_approval
    blocked,       \* providers the user has blocked
    unverified, suspended, spammy,   \* providers
    adsToday,      \* advertisements of each provider created today
    call,          \* what each evaluation holds, and its answer
    standing,      \* bars that have stood throughout each evaluation
    seen,          \* bars that have stood at some time during it
    changes, faults

prefs == <<allow, approval, blocked>>
providers == <<unverified, suspended, spammy>>
world == <<prefs, hours, providers, adsToday>>
vars == <<world, call, standing, seen, changes, faults>>

Step == {"provider", "block", "dnd", "ads"}
InFlight == {c \in Call : call[c].pc \in Step}
Fault == faults < MaxFaults /\ faults' = faults + 1
\* A query answers, or fails at the price of a fault.
Known(known) == IF known THEN faults' = faults ELSE Fault

CategoryOf(kind) ==
    CASE kind = "personal" -> "PERSONAL" [] kind = "ad" -> "ADVERTISEMENT" [] OTHER -> "SERVICE_PROVIDER"

\* The bars that stand against a communication now, however Evaluate looks.
BarsNow(sp, kind) ==
    (IF kind \notin allow THEN {"category"} ELSE {}) \cup (IF sp \in blocked THEN {"blocked"} ELSE {})
    \cup (IF isDNDActive(CategoryOf(kind), sp) THEN {"quiet"} ELSE {})
    \cup (IF kind = "ad" /\ adsToday[sp] >= AdCap THEN {"cap"} ELSE {})
    \cup (IF sp \in unverified THEN {"unverified"} ELSE {})
    \cup (IF sp \in suspended THEN {"suspended"} ELSE {}) \cup (IF sp \in spammy THEN {"spam"} ELSE {})
Against(c) == BarsNow(call[c].sp, call[c].kind)

\* Any preferences and any verification; blocks, suspensions, reports and rules come
\* later.
Init ==
    /\ allow \in SUBSET Kinds /\ approval \in BOOLEAN /\ HoursInit
    /\ unverified \in SUBSET SP /\ blocked = {} /\ suspended = {} /\ spammy = {}
    /\ adsToday = [p \in SP |-> 0]
    /\ call = [c \in Call |-> [pc |-> "idle"]]
    /\ standing = [c \in Call |-> {}] /\ seen = [c \in Call |-> {}] /\ changes = 0 /\ faults = 0

(***************************************************************************)
(* What happens around the evaluations.                                    *)
(***************************************************************************)
\* What the evaluations in flight are up against is on record.
Watch ==
    /\ UNCHANGED <<call, faults>>
    /\ standing' = [c \in Call |-> IF c \in InFlight THEN standing[c] \cap Against(c)' ELSE standing[c]]
    /\ seen' = [c \in Call |-> IF c \in InFlight THEN seen[c] \cup Against(c)' ELSE seen[c]]

Change == changes < MaxChanges /\ changes' = changes + 1

\* A set of providers or kinds loses or gains an element.
Flip(S, x) == IF x \in S THEN S \ {x} ELSE S \cup {x}

\* user-service: a preference is changed, a provider blocked or unblocked, a rule
\* saved.
ChangePreferences ==
    /\ Change
    /\ \/ \E k \in Kinds : allow' = Flip(allow, k) /\ UNCHANGED <<approval, blocked, hours>>
       \/ approval' = ~approval /\ UNCHANGED <<allow, blocked, hours>>
       \/ \E p \in SP : blocked' = Flip(blocked, p) /\ UNCHANGED <<allow, approval, hours>>
       \/ \E r \in Rule : SaveRule(r) /\ UNCHANGED prefs
    /\ UNCHANGED <<providers, adsToday>>
    /\ Watch

\* organization-service: a provider is verified or rejected, suspended; reports
\* are opened and closed.
ChangeProvider ==
    /\ Change
    /\ \E p \in SP : \/ unverified' = Flip(unverified, p) /\ UNCHANGED <<suspended, spammy>>
                     \/ suspended' = Flip(suspended, p) /\ UNCHANGED <<unverified, spammy>>
                     \/ spammy' = Flip(spammy, p) /\ UNCHANGED <<unverified, suspended>>
    /\ UNCHANGED <<prefs, hours, adsToday>>
    /\ Watch

\* Time goes by: the clock the rules are read with, and the day of the count,
\* which is UTC's.
TimePasses ==
    /\ Change
    /\ \/ Tick /\ UNCHANGED adsToday
       \/ adsToday' = [p \in SP |-> 0] /\ UNCHANGED hours
    /\ UNCHANGED <<prefs, providers>>
    /\ Watch

\* CreateNotification of an advertisement as main wires it: the policy checker is
\* nil, and what is left is the INSERT.
CreateAd(sp) ==
    /\ adsToday[sp] < MaxAds
    /\ adsToday' = [adsToday EXCEPT ![sp] = @ + 1]
    /\ UNCHANGED <<prefs, hours, providers, changes>>
    /\ Watch

(***************************************************************************)
(* An evaluation.                                                          *)
(***************************************************************************)
Goto(c, next) == call' = [call EXCEPT ![c] = next]
Continue(c, pc) == Goto(c, [call[c] EXCEPT !.pc = pc])
Answer(c, a) == Goto(c, [pc |-> "done", sp |-> call[c].sp, kind |-> call[c].kind, answer |-> a])
Asking == UNCHANGED <<world, standing, seen, changes>>

\* The preferences are loaded; without them the user is unknown.
Begin(c, sp, kind) ==
    /\ call[c].pc = "idle"
    /\ \E known \in BOOLEAN :
          /\ Known(known)
          /\ Goto(c, IF known THEN [pc |-> "provider", sp |-> sp, kind |-> kind, allowed |-> kind \in allow,
                                    approval |-> approval, spammy |-> FALSE]
                     ELSE [pc |-> "done", sp |-> sp, kind |-> kind, answer |-> "unknown"])
    /\ standing' = [standing EXCEPT ![c] = BarsNow(sp, kind)]
    /\ seen' = [seen EXCEPT ![c] = BarsNow(sp, kind)]
    /\ UNCHANGED <<world, changes>>

\* GetServiceProviderStatus: a query for verification and status, whose error is
\* answered like a provider not verified, then one that computes the spam score
\* from the open reports, whose error is a score of zero.
CheckProvider(c) ==
    /\ call[c].pc = "provider"
    /\ \/ Fault /\ Answer(c, "unverified")
       \/ faults' = faults /\ call[c].sp \in unverified /\ Answer(c, "unverified")
       \/ faults' = faults /\ call[c].sp \in suspended \ unverified /\ Answer(c, "suspended")
       \/ /\ call[c].sp \notin unverified \cup suspended
          /\ \E known \in BOOLEAN :
                /\ Known(known)
                /\ Goto(c, [call[c] EXCEPT !.pc = "block", !.spammy = known /\ call[c].sp \in spammy])
    /\ Asking

\* IsServiceProviderBlocked, an error counting as not blocked, and the category
\* test on the preferences loaded at the start.
CheckBlock(c) ==
    /\ call[c].pc = "block"
    /\ \E known \in BOOLEAN :
          /\ Known(known)
          /\ CASE known /\ call[c].sp \in blocked -> Answer(c, "blocked")
               [] ~(known /\ call[c].sp \in blocked) /\ ~call[c].allowed -> Answer(c, "category")
               [] OTHER -> Continue(c, "dnd")
    /\ Asking

\* The spam test, on the score computed from the provider's status.
CheckSpam(c) == Answer(c, IF call[c].spammy THEN "spam" ELSE "ALLOW")

\* A callback of a user who wants to approve calls is allowed before the other
\* tests; the cap is for advertisements.
CheckApproval(c) ==
    CASE call[c].kind = "callback" /\ call[c].approval -> Answer(c, "APPROVE")
      [] call[c].kind = "ad" -> Continue(c, "ads")
      [] OTHER -> CheckSpam(c)

\* GetDNDRules, an error counting as no rules.
CheckDND(c) ==
    /\ call[c].pc = "dnd"
    /\ \E known \in BOOLEAN :
          /\ Known(known)
          /\ IF known /\ isDNDActive(CategoryOf(call[c].kind), call[c].sp)
             THEN Answer(c, "quiet") ELSE CheckApproval(c)
    /\ Asking

\* Mutant of CheckAds: the cap itself is allowed.
CheckAdsOver(c) ==
    /\ call[c].pc = "ads" /\ faults' = faults
    /\ IF adsToday[call[c].sp] > AdCap THEN Answer(c, "cap") ELSE CheckSpam(c)
    /\ Asking

\* Mutant of CheckAds: the advertisement that is asked for counts already.
CheckAdsEarly(c) ==
    /\ call[c].pc = "ads" /\ faults' = faults
    /\ IF adsToday[call[c].sp] + 1 >= AdCap THEN Answer(c, "cap") ELSE CheckSpam(c)
    /\ Asking

\* GetAdCountForUser counts today's notifications; an error counts as none.
CheckAds(c) ==
    /\ call[c].pc = "ads"
    /\ \E known \in BOOLEAN :
          /\ Known(known)
          /\ IF known /\ adsToday[call[c].sp] >= AdCap THEN Answer(c, "cap") ELSE CheckSpam(c)
    /\ Asking

\* The caller is gone, or policy-service fails: nobody gets an answer.
GiveUp(c) == c \in InFlight /\ Fault /\ Answer(c, "none") /\ Asking

Next ==
    \/ ChangePreferences \/ ChangeProvider \/ TimePasses
    \/ \E p \in SP : CreateAd(p)
    \/ \E c \in Call :
          \/ \E p \in SP, k \in Kinds : Begin(c, p, k)
          \/ CheckProvider(c) \/ CheckBlock(c) \/ CheckDND(c) \/ CheckAds(c) \/ GiveUp(c)

Spec == Init /\ [][Next]_vars

(***************************************************************************)
(* Properties.                                                             *)
(***************************************************************************)
Allows == {"ALLOW", "APPROVE"}
Done == {c \in Call : call[c].pc = "done"}

\* What has stood against a communication throughout its evaluation is not
\* answered with an ALLOW, whatever else changes between the queries, the cap on
\* advertisements that others create meanwhile included.  Only a failing query
\* lets a blocked provider, a quiet hour, an exhausted cap or spam through, and a
\* callback that goes to the user for approval skips the spam test.
StandingBarsHold ==
    \A c \in Done : call[c].answer \in Allows =>
        standing[c] \subseteq (IF faults = 0 THEN {} ELSE {"blocked", "quiet", "cap", "spam"})
                              \cup (IF call[c].answer = "APPROVE" THEN {"spam"} ELSE {})

\* A denial names a bar that did stand at some time during the evaluation; only
\* a failing query has a provider denied that is verified.
DenialsHaveCause ==
    \A c \in Done : call[c].answer \notin Allows \cup {"unknown", "none"} =>
        call[c].answer \in seen[c] \cup (IF faults = 0 THEN {} ELSE {"unverified"})

\* ADR-001: an advertisement is created only after the policy has been asked about
\* one of its provider and has allowed it.  The services as wired do not ask.
NothingBypassesPolicy ==
    [][\A p \in SP : adsToday'[p] > adsToday[p] =>
          \E c \in Done : call[c].sp = p /\ call[c].kind = "ad" /\ call[c].answer \in Allows]_vars

=============================================================================
