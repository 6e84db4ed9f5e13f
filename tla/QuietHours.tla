----------------------------- MODULE QuietHours -----------------------------
(***************************************************************************)
(* Do-not-disturb rules.  user-service stores a user's rules;              *)
(* policy-service evaluates them in isDNDActive for every evaluation, the  *)
(* gateway on its own in isUserInDND before it sends a push.  Both read    *)
(* the rules from the database, and there the bounds of a rule are lost:   *)
(* the columns have type TIME, and a TIME that lib/pq scans into a string  *)
(* comes out as a whole RFC 3339 timestamp, not as HH:MM.                  *)
(*                                                                         *)
(* A text is its parts between colons and whether a date stands before the *)
(* first.  The rules are read here; PolicyGate says how they and the clock *)
(* change.                                                                 *)
(***************************************************************************)
EXTENDS Integers, Sequences, FiniteSets

CONSTANTS
    SP,            \* service providers
    Times,         \* minutes of the day at which the clock is looked at
    DaySets,       \* the days_of_week of a rule
    Scopes,        \* scopes in use, among "GLOBAL", "CATEGORY", "SERVICE_PROVIDER"
    MaxRules       \* bound: rules of the user

ASSUME QuietAssumption ==
    /\ Times \subseteq 0..1439 /\ DaySets \subseteq SUBSET (0..6)
    /\ Scopes \subseteq {"GLOBAL", "CATEGORY", "SERVICE_PROVIDER"}
    /\ MaxRules \in Nat

VARIABLES rules, day, minute
hours == <<rules, day, minute>>

Category == {"PERSONAL", "SERVICE_PROVIDER", "ADVERTISEMENT"}
NoRef == "null"

\* scope_ref_id is a UUID or null: it can name a provider and not a category.
Ref(scope) == IF scope = "SERVICE_PROVIDER" THEN SP ELSE {NoRef}
Rule == UNION {[scope: {s}, ref: Ref(s), start: Times, end: Times, days: DaySets, active: BOOLEAN] : s \in Scopes}

\* A TIME as the repositories return it: 0000-01-01THH:MM:SSZ.
Text(t) == [dated |-> TRUE, parts |-> <<t \div 60, t % 60, 0>>]

HoursInit == rules = {} /\ day \in 0..6 /\ minute \in Times

\* user-service: a rule is created; the service offers no way to change or delete
\* one.
SaveRule(r) ==
    /\ r \notin rules /\ Cardinality(rules) < MaxRules
    /\ rules' = rules \cup {r} /\ UNCHANGED <<day, minute>>

\* The clock moves to the next time looked at, or to the first of the next day.
Tick ==
    /\ LET later == {t \in Times : t > minute}
           pool  == IF later = {} THEN Times ELSE later
       IN  /\ minute' \in pool /\ \A t \in pool : minute' <= t
           /\ day' = IF later = {} THEN (day + 1) % 7 ELSE day
    /\ UNCHANGED rules

(***************************************************************************)
(* policy-service.                                                         *)
(***************************************************************************)
\* Anything but two parts is midnight, and an hour that is no number is 0.
timeToMinutes(text) ==
    IF Len(text.parts) # 2 THEN 0
    ELSE (IF text.dated THEN 0 ELSE text.parts[1] * 60) + text.parts[2]

\* Mutant of isTimeInRange: equal bounds are taken for a night.
isTimeInRangeStrict(c, s, e) == IF s < e THEN c >= s /\ c <= e ELSE c >= s \/ c <= e

\* A range that ends before it starts runs over midnight; both ends belong to it.
isTimeInRange(c, s, e) == IF s <= e THEN c >= s /\ c <= e ELSE c >= s \/ c <= e

\* A scope the switch does not know applies to everything.
ScopeApplies(r, category, sp) ==
    /\ r.scope = "CATEGORY" => r.ref = category
    /\ r.scope = "SERVICE_PROVIDER" => r.ref = sp

isDNDActive(category, sp) ==
    \E r \in rules :
        /\ r.active /\ ScopeApplies(r, category, sp) /\ day \in r.days
        /\ isTimeInRange(minute, timeToMinutes(Text(r.start)), timeToMinutes(Text(r.end)))

(***************************************************************************)
(* The gateway: global rules only, no days means every day, the end of the *)
(* range is outside it, a text whose third character is no colon is        *)
(* skipped.                                                                *)
(***************************************************************************)
parseHHMM(text) ==
    IF text.dated \/ Len(text.parts) < 2 THEN -1 ELSE text.parts[1] * 60 + text.parts[2]

InGatewayRange(c, s, e) == IF s <= e THEN c >= s /\ c < e ELSE c >= s \/ c < e

isUserInDND ==
    \E r \in rules :
        LET s == parseHHMM(Text(r.start))
            e == parseHHMM(Text(r.end))
        IN  /\ r.active /\ r.scope = "GLOBAL" /\ (r.days = {} \/ day \in r.days)
            /\ s >= 0 /\ e >= 0 /\ InGatewayRange(minute, s, e)

(***************************************************************************)
(* Properties.                                                             *)
(***************************************************************************)
\* Whatever hours a stored rule asks for, policy-service mutes in the minute of
\* midnight on its days and in no other, because timeToMinutes takes both bounds
\* for 0, and the gateway holds no push back, because parseHHMM takes neither: the
\* bounds that the user chose are lost between the column and the evaluation.
StoredRulesMuteAtMidnight ==
    /\ \A c \in Category, p \in SP :
          isDNDActive(c, p) <=>
              minute = 0 /\ \E r \in rules : r.active /\ ScopeApplies(r, c, p) /\ day \in r.days
    /\ ~isUserInDND

=============================================================================
