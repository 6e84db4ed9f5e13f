---------------------------- MODULE Policy_proofs ----------------------------
(***************************************************************************)
(* Theorems about policy-service: PolicyGate and the QuietHours it reads,  *)
(* for any providers, kinds, evaluations, rules, hours, changes and        *)
(* failing queries.                                                        *)
(*                                                                         *)
(* Neither property of the answers is inductive.  That a standing bar      *)
(* holds needs what the queries so far have excluded and that a bar on     *)
(* record still stands; that a denial has a cause needs that what the      *)
(* evaluation carries, the category test and the spam score, had its       *)
(* cause when it was read.  AskInv says both, evaluation by evaluation.    *)
(***************************************************************************)
EXTENDS PolicyGate, TLAPS

Bars == {"category", "blocked", "quiet", "cap", "unverified", "suspended", "spam"}
Idle     == [pc: {"idle"}]
Working  == [pc: Step, sp: SP, kind: Kinds, allowed: BOOLEAN, approval: BOOLEAN, spammy: BOOLEAN]
Answered == [pc: {"done"}, sp: SP, kind: Kinds, answer: Bars \cup Allows \cup {"unknown", "none"}]

HoursTypes == rules \in SUBSET Rule /\ day \in 0..6 /\ minute \in Times
TypeInv ==
    /\ approval \in BOOLEAN
    /\ call \in [Call -> Idle \cup Working \cup Answered]
    /\ standing \in [Call -> SUBSET Bars] /\ seen \in [Call -> SUBSET Bars]
    /\ faults \in Nat
    /\ HoursTypes

\* What stands against a call in flight is on record.
OnRecord(c) ==
    c \in InFlight => standing[c] \subseteq Against(c) /\ Against(c) \subseteq seen[c]

\* What it carries had its cause.
Carries(c) ==
    c \in InFlight => /\ "category" \in standing[c] => ~call[c].allowed
                      /\ ~call[c].allowed => "category" \in seen[c]
                      /\ call[c].spammy => "spam" \in seen[c]
                      /\ call[c].pc = "ads" => call[c].kind = "ad"

\* What its queries have excluded by now.
Excluded(c) ==
    /\ call[c].pc \in {"block", "dnd", "ads"} =>
          /\ "unverified" \notin standing[c] /\ "suspended" \notin standing[c]
          /\ faults = 0 /\ "spam" \in standing[c] => call[c].spammy
    /\ call[c].pc \in {"dnd", "ads"} => /\ "category" \notin standing[c]
                                        /\ faults = 0 => "blocked" \notin standing[c]
    /\ call[c].pc = "ads" /\ faults = 0 => "quiet" \notin standing[c]

\* The two properties of one answer.
AllowKept(c) ==
    call[c].pc = "done" /\ call[c].answer \in Allows =>
        standing[c] \subseteq (IF faults = 0 THEN {} ELSE {"blocked", "quiet", "cap", "spam"})
                              \cup (IF call[c].answer = "APPROVE" THEN {"spam"} ELSE {})
DenialCaused(c) ==
    call[c].pc = "done" /\ call[c].answer \notin Allows \cup {"unknown", "none"} =>
        call[c].answer \in seen[c] \cup (IF faults = 0 THEN {} ELSE {"unverified"})

AskInv(c) == OnRecord(c) /\ Carries(c) /\ Excluded(c) /\ AllowKept(c) /\ DenialCaused(c)
PolicyInv == TypeInv /\ \A c \in Call : AskInv(c)

LEMMA CallFields ==
    ASSUME TypeInv, NEW c \in Call
    PROVE  /\ call[c].pc \in Step => call[c] \in Working
           /\ call[c].pc = "done" => call[c] \in Answered
           /\ c \in InFlight <=> call[c].pc \in Step
  <1>1. call[c] \in Idle \cup Working \cup Answered
    BY DEF TypeInv
  <1> QED
    BY <1>1 DEF Idle, Working, Answered, Step, InFlight

LEMMA BarsTyped == \A sp, kind : BarsNow(sp, kind) \subseteq Bars
  BY DEF BarsNow, Bars

\* What happens around the evaluations, and their own steps.
Around == ChangePreferences \/ ChangeProvider \/ TimePasses \/ \E p \in SP : CreateAd(p)
Query(c) == CheckProvider(c) \/ CheckBlock(c) \/ CheckDND(c) \/ CheckAds(c) \/ GiveUp(c)

LEMMA AroundWatches == Around => Watch
  BY DEF Around, ChangePreferences, ChangeProvider, TimePasses, CreateAd

(***************************************************************************)
(* The steps of an evaluation, seen as what they do to its record.         *)
(***************************************************************************)
\* The answers, and the way on, that the steps may take.
LEMMA Records ==
    ASSUME TypeInv, NEW c \in Call, call[c].pc \in Step
    PROVE  /\ \A k : Goto(c, k) => call'[c] = k /\ \A d \in Call \ {c} : call'[d] = call[d]
           /\ \A a \in Bars \cup Allows \cup {"unknown", "none"} :
                 Answer(c, a) => /\ call'[c] \in Answered /\ call'[c].pc = "done" /\ call'[c].answer = a
                                 /\ call' \in [Call -> Idle \cup Working \cup Answered]
           /\ \A pc \in Step :
                 Continue(c, pc) => /\ call'[c] \in Working /\ call'[c].pc = pc
                                    /\ call'[c].sp = call[c].sp /\ call'[c].kind = call[c].kind
                                    /\ call'[c].allowed = call[c].allowed /\ call'[c].spammy = call[c].spammy
                                    /\ call' \in [Call -> Idle \cup Working \cup Answered]
  <1>1. call[c] \in Working
    BY CallFields
  <1>2. ASSUME NEW k, Goto(c, k) PROVE call'[c] = k /\ \A d \in Call \ {c} : call'[d] = call[d]
    BY <1>2 DEF Goto, TypeInv
  <1>3. ASSUME NEW a \in Bars \cup Allows \cup {"unknown", "none"}, Answer(c, a)
        PROVE  /\ call'[c] \in Answered /\ call'[c].pc = "done" /\ call'[c].answer = a
               /\ call' \in [Call -> Idle \cup Working \cup Answered]
    <2> DEFINE k == [pc |-> "done", sp |-> call[c].sp, kind |-> call[c].kind, answer |-> a]
    <2>1. k \in Answered /\ k.pc = "done" /\ k.answer = a
      BY <1>1 DEF Working, Answered
    <2>2. call' = [call EXCEPT ![c] = k]
      BY <1>3 DEF Answer, Goto
    <2> HIDE DEF k
    <2> QED
      BY <2>1, <2>2 DEF TypeInv
  <1>4. ASSUME NEW pc \in Step, Continue(c, pc)
        PROVE  /\ call'[c] \in Working /\ call'[c].pc = pc
               /\ call'[c].sp = call[c].sp /\ call'[c].kind = call[c].kind
               /\ call'[c].allowed = call[c].allowed /\ call'[c].spammy = call[c].spammy
               /\ call' \in [Call -> Idle \cup Working \cup Answered]
    <2> DEFINE k == [call[c] EXCEPT !.pc = pc]
    <2>1. /\ k \in Working /\ k.pc = pc /\ k.sp = call[c].sp /\ k.kind = call[c].kind
          /\ k.allowed = call[c].allowed /\ k.spammy = call[c].spammy
      BY <1>1 DEF Working
    <2>2. call' = [call EXCEPT ![c] = k]
      BY <1>4 DEF Continue, Goto
    <2> HIDE DEF k
    <2> QED
      BY <2>1, <2>2 DEF TypeInv
  <1> QED
    BY <1>2, <1>3, <1>4

\* What the provider's status leaves in the record.
Scored(c, bad) == [call[c] EXCEPT !.pc = "block", !.spammy = bad]
LEMMA ScoredRecord ==
    ASSUME TypeInv, NEW c \in Call, call[c].pc \in Step, NEW bad \in BOOLEAN, Goto(c, Scored(c, bad))
    PROVE  /\ call'[c] \in Working /\ call'[c].pc = "block" /\ call'[c].spammy = bad
           /\ call'[c].sp = call[c].sp /\ call'[c].kind = call[c].kind /\ call'[c].allowed = call[c].allowed
           /\ call' \in [Call -> Idle \cup Working \cup Answered]
  <1>1. call[c] \in Working
    BY CallFields
  <1>2. /\ Scored(c, bad) \in Working /\ Scored(c, bad).pc = "block" /\ Scored(c, bad).spammy = bad
        /\ Scored(c, bad).sp = call[c].sp /\ Scored(c, bad).kind = call[c].kind
        /\ Scored(c, bad).allowed = call[c].allowed
    BY <1>1 DEF Scored, Working, Step
  <1>3. call' = [call EXCEPT ![c] = Scored(c, bad)]
    BY DEF Goto
  <1> HIDE DEF Scored
  <1> QED
    BY <1>2, <1>3 DEF TypeInv

\* Ways an evaluation goes on: it answers, or continues at a later query.
Ends(c, a) == call'[c] \in Answered /\ call'[c].pc = "done" /\ call'[c].answer = a
Goes(c, pc) ==
    /\ call'[c] \in Working /\ call'[c].pc = pc
    /\ call'[c].sp = call[c].sp /\ call'[c].kind = call[c].kind /\ call'[c].allowed = call[c].allowed

\* A step of an evaluation touches its own record and the failures.
LEMMA QueryFrame ==
    ASSUME TypeInv, NEW c \in Call, Query(c)
    PROVE  /\ c \in InFlight /\ call[c] \in Working
           /\ \A d \in Call \ {c} : call'[d] = call[d]
           /\ faults' \in Nat /\ faults' >= faults /\ (faults' = 0 => faults = 0)
           /\ UNCHANGED <<world, standing, seen, changes>>
  <1>1. call[c].pc \in Step /\ c \in InFlight /\ call[c] \in Working
    <2>1. call[c].pc \in Step
      BY DEF Query, CheckProvider, CheckBlock, CheckDND, CheckAds, GiveUp, Step, InFlight
    <2> QED
      BY <2>1, CallFields
  <1>2. \E k : Goto(c, k)
    BY DEF Query, CheckProvider, CheckBlock, CheckDND, CheckAds, GiveUp, Answer, Continue, CheckApproval, CheckSpam
  <1>3. faults' = faults \/ faults' = faults + 1
    BY DEF Query, CheckProvider, CheckBlock, CheckDND, CheckAds, GiveUp, Known, Fault
  <1>4. UNCHANGED <<world, standing, seen, changes>>
    BY DEF Query, CheckProvider, CheckBlock, CheckDND, CheckAds, GiveUp, Asking
  <1> QED
    BY <1>1, <1>2, <1>3, <1>4, Records DEF TypeInv

\* An answer with the spam test, and with the approval before it.
LEMMA SpamAnswers ==
    ASSUME TypeInv, NEW c \in Call, call[c].pc \in Step, CheckSpam(c)
    PROVE  /\ (call[c].spammy /\ Ends(c, "spam")) \/ (~call[c].spammy /\ Ends(c, "ALLOW"))
           /\ call' \in [Call -> Idle \cup Working \cup Answered]
  <1>1. call[c].spammy \in BOOLEAN
    BY CallFields DEF Working
  <1>2. "spam" \in Bars /\ "ALLOW" \in Allows
    BY DEF Bars, Allows
  <1> QED
    BY <1>1, <1>2, Records DEF CheckSpam, Ends

LEMMA ApprovalAnswers ==
    ASSUME TypeInv, NEW c \in Call, call[c].pc \in Step, CheckApproval(c)
    PROVE  /\ \/ Ends(c, "APPROVE") /\ call[c].kind # "ad"
              \/ Goes(c, "ads") /\ call'[c].spammy = call[c].spammy /\ call[c].kind = "ad"
              \/ call[c].kind # "ad" /\ call[c].spammy /\ Ends(c, "spam")
              \/ call[c].kind # "ad" /\ ~call[c].spammy /\ Ends(c, "ALLOW")
           /\ call' \in [Call -> Idle \cup Working \cup Answered]
  <1>1. "APPROVE" \in Allows /\ "ads" \in Step
    BY DEF Allows, Step
  <1>2. CASE call[c].kind = "callback" /\ call[c].approval
    <2>1. Answer(c, "APPROVE") /\ call[c].kind # "ad"
      BY <1>2 DEF CheckApproval
    <2> QED
      BY <2>1, <1>1, Records DEF Ends
  <1>3. CASE call[c].kind = "ad"
    <2>1. Continue(c, "ads")
      BY <1>3 DEF CheckApproval
    <2> QED
      BY <2>1, <1>1, <1>3, Records DEF Goes
  <1>4. CASE ~(call[c].kind = "callback" /\ call[c].approval) /\ call[c].kind # "ad"
    <2>1. CheckSpam(c)
      BY <1>4 DEF CheckApproval
    <2> QED
      BY <2>1, <1>4, SpamAnswers
  <1> QED
    BY <1>2, <1>3, <1>4

(***************************************************************************)
(* Types.                                                                  *)
(***************************************************************************)
\* The record of an evaluation that begins.
Begun(c, sp, kind) == [pc |-> "provider", sp |-> sp, kind |-> kind, allowed |-> kind \in allow,
                       approval |-> approval, spammy |-> FALSE]
Unknown(sp, kind) == [pc |-> "done", sp |-> sp, kind |-> kind, answer |-> "unknown"]
LEMMA BeginRecords ==
    ASSUME TypeInv, NEW c \in Call, NEW sp \in SP, NEW kind \in Kinds, Begin(c, sp, kind)
    PROVE  /\ \/ /\ call'[c].pc = "provider" /\ call'[c].sp = sp /\ call'[c].kind = kind
                 /\ call'[c].allowed = (kind \in allow) /\ call'[c].spammy = FALSE
              \/ Ends(c, "unknown")
           /\ call' \in [Call -> Idle \cup Working \cup Answered]
           /\ \A d \in Call \ {c} : /\ call'[d] = call[d] /\ standing'[d] = standing[d] /\ seen'[d] = seen[d]
           /\ standing'[c] = BarsNow(sp, kind) /\ seen'[c] = BarsNow(sp, kind)
           /\ standing' \in [Call -> SUBSET Bars] /\ seen' \in [Call -> SUBSET Bars]
           /\ faults' \in Nat /\ faults' >= faults /\ (faults' = 0 => faults = 0)
           /\ UNCHANGED <<world, changes>>
  <1>1. /\ Begun(c, sp, kind) \in Working
        /\ Begun(c, sp, kind).pc = "provider" /\ Begun(c, sp, kind).sp = sp /\ Begun(c, sp, kind).kind = kind
        /\ Begun(c, sp, kind).allowed = (kind \in allow) /\ Begun(c, sp, kind).spammy = FALSE
    BY DEF Begun, Working, Step, TypeInv
  <1>2. Unknown(sp, kind) \in Answered /\ Unknown(sp, kind).pc = "done" /\ Unknown(sp, kind).answer = "unknown"
    BY DEF Unknown, Answered
  <1>3. PICK known \in BOOLEAN : /\ Known(known)
                                 /\ Goto(c, IF known THEN Begun(c, sp, kind) ELSE Unknown(sp, kind))
    BY DEF Begin, Begun, Unknown
  <1>4. faults' \in Nat /\ faults' >= faults /\ (faults' = 0 => faults = 0)
    BY <1>3 DEF Known, Fault, TypeInv
  <1>5. /\ standing' = [standing EXCEPT ![c] = BarsNow(sp, kind)] /\ seen' = [seen EXCEPT ![c] = BarsNow(sp, kind)]
        /\ UNCHANGED <<world, changes>>
    BY DEF Begin
  <1>6. /\ standing' \in [Call -> SUBSET Bars] /\ seen' \in [Call -> SUBSET Bars]
        /\ standing'[c] = BarsNow(sp, kind) /\ seen'[c] = BarsNow(sp, kind)
        /\ \A d \in Call \ {c} : standing'[d] = standing[d] /\ seen'[d] = seen[d]
    BY <1>5, BarsTyped DEF TypeInv
  <1>7. \E k \in {Begun(c, sp, kind), Unknown(sp, kind)} : call' = [call EXCEPT ![c] = k]
    BY <1>3 DEF Goto
  <1> HIDE DEF Begun, Unknown
  <1> QED
    BY <1>1, <1>2, <1>4, <1>5, <1>6, <1>7 DEF TypeInv, Ends

LEMMA HoursStep == HoursTypes /\ (UNCHANGED hours \/ Tick \/ \E r \in Rule : SaveRule(r)) => HoursTypes'
  BY DEF HoursTypes, hours, Tick, SaveRule

LEMMA TypeStep == TypeInv /\ [Next]_vars => TypeInv'
  <1> SUFFICES ASSUME TypeInv, [Next]_vars PROVE TypeInv'
    OBVIOUS
  <1>1. CASE Around
    <2>1. Watch
      BY <1>1, AroundWatches
    <2>2. \A c \in Call : c \in InFlight => Against(c)' \subseteq Bars
      BY BarsTyped DEF Against, BarsNow, Bars
    <2>3. standing' \in [Call -> SUBSET Bars] /\ seen' \in [Call -> SUBSET Bars]
      BY <2>1, <2>2 DEF Watch, TypeInv
    <2>4. HoursTypes'
      BY <1>1, HoursStep DEF TypeInv, Around, ChangePreferences, ChangeProvider, TimePasses, CreateAd, hours
    <2>5. approval' \in BOOLEAN
      BY <1>1 DEF TypeInv, Around, ChangePreferences, ChangeProvider, TimePasses, CreateAd, prefs
    <2> QED
      BY <2>1, <2>3, <2>4, <2>5 DEF Watch, TypeInv
  <1>2. ASSUME NEW c \in Call, NEW p \in SP, NEW k \in Kinds, Begin(c, p, k) PROVE TypeInv'
    BY <1>2, BeginRecords, HoursStep DEF TypeInv, world, prefs
  <1>3. ASSUME NEW c \in Call, Query(c) PROVE TypeInv'
    <2>1. /\ call[c].pc \in Step /\ call[c] \in Working /\ faults' \in Nat
          /\ UNCHANGED <<world, standing, seen, changes>>
      BY <1>3, QueryFrame, CallFields
    <2>2. call' \in [Call -> Idle \cup Working \cup Answered]
      <3>1. /\ {"unverified", "suspended", "blocked", "category", "quiet", "cap", "none"} \subseteq Bars \cup Allows \cup {"unknown", "none"}
            /\ {"block", "dnd", "ads"} \subseteq Step
        BY DEF Bars, Step
      <3>2. CASE \E a \in {"unverified", "suspended", "blocked", "category", "quiet", "cap", "none"} : Answer(c, a)
        BY <3>1, <3>2, <2>1, Records
      <3>3. CASE Continue(c, "dnd")
        BY <3>1, <3>3, <2>1, Records
      <3>4. CASE CheckSpam(c) \/ CheckApproval(c)
        BY <3>4, <2>1, SpamAnswers, ApprovalAnswers
      <3>5. CASE \E bad \in BOOLEAN : Goto(c, Scored(c, bad))
        BY <3>5, <2>1, ScoredRecord
      <3> QED
        BY <1>3, <3>2, <3>3, <3>4, <3>5 DEF Query, CheckProvider, CheckBlock, CheckDND, CheckAds, GiveUp, Scored
    <2> QED
      BY <2>1, <2>2, HoursStep DEF TypeInv, world, prefs
  <1>4. CASE UNCHANGED vars
    BY <1>4, HoursStep DEF vars, world, prefs, TypeInv
  <1> QED
    BY <1>1, <1>2, <1>3, <1>4 DEF Next, Around, Query

(***************************************************************************)
(* The invariant, evaluation by evaluation.                                *)
(***************************************************************************)
\* What happens around an evaluation takes bars off its record, or adds to what it
\* has seen.
LEMMA WatchKeeps ==
    ASSUME TypeInv, Watch, NEW c \in Call, AskInv(c)
    PROVE  AskInv(c)'
  <1> DEFINE A == Against(c)'
  <1>1. /\ call' = call /\ faults' = faults /\ InFlight' = InFlight
        /\ standing'[c] = IF c \in InFlight THEN standing[c] \cap A ELSE standing[c]
        /\ seen'[c] = IF c \in InFlight THEN seen[c] \cup A ELSE seen[c]
    BY DEF Watch, InFlight
  <1>2. OnRecord(c)'
    BY <1>1 DEF OnRecord
  <1> HIDE DEF A
  <1>3. standing'[c] \subseteq standing[c] /\ seen[c] \subseteq seen'[c]
    BY <1>1
  <1>4. Carries(c)' /\ Excluded(c)'
    BY <1>1, <1>3 DEF AskInv, Carries, Excluded
  <1>5. AllowKept(c)' /\ DenialCaused(c)'
    BY <1>1, <1>3 DEF AskInv, AllowKept, DenialCaused
  <1> QED
    BY <1>2, <1>4, <1>5 DEF AskInv

\* Nothing that another evaluation does concerns this one, but its failure.
LEMMA OthersKeep ==
    ASSUME TypeInv, NEW c \in Call, AskInv(c), UNCHANGED world, faults' \in Nat, faults' >= faults,
           call'[c] = call[c], standing'[c] = standing[c], seen'[c] = seen[c]
    PROVE  AskInv(c)'
  <1>1. faults \in Nat /\ (faults' = 0 => faults = 0)
    BY DEF TypeInv
  <1>2. (c \in InFlight') = (c \in InFlight)
    BY DEF InFlight
  <1>3. OnRecord(c)'
    BY <1>2 DEF AskInv, OnRecord, Against, BarsNow, isDNDActive, world, prefs, hours, providers
  <1>4. Carries(c)' /\ Excluded(c)'
    BY <1>1, <1>2 DEF AskInv, Carries, Excluded
  <1>5. AllowKept(c)' /\ DenialCaused(c)'
    BY <1>1 DEF AskInv, AllowKept, DenialCaused
  <1> QED
    BY <1>3, <1>4, <1>5 DEF AskInv

\* An evaluation that begins.
LEMMA BeginAsks ==
    ASSUME TypeInv, NEW c \in Call, NEW sp \in SP, NEW kind \in Kinds, Begin(c, sp, kind)
    PROVE  AskInv(c)'
  <1>1. CASE Ends(c, "unknown")
    BY <1>1 DEF Ends, AskInv, OnRecord, Carries, Excluded, AllowKept, DenialCaused, InFlight, Step, Allows
  <1>2. CASE ~Ends(c, "unknown")
    <2>1. /\ call'[c].pc = "provider" /\ call'[c].sp = sp /\ call'[c].kind = kind
          /\ call'[c].allowed = (kind \in allow) /\ call'[c].spammy = FALSE
          /\ standing'[c] = BarsNow(sp, kind) /\ seen'[c] = BarsNow(sp, kind) /\ UNCHANGED world
      BY <1>2, BeginRecords
    <2>2. Against(c)' = BarsNow(sp, kind)
      BY <2>1 DEF Against, BarsNow, isDNDActive, world, prefs, hours, providers
    <2>3. "category" \in BarsNow(sp, kind) <=> kind \notin allow
      BY DEF BarsNow
    <2> QED
      BY <2>1, <2>2, <2>3 DEF AskInv, OnRecord, Carries, Excluded, AllowKept, DenialCaused
  <1> QED
    BY <1>1, <1>2

\* A way on that keeps what the invariant says: only the exclusions are left.
LEMMA GoesKeeps ==
    ASSUME TypeInv, NEW c \in Call, AskInv(c), Query(c), NEW pc \in Step, Goes(c, pc), Excluded(c)',
           call'[c].spammy => "spam" \in seen[c], pc = "ads" => call[c].kind = "ad"
    PROVE  AskInv(c)'
  <1>1. /\ c \in InFlight /\ UNCHANGED world /\ standing' = standing /\ seen' = seen
    BY QueryFrame
  <1>2. Against(c)' = Against(c)
    BY <1>1 DEF Goes, Against, BarsNow, isDNDActive, world, prefs, hours, providers
  <1>3. OnRecord(c)' /\ Carries(c)'
    BY <1>1, <1>2 DEF AskInv, OnRecord, Carries, Goes
  <1>4. AllowKept(c)' /\ DenialCaused(c)'
    BY DEF AllowKept, DenialCaused, Goes, Step
  <1> QED
    BY <1>3, <1>4 DEF AskInv

\* A denial whose bar has been seen.
LEMMA DenialKeeps ==
    ASSUME TypeInv, NEW c \in Call, Query(c), NEW a, Ends(c, a), a \notin Allows,
           a \in seen[c] \cup {"none"} \/ (a = "unverified" /\ faults' # 0)
    PROVE  AskInv(c)'
  <1>1. seen' = seen /\ c \notin InFlight'
    BY QueryFrame DEF Ends, InFlight, Step
  <1>2. OnRecord(c)' /\ Carries(c)' /\ Excluded(c)' /\ AllowKept(c)'
    BY <1>1 DEF OnRecord, Carries, Excluded, AllowKept, Ends
  <1>3. DenialCaused(c)'
    BY <1>1 DEF DenialCaused, Ends
  <1> QED
    BY <1>2, <1>3 DEF AskInv

\* An ALLOW, with what the queries have excluded.
LEMMA AllowKeeps ==
    ASSUME TypeInv, NEW c \in Call, Query(c), NEW a \in Allows, Ends(c, a),
           {"category", "unverified", "suspended"} \cap standing[c] = {},
           faults' = 0 => /\ {"blocked", "quiet", "cap"} \cap standing[c] = {}
                          /\ a = "ALLOW" => "spam" \notin standing[c]
    PROVE  AskInv(c)'
  <1>1. standing' = standing /\ seen' = seen /\ c \notin InFlight'
    BY QueryFrame DEF Ends, InFlight, Step
  <1>2. standing[c] \subseteq Bars
    BY DEF TypeInv
  <1>3. OnRecord(c)' /\ Carries(c)' /\ Excluded(c)' /\ DenialCaused(c)'
    BY <1>1 DEF OnRecord, Carries, Excluded, DenialCaused, Ends
  <1>4. AllowKept(c)'
    BY <1>1, <1>2 DEF AllowKept, Ends, Bars, Allows
  <1> QED
    BY <1>3, <1>4 DEF AskInv

\* The cap stands against advertisements alone.
LEMMA CapIsForAds ==
    ASSUME TypeInv, NEW c \in Call, AskInv(c), c \in InFlight
    PROVE  /\ call[c].kind # "ad" => "cap" \notin standing[c]
           /\ ~(adsToday[call[c].sp] >= AdCap) => "cap" \notin standing[c]
           /\ call[c].kind = "ad" /\ adsToday[call[c].sp] >= AdCap => "cap" \in seen[c]
  BY DEF AskInv, OnRecord, Against, BarsNow

LEMMA QueryAsks ==
    ASSUME TypeInv, NEW c \in Call, AskInv(c), Query(c)
    PROVE  AskInv(c)'
  <1>1. /\ c \in InFlight /\ call[c].pc \in Step /\ call[c] \in Working
        /\ faults \in Nat /\ faults' \in Nat /\ (faults' = 0 => faults = 0)
        /\ standing' = standing /\ seen' = seen
    BY QueryFrame, CallFields DEF TypeInv
  <1>2. /\ standing[c] \subseteq Against(c) /\ Against(c) \subseteq seen[c]
        /\ "category" \in standing[c] => ~call[c].allowed
        /\ ~call[c].allowed => "category" \in seen[c]
        /\ call[c].spammy => "spam" \in seen[c]
        /\ call[c].pc = "ads" => call[c].kind = "ad"
    BY <1>1 DEF AskInv, OnRecord, Carries
  <1>3. Excluded(c)
    BY DEF AskInv
  <1>4. ASSUME NEW a \in Bars \cup {"none"}, Answer(c, a)
        PROVE  Ends(c, a) /\ a \notin Allows
    BY <1>1, <1>4, Records DEF Ends, Bars, Allows
  <1>b. {"category", "blocked", "quiet", "cap", "unverified", "suspended", "spam"} \subseteq Bars
    BY DEF Bars
  <1>5. CASE CheckProvider(c)
    <2>1. CASE Answer(c, "unverified") /\ faults' # 0
      BY <2>1, <1>b, <1>4, DenialKeeps
    <2>2. CASE call[c].sp \in unverified /\ Answer(c, "unverified")
      <3>1. "unverified" \in seen[c]
        BY <2>2, <1>2 DEF Against, BarsNow
      <3> QED
        BY <2>2, <3>1, <1>b, <1>4, DenialKeeps
    <2>3. CASE call[c].sp \in suspended /\ Answer(c, "suspended")
      <3>1. "suspended" \in seen[c]
        BY <2>3, <1>2 DEF Against, BarsNow
      <3> QED
        BY <2>3, <3>1, <1>b, <1>4, DenialKeeps
    <2>4. ASSUME call[c].sp \notin unverified \cup suspended, NEW known \in BOOLEAN, Known(known),
                 Goto(c, Scored(c, known /\ call[c].sp \in spammy))
          PROVE  AskInv(c)'
      <3>1. Goes(c, "block") /\ call'[c].spammy = (known /\ call[c].sp \in spammy) /\ "block" \in Step
        BY <2>4, <1>1, ScoredRecord DEF Goes, Step
      <3>2. "unverified" \notin standing[c] /\ "suspended" \notin standing[c]
        BY <2>4, <1>2 DEF Against, BarsNow
      <3>3. "spam" \in standing[c] => call[c].sp \in spammy
        BY <1>2 DEF Against, BarsNow
      <3>4. call[c].sp \in spammy => "spam" \in seen[c]
        BY <1>2 DEF Against, BarsNow
      <3>5. faults' = 0 => known
        BY <2>4, <1>1 DEF Known, Fault
      <3>6. Excluded(c)'
        BY <3>1, <3>2, <3>3, <3>5, <1>1 DEF Excluded, Goes
      <3> QED
        BY <3>1, <3>4, <3>6, GoesKeeps DEF Goes
    <2>5. CASE call[c].sp \notin unverified \cup suspended
      <3>1. CASE Fault /\ Answer(c, "unverified")
        BY <3>1, <2>1, <1>1 DEF Fault
      <3>2. CASE ~(Fault /\ Answer(c, "unverified"))
        <4>1. \E known \in BOOLEAN : Known(known) /\ Goto(c, Scored(c, known /\ call[c].sp \in spammy))
          BY <3>2, <2>5, <1>5 DEF CheckProvider, Scored
        <4> HIDE DEF Scored
        <4> QED
          BY <4>1, <2>4, <2>5
      <3> QED
        BY <3>1, <3>2
    <2>6. CASE call[c].sp \in unverified \cup suspended
      <3>1. Fault => faults' # 0
        BY <1>1 DEF Fault
      <3> QED
        BY <3>1, <2>1, <2>2, <2>3, <2>6, <1>5 DEF CheckProvider
    <2> QED
      BY <2>5, <2>6
  <1>6. CASE CheckBlock(c)
    <2> PICK known \in BOOLEAN :
          /\ Known(known)
          /\ CASE known /\ call[c].sp \in blocked -> Answer(c, "blocked")
               [] ~(known /\ call[c].sp \in blocked) /\ ~call[c].allowed -> Answer(c, "category")
               [] OTHER -> Continue(c, "dnd")
      BY <1>6 DEF CheckBlock
    <2>1. CASE known /\ call[c].sp \in blocked
      <3>1. Answer(c, "blocked") /\ "blocked" \in seen[c]
        BY <2>1, <1>2 DEF Against, BarsNow
      <3> QED
        BY <3>1, <1>b, <1>4, DenialKeeps
    <2>2. CASE ~(known /\ call[c].sp \in blocked) /\ ~call[c].allowed
      BY <2>2, <1>2, <1>b, <1>4, DenialKeeps
    <2>3. CASE ~(known /\ call[c].sp \in blocked) /\ call[c].allowed
      <3>1. Continue(c, "dnd") /\ call[c].pc = "block"
        BY <2>3, <1>6 DEF CheckBlock
      <3>2. Goes(c, "dnd") /\ call'[c].spammy = call[c].spammy /\ "dnd" \in Step
        BY <3>1, <1>1, Records DEF Goes, Step
      <3>3. faults' = 0 => known
        BY <1>1 DEF Known, Fault
      <3>4. faults' = 0 => "blocked" \notin standing[c]
        BY <3>3, <2>3, <1>2 DEF Against, BarsNow
      <3>5. Excluded(c)'
        BY <3>1, <3>2, <3>4, <2>3, <1>1, <1>2, <1>3 DEF Excluded, Goes
      <3> QED
        BY <3>2, <3>5, <1>2, GoesKeeps DEF Goes
    <2> QED
      BY <2>1, <2>2, <2>3
  <1>7. CASE CheckDND(c)
    <2> PICK known \in BOOLEAN :
          /\ Known(known)
          /\ IF known /\ isDNDActive(CategoryOf(call[c].kind), call[c].sp)
             THEN Answer(c, "quiet") ELSE CheckApproval(c)
      BY <1>7 DEF CheckDND
    <2>0. call[c].pc = "dnd"
      BY <1>7 DEF CheckDND
    <2>1. CASE known /\ isDNDActive(CategoryOf(call[c].kind), call[c].sp)
      <3>1. Answer(c, "quiet") /\ "quiet" \in seen[c]
        BY <2>1, <1>2 DEF Against, BarsNow
      <3> QED
        BY <3>1, <1>b, <1>4, DenialKeeps
    <2>2. CASE ~(known /\ isDNDActive(CategoryOf(call[c].kind), call[c].sp))
      <3>1. faults' = 0 => "quiet" \notin standing[c]
        <4>1. faults' = 0 => known
          BY <1>1 DEF Known, Fault
        <4> QED
          BY <4>1, <2>2, <1>2 DEF Against, BarsNow
      <3>2. /\ {"category", "unverified", "suspended"} \cap standing[c] = {}
            /\ faults' = 0 => "blocked" \notin standing[c]
            /\ faults' = 0 /\ "spam" \in standing[c] => call[c].spammy
        BY <2>0, <1>1, <1>3 DEF Excluded
      <3>3. CASE Ends(c, "APPROVE") /\ call[c].kind # "ad"
        <4>1. "cap" \notin standing[c] /\ "APPROVE" \in Allows
          BY <3>3, <1>1, CapIsForAds DEF Allows
        <4> QED
          BY <3>1, <3>2, <3>3, <4>1, AllowKeeps DEF Ends
      <3>4. CASE Goes(c, "ads") /\ call'[c].spammy = call[c].spammy /\ call[c].kind = "ad"
        <4>1. Excluded(c)'
          BY <3>1, <3>2, <3>4, <1>1 DEF Excluded, Goes
        <4> QED
          BY <3>4, <4>1, <1>2, GoesKeeps DEF Goes, Step
      <3>5. CASE call[c].spammy /\ Ends(c, "spam")
        BY <3>5, <1>2, DenialKeeps DEF Ends, Allows
      <3>6. CASE call[c].kind # "ad" /\ ~call[c].spammy /\ Ends(c, "ALLOW")
        <4>1. "cap" \notin standing[c] /\ "ALLOW" \in Allows
          BY <3>6, <1>1, CapIsForAds DEF Allows
        <4> QED
          BY <3>1, <3>2, <3>6, <4>1, AllowKeeps DEF Ends
      <3>7. CheckApproval(c)
        BY <2>2
      <3> QED
        BY <3>3, <3>4, <3>5, <3>6, <3>7, <1>1, ApprovalAnswers
    <2> QED
      BY <2>1, <2>2
  <1>8. CASE CheckAds(c)
    <2> PICK known \in BOOLEAN :
          /\ Known(known)
          /\ IF known /\ adsToday[call[c].sp] >= AdCap THEN Answer(c, "cap") ELSE CheckSpam(c)
      BY <1>8 DEF CheckAds
    <2>0. call[c].pc = "ads"
      BY <1>8 DEF CheckAds
    <2>1. CASE known /\ adsToday[call[c].sp] >= AdCap
      <3>1. Answer(c, "cap") /\ "cap" \in seen[c]
        BY <2>0, <2>1, <1>1, <1>2, CapIsForAds
      <3> QED
        BY <3>1, <1>b, <1>4, DenialKeeps
    <2>2. CASE ~(known /\ adsToday[call[c].sp] >= AdCap)
      <3>1. CASE call[c].spammy /\ Ends(c, "spam")
        BY <3>1, <1>2, DenialKeeps DEF Ends, Allows
      <3>2. CASE ~call[c].spammy /\ Ends(c, "ALLOW")
        <4>1. faults' = 0 => known
          BY <1>1 DEF Known, Fault
        <4>2. faults' = 0 => "cap" \notin standing[c]
          BY <4>1, <2>2, <1>1, CapIsForAds
        <4>3. /\ {"category", "unverified", "suspended"} \cap standing[c] = {}
              /\ faults' = 0 => "blocked" \notin standing[c] /\ "quiet" \notin standing[c]
              /\ faults' = 0 => "spam" \notin standing[c]
          BY <2>0, <3>2, <1>1, <1>3 DEF Excluded
        <4> QED
          BY <3>2, <4>2, <4>3, AllowKeeps DEF Ends, Allows
      <3> QED
        BY <2>2, <3>1, <3>2, <1>1, SpamAnswers
    <2> QED
      BY <2>1, <2>2
  <1>9. CASE GiveUp(c)
    BY <1>9, <1>4, DenialKeeps DEF GiveUp
  <1> QED
    BY <1>5, <1>6, <1>7, <1>8, <1>9 DEF Query

LEMMA PolicyStep == PolicyInv /\ [Next]_vars => PolicyInv'
  <1> SUFFICES ASSUME PolicyInv, [Next]_vars, NEW c \in Call PROVE AskInv(c)'
    BY TypeStep DEF PolicyInv
  <1>t. TypeInv /\ AskInv(c)
    BY DEF PolicyInv
  <1>1. CASE Around
    BY <1>1, <1>t, AroundWatches, WatchKeeps
  <1>2. ASSUME NEW d \in Call, NEW p \in SP, NEW k \in Kinds, Begin(d, p, k) PROVE AskInv(c)'
    <2>1. CASE d = c
      BY <1>2, <2>1, <1>t, BeginAsks
    <2>2. CASE d # c
      <3>1. /\ call'[c] = call[c] /\ standing'[c] = standing[c] /\ seen'[c] = seen[c]
            /\ UNCHANGED world /\ faults' \in Nat /\ faults' >= faults
        BY <1>2, <2>2, <1>t, BeginRecords
      <3> QED
        BY <3>1, <1>t, OthersKeep
    <2> QED
      BY <2>1, <2>2
  <1>3. ASSUME NEW d \in Call, Query(d) PROVE AskInv(c)'
    <2>1. CASE d = c
      BY <1>3, <2>1, <1>t, QueryAsks
    <2>2. CASE d # c
      <3>1. /\ call'[c] = call[c] /\ standing'[c] = standing[c] /\ seen'[c] = seen[c]
            /\ UNCHANGED world /\ faults' \in Nat /\ faults' >= faults
        BY <1>3, <2>2, <1>t, QueryFrame
      <3> QED
        BY <3>1, <1>t, OthersKeep
    <2> QED
      BY <2>1, <2>2
  <1>4. CASE UNCHANGED vars
    <2>1. /\ UNCHANGED world /\ faults' \in Nat /\ faults' >= faults
          /\ call'[c] = call[c] /\ standing'[c] = standing[c] /\ seen'[c] = seen[c]
      BY <1>4, <1>t DEF vars, TypeInv
    <2> QED
      BY <2>1, <1>t, OthersKeep
  <1> QED
    BY <1>1, <1>2, <1>3, <1>4 DEF Next, Around, Query

LEMMA PolicyInvariant == Spec => []PolicyInv
  <1>1. Init => PolicyInv
    <2> SUFFICES ASSUME Init PROVE PolicyInv
      OBVIOUS
    <2>1. TypeInv
      BY DEF Init, HoursInit, TypeInv, HoursTypes, Idle, Bars
    <2>2. \A c \in Call : AskInv(c)
      BY DEF Init, AskInv, OnRecord, Carries, Excluded, AllowKept, DenialCaused, InFlight, Step
    <2> QED
      BY <2>1, <2>2 DEF PolicyInv
  <1> QED
    BY <1>1, PolicyStep, PTL DEF Spec

\* What has stood against a communication throughout its evaluation is never
\* answered with an ALLOW, whatever changes between the queries, but for the bars
\* whose query failed and the spam test that an approval comes before.
THEOREM BarsHold == Spec => []StandingBarsHold
  <1>1. PolicyInv => StandingBarsHold
    BY DEF PolicyInv, AskInv, AllowKept, StandingBarsHold, Done
  <1> QED
    BY <1>1, PolicyInvariant, PTL

\* A denial names a bar that stood at some time during its evaluation.
THEOREM DenialsNamed == Spec => []DenialsHaveCause
  <1>1. PolicyInv => DenialsHaveCause
    BY DEF PolicyInv, AskInv, DenialCaused, DenialsHaveCause, Done
  <1> QED
    BY <1>1, PolicyInvariant, PTL

(***************************************************************************)
(* QuietHours.                                                             *)
(***************************************************************************)
\* The minutes of the day in arithmetic, without the interval.
LEMMA TimesAreMinutes == \A t \in Times : t \in Int /\ 0 <= t /\ t <= 1439
  <1> DEFINE Minutes == 0..1439
             Minute(t) == t \in Int /\ 0 <= t /\ t <= 1439
  <1>1. \A t \in Minutes : Minute(t)
    OBVIOUS
  <1>2. Times \subseteq Minutes
    BY QuietAssumption
  <1> HIDE DEF Minutes, Minute
  <1>3. \A t \in Times : Minute(t)
    BY <1>1, <1>2
  <1> QED
    BY <1>3 DEF Minute

\* What the database returns is midnight to the evaluator and no time to the gateway.
LEMMA DatabaseTexts == \A t : timeToMinutes(Text(t)) = 0 /\ parseHHMM(Text(t)) = -1
  <1> SUFFICES ASSUME NEW t PROVE timeToMinutes(Text(t)) = 0 /\ parseHHMM(Text(t)) = -1
    OBVIOUS
  <1>1. Text(t).dated = TRUE /\ Len(Text(t).parts) = 3
    BY DEF Text
  <1> QED
    BY <1>1 DEF timeToMinutes, parseHHMM

\* A rule that was read from the database mutes its whole minute of midnight and
\* nothing else, whatever it says, and holds no push back.
THEOREM StoredRulesLoseTheirHours == Spec => []StoredRulesMuteAtMidnight
  <1>1. PolicyInv => StoredRulesMuteAtMidnight
    <2> SUFFICES ASSUME HoursTypes PROVE StoredRulesMuteAtMidnight
      BY DEF PolicyInv, TypeInv
    <2>1. minute \in Int /\ 0 <= minute
      BY TimesAreMinutes DEF HoursTypes
    <2>2. ASSUME NEW c \in Category, NEW p \in SP
          PROVE  isDNDActive(c, p) <=>
                   minute = 0 /\ \E r \in rules : r.active /\ ScopeApplies(r, c, p) /\ day \in r.days
      <3>1. isTimeInRange(minute, 0, 0) <=> minute = 0
        BY <2>1 DEF isTimeInRange
      <3> QED
        BY <3>1, DatabaseTexts DEF isDNDActive
    <2>3. ~isUserInDND
      BY DatabaseTexts DEF isUserInDND
    <2> QED
      BY <2>2, <2>3 DEF StoredRulesMuteAtMidnight
  <1> QED
    BY <1>1, PolicyInvariant, PTL
=============================================================================
