------------------------------ MODULE PageMachine ------------------------------
(* What the components of apps/web and apps/provider have in common: flags kept
   with useState, busy slots, requests that the server takes or refuses and whose
   answers may be lost, and queries that are loaded, retargeted and reloaded.  A
   table says what each component does (WebPages, ProviderPages); this module
   runs any one of them against a server that answers in any order.

   The content of a query is the set of changes it contains, so that an answer
   read before a change differs from one read after it; its aim counts how often
   the parameters (search text, filter, page, selected row) were changed.        *)
EXTENDS Naturals, FiniteSets

CONSTANTS
    Table,        \* component -> what PageTable!Page describes
    MaxUses,      \* bound on changes and requests in a behaviour
    MaxInFlight   \* bound on requests in flight together

Ids   == 1 .. MaxUses
Items == 1 .. 4
None  == "none"

ASSUME BoundsAssumption == MaxUses \in Nat /\ MaxInFlight \in Nat

(* The tables are well formed: operations fetch queries of their own component.   *)
ASSUME TableAssumption ==
    \A p \in DOMAIN Table :
        /\ IsFiniteSet(Table[p].queries)
        /\ Table[p].loads \subseteq Table[p].queries
        /\ Table[p].live \subseteq Table[p].queries
        /\ \A o \in DOMAIN Table[p].ops :
              /\ Table[p].ops[o].asks \subseteq Table[p].queries
              /\ Table[p].ops[o].okLoads \subseteq Table[p].queries
              /\ Table[p].ops[o].noLoads \subseteq Table[p].queries

(* The requests of a busy slot stand in the same dialog.  Those of a slot that is
   claimed to be "single" are barred while it is held; those of a slot that is not
   "leaky" free it whatever the answer is.                                        *)
ASSUME SlotAssumption ==
    \A p \in DOMAIN Table : \A o, r \in DOMAIN Table[p].ops :
        LET op == Table[p].ops[o] IN
        /\ "none" \notin Table[p].single
        /\ op.slot # "none" /\ Table[p].ops[r].slot = op.slot => Table[p].ops[r].home = op.home
        /\ op.kind = "call" /\ op.slot \in Table[p].single => op.slot \in op.idle
        /\ op.slot \notin Table[p].leaky \cup {"none"} => op.frees = "always"

(* "gone" says that the component was left: nothing brings it back.               *)
ASSUME GoneAssumption ==
    \A p \in DOMAIN Table :
        /\ \A f \in Table[p].fails \cup Table[p].wipes : f[2] # "gone"
        /\ \A x \in Table[p].inside : x[1] # "gone"
        /\ \A o \in DOMAIN Table[p].ops :
              "gone" \notin Table[p].ops[o].off \cup Table[p].ops[o].okOff \cup Table[p].ops[o].noOff

(* What is claimed to be "fresh" outlives every dialog and is displayed only as it
   was loaded.  Whoever asks for other parameters fetches it; whoever changes it
   fetches it once the answer is there, or leaves; and such a fetch makes the answers
   to older ones be dropped.                                                      *)
ASSUME FreshAssumption ==
    \A p \in DOMAIN Table : \A q \in Table[p].fresh :
        LET afresh(qs) == q \in qs /\ q \in Table[p].latest IN
        /\ q \in Table[p].queries
        /\ \A x \in Table[p].inside : x[1] # q
        /\ q \in Table[p].live => q \in Table[p].latest
        /\ \A o \in DOMAIN Table[p].ops :
              LET op   == Table[p].ops[o]
                  done == afresh(op.okLoads) \/ "gone" \in op.okOn
              IN
              /\ q \notin op.hopes \cup op.okPatch \cup op.undo
              /\ q \in op.moves => afresh(op.asks)
              /\ q \in op.writes => done
              /\ q \in op.spills => IF op.blind THEN done ELSE afresh(op.noLoads)

(* A draft stands in no dialog and no error flag, and only gestures begin one.  A request
   neither drops one when it leaves nor when it fails; while one is saved, it can be
   discarded but not begun anew; and no timer drops one.  ("none" is the home of what
   stands in no dialog.)                                                          *)
ASSUME DraftAssumption ==
    \A p \in DOMAIN Table :
        LET ops == Table[p].ops IN
        /\ "none" \notin Table[p].start /\ \A f \in Table[p].fails : f[2] # "none"
        /\ \A o \in DOMAIN ops : "none" \notin ops[o].on \cup ops[o].okOn \cup ops[o].noOn
        /\ \A d \in Table[p].drafts :
              /\ \A x \in Table[p].inside : x[1] # d
              /\ \A f \in Table[p].fails \cup Table[p].wipes : f[2] # d
              /\ \A o \in DOMAIN ops :
                    /\ d \in ops[o].off => ops[o].kind # "call" /\ ops[o].off \cap Table[p].timers = {}
                    /\ d \in ops[o].okOff =>
                          /\ ops[o].home = "none" /\ ops[o].slot \in Table[p].single
                          /\ \A r \in DOMAIN ops : d \in ops[r].on => ops[o].slot \in ops[r].idle
                    /\ d \in ops[o].on => ops[o].kind = "gesture"
                    /\ d \notin ops[o].okOn \cup ops[o].noOn \cup ops[o].noOff

(* The operation o leads out of the dialog m of the component p, and its control
   works while the dialog is open: it asks for nothing but the dialog and what was
   there when it was opened, and what disables it can come up no more.            *)
Exit(p, m, o) ==
    LET ops    == Table[p].ops
        opens  == {r \in DOMAIN ops : m \in ops[r].on}
        begun  == UNION {ops[r].on : r \in DOMAIN ops}
        ended  == UNION {ops[r].okOn \cup ops[r].noOn : r \in DOMAIN ops}
        again  == Table[p].live \cup UNION {ops[r].asks \cup ops[r].okLoads \cup ops[r].noLoads : r \in DOMAIN ops}
        failed == {f[2] : f \in Table[p].fails}
    IN  /\ m \in ops[o].off \cup ops[o].okOff \cup ops[o].noOff
        /\ ops[o].need \subseteq {m} /\ ops[o].awaits = {}
        /\ ops[o].idle \subseteq {ops[r].slot : r \in DOMAIN ops} \ ({"none"} \cup Table[p].leaky)
        /\ ops[o].sees \cup ops[o].bar # {} => m \notin Table[p].start \cup ended \cup failed
        /\ \A q \in ops[o].sees : /\ q \in Table[p].queries
                                  /\ \A x \in Table[p].inside : x[1] # q
                                  /\ \A r \in opens : q \in ops[r].sees
        /\ \A b \in ops[o].bar : /\ b \notin begun \cup ended
                                 /\ \A r \in opens : b \in ops[r].bar
                                 /\ \A f \in Table[p].fails : f[2] = b => f[1] \in ops[o].sees \ again

ASSUME DialogAssumption ==
    \A p \in DOMAIN Table : \A m \in Table[p].modals : \E o \in DOMAIN Table[p].ops : Exit(p, m, o)

(* Steps of a wizard: one is on at first, and an operation that goes to another turns
   off the one it stands in.                                                       *)
ASSUME ApartAssumption ==
    \A p \in DOMAIN Table :
        LET steps == Table[p].apart IN
        /\ \A f, g \in steps \cap Table[p].start : f = g
        /\ \A f \in Table[p].fails : f[2] \notin steps
        /\ \A o \in DOMAIN Table[p].ops :
              LET op == Table[p].ops[o] IN
              /\ (op.okOn \cup op.noOn) \cap steps = {}
              /\ \A f, g \in op.on \cap steps : f = g
              /\ op.on \cap steps # {} => op.need \cap op.off \cap steps # {}

(* A flag that rests on another is turned on only by a control that needs the other,
   or something that rests on it, and leaves it on; and the other is turned off only
   by controls out of reach while the first is on, or together with it.  No answer
   touches either the wrong way.                                                   *)
ASSUME RestAssumption ==
    \A p \in DOMAIN Table : \A x \in Table[p].rests :
        LET steps == Table[p].apart IN
        /\ x[1] \in Table[p].start => x[2] \in Table[p].start
        /\ \A f \in Table[p].fails : f[2] \notin {x[1], x[2]}
        /\ \A f \in Table[p].wipes : f[2] # x[2]
        /\ \A y \in Table[p].inside : y[1] # x[2]
        /\ \A o \in DOMAIN Table[p].ops :
              LET op == Table[p].ops[o] IN
              /\ x[1] \notin op.okOn \cup op.noOn /\ x[2] \notin op.okOff \cup op.noOff
              /\ x[1] \in op.on => \/ x[2] \in op.on
                                   \/ /\ x[2] \notin op.off
                                      /\ \E f \in op.need : f = x[2] \/ <<f, x[2]>> \in Table[p].rests
              /\ x[2] \in op.off => \/ x[1] \in op.off \cup op.bar
                                    \/ x[1] \in steps /\ \E f \in op.need \cap steps : f # x[1]

(* What an operation requires its control looks at, or stands where it must be.    *)
ASSUME RequiresAssumption ==
    \A p \in DOMAIN Table : \A x \in Table[p].requires :
        \E f \in Table[p].ops[x[1]].need : f = x[2] \/ <<f, x[2]>> \in Table[p].rests

VARIABLES
    page,    \* the component at work
    ui,      \* its flags that are on
    held,    \* busy slot -> the item it is held for, 0 when free
    calls,   \* requests in flight
    loads,   \* loads in flight
    aim,     \* query -> the parameters it is asked with by now
    truth,   \* query -> the changes the server has made to it
    shown,   \* query -> what the component displays
    uses,    \* changes and requests so far
    edited,  \* draft -> the value of uses when it was begun or last changed
    clean    \* no answer and no load was lost so far

vars   == <<page, ui, held, calls, loads, aim, truth, shown, uses, edited, clean>>
screen == <<ui, held, calls, loads, shown>>

P       == Table[page]
Ops     == DOMAIN P.ops
Queries == P.queries
Slots   == {P.ops[o].slot : o \in Ops} \ {None}
OpOf(c) == P.ops[c.op]
Flags   == P.start \cup {f[2] : f \in P.fails}
           \cup UNION {P.ops[o].on \cup P.ops[o].okOn \cup P.ops[o].noOn : o \in Ops}

Blank      == [seen |-> FALSE, aim |-> 0, has |-> {}]
Current(q) == [seen |-> TRUE, aim |-> aim[q], has |-> truth[q]]
LoadsOf(q) == {l \in loads : l.q = q}
Mounted    == "gone" \notin ui

(* A fetch of each of the queries qs is issued.  Where the component drops the
   answers it no longer wants ("latest"), the older fetches count no more.       *)
WantedAll(ls, qs) == ls   \* (mutant) older answers are displayed too
Wanted(ls, qs) == {l \in ls : l.q \notin qs \cap P.latest}
Asked(ls, qs, to) ==
    Wanted(ls, qs) \cup
        {[q |-> q, n |-> 1 + Cardinality({l \in Wanted(ls, qs) : l.q = q}), aim |-> to[q],
          read |-> FALSE, has |-> {}] : q \in qs}

Errors(qs) == {f[2] : f \in {g \in P.fails : g[1] \in qs}}
Patched(sh, qs, id)   == [q \in Queries |-> IF q \in qs THEN [sh[q] EXCEPT !.has = @ \cup {id}] ELSE sh[q]]
Unpatched(sh, qs, id) == [q \in Queries |-> IF q \in qs THEN [sh[q] EXCEPT !.has = @ \ {id}] ELSE sh[q]]

Init ==
    /\ page \in DOMAIN Table
    /\ ui = P.start
    /\ held = [s \in Slots |-> 0]
    /\ calls = {}
    /\ aim = [q \in Queries |-> 0]
    /\ loads = Asked({}, P.loads, aim)
    /\ truth = [q \in Queries |-> {}]
    /\ shown = [q \in Queries |-> Blank]
    /\ uses = 0
    /\ edited = [d \in P.drafts |-> 0]
    /\ clean = TRUE

(* The screen becomes the given one, less what stands in a dialog that closes: its
   flags, busy slots and queries go with it, and its requests have no home left.  *)
Inside(fs)  == {x[1] : x \in {y \in P.inside : y[2] \in fs}}
SlotsIn(fs) == {P.ops[o].slot : o \in {p \in Ops : P.ops[p].home \in fs}}
Kept(fs)    == {f \in fs : \A x \in P.inside : x[1] = f => x[2] \in fs}
Becomes(fs, hs, cs, ls, sh) ==
    LET closed == ui \ fs
    IN /\ ui' = Kept(fs)
       /\ held' = [s \in Slots |-> IF s \in SlotsIn(closed) THEN 0 ELSE hs[s]]
       /\ calls' = {[c EXCEPT !.here = @ /\ OpOf(c).home \notin closed] : c \in cs}
       /\ loads' = {l \in ls : l.q \notin Inside(closed)}
       /\ shown' = [q \in Queries |-> IF q \in Inside(closed) THEN Blank ELSE sh[q]]

--------------------------------------------------------------------------------
(* The user.                                                                     *)

(* A control works when what it stands in is on screen, nothing that disables it
   is set, and what it shows has been loaded.                                    *)
ReachableAnyway(o) ==   \* (mutant) a control that is not there works
    /\ Mounted
    /\ P.ops[o].bar \cap ui = {}
    /\ \A q \in P.ops[o].sees : shown[q].seen
    /\ \A q \in P.ops[o].awaits : shown[q].seen /\ LoadsOf(q) = {}
Reachable(o) ==
    /\ Mounted
    /\ P.ops[o].need \subseteq ui
    /\ P.ops[o].bar \cap ui = {}
    /\ \A q \in P.ops[o].sees : shown[q].seen
    /\ \A q \in P.ops[o].awaits : shown[q].seen /\ LoadsOf(q) = {}
BarredNever(o) == FALSE   \* (mutant) disabled={loading} is missing
Barred(o)     == \E s \in P.ops[o].idle : held[s] # 0
OwnBusy(o, k) == P.ops[o].own /\ held[P.ops[o].slot] = k

(* A gesture changes flags, may ask for other parameters and may fetch; so does a
   timer that runs out, whose fetches the gesture that started it has paid for.  *)
Gesture(o) ==
    /\ P.ops[o].kind = "gesture"
    /\ Reachable(o) /\ ~Barred(o)
    /\ LET op     == P.ops[o]
           spends == op.moves # {} \/ (op.asks # {} /\ op.off \cap P.timers = {})
           to     == [q \in Queries |-> IF q \in op.moves THEN aim[q] + 1 ELSE aim[q]]
       IN /\ spends => uses < MaxUses
          /\ uses' = IF spends THEN uses + 1 ELSE uses
          /\ aim' = to
          /\ edited' = [d \in P.drafts |-> IF d \in op.on THEN uses ELSE edited[d]]
          /\ Becomes(((ui \ op.off) \ Errors(op.asks)) \cup op.on, held, calls,
                     Asked(loads, op.asks, to), shown)
    /\ UNCHANGED <<page, truth, clean>>

(* A request leaves; an optimistic component shows its effect at once.           *)
Send(o, k) ==
    /\ P.ops[o].kind = "call"
    /\ k \in P.ops[o].items
    /\ Reachable(o) /\ ~Barred(o) /\ ~OwnBusy(o, k)
    /\ uses < MaxUses /\ Cardinality(calls) < MaxInFlight
    /\ uses' = uses + 1
    /\ LET op  == P.ops[o]
           new == [id |-> uses + 1, op |-> o, item |-> k, stage |-> "sent", here |-> TRUE]
       IN Becomes((ui \ op.off) \cup op.on,
                  [s \in Slots |-> IF s = op.slot THEN k ELSE held[s]],
                  calls \cup {new}, loads, Patched(shown, op.hopes, uses + 1))
    /\ UNCHANGED <<page, aim, truth, edited, clean>>

--------------------------------------------------------------------------------
(* The server.                                                                   *)

Take(c) ==
    /\ c.stage = "sent"
    /\ calls' = (calls \ {c}) \cup {[c EXCEPT !.stage = "accepted"]}
    /\ truth' = [q \in Queries |-> IF q \in OpOf(c).writes THEN truth[q] \cup {c.id} ELSE truth[q]]
    /\ UNCHANGED <<page, ui, held, loads, aim, shown, uses, edited, clean>>

(* An operation of several steps that fails half-way has spilt into some queries. *)
Refuse(c) ==
    /\ c.stage = "sent"
    /\ calls' = (calls \ {c}) \cup {[c EXCEPT !.stage = "refused"]}
    /\ truth' = [q \in Queries |-> IF q \in OpOf(c).spills THEN truth[q] \cup {c.id} ELSE truth[q]]
    /\ UNCHANGED <<page, ui, held, loads, aim, shown, uses, edited, clean>>

(* Somebody else changes what is shown; an event makes the component reload all that
   it reloads on events.                                                         *)
Elsewhere(q) ==
    /\ Mounted
    /\ q \in P.live
    /\ uses < MaxUses
    /\ uses' = uses + 1
    /\ truth' = [truth EXCEPT ![q] = @ \cup {uses + 1}]
    /\ loads' = Asked(loads, P.live, aim)
    /\ UNCHANGED <<page, ui, held, calls, aim, shown, edited, clean>>

ReadLoad(l) ==
    /\ ~l.read
    /\ loads' = (loads \ {l}) \cup {[l EXCEPT !.read = TRUE, !.has = truth[l.q]]}
    /\ UNCHANGED <<page, ui, held, calls, aim, truth, shown, uses, edited, clean>>

--------------------------------------------------------------------------------
(* The answers.                                                                  *)

(* A component that does not look at the status takes a refusal for a success.   *)
GoodNews(c) == c.stage = "accepted" \/ (c.stage = "refused" /\ OpOf(c).blind)

(* What is left of the request's own component: nothing once it was closed, but
   what it was handed by its parent still happens.                               *)
Own(c) == IF c.here THEN {} ELSE {x[1] : x \in P.inside}
FreedOnSuccess(c, outcomes) ==   \* (mutant) setLoading(false) is not in a finally
    [s \in Slots |-> IF c.here /\ s = OpOf(c).slot /\ "ok" \in outcomes THEN 0 ELSE held[s]]
Freed(c, outcomes) ==
    [s \in Slots |-> IF c.here /\ s = OpOf(c).slot /\ OpOf(c).frees \in outcomes THEN 0 ELSE held[s]]

AnswerGood(c) ==
    /\ GoodNews(c)
    /\ LET op == OpOf(c)
       IN Becomes(((ui \ (op.okOff \ Own(c))) \ Errors(op.okLoads)) \cup (op.okOn \ Own(c)),
                  Freed(c, {"always", "ok"}), calls \ {c},
                  Asked(loads, op.okLoads \ Own(c), aim), Patched(shown, op.okPatch \ Own(c), c.id))
    /\ UNCHANGED <<page, aim, truth, uses, edited, clean>>

FailClosing(c) ==   \* (mutant) the dialog closes whatever the answer is
    LET op == OpOf(c)
    IN Becomes((((ui \ op.okOff) \ (op.noOff \ Own(c))) \ Errors(op.noLoads)) \cup (op.noOn \ Own(c)),
               Freed(c, {"always", "err"}), calls \ {c},
               Asked(loads, op.noLoads \ Own(c), aim), Unpatched(shown, op.undo \ Own(c), c.id))
Fail(c) ==
    LET op == OpOf(c)
    IN Becomes(((ui \ (op.noOff \ Own(c))) \ Errors(op.noLoads)) \cup (op.noOn \ Own(c)),
               Freed(c, {"always", "err"}), calls \ {c},
               Asked(loads, op.noLoads \ Own(c), aim), Unpatched(shown, op.undo \ Own(c), c.id))

AnswerBad(c) ==
    /\ c.stage = "refused" /\ ~OpOf(c).blind
    /\ Fail(c)
    /\ UNCHANGED <<page, aim, truth, uses, edited, clean>>

(* The request or its answer is lost: fetch throws.                              *)
Lose(c) ==
    /\ Fail(c)
    /\ clean' = FALSE
    /\ UNCHANGED <<page, aim, truth, uses, edited>>

(* An answer to a load is displayed; one that resets a form takes what was typed. *)
Wiped(q) == {f[2] : f \in {g \in P.wipes : g[1] = q}}
ApplyLoad(l) ==
    /\ l.read
    /\ Becomes(ui \ Wiped(l.q), held, calls, loads \ {l},
               [shown EXCEPT ![l.q] = [seen |-> TRUE, aim |-> l.aim, has |-> l.has]])
    /\ UNCHANGED <<page, aim, truth, uses, edited, clean>>

FailLoad(l) ==
    /\ loads' = loads \ {l}
    /\ ui' = ui \cup Errors({l.q})
    /\ clean' = FALSE
    /\ UNCHANGED <<page, held, calls, aim, truth, shown, uses, edited>>

User   == \E o \in Ops : Gesture(o) \/ \E k \in Items : Send(o, k)
Server == \/ \E c \in calls : Take(c) \/ Refuse(c)
          \/ \E q \in Queries : Elsewhere(q)
          \/ \E l \in loads : ReadLoad(l)
Answer == \/ \E c \in calls : AnswerGood(c) \/ AnswerBad(c) \/ Lose(c)
          \/ \E l \in loads : ApplyLoad(l) \/ FailLoad(l)

Next == User \/ Server \/ Answer
Spec == Init /\ [][Next]_vars

--------------------------------------------------------------------------------
(* Every variable keeps its type: flags and slots are those of the component, a
   request carries an operation of it, contents are changes that were made.      *)
TypeOK ==
    /\ page \in DOMAIN Table
    /\ ui \subseteq Flags
    /\ held \in [Slots -> Items \cup {0}]
    /\ calls \subseteq [id : Ids, op : Ops, item : Items, stage : {"sent", "accepted", "refused"},
                       here : BOOLEAN]
    /\ loads \subseteq [q : Queries, n : Nat, aim : Nat, read : BOOLEAN, has : SUBSET Ids]
    /\ aim \in [Queries -> Nat]
    /\ truth \in [Queries -> SUBSET Ids]
    /\ shown \in [Queries -> [seen : BOOLEAN, aim : Nat, has : SUBSET Ids]]
    /\ uses \in 0 .. MaxUses
    /\ edited \in [P.drafts -> 0 .. MaxUses]
    /\ clean \in BOOLEAN

(* A busy slot that disables its controls admits one request at a time, whatever
   answers are lost and whatever else is clicked meanwhile: as long as its dialog
   stays open, nothing is submitted twice.                                       *)
SingleFlight ==
    \A c, d \in calls : c.here /\ d.here /\ OpOf(c).slot \in P.single /\ OpOf(d).slot = OpOf(c).slot
                        => c = d

(* A slot is held only while a request of this instance is under way: no answer,
   refusal or lost connection leaves a control disabled for ever.                *)
NoStuckBusy ==
    \A s \in Slots \ P.leaky :
        held[s] # 0 /\ Mounted => \E c \in calls : c.here /\ OpOf(c).slot = s

(* When nothing is under way and nothing was lost, what is displayed is what the
   server has, asked with the parameters on screen: no older answer overtook a
   newer one, no accepted change is missing and no refused one is shown.         *)
Settled == calls = {} /\ loads = {} /\ P.timers \cap ui = {}
FreshWhenSettled == Settled /\ clean /\ Mounted => \A q \in P.fresh : shown[q].seen => shown[q] = Current(q)

(* What an operation requires is there when it is sent, by whatever way the user
   came to the control.                                                          *)
SentAsRequired ==
    [][\A c \in calls' : c.id > uses => \A r \in P.requires : r[1] = c.op => r[2] \in ui]_vars

(* Nobody is locked in: once nothing is under way, a dialog that covers the page
   has a control that works and leads out of it.                                 *)
Leads(o, m) == m \in P.ops[o].off \cup P.ops[o].okOff \cup P.ops[o].noOff
DialogsCanBeLeft ==
    calls = {} /\ loads = {} /\ Mounted =>
        \A m \in P.modals \cap ui : \E o \in Ops : Reachable(o) /\ ~Barred(o) /\ Leads(o, m)

(* What the user typed goes away by a gesture of the user, or because it was saved as
   it stands: no failure, no load and no answer to a save sent before it was begun or
   changed takes it along.                                                        *)
Dropped == P.drafts \cap (ui \ ui')
Discarded == \E o \in Ops : P.ops[o].off \cap P.timers = {} /\ Gesture(o) /\ Dropped \subseteq P.ops[o].off \cup Inside(P.ops[o].off)
Saved == \E c \in calls : GoodNews(c) /\ AnswerGood(c)
                           /\ \A d \in Dropped : d \in OpOf(c).okOff /\ edited[d] < c.id
DraftsAreKept == [][Dropped # {} => Discarded \/ Saved]_vars
================================================================================
