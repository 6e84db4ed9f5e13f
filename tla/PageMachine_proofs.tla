--------------------------- MODULE PageMachine_proofs ---------------------------
(***************************************************************************)
(* Theorems about PageMachine, for any table of components that meets the  *)
(* assumptions named there, any number of requests and in flight.          *)
(*                                                                         *)
(* SingleFlight is not inductive: that the next request finds no other     *)
(* needs that a request under way holds its slot (BusyIsHeld). NoStuckBusy *)
(* is proved for components that are gone as well (BusyIsBacked).          *)
(*                                                                         *)
(* FreshWhenSettled speaks of quiet moments.  In between, the newest fetch *)
(* of a query asks for what is on screen and will have all that the server *)
(* has, or somebody still under way will fetch again (FreshInv).  A draft  *)
(* is safe from the end of its request because what stands in no dialog is *)
(* never closed under it (HereInv).  DialogsCanBeLeft needs that what the  *)
(* way out of an open dialog looks at stays there (ExitInv), in particular *)
(* a query that is loaded once and never again (OnceInv).                  *)
(* SentAsRequired follows from where a wizard's steps stand: one at a time *)
(* (ApartInv), and no later one without what an earlier one asked for      *)
(* (RestInv).                                                              *)
(***************************************************************************)
EXTENDS PageMachine, FiniteSetTheorems, TLAPS

CallType  == [id : Ids, op : Ops, item : Items, stage : {"sent", "accepted", "refused"}, here : BOOLEAN]
LoadType  == [q : Queries, n : Nat, aim : Nat, read : BOOLEAN, has : SUBSET Ids]
ShownType == [seen : BOOLEAN, aim : Nat, has : SUBSET Ids]

\* What is claimed of the slots hs and the requests cs.
OneEach(cs) ==
    \A c, d \in cs : c.here /\ d.here /\ OpOf(c).slot \in P.single /\ OpOf(d).slot = OpOf(c).slot => c = d
HeldIn(hs, cs) ==
    \A c \in cs : c.here /\ OpOf(c).slot \in P.single => hs[OpOf(c).slot] # 0
BackedIn(hs, cs) ==
    \A s \in Slots \ P.leaky : hs[s] # 0 => \E c \in cs : c.here /\ OpOf(c).slot = s

BusyIsHeld   == HeldIn(held, calls)
BusyIsBacked == BackedIn(held, calls)

TypeInv == TypeOK /\ IsFiniteSet(loads)
SlotInv == OneEach(calls) /\ BusyIsHeld /\ BusyIsBacked
IInv    == TypeInv /\ SlotInv

\* A set of fetches, one for each query of a finite set, is finite.
LEMMA FetchesAreFinite ==
    ASSUME NEW qs, IsFiniteSet(qs), NEW f
    PROVE  IsFiniteSet({f[q] : q \in qs})
  <1> DEFINE g == [q \in qs |-> f[q]]
  <1>1. g \in Surjection(qs, {f[q] : q \in qs})
    BY DEF Surjection
  <1> QED
    BY <1>1, FS_Surjection

\* The fetches in flight after some more were issued have their types.
LEMMA AskedTypes ==
    ASSUME NEW ls \in SUBSET LoadType, IsFiniteSet(ls), IsFiniteSet(Queries),
           NEW qs \in SUBSET Queries, NEW to \in [Queries -> Nat]
    PROVE  Asked(ls, qs, to) \in SUBSET LoadType /\ IsFiniteSet(Asked(ls, qs, to))
  <1> DEFINE W == Wanted(ls, qs)
             f == [q \in qs |-> [q |-> q, n |-> 1 + Cardinality({l \in W : l.q = q}), aim |-> to[q],
                                 read |-> FALSE, has |-> {}]]
  <1>1. W \in SUBSET ls /\ IsFiniteSet(W)
    <2>1. W \in SUBSET ls
      BY DEF Wanted
    <2> QED
      BY <2>1, FS_Subset
  <1>2. ASSUME NEW q \in qs PROVE f[q] \in LoadType
    <2>1. IsFiniteSet({l \in W : l.q = q})
      BY <1>1, FS_Subset
    <2>2. 1 + Cardinality({l \in W : l.q = q}) \in Nat
      BY <2>1, FS_CardinalityType
    <2> QED
      BY <2>2 DEF LoadType
  <1>3. IsFiniteSet(qs)
    BY FS_Subset
  <1>4. IsFiniteSet({f[q] : q \in qs})
    <2> HIDE DEF f
    <2> QED
      BY <1>3, FetchesAreFinite
  <1>5. Asked(ls, qs, to) = W \cup {f[q] : q \in qs}
    BY DEF Asked
  <1> HIDE DEF W, f
  <1> QED
    BY <1>1, <1>2, <1>4, <1>5, FS_Union

\* What stands in a dialog that closes keeps its types.
LEMMA BecomesTypes ==
    ASSUME NEW fs \in SUBSET Flags, NEW hs \in [Slots -> Items \cup {0}], NEW cs \in SUBSET CallType,
           NEW ls \in SUBSET LoadType, IsFiniteSet(ls), NEW sh \in [Queries -> ShownType],
           Becomes(fs, hs, cs, ls, sh)
    PROVE  /\ ui' \in SUBSET Flags /\ held' \in [Slots -> Items \cup {0}]
           /\ calls' \in SUBSET CallType
           /\ loads' \in SUBSET LoadType /\ IsFiniteSet(loads')
           /\ shown' \in [Queries -> ShownType]
  <1>1. ui' \in SUBSET Flags
    BY DEF Becomes, Kept
  <1>2. held' \in [Slots -> Items \cup {0}]
    BY DEF Becomes
  <1>3. calls' \in SUBSET CallType
    BY DEF Becomes, CallType
  <1>4. loads' \in SUBSET ls
    BY DEF Becomes
  <1>5. IsFiniteSet(loads')
    BY <1>4, FS_Subset
  <1>6. shown' \in [Queries -> ShownType]
    <2>1. Blank \in ShownType
      BY DEF Blank, ShownType
    <2> QED
      BY <2>1 DEF Becomes
  <1> QED
    BY <1>1, <1>2, <1>3, <1>4, <1>5, <1>6

\* What a dialog that closes takes along frees its slots with its requests.
LEMMA BecomesSlots ==
    ASSUME page \in DOMAIN Table, page' = page, NEW fs, NEW hs \in [Slots -> Items \cup {0}],
           NEW cs \in SUBSET CallType, NEW ls, NEW sh, Becomes(fs, hs, cs, ls, sh),
           OneEach(cs), HeldIn(hs, cs), BackedIn(hs, cs)
    PROVE  SlotInv'
  <1> DEFINE closed == ui \ fs
             Shut(c) == [c EXCEPT !.here = @ /\ OpOf(c).home \notin closed]
  <1>1. /\ calls' = {Shut(c) : c \in cs}
        /\ held' = [s \in Slots |-> IF s \in SlotsIn(closed) THEN 0 ELSE hs[s]]
    BY DEF Becomes
  <1>2. ASSUME NEW c \in cs
        PROVE  /\ Shut(c).op = c.op /\ OpOf(Shut(c)) = OpOf(c)
               /\ Shut(c).here <=> c.here /\ OpOf(c).home \notin closed
    BY DEF CallType, OpOf
  <1>3. P' = P /\ Slots' = Slots
    BY DEF P, Slots, Ops
  <1>4. ASSUME NEW c \in cs, OpOf(c).home \notin closed, OpOf(c).slot # "none"
        PROVE  OpOf(c).slot \in Slots /\ OpOf(c).slot \notin SlotsIn(closed)
    <2>1. c.op \in Ops /\ OpOf(c) = P.ops[c.op]
      BY DEF CallType, OpOf
    <2>2. \A o \in Ops : P.ops[o].slot = OpOf(c).slot => P.ops[o].home = OpOf(c).home
      BY <1>4, <2>1, SlotAssumption DEF P, Ops
    <2> QED
      BY <1>4, <2>1, <2>2 DEF Slots, SlotsIn, None
  <1>5. "none" \notin P.single \/ Ops = {}
    BY SlotAssumption DEF P, Ops
  <1> HIDE DEF closed, Shut
  <1>6. ASSUME NEW c \in cs, NEW d \in cs, Shut(c).here, Shut(d).here,
               OpOf(c).slot \in P.single, OpOf(d).slot = OpOf(c).slot
        PROVE  c = d
    BY <1>2, <1>6 DEF OneEach
  <1>7. OneEach(calls)'
    BY <1>1, <1>2, <1>3, <1>6 DEF OneEach, OpOf
  <1>8. ASSUME NEW c \in cs, Shut(c).here, OpOf(c).slot \in P.single
        PROVE  held'[OpOf(c).slot] # 0
    <2>1. OpOf(c).slot \in Slots /\ OpOf(c).slot \notin SlotsIn(closed)
      BY <1>2, <1>4, <1>5, <1>8 DEF CallType
    <2> QED
      BY <1>1, <1>2, <1>8, <2>1 DEF HeldIn
  <1>9. BusyIsHeld'
    BY <1>1, <1>2, <1>3, <1>8 DEF BusyIsHeld, HeldIn, OpOf
  <1>10. ASSUME NEW s \in Slots \ P.leaky, held'[s] # 0
         PROVE  \E c \in cs : Shut(c).here /\ OpOf(c).slot = s
    <2>1. s \notin SlotsIn(closed) /\ hs[s] # 0
      BY <1>1, <1>10
    <2>2. PICK c \in cs : c.here /\ OpOf(c).slot = s
      BY <2>1 DEF BackedIn
    <2>3. OpOf(c).home \notin closed
      BY <2>1, <2>2 DEF SlotsIn, OpOf, CallType
    <2> QED
      BY <1>2, <2>2, <2>3
  <1>11. BusyIsBacked'
    BY <1>1, <1>2, <1>3, <1>10 DEF BusyIsBacked, BackedIn, OpOf
  <1> QED
    BY <1>7, <1>9, <1>11 DEF SlotInv

\* The sets that the table defines do not change while the component stays.
LEMMA SameTypes ==
    ASSUME page \in DOMAIN Table, page' = page,
           ui' \in SUBSET Flags, held' \in [Slots -> Items \cup {0}], calls' \in SUBSET CallType,
           loads' \in SUBSET LoadType, IsFiniteSet(loads'), aim' \in [Queries -> Nat],
           truth' \in [Queries -> SUBSET Ids], shown' \in [Queries -> ShownType],
           uses' \in 0 .. MaxUses, edited' \in [P.drafts -> 0 .. MaxUses], clean' \in BOOLEAN
    PROVE  TypeInv'
  <1>1. P' = P
    BY DEF P
  <1>2. Ops' = Ops /\ Queries' = Queries
    BY <1>1 DEF Ops, Queries
  <1>3. Slots' = Slots /\ Flags' = Flags
    BY <1>1, <1>2 DEF Slots, Flags
  <1> QED
    BY <1>1, <1>2, <1>3 DEF TypeInv, TypeOK, CallType, LoadType, ShownType

\* TypeInv in the terms of these lemmas.
LEMMA Typed ==
    ASSUME TypeInv
    PROVE  /\ page \in DOMAIN Table /\ IsFiniteSet(Queries)
           /\ ui \in SUBSET Flags /\ held \in [Slots -> Items \cup {0}] /\ calls \in SUBSET CallType
           /\ loads \in SUBSET LoadType /\ IsFiniteSet(loads) /\ aim \in [Queries -> Nat]
           /\ truth \in [Queries -> SUBSET Ids] /\ shown \in [Queries -> ShownType]
           /\ uses \in 0 .. MaxUses /\ edited \in [P.drafts -> 0 .. MaxUses] /\ clean \in BOOLEAN
           /\ \A c \in calls : c.op \in Ops
           /\ P.live \in SUBSET Queries
           /\ \A o \in Ops : /\ P.ops[o].asks \in SUBSET Queries
                           /\ P.ops[o].okLoads \in SUBSET Queries
                           /\ P.ops[o].noLoads \in SUBSET Queries
                           /\ P.ops[o].on \in SUBSET Flags
                           /\ P.ops[o].okOn \in SUBSET Flags
                           /\ P.ops[o].noOn \in SUBSET Flags
  <1>1. page \in DOMAIN Table
    BY DEF TypeInv, TypeOK
  <1>2. /\ IsFiniteSet(Queries) /\ P.live \in SUBSET Queries
        /\ \A o \in Ops : /\ P.ops[o].asks \in SUBSET Queries
                        /\ P.ops[o].okLoads \in SUBSET Queries
                        /\ P.ops[o].noLoads \in SUBSET Queries
    BY <1>1, TableAssumption DEF P, Ops, Queries
  <1>3. \A o \in Ops : P.ops[o].on \cup P.ops[o].okOn \cup P.ops[o].noOn \in SUBSET Flags
    BY DEF Flags
  <1> QED
    BY <1>1, <1>2, <1>3 DEF TypeInv, TypeOK, CallType, LoadType, ShownType

\* Patching keeps the types of what is displayed.
LEMMA PatchTypes ==
    ASSUME NEW sh \in [Queries -> ShownType], NEW qs, NEW id \in Ids
    PROVE  /\ Patched(sh, qs, id) \in [Queries -> ShownType]
           /\ Unpatched(sh, qs, id) \in [Queries -> ShownType]
  <1>1. ASSUME NEW q \in Queries
        PROVE  /\ [sh[q] EXCEPT !.has = @ \cup {id}] \in ShownType
               /\ [sh[q] EXCEPT !.has = @ \ {id}] \in ShownType
    BY DEF ShownType
  <1> QED
    BY <1>1 DEF Patched, Unpatched

LEMMA GestureTypes ==
    ASSUME TypeInv, NEW o \in Ops, Gesture(o)
    PROVE  TypeInv'
  <1> DEFINE op == P.ops[o]
             to == [q \in Queries |-> IF q \in op.moves THEN aim[q] + 1 ELSE aim[q]]
             fs == ((ui \ op.off) \ Errors(op.asks)) \cup op.on
             ls == Asked(loads, op.asks, to)
  <1>1. to \in [Queries -> Nat] /\ aim' = to
    BY Typed DEF Gesture
  <1>2. Becomes(fs, held, calls, ls, shown) /\ uses' \in 0 .. MaxUses
    <2>1. uses \in 0 .. MaxUses /\ MaxUses \in Nat
      BY Typed, BoundsAssumption
    <2> QED
      BY <2>1 DEF Gesture
  <1>3. fs \in SUBSET Flags
    BY Typed
  <1>4. ls \in SUBSET LoadType /\ IsFiniteSet(ls)
    BY <1>1, Typed, AskedTypes
  <1>5. page' = page /\ truth' = truth /\ clean' = clean
    BY DEF Gesture
  <1>6. edited' \in [P.drafts -> 0 .. MaxUses]
    BY Typed DEF Gesture
  <1> HIDE DEF to, fs, ls
  <1> QED
    BY <1>1, <1>2, <1>3, <1>4, <1>5, <1>6, Typed, BecomesTypes, SameTypes

\* A request that leaves has its type.
LEMMA NewCall ==
    ASSUME NEW id \in Ids, NEW o \in Ops, NEW k \in Items
    PROVE  [id |-> id, op |-> o, item |-> k, stage |-> "sent", here |-> TRUE] \in CallType
  BY DEF CallType

LEMMA SendTypes ==
    ASSUME TypeInv, NEW o \in Ops, NEW k \in Items, Send(o, k)
    PROVE  TypeInv'
  <1> DEFINE op  == P.ops[o]
             new == [id |-> uses + 1, op |-> o, item |-> k, stage |-> "sent", here |-> TRUE]
             fs  == (ui \ op.off) \cup op.on
             hs  == [s \in Slots |-> IF s = op.slot THEN k ELSE held[s]]
             cs  == calls \cup {new}
             sh  == Patched(shown, op.hopes, uses + 1)
  <1>1. uses' \in 0 .. MaxUses /\ uses + 1 \in Ids
    <2>1. uses \in 0 .. MaxUses /\ MaxUses \in Nat
      BY Typed, BoundsAssumption
    <2> QED
      BY <2>1 DEF Send, Ids
  <1>2. Becomes(fs, hs, cs, loads, sh)
    BY DEF Send
  <1>3. fs \in SUBSET Flags /\ hs \in [Slots -> Items \cup {0}]
    BY Typed
  <1>4. cs \in SUBSET CallType
    <2>1. new \in CallType
      BY <1>1, NewCall
    <2> QED
      BY <2>1, Typed
  <1>5. sh \in [Queries -> ShownType]
    BY <1>1, Typed, PatchTypes
  <1>6. page' = page /\ aim' = aim /\ truth' = truth /\ edited' = edited /\ clean' = clean
    BY DEF Send
  <1> HIDE DEF fs, hs, cs, sh
  <1> QED
    BY <1>1, <1>2, <1>3, <1>4, <1>5, <1>6, Typed, BecomesTypes, SameTypes

\* A request that the server has decided on keeps its type.
LEMMA DecidedTypes ==
    ASSUME NEW c \in CallType, NEW x \in {"accepted", "refused"}
    PROVE  /\ [c EXCEPT !.stage = x] \in CallType
           /\ [c EXCEPT !.stage = x].op = c.op /\ [c EXCEPT !.stage = x].here = c.here
           /\ c.id \in Ids
  BY DEF CallType

LEMMA ServerTypes ==
    ASSUME TypeInv, Server
    PROVE  TypeInv'
  <1>1. ASSUME NEW c \in calls, Take(c) \/ Refuse(c) PROVE TypeInv'
    <2>1. calls' \in SUBSET CallType
      <3>1. PICK x \in {"accepted", "refused"} : calls' = (calls \ {c}) \cup {[c EXCEPT !.stage = x]}
        BY <1>1 DEF Take, Refuse
      <3>2. [c EXCEPT !.stage = x] \in CallType
        BY Typed, DecidedTypes
      <3> QED
        BY <3>1, <3>2, Typed
    <2>2. truth' \in [Queries -> SUBSET Ids]
      <3>1. PICK qs : truth' = [q \in Queries |-> IF q \in qs THEN truth[q] \cup {c.id} ELSE truth[q]]
        BY <1>1 DEF Take, Refuse
      <3>2. c.id \in Ids
        BY Typed, DecidedTypes
      <3> QED
        BY <3>1, <3>2, Typed
    <2>3. UNCHANGED <<page, ui, held, loads, aim, shown, uses, edited, clean>>
      BY <1>1 DEF Take, Refuse
    <2> QED
      BY <2>1, <2>2, <2>3, Typed, SameTypes
  <1>2. ASSUME NEW q \in Queries, Elsewhere(q) PROVE TypeInv'
    <2>1. uses' \in 0 .. MaxUses /\ uses + 1 \in Ids
      <3>1. uses \in 0 .. MaxUses /\ MaxUses \in Nat
        BY Typed, BoundsAssumption
      <3> QED
        BY <1>2, <3>1 DEF Elsewhere, Ids
    <2>2. truth' \in [Queries -> SUBSET Ids]
      BY <1>2, <2>1, Typed DEF Elsewhere
    <2>3. loads' \in SUBSET LoadType /\ IsFiniteSet(loads')
      BY <1>2, Typed, AskedTypes DEF Elsewhere
    <2>4. UNCHANGED <<page, ui, held, calls, aim, shown, edited, clean>>
      BY <1>2 DEF Elsewhere
    <2> QED
      BY <2>1, <2>2, <2>3, <2>4, Typed, SameTypes
  <1>3. ASSUME NEW l \in loads, ReadLoad(l) PROVE TypeInv'
    <2>1. [l EXCEPT !.read = TRUE, !.has = truth[l.q]] \in LoadType
      BY Typed DEF LoadType
    <2>2. loads' \in SUBSET LoadType
      BY <1>3, <2>1, Typed DEF ReadLoad
    <2>3. IsFiniteSet(loads')
      <3>1. IsFiniteSet(loads \ {l})
        BY Typed, FS_RemoveElement
      <3> QED
        BY <1>3, <3>1, FS_AddElement DEF ReadLoad
    <2>4. UNCHANGED <<page, ui, held, calls, aim, truth, shown, uses, edited, clean>>
      BY <1>3 DEF ReadLoad
    <2> QED
      BY <2>2, <2>3, <2>4, Typed, SameTypes
  <1> QED
    BY <1>1, <1>2, <1>3 DEF Server

\* Freeing a slot keeps the types of the slots.
LEMMA FreedTypes ==
    ASSUME TypeInv, NEW c, NEW outcomes
    PROVE  Freed(c, outcomes) \in [Slots -> Items \cup {0}]
  BY Typed DEF Freed

LEMMA GoodTypes ==
    ASSUME TypeInv, NEW c \in calls, AnswerGood(c)
    PROVE  TypeInv'
  <1> DEFINE op == OpOf(c)
             fs == ((ui \ (op.okOff \ Own(c))) \ Errors(op.okLoads)) \cup (op.okOn \ Own(c))
             hs == Freed(c, {"always", "ok"})
             ls == Asked(loads, op.okLoads \ Own(c), aim)
             sh == Patched(shown, op.okPatch \ Own(c), c.id)
  <1>1. Becomes(fs, hs, calls \ {c}, ls, sh)
    BY DEF AnswerGood
  <1>2. op = P.ops[c.op] /\ c.op \in Ops /\ c.id \in Ids
    BY Typed DEF OpOf, CallType
  <1>3. fs \in SUBSET Flags /\ op.okLoads \ Own(c) \in SUBSET Queries
    BY <1>2, Typed
  <1>4. ls \in SUBSET LoadType /\ IsFiniteSet(ls)
    BY <1>3, Typed, AskedTypes
  <1>5. sh \in [Queries -> ShownType] /\ hs \in [Slots -> Items \cup {0}]
    BY <1>2, Typed, PatchTypes, FreedTypes
  <1>6. calls \ {c} \in SUBSET CallType
    BY Typed
  <1>7. UNCHANGED <<page, aim, truth, uses, edited, clean>>
    BY DEF AnswerGood
  <1> HIDE DEF op, fs, hs, ls, sh
  <1> QED
    BY <1>1, <1>3, <1>4, <1>5, <1>6, <1>7, Typed, BecomesTypes, SameTypes

LEMMA FailTypes ==
    ASSUME TypeInv, NEW c \in calls, Fail(c), clean' \in BOOLEAN,
           UNCHANGED <<page, aim, truth, uses, edited>>
    PROVE  TypeInv'
  <1> DEFINE op == OpOf(c)
             fs == ((ui \ (op.noOff \ Own(c))) \ Errors(op.noLoads)) \cup (op.noOn \ Own(c))
             hs == Freed(c, {"always", "err"})
             ls == Asked(loads, op.noLoads \ Own(c), aim)
             sh == Unpatched(shown, op.undo \ Own(c), c.id)
  <1>1. Becomes(fs, hs, calls \ {c}, ls, sh)
    BY DEF Fail
  <1>2. op = P.ops[c.op] /\ c.op \in Ops /\ c.id \in Ids
    BY Typed DEF OpOf, CallType
  <1>3. fs \in SUBSET Flags /\ op.noLoads \ Own(c) \in SUBSET Queries
    BY <1>2, Typed
  <1>4. ls \in SUBSET LoadType /\ IsFiniteSet(ls)
    BY <1>3, Typed, AskedTypes
  <1>5. sh \in [Queries -> ShownType] /\ hs \in [Slots -> Items \cup {0}]
    BY <1>2, Typed, PatchTypes, FreedTypes
  <1>6. calls \ {c} \in SUBSET CallType
    BY Typed
  <1> HIDE DEF op, fs, hs, ls, sh
  <1> QED
    BY <1>1, <1>3, <1>4, <1>5, <1>6, Typed, BecomesTypes, SameTypes

LEMMA LoadAnswerTypes ==
    ASSUME TypeInv, NEW l \in loads, ApplyLoad(l) \/ FailLoad(l)
    PROVE  TypeInv'
  <1>1. loads \ {l} \in SUBSET LoadType /\ IsFiniteSet(loads \ {l})
    BY Typed, FS_RemoveElement
  <1>2. CASE ApplyLoad(l)
    <2> DEFINE sh == [shown EXCEPT ![l.q] = [seen |-> TRUE, aim |-> l.aim, has |-> l.has]]
    <2>1. sh \in [Queries -> ShownType]
      BY Typed DEF LoadType, ShownType
    <2>2. Becomes(ui \ Wiped(l.q), held, calls, loads \ {l}, sh)
      BY <1>2 DEF ApplyLoad
    <2>3. ui \ Wiped(l.q) \in SUBSET Flags
      BY Typed
    <2>4. UNCHANGED <<page, aim, truth, uses, edited, clean>>
      BY <1>2 DEF ApplyLoad
    <2> HIDE DEF sh
    <2> QED
      BY <1>1, <2>1, <2>2, <2>3, <2>4, Typed, BecomesTypes, SameTypes
  <1>3. CASE FailLoad(l)
    <2>1. ui' \in SUBSET Flags
      BY <1>3, Typed DEF FailLoad, Errors, Flags
    <2>2. /\ UNCHANGED <<page, held, calls, aim, truth, shown, uses, edited>>
          /\ clean' = FALSE /\ loads' = loads \ {l}
      BY <1>3 DEF FailLoad
    <2> QED
      BY <1>1, <2>1, <2>2, Typed, SameTypes
  <1> QED
    BY <1>2, <1>3

\* The next state has its types.
LEMMA TypeStep == TypeInv /\ [Next]_vars => TypeInv'
  <1> SUFFICES ASSUME TypeInv, [Next]_vars PROVE TypeInv'
    OBVIOUS
  <1>1. CASE User
    BY <1>1, GestureTypes, SendTypes DEF User
  <1>2. CASE Server
    BY <1>2, ServerTypes
  <1>3. ASSUME NEW c \in calls, AnswerBad(c) \/ Lose(c) PROVE TypeInv'
    BY <1>3, FailTypes, Typed DEF AnswerBad, Lose
  <1>4. CASE Answer
    BY <1>3, <1>4, GoodTypes, LoadAnswerTypes DEF Answer
  <1>5. CASE UNCHANGED vars
    BY <1>5, Typed, SameTypes DEF vars
  <1> QED
    BY <1>1, <1>2, <1>4, <1>5 DEF Next

\* A step that leaves slots and requests alone.
LEMMA IdleSlots ==
    ASSUME SlotInv, page' = page, held' = held, calls' = calls
    PROVE  SlotInv'
  <1>1. P' = P
    BY DEF P
  <1>2. Slots' = Slots
    BY <1>1 DEF Slots, Ops
  <1> QED
    BY <1>1, <1>2 DEF SlotInv, OneEach, BusyIsHeld, BusyIsBacked, HeldIn, BackedIn, OpOf

\* The control of a slot that admits one request is barred while it is held.
LEMMA SendSlots ==
    ASSUME TypeInv, SlotInv, NEW o \in Ops, NEW k \in Items, Send(o, k)
    PROVE  SlotInv'
  <1> DEFINE op  == P.ops[o]
             new == [id |-> uses + 1, op |-> o, item |-> k, stage |-> "sent", here |-> TRUE]
             hs  == [s \in Slots |-> IF s = op.slot THEN k ELSE held[s]]
             cs  == calls \cup {new}
  <1>1. Becomes((ui \ op.off) \cup op.on, hs, cs, loads, Patched(shown, op.hopes, uses + 1))
    BY DEF Send
  <1>2. new.here /\ new.op = o /\ OpOf(new) = op
    BY DEF OpOf
  <1>3. hs \in [Slots -> Items \cup {0}] /\ cs \in SUBSET CallType
    <2>1. uses + 1 \in Ids
      <3>1. uses \in 0 .. MaxUses /\ MaxUses \in Nat
        BY Typed, BoundsAssumption
      <3> QED
        BY <3>1 DEF Send, Ids
    <2>2. new \in CallType
      BY <2>1, NewCall
    <2> QED
      BY <2>2, Typed
  <1>4. op.slot \in P.single => op.slot \in op.idle /\ op.slot # "none"
    <2>1. op.kind = "call"
      BY DEF Send
    <2> QED
      BY <2>1, Typed, SlotAssumption DEF P, Ops
  <1>5. op.slot \in P.single => held[op.slot] = 0
    BY <1>4 DEF Send, Barred
  <1>6. k # 0 /\ page' = page
    BY DEF Send, Items
  <1>7. ASSUME NEW c \in calls, c.here, OpOf(c).slot \in P.single
        PROVE  OpOf(c).slot # op.slot /\ OpOf(c).slot \in Slots
    <2>1. held[OpOf(c).slot] # 0
      BY <1>7 DEF SlotInv, BusyIsHeld, HeldIn
    <2>2. c.op \in Ops /\ OpOf(c).slot # "none"
      BY <1>7, Typed, SlotAssumption DEF P, Ops
    <2> QED
      BY <1>5, <1>7, <2>1, <2>2 DEF Slots, None, OpOf
  <1> HIDE DEF op, new
  <1>8. OneEach(cs)
    BY <1>2, <1>7 DEF OneEach, SlotInv
  <1>9. HeldIn(hs, cs)
    <2>1. op.slot \in P.single => op.slot \in Slots
      BY <1>4 DEF Slots, op, None
    <2> QED
      BY <1>2, <1>6, <1>7, <2>1 DEF HeldIn, SlotInv, BusyIsHeld
  <1>10. BackedIn(hs, cs)
    BY <1>2 DEF BackedIn, SlotInv, BusyIsBacked
  <1> HIDE DEF hs, cs
  <1> QED
    BY <1>1, <1>3, <1>6, <1>8, <1>9, <1>10, Typed, BecomesSlots

\* The server's decision neither frees a slot nor ends a request.
LEMMA DecidedSlots ==
    ASSUME TypeInv, SlotInv, NEW c \in calls, Take(c) \/ Refuse(c)
    PROVE  SlotInv'
  <1>1. PICK x \in {"accepted", "refused"} : calls' = (calls \ {c}) \cup {[c EXCEPT !.stage = x]}
    BY DEF Take, Refuse
  <1> DEFINE d == [c EXCEPT !.stage = x]
  <1>2. d.here = c.here /\ d.op = c.op
    BY Typed, DecidedTypes
  <1>3. OpOf(d) = OpOf(c)
    BY <1>2 DEF OpOf
  <1>4. page' = page /\ held' = held
    BY DEF Take, Refuse
  <1>5. P' = P /\ Slots' = Slots
    BY <1>4 DEF P, Slots, Ops
  <1>6. calls' = (calls \ {c}) \cup {d}
    BY <1>1
  <1> HIDE DEF d
  <1>7. OneEach(calls)'
    BY <1>2, <1>3, <1>5, <1>6 DEF OneEach, SlotInv, OpOf
  <1>8. BusyIsHeld'
    BY <1>2, <1>3, <1>4, <1>5, <1>6 DEF BusyIsHeld, HeldIn, SlotInv, OpOf
  <1>9. BusyIsBacked'
    <2> SUFFICES ASSUME NEW s \in Slots \ P.leaky, held[s] # 0
                 PROVE  \E e \in calls' : e.here /\ OpOf(e).slot = s
      BY <1>4, <1>5 DEF BusyIsBacked, BackedIn, OpOf
    <2>1. PICK e \in calls : e.here /\ OpOf(e).slot = s
      BY DEF SlotInv, BusyIsBacked, BackedIn
    <2> QED
      BY <1>2, <1>3, <1>6, <2>1
  <1> QED
    BY <1>7, <1>8, <1>9 DEF SlotInv

\* The end of a request frees its slot and no other request's.
LEMMA EndedSlots ==
    ASSUME TypeInv, SlotInv, NEW c \in calls, NEW outcomes, "always" \in outcomes,
           page' = page, NEW fs, NEW ls, NEW sh,
           Becomes(fs, Freed(c, outcomes), calls \ {c}, ls, sh)
    PROVE  SlotInv'
  <1> DEFINE hs == Freed(c, outcomes)
             cs == calls \ {c}
  <1>1. OneEach(cs)
    BY DEF SlotInv, OneEach
  <1>2. HeldIn(hs, cs)
    <2> SUFFICES ASSUME NEW d \in cs, d.here, OpOf(d).slot \in P.single
                 PROVE  hs[OpOf(d).slot] # 0
      BY DEF HeldIn
    <2>1. d.op \in Ops /\ OpOf(d).slot # "none"
      BY Typed, SlotAssumption DEF P, Ops
    <2>2. OpOf(d).slot \in Slots /\ held[OpOf(d).slot] # 0
      BY <2>1 DEF Slots, None, OpOf, SlotInv, BusyIsHeld, HeldIn
    <2>3. ~(c.here /\ OpOf(d).slot = OpOf(c).slot)
      BY DEF SlotInv, OneEach
    <2> QED
      BY <2>2, <2>3 DEF Freed
  <1>3. BackedIn(hs, cs)
    <2> SUFFICES ASSUME NEW s \in Slots \ P.leaky, hs[s] # 0
                 PROVE  \E d \in cs : d.here /\ OpOf(d).slot = s
      BY DEF BackedIn
    <2>1. held[s] # 0 /\ ~(c.here /\ s = OpOf(c).slot /\ OpOf(c).frees \in outcomes)
      BY DEF Freed
    <2>2. PICK d \in calls : d.here /\ OpOf(d).slot = s
      BY <2>1 DEF SlotInv, BusyIsBacked, BackedIn
    <2>3. d.op \in Ops /\ s # "none"
      BY Typed DEF Slots, None
    <2>4. OpOf(d).frees = "always"
      BY <2>2, <2>3, Typed, SlotAssumption DEF P, Ops, OpOf
    <2> QED
      BY <2>1, <2>2, <2>4
  <1>4. hs \in [Slots -> Items \cup {0}] /\ cs \in SUBSET CallType
    BY Typed, FreedTypes
  <1> HIDE DEF hs, cs
  <1> QED
    BY <1>1, <1>2, <1>3, <1>4, Typed, BecomesSlots DEF hs, cs

\* No step takes a slot twice or leaves one held for nothing.
LEMMA SlotStep == TypeInv /\ SlotInv /\ [Next]_vars => SlotInv'
  <1> SUFFICES ASSUME TypeInv, SlotInv, [Next]_vars PROVE SlotInv'
    OBVIOUS
  <1>1. ASSUME NEW fs, NEW ls, NEW sh, page' = page, Becomes(fs, held, calls, ls, sh) PROVE SlotInv'
    BY <1>1, Typed, BecomesSlots DEF SlotInv, BusyIsHeld, BusyIsBacked
  <1>2. ASSUME NEW o \in Ops, Gesture(o) PROVE SlotInv'
    BY <1>1, <1>2 DEF Gesture
  <1>3. CASE User
    BY <1>2, <1>3, SendSlots DEF User
  <1>4. CASE Server
    BY <1>4, DecidedSlots, IdleSlots DEF Server, Elsewhere, ReadLoad
  <1>5. ASSUME NEW c \in calls, AnswerGood(c) \/ AnswerBad(c) \/ Lose(c) PROVE SlotInv'
    BY <1>5, EndedSlots DEF AnswerGood, AnswerBad, Lose, Fail
  <1>6. ASSUME NEW l \in loads, ApplyLoad(l) \/ FailLoad(l) PROVE SlotInv'
    BY <1>1, <1>6, IdleSlots DEF ApplyLoad, FailLoad
  <1>7. CASE Answer
    BY <1>5, <1>6, <1>7 DEF Answer
  <1>8. CASE UNCHANGED vars
    BY <1>8, IdleSlots DEF vars
  <1> QED
    BY <1>3, <1>4, <1>7, <1>8 DEF Next

\* A component starts with its flags, every slot free and its first fetches.
LEMMA InitHolds == Init => IInv
  <1> SUFFICES ASSUME Init PROVE IInv
    OBVIOUS
  <1>1. page \in DOMAIN Table /\ calls = {} /\ held = [s \in Slots |-> 0]
    BY DEF Init
  <1>2. IsFiniteSet(Queries) /\ P.loads \in SUBSET Queries /\ aim \in [Queries -> Nat]
    BY <1>1, TableAssumption DEF P, Queries, Init
  <1>3. loads \in SUBSET LoadType /\ IsFiniteSet(loads)
    <2>1. {} \in SUBSET LoadType /\ IsFiniteSet({})
      BY FS_EmptySet
    <2> QED
      BY <1>2, <2>1, AskedTypes DEF Init
  <1>4. TypeInv
    <2>1. ui \subseteq Flags
      BY DEF Init, Flags
    <2>2. MaxUses \in Nat
      BY BoundsAssumption
    <2> QED
      BY <1>1, <1>2, <1>3, <2>1, <2>2 DEF Init, TypeInv, TypeOK, Blank, LoadType, Items
  <1>5. SlotInv
    BY <1>1 DEF SlotInv, OneEach, BusyIsHeld, BusyIsBacked, HeldIn, BackedIn
  <1> QED
    BY <1>4, <1>5 DEF IInv

LEMMA Invariance == Spec => []IInv
  <1>1. Init => IInv
    BY InitHolds
  <1>2. IInv /\ [Next]_vars => IInv'
    BY TypeStep, SlotStep DEF IInv
  <1> QED
    BY <1>1, <1>2, PTL DEF Spec

\* Every variable keeps its type, whatever component is at work.
THEOREM TypeCorrect == Spec => []TypeOK
  <1>1. IInv => TypeOK
    BY DEF IInv, TypeInv
  <1> QED
    BY <1>1, Invariance, PTL

\* A busy slot that disables its controls admits one request at a time: double
\* clicks and lost answers submit nothing twice, on any page built this way.
THEOREM OneRequestPerSlot == Spec => []SingleFlight
  <1>1. IInv => SingleFlight
    BY DEF IInv, SlotInv, OneEach, SingleFlight
  <1> QED
    BY <1>1, Invariance, PTL

\* No answer, refusal or lost connection leaves a control disabled for ever.
THEOREM SlotsAreGivenBack == Spec => []NoStuckBusy
  <1>1. IInv => NoStuckBusy
    BY DEF IInv, SlotInv, BusyIsBacked, BackedIn, NoStuckBusy
  <1> QED
    BY <1>1, Invariance, PTL\* What q displays will be what the server has: the answers on their way to it were
\* asked with the parameters of now and hold what the server has, unless they were read
\* before a change whose answer is still to come (Owed) and will fetch q again; and what
\* is displayed while none is on its way is no older.
OwedIn(q, cs) ==
    \E c \in cs : \/ c.stage = "accepted" /\ q \in OpOf(c).writes
                  \/ c.stage = "refused" /\ q \in OpOf(c).spills
ComingIn(q, cs, ls, am, tr) ==
    \A l \in ls : l.q = q => l.aim = am[q] /\ (l.read => l.has = tr[q] \/ OwedIn(q, cs))
ThereIn(q, cs, ls, am, tr, sh) ==
    sh[q].seen /\ (\A l \in ls : l.q # q) => sh[q].aim = am[q] /\ (sh[q].has = tr[q] \/ OwedIn(q, cs))
FreshIn(q, cs, ls, am, tr, sh) == ComingIn(q, cs, ls, am, tr) /\ ThereIn(q, cs, ls, am, tr, sh)

FreshInv == clean /\ Mounted => \A q \in P.fresh : FreshIn(q, calls, loads, aim, truth, shown)

\* The assumption about what is fresh, at the component at work.
LEMMA FreshTable ==
    ASSUME page \in DOMAIN Table, NEW q \in P.fresh
    PROVE  /\ q \in Queries
           /\ \A x \in P.inside : x[1] # q
           /\ q \in P.live => q \in P.latest
           /\ \A o \in Ops :
                 /\ q \notin P.ops[o].hopes \cup P.ops[o].okPatch \cup P.ops[o].undo
                 /\ q \in P.ops[o].moves => q \in P.ops[o].asks /\ q \in P.latest
                 /\ q \in P.ops[o].writes \/ (q \in P.ops[o].spills /\ P.ops[o].blind)
                       => (q \in P.ops[o].okLoads /\ q \in P.latest) \/ "gone" \in P.ops[o].okOn
                 /\ q \in P.ops[o].spills /\ ~P.ops[o].blind => q \in P.ops[o].noLoads /\ q \in P.latest
  BY FreshAssumption DEF P, Queries, Ops

\* A component that was left stays left.
LEMMA GoneStays ==
    ASSUME TypeInv, [Next]_vars, "gone" \in ui
    PROVE  "gone" \in ui'
  <1>1. /\ \A f \in P.fails \cup P.wipes : f[2] # "gone"
        /\ \A x \in P.inside : x[1] # "gone"
        /\ \A o \in Ops : "gone" \notin P.ops[o].off \cup P.ops[o].okOff \cup P.ops[o].noOff
    BY Typed, GoneAssumption DEF P, Ops
  <1>2. ASSUME NEW fs, "gone" \in fs, NEW hs, NEW cs, NEW ls, NEW sh, Becomes(fs, hs, cs, ls, sh)
        PROVE  "gone" \in ui'
    BY <1>1, <1>2 DEF Becomes, Kept
  <1>3. \A qs : "gone" \notin Errors(qs)
    BY <1>1 DEF Errors
  <1>4. \A q : "gone" \notin Wiped(q)
    BY <1>1 DEF Wiped
  <1>5. ASSUME NEW o \in Ops, Gesture(o) PROVE "gone" \in ui'
    BY <1>5 DEF Gesture, Reachable, Mounted
  <1>6. ASSUME NEW o \in Ops, NEW k \in Items, Send(o, k) PROVE "gone" \in ui'
    BY <1>6 DEF Send, Reachable, Mounted
  <1>7. CASE Server
    BY <1>7 DEF Server, Take, Refuse, Elsewhere, ReadLoad
  <1>8. ASSUME NEW c \in calls, AnswerGood(c) PROVE "gone" \in ui'
    <2> DEFINE op == OpOf(c)
               fs == ((ui \ (op.okOff \ Own(c))) \ Errors(op.okLoads)) \cup (op.okOn \ Own(c))
    <2>1. "gone" \in fs
      BY <1>1, <1>3, Typed DEF OpOf
    <2>2. Becomes(fs, Freed(c, {"always", "ok"}), calls \ {c},
                  Asked(loads, op.okLoads \ Own(c), aim), Patched(shown, op.okPatch \ Own(c), c.id))
      BY <1>8 DEF AnswerGood
    <2> HIDE DEF fs
    <2> QED
      BY <1>2, <2>1, <2>2
  <1>9. ASSUME NEW c \in calls, Fail(c) PROVE "gone" \in ui'
    <2> DEFINE op == OpOf(c)
               fs == ((ui \ (op.noOff \ Own(c))) \ Errors(op.noLoads)) \cup (op.noOn \ Own(c))
    <2>1. "gone" \in fs
      BY <1>1, <1>3, Typed DEF OpOf
    <2>2. Becomes(fs, Freed(c, {"always", "err"}), calls \ {c},
                  Asked(loads, op.noLoads \ Own(c), aim), Unpatched(shown, op.undo \ Own(c), c.id))
      BY <1>9 DEF Fail
    <2> HIDE DEF fs
    <2> QED
      BY <1>2, <2>1, <2>2
  <1>10. ASSUME NEW l \in loads, ApplyLoad(l) PROVE "gone" \in ui'
    BY <1>2, <1>4, <1>10 DEF ApplyLoad
  <1>11. ASSUME NEW l \in loads, FailLoad(l) PROVE "gone" \in ui'
    BY <1>11 DEF FailLoad
  <1>12. CASE Answer
    BY <1>8, <1>9, <1>10, <1>11, <1>12 DEF Answer, AnswerBad, Lose
  <1>13. CASE UNCHANGED vars
    BY <1>13 DEF vars
  <1> QED
    BY <1>5, <1>6, <1>7, <1>12, <1>13 DEF Next, User
\* A fetch that drops the older answers leaves the one that is to come.
LEMMA AskedAfresh ==
    ASSUME NEW q, NEW qs, q \in qs, q \in P.latest, NEW ls, NEW to, NEW cs, NEW tr, NEW sh
    PROVE  FreshIn(q, cs, Asked(ls, qs, to), to, tr, sh)
  <1> DEFINE W == Wanted(ls, qs)
             Req(x) == [q |-> x, n |-> 1 + Cardinality({l \in W : l.q = x}), aim |-> to[x],
                        read |-> FALSE, has |-> {}]
  <1>1. Asked(ls, qs, to) = W \cup {Req(x) : x \in qs}
    BY DEF Asked
  <1>2. \A x : Req(x).q = x /\ Req(x).aim = to[x] /\ Req(x).read = FALSE
    OBVIOUS
  <1>3. \A l \in W : l.q # q
    BY DEF Wanted
  <1> HIDE DEF W, Req
  <1>4. ComingIn(q, cs, Asked(ls, qs, to), to, tr)
    BY <1>1, <1>2, <1>3 DEF ComingIn
  <1>5. ThereIn(q, cs, Asked(ls, qs, to), to, tr, sh)
    BY <1>1, <1>2 DEF ThereIn
  <1> QED
    BY <1>4, <1>5 DEF FreshIn

\* Any other fetch, with the same parameters, does no harm.
LEMMA AskedMore ==
    ASSUME NEW q, NEW qs, NEW ls, NEW to, NEW am, to[q] = am[q], NEW cs, NEW tr, NEW sh,
           FreshIn(q, cs, ls, am, tr, sh)
    PROVE  FreshIn(q, cs, Asked(ls, qs, to), to, tr, sh)
  <1> DEFINE W == Wanted(ls, qs)
             Req(x) == [q |-> x, n |-> 1 + Cardinality({l \in W : l.q = x}), aim |-> to[x],
                        read |-> FALSE, has |-> {}]
  <1>1. Asked(ls, qs, to) = W \cup {Req(x) : x \in qs}
    BY DEF Asked
  <1>2. \A x : Req(x).q = x /\ Req(x).aim = to[x] /\ Req(x).read = FALSE
    OBVIOUS
  <1>3. W \in SUBSET ls /\ (q \notin qs => \A l \in ls : l.q = q => l \in W)
    BY DEF Wanted
  <1> HIDE DEF W, Req
  <1>4. ComingIn(q, cs, Asked(ls, qs, to), to, tr)
    BY <1>1, <1>2, <1>3 DEF ComingIn, FreshIn
  <1>5. ThereIn(q, cs, Asked(ls, qs, to), to, tr, sh)
    <2>1. CASE q \in qs
      BY <1>1, <1>2, <2>1 DEF ThereIn
    <2>2. CASE q \notin qs
      BY <1>1, <1>3, <2>2 DEF ThereIn, FreshIn
    <2> QED
      BY <2>1, <2>2
  <1> QED
    BY <1>4, <1>5 DEF FreshIn

\* A change that is owed an answer is owed whatever other requests there are.
LEMMA OwedMore ==
    ASSUME NEW q, NEW cs, NEW ds, OwedIn(q, cs) => OwedIn(q, ds), NEW ls, NEW am, NEW tr, NEW sh,
           FreshIn(q, cs, ls, am, tr, sh)
    PROVE  FreshIn(q, ds, ls, am, tr, sh)
  BY DEF FreshIn, ComingIn, ThereIn

\* What is fresh survives every dialog that closes.
LEMMA BecomesFresh ==
    ASSUME page \in DOMAIN Table, page' = page, NEW fs, NEW hs, NEW cs \in SUBSET CallType,
           NEW ls, NEW sh, Becomes(fs, hs, cs, ls, sh),
           ASSUME clean', "gone" \notin ui', NEW q \in P.fresh
           PROVE  FreshIn(q, cs, ls, aim', truth', sh)
    PROVE  FreshInv'
  <1> DEFINE closed == ui \ fs
             Shut(c) == [c EXCEPT !.here = @ /\ OpOf(c).home \notin closed]
  <1>1. P' = P
    BY DEF P
  <1> SUFFICES ASSUME clean', "gone" \notin ui', NEW q \in P.fresh
               PROVE  FreshIn(q, calls, loads, aim, truth, shown)'
    BY <1>1 DEF FreshInv, Mounted
  <1>2. FreshIn(q, cs, ls, aim', truth', sh)
    OBVIOUS
  <1>3. q \in Queries /\ q \notin Inside(closed)
    BY FreshTable DEF Inside
  <1>4. calls' = {Shut(c) : c \in cs}
    BY DEF Becomes
  <1>5. \A c \in cs : Shut(c).stage = c.stage /\ OpOf(Shut(c)) = OpOf(c)
    BY DEF CallType, OpOf
  <1>6. loads' = {l \in ls : l.q \notin Inside(closed)}
    BY DEF Becomes
  <1>7. shown'[q] = sh[q]
    BY <1>3 DEF Becomes
  <1> HIDE DEF closed, Shut
  <1>8. OwedIn(q, cs) => OwedIn(q, calls)'
    BY <1>1, <1>4, <1>5 DEF OwedIn, OpOf
  <1>9. ComingIn(q, calls, loads, aim, truth)'
    BY <1>2, <1>6, <1>8 DEF FreshIn, ComingIn
  <1>10. ThereIn(q, calls, loads, aim, truth, shown)'
    BY <1>2, <1>3, <1>6, <1>7, <1>8 DEF FreshIn, ThereIn
  <1> QED
    BY <1>9, <1>10 DEF FreshIn

\* The user changes nothing of what is fresh without fetching it.
LEMMA GestureFresh ==
    ASSUME TypeInv, FreshInv, NEW o \in Ops, Gesture(o)
    PROVE  FreshInv'
  <1> DEFINE op == P.ops[o]
             to == [q \in Queries |-> IF q \in op.moves THEN aim[q] + 1 ELSE aim[q]]
             fs == ((ui \ op.off) \ Errors(op.asks)) \cup op.on
             ls == Asked(loads, op.asks, to)
  <1>1. Becomes(fs, held, calls, ls, shown)
    BY DEF Gesture
  <1>2. aim' = to /\ UNCHANGED <<page, truth, clean>> /\ Mounted
    BY DEF Gesture, Reachable
  <1>3. ASSUME clean', NEW q \in P.fresh PROVE FreshIn(q, calls, ls, to, truth, shown)
    <2>1. FreshIn(q, calls, loads, aim, truth, shown)
      BY <1>2, <1>3 DEF FreshInv
    <2>2. CASE q \in op.moves
      <3>1. q \in op.asks /\ q \in P.latest
        BY <2>2, Typed, FreshTable
      <3> QED
        BY <3>1, AskedAfresh
    <2>3. CASE q \notin op.moves
      <3>1. to[q] = aim[q]
        BY <2>3, Typed, FreshTable
      <3> HIDE DEF op, to
      <3> QED
        BY <2>1, <3>1, AskedMore
    <2> QED
      BY <2>2, <2>3
  <1> HIDE DEF op, to, fs, ls
  <1> QED
    BY <1>1, <1>2, <1>3, Typed, BecomesFresh

\* A request that leaves has changed nothing yet.
LEMMA SendFresh ==
    ASSUME TypeInv, FreshInv, NEW o \in Ops, NEW k \in Items, Send(o, k)
    PROVE  FreshInv'
  <1> DEFINE op  == P.ops[o]
             new == [id |-> uses + 1, op |-> o, item |-> k, stage |-> "sent", here |-> TRUE]
             hs  == [s \in Slots |-> IF s = op.slot THEN k ELSE held[s]]
             cs  == calls \cup {new}
             sh  == Patched(shown, op.hopes, uses + 1)
  <1>1. Becomes((ui \ op.off) \cup op.on, hs, cs, loads, sh)
    BY DEF Send
  <1>2. UNCHANGED <<page, aim, truth, clean>> /\ Mounted
    BY DEF Send, Reachable
  <1>3. cs \in SUBSET CallType
    <2>1. uses \in 0 .. MaxUses /\ MaxUses \in Nat
      BY Typed, BoundsAssumption
    <2>2. uses + 1 \in Ids
      BY <2>1 DEF Send, Ids
    <2> QED
      BY <2>2, NewCall, Typed
  <1>4. ASSUME clean', NEW q \in P.fresh PROVE FreshIn(q, cs, loads, aim, truth, sh)
    <2>1. FreshIn(q, calls, loads, aim, truth, shown)
      BY <1>2, <1>4 DEF FreshInv
    <2>2. sh[q] = shown[q]
      BY Typed, FreshTable DEF Patched
    <2>3. OwedIn(q, calls) => OwedIn(q, cs)
      BY DEF OwedIn
    <2>4. FreshIn(q, cs, loads, aim, truth, shown)
      BY <2>1, <2>3, OwedMore
    <2> QED
      BY <2>2, <2>4 DEF FreshIn, ThereIn
  <1> HIDE DEF op, new, hs, cs, sh
  <1> QED
    BY <1>1, <1>2, <1>3, <1>4, Typed, BecomesFresh
\* A step that moves no flag, where P and the parameters stay.
LEMMA QuietFresh ==
    ASSUME page' = page, ui' = ui, clean' = clean, aim' = aim, FreshInv,
           ASSUME clean, Mounted, NEW q \in P.fresh, FreshIn(q, calls, loads, aim, truth, shown)
           PROVE  FreshIn(q, calls', loads', aim, truth', shown')
    PROVE  FreshInv'
  <1>1. P' = P
    BY DEF P
  <1> SUFFICES ASSUME clean, Mounted, NEW q \in P.fresh
               PROVE  FreshIn(q, calls, loads, aim, truth, shown)'
    BY <1>1 DEF FreshInv, Mounted
  <1>2. FreshIn(q, calls, loads, aim, truth, shown)
    BY DEF FreshInv
  <1>3. FreshIn(q, calls', loads', aim', truth', shown')
    BY <1>2
  <1> QED
    BY <1>1, <1>3 DEF FreshIn, ComingIn, ThereIn, OwedIn, OpOf

\* What the server changes for a request is owed until that request is answered.
LEMMA DecidedFresh ==
    ASSUME TypeInv, FreshInv, NEW c \in calls, Take(c) \/ Refuse(c)
    PROVE  FreshInv'
  <1> PICK x, qs :
            /\ x \in {"accepted", "refused"}
            /\ calls' = (calls \ {c}) \cup {[c EXCEPT !.stage = x]}
            /\ truth' = [q \in Queries |-> IF q \in qs THEN truth[q] \cup {c.id} ELSE truth[q]]
            /\ qs = IF x = "accepted" THEN OpOf(c).writes ELSE OpOf(c).spills
    BY DEF Take, Refuse
  <1> DEFINE d == [c EXCEPT !.stage = x]
  <1>1. d.stage = x /\ OpOf(d) = OpOf(c)
    BY Typed DEF CallType, OpOf
  <1>2. calls' = (calls \ {c}) \cup {d} /\ c.stage = "sent"
    BY DEF Take, Refuse
  <1>3. UNCHANGED <<page, ui, loads, aim, shown, clean>>
    BY DEF Take, Refuse
  <1> HIDE DEF d
  <1>4. ASSUME NEW q \in P.fresh, FreshIn(q, calls, loads, aim, truth, shown)
        PROVE  FreshIn(q, calls', loads, aim, truth', shown)
    <2>1. OwedIn(q, calls) => OwedIn(q, calls')
      BY <1>1, <1>2 DEF OwedIn
    <2>2. CASE q \in qs
      <3>1. OwedIn(q, calls')
        BY <1>1, <1>2, <2>2 DEF OwedIn
      <3> QED
        BY <1>4, <3>1 DEF FreshIn, ComingIn, ThereIn
    <2>3. CASE q \notin qs
      <3>1. truth'[q] = truth[q]
        BY <1>4, <2>3, Typed, FreshTable
      <3> QED
        BY <1>4, <2>1, <3>1 DEF FreshIn, ComingIn, ThereIn
    <2> QED
      BY <2>2, <2>3
  <1> QED
    BY <1>3, <1>4, QuietFresh

LEMMA ElsewhereFresh ==
    ASSUME TypeInv, FreshInv, NEW r \in Queries, Elsewhere(r)
    PROVE  FreshInv'
  <1>1. UNCHANGED <<page, ui, calls, aim, shown, clean>> /\ loads' = Asked(loads, P.live, aim) /\ r \in P.live
    BY DEF Elsewhere
  <1>2. ASSUME NEW q \in P.fresh, FreshIn(q, calls, loads, aim, truth, shown)
        PROVE  FreshIn(q, calls, Asked(loads, P.live, aim), aim, truth', shown)
    <2>1. CASE q = r
      BY <1>1, <2>1, Typed, FreshTable, AskedAfresh
    <2>2. CASE q # r
      <3>1. truth'[q] = truth[q]
        BY <2>2, Typed, FreshTable DEF Elsewhere
      <3>2. FreshIn(q, calls, loads, aim, truth', shown)
        BY <1>2, <3>1 DEF FreshIn, ComingIn, ThereIn
      <3> QED
        BY <3>2, AskedMore
    <2> QED
      BY <2>1, <2>2
  <1> QED
    BY <1>1, <1>2, QuietFresh

LEMMA ReadFresh ==
    ASSUME TypeInv, FreshInv, NEW l \in loads, ReadLoad(l)
    PROVE  FreshInv'
  <1> DEFINE m == [l EXCEPT !.read = TRUE, !.has = truth[l.q]]
  <1>1. UNCHANGED <<page, ui, calls, truth, aim, shown, clean>> /\ loads' = (loads \ {l}) \cup {m}
    BY DEF ReadLoad
  <1>2. m.q = l.q /\ m.aim = l.aim /\ m.has = truth[m.q]
    BY Typed DEF LoadType
  <1> HIDE DEF m
  <1>3. ASSUME NEW q \in P.fresh, FreshIn(q, calls, loads, aim, truth, shown)
        PROVE  FreshIn(q, calls, loads', aim, truth, shown)
    <2>1. ComingIn(q, calls, loads', aim, truth)
      BY <1>1, <1>2, <1>3 DEF FreshIn, ComingIn
    <2>2. ThereIn(q, calls, loads', aim, truth, shown)
      BY <1>1, <1>2, <1>3 DEF FreshIn, ThereIn
    <2> QED
      BY <2>1, <2>2 DEF FreshIn
  <1> QED
    BY <1>1, <1>3, QuietFresh

\* The end of a request, with the fetches of qs: what it owed is fetched.
LEMMA EndedFresh ==
    ASSUME TypeInv, FreshInv, Mounted, clean, NEW c \in calls, NEW q \in P.fresh, NEW qs, NEW sh,
           sh[q] = shown[q],
           OwedIn(q, {c}) => q \in qs /\ q \in P.latest
    PROVE  FreshIn(q, calls \ {c}, Asked(loads, qs, aim), aim, truth, sh)
  <1>1. FreshIn(q, calls, loads, aim, truth, shown)
    BY DEF FreshInv
  <1>2. CASE OwedIn(q, {c})
    BY <1>2, AskedAfresh
  <1>3. CASE ~OwedIn(q, {c})
    <2>1. OwedIn(q, calls) => OwedIn(q, calls \ {c})
      BY <1>3 DEF OwedIn
    <2>2. FreshIn(q, calls \ {c}, loads, aim, truth, shown)
      BY <1>1, <2>1, OwedMore
    <2>3. FreshIn(q, calls \ {c}, loads, aim, truth, sh)
      BY <2>2 DEF FreshIn, ThereIn
    <2> QED
      BY <2>3, AskedMore
  <1> QED
    BY <1>2, <1>3

\* A good answer makes what was changed be fetched, or the component be left.
LEMMA GoodFresh ==
    ASSUME TypeInv, FreshInv, NEW c \in calls, AnswerGood(c)
    PROVE  FreshInv'
  <1> DEFINE op == OpOf(c)
             fs == ((ui \ (op.okOff \ Own(c))) \ Errors(op.okLoads)) \cup (op.okOn \ Own(c))
             hs == Freed(c, {"always", "ok"})
             ls == Asked(loads, op.okLoads \ Own(c), aim)
             sh == Patched(shown, op.okPatch \ Own(c), c.id)
  <1>1. Becomes(fs, hs, calls \ {c}, ls, sh)
    BY DEF AnswerGood
  <1>2. UNCHANGED <<page, aim, truth, clean>>
    BY DEF AnswerGood
  <1>3. op = P.ops[c.op] /\ c.op \in Ops /\ c.stage \in {"accepted", "refused"}
        /\ (c.stage = "refused" => op.blind)
    BY Typed DEF OpOf, AnswerGood, GoodNews
  <1>4. ASSUME clean', "gone" \notin ui', NEW q \in P.fresh PROVE FreshIn(q, calls \ {c}, ls, aim', truth', sh)
    <2>1. Mounted
      <3>1. Next
        BY DEF Next, Answer
      <3> QED
        BY <1>4, <3>1, GoneStays DEF Mounted
    <2>2. "gone" \notin op.okOn
      <3> SUFFICES ASSUME "gone" \in op.okOn PROVE FALSE
        OBVIOUS
      <3>1. \A x \in P.inside : x[1] # "gone"
        BY Typed, GoneAssumption DEF P
      <3>2. "gone" \in fs
        BY <3>1 DEF Own
      <3> HIDE DEF fs
      <3>3. "gone" \in ui'
        BY <1>1, <3>1, <3>2 DEF Becomes, Kept
      <3> QED
        BY <1>4, <3>3
    <2>3. q \notin Own(c) /\ q \in Queries
      BY Typed, FreshTable DEF Own
    <2>4. sh[q] = shown[q]
      BY <1>3, <2>3, Typed, FreshTable DEF Patched
    <2>5. OwedIn(q, {c}) => q \in op.writes \/ (q \in op.spills /\ op.blind)
      BY <1>3 DEF OwedIn
    <2>6. OwedIn(q, {c}) => q \in op.okLoads \ Own(c) /\ q \in P.latest
      BY <1>3, <2>2, <2>3, <2>5, Typed, FreshTable
    <2> HIDE DEF op, sh
    <2>7. FreshIn(q, calls \ {c}, ls, aim, truth, sh)
      BY <1>2, <1>4, <2>1, <2>4, <2>6, EndedFresh
    <2> QED
      BY <1>2, <2>7
  <1>5. calls \ {c} \in SUBSET CallType
    BY Typed
  <1> HIDE DEF op, fs, hs, ls, sh
  <1> QED
    BY <1>1, <1>2, <1>4, <1>5, Typed, BecomesFresh

\* A refusal makes what a half-way failure has changed be fetched.
LEMMA BadFresh ==
    ASSUME TypeInv, FreshInv, NEW c \in calls, AnswerBad(c)
    PROVE  FreshInv'
  <1> DEFINE op == OpOf(c)
             fs == ((ui \ (op.noOff \ Own(c))) \ Errors(op.noLoads)) \cup (op.noOn \ Own(c))
             hs == Freed(c, {"always", "err"})
             ls == Asked(loads, op.noLoads \ Own(c), aim)
             sh == Unpatched(shown, op.undo \ Own(c), c.id)
  <1>1. Becomes(fs, hs, calls \ {c}, ls, sh)
    BY DEF AnswerBad, Fail
  <1>2. UNCHANGED <<page, aim, truth, clean>>
    BY DEF AnswerBad
  <1>3. op = P.ops[c.op] /\ c.op \in Ops /\ c.stage = "refused" /\ ~op.blind
    BY Typed DEF OpOf, AnswerBad
  <1>4. ASSUME clean', "gone" \notin ui', NEW q \in P.fresh PROVE FreshIn(q, calls \ {c}, ls, aim', truth', sh)
    <2>1. Mounted
      <3>1. Next
        BY DEF Next, Answer
      <3> QED
        BY <1>4, <3>1, GoneStays DEF Mounted
    <2>2. q \notin Own(c) /\ q \in Queries
      BY Typed, FreshTable DEF Own
    <2>3. sh[q] = shown[q]
      BY <1>3, <2>2, Typed, FreshTable DEF Unpatched
    <2>4. OwedIn(q, {c}) => q \in op.spills
      BY <1>3 DEF OwedIn
    <2>5. OwedIn(q, {c}) => q \in op.noLoads \ Own(c) /\ q \in P.latest
      BY <1>3, <2>2, <2>4, Typed, FreshTable
    <2> HIDE DEF op, sh
    <2>6. FreshIn(q, calls \ {c}, ls, aim, truth, sh)
      BY <1>2, <1>4, <2>1, <2>3, <2>5, EndedFresh
    <2> QED
      BY <1>2, <2>6
  <1>5. calls \ {c} \in SUBSET CallType
    BY Typed
  <1> HIDE DEF op, fs, hs, ls, sh
  <1> QED
    BY <1>1, <1>2, <1>4, <1>5, Typed, BecomesFresh

\* An answer to a load that is displayed is no older than what is on its way.
LEMMA ApplyFresh ==
    ASSUME TypeInv, FreshInv, NEW l \in loads, ApplyLoad(l)
    PROVE  FreshInv'
  <1> DEFINE sh == [shown EXCEPT ![l.q] = [seen |-> TRUE, aim |-> l.aim, has |-> l.has]]
             fs == ui \ Wiped(l.q)
  <1>1. Becomes(fs, held, calls, loads \ {l}, sh) /\ l.read
    BY DEF ApplyLoad
  <1>2. UNCHANGED <<page, aim, truth, clean>>
    BY DEF ApplyLoad
  <1>3. ASSUME clean', "gone" \notin ui', NEW q \in P.fresh PROVE FreshIn(q, calls, loads \ {l}, aim', truth', sh)
    <2>1. Mounted
      <3>1. Next
        BY DEF Next, Answer
      <3> QED
        BY <1>3, <3>1, GoneStays DEF Mounted
    <2>2. FreshIn(q, calls, loads, aim, truth, shown) /\ q \in Queries
      BY <1>2, <1>3, <2>1, Typed, FreshTable DEF FreshInv
    <2>3. ComingIn(q, calls, loads \ {l}, aim, truth)
      BY <2>2 DEF FreshIn, ComingIn
    <2>4. CASE l.q = q
      <3>1. sh[q].aim = l.aim /\ sh[q].has = l.has
        BY <2>2, <2>4, Typed
      <3> HIDE DEF sh
      <3>2. ThereIn(q, calls, loads \ {l}, aim, truth, sh)
        BY <1>1, <2>2, <2>4, <3>1 DEF ThereIn, FreshIn, ComingIn
      <3> QED
        BY <1>2, <2>3, <3>2 DEF FreshIn
    <2>5. CASE l.q # q
      <3>1. sh[q] = shown[q]
        BY <2>2, <2>5, Typed
      <3> HIDE DEF sh
      <3>2. ThereIn(q, calls, loads \ {l}, aim, truth, sh)
        BY <2>2, <2>5, <3>1 DEF ThereIn, FreshIn
      <3> QED
        BY <1>2, <2>3, <3>2 DEF FreshIn
    <2> QED
      BY <2>4, <2>5
  <1> HIDE DEF fs, sh
  <1> QED
    BY <1>1, <1>2, <1>3, Typed, BecomesFresh

\* No step displays something older for good.
LEMMA FreshStep == TypeInv /\ FreshInv /\ [Next]_vars => FreshInv'
  <1> SUFFICES ASSUME TypeInv, FreshInv, [Next]_vars PROVE FreshInv'
    OBVIOUS
  <1>1. CASE User
    BY <1>1, GestureFresh, SendFresh DEF User
  <1>2. CASE Server
    BY <1>2, DecidedFresh, ElsewhereFresh, ReadFresh DEF Server
  <1>3. ASSUME clean' = FALSE PROVE FreshInv'
    BY <1>3 DEF FreshInv
  <1>4. CASE Answer
    BY <1>3, <1>4, GoodFresh, BadFresh, ApplyFresh DEF Answer, Lose, FailLoad
  <1>5. CASE UNCHANGED vars
    <2>1. UNCHANGED <<page, ui, calls, loads, aim, truth, shown, clean>>
      BY <1>5 DEF vars
    <2> QED
      BY <2>1, QuietFresh
  <1> QED
    BY <1>1, <1>2, <1>4, <1>5 DEF Next

\* When nothing is under way and nothing was lost, every component shows what the
\* server has, asked with the parameters on screen, however its loads, requests and
\* answers have overtaken one another.
THEOREM SettledIsFresh == Spec => []FreshWhenSettled
  <1>1. Init => FreshInv
    <2> SUFFICES ASSUME Init, NEW q \in P.fresh PROVE FreshIn(q, calls, loads, aim, truth, shown)
      BY DEF FreshInv
    <2>1. q \in Queries /\ shown = [r \in Queries |-> Blank] /\ loads = Asked({}, P.loads, aim)
      BY FreshTable DEF Init
    <2>2. FreshIn(q, calls, {}, aim, truth, shown)
      BY <2>1 DEF FreshIn, ComingIn, ThereIn, Blank
    <2> QED
      BY <2>1, <2>2, AskedMore
  <1>2. IInv /\ FreshInv => FreshWhenSettled
    <2> SUFFICES ASSUME TypeInv, FreshInv, Settled, clean, Mounted, NEW q \in P.fresh, shown[q].seen
                 PROVE  shown[q] = Current(q)
      BY DEF IInv, FreshWhenSettled
    <2>1. ThereIn(q, calls, loads, aim, truth, shown) /\ calls = {} /\ loads = {}
      BY DEF FreshInv, FreshIn, Settled
    <2>2. shown[q].aim = aim[q] /\ shown[q].has = truth[q]
      BY <2>1 DEF ThereIn, OwedIn
    <2>3. shown[q] \in ShownType
      BY Typed, FreshTable
    <2> QED
      BY <2>2, <2>3 DEF ShownType, Current
  <1>3. IInv /\ FreshInv /\ [Next]_vars => FreshInv'
    BY FreshStep DEF IInv
  <1> QED
    BY <1>1, <1>2, <1>3, Invariance, PTL DEF Spec
\* What stands in no dialog stays exactly when the screen says so.
LEMMA FlagsKept ==
    ASSUME NEW fs, NEW hs, NEW cs, NEW ls, NEW sh, Becomes(fs, hs, cs, ls, sh)
    PROVE  /\ ui' \in SUBSET fs
           /\ \A f \in fs : (\A x \in P.inside : x[1] # f) => f \in ui'
  BY DEF Becomes, Kept

\* A request that stands in no dialog keeps its home.
HereInv == \A c \in calls : OpOf(c).home = "none" => c.here

LEMMA NoneIsNoFlag ==
    ASSUME TypeInv
    PROVE  "none" \notin ui
  <1>1. "none" \notin Flags
    BY Typed, DraftAssumption DEF P, Ops, Flags
  <1> QED
    BY <1>1, Typed

LEMMA BecomesHere ==
    ASSUME TypeInv, page' = page, NEW fs, NEW hs, NEW cs \in SUBSET CallType, NEW ls, NEW sh,
           Becomes(fs, hs, cs, ls, sh), \A c \in cs : OpOf(c).home = "none" => c.here
    PROVE  HereInv'
  <1> DEFINE closed == ui \ fs
             Shut(c) == [c EXCEPT !.here = @ /\ OpOf(c).home \notin closed]
  <1>1. calls' = {Shut(c) : c \in cs}
    BY DEF Becomes
  <1>2. "none" \notin closed
    BY NoneIsNoFlag
  <1>3. \A c \in cs : OpOf(Shut(c)) = OpOf(c) /\ (Shut(c).here <=> c.here /\ OpOf(c).home \notin closed)
    BY DEF CallType, OpOf
  <1>4. P' = P
    BY DEF P
  <1> HIDE DEF Shut, closed
  <1> QED
    BY <1>1, <1>2, <1>3, <1>4 DEF HereInv, OpOf

LEMMA HereStep == TypeInv /\ HereInv /\ [Next]_vars => HereInv'
  <1> SUFFICES ASSUME TypeInv, HereInv, [Next]_vars PROVE HereInv'
    OBVIOUS
  <1>1. ASSUME NEW fs, NEW hs, NEW cs \in SUBSET calls, NEW ls, NEW sh, page' = page,
               Becomes(fs, hs, cs, ls, sh)
        PROVE  HereInv'
    <2>1. cs \in SUBSET CallType
      BY Typed
    <2> QED
      BY <1>1, <2>1, BecomesHere DEF HereInv
  <1>2. ASSUME page' = page, calls' = calls PROVE HereInv'
    BY <1>2 DEF HereInv, OpOf, P
  <1>3. ASSUME NEW o \in Ops, Gesture(o) PROVE HereInv'
    BY <1>1, <1>3 DEF Gesture
  <1>4. ASSUME NEW o \in Ops, NEW k \in Items, Send(o, k) PROVE HereInv'
    <2> DEFINE new == [id |-> uses + 1, op |-> o, item |-> k, stage |-> "sent", here |-> TRUE]
               cs  == calls \cup {new}
    <2>1. uses \in 0 .. MaxUses /\ MaxUses \in Nat
      BY Typed, BoundsAssumption
    <2>2. uses + 1 \in Ids
      BY <1>4, <2>1 DEF Send, Ids
    <2>3. cs \in SUBSET CallType
      BY <2>2, NewCall, Typed
    <2>4. \A c \in cs : OpOf(c).home = "none" => c.here
      BY DEF HereInv
    <2>5. page' = page /\ \E fs, hs, ls, sh : Becomes(fs, hs, cs, ls, sh)
      BY <1>4 DEF Send
    <2> HIDE DEF cs, new
    <2> QED
      BY <2>3, <2>4, <2>5, BecomesHere
  <1>5. CASE User
    BY <1>3, <1>4, <1>5 DEF User
  <1>6. ASSUME NEW c \in calls, Take(c) \/ Refuse(c) PROVE HereInv'
    <2>1. PICK x \in {"accepted", "refused"} : calls' = (calls \ {c}) \cup {[c EXCEPT !.stage = x]}
      BY <1>6 DEF Take, Refuse
    <2> DEFINE d == [c EXCEPT !.stage = x]
    <2>2. d.here = c.here /\ OpOf(d) = OpOf(c)
      BY Typed, DecidedTypes DEF OpOf
    <2>3. page' = page /\ calls' = (calls \ {c}) \cup {d}
      BY <1>6, <2>1 DEF Take, Refuse
    <2>4. P' = P
      BY <2>3 DEF P
    <2> HIDE DEF d
    <2> QED
      BY <2>2, <2>3, <2>4 DEF HereInv, OpOf
  <1>7. CASE Server
    BY <1>2, <1>6, <1>7 DEF Server, Elsewhere, ReadLoad
  <1>8. ASSUME NEW c \in calls, AnswerGood(c) \/ AnswerBad(c) \/ Lose(c) PROVE HereInv'
    BY <1>1, <1>8 DEF AnswerGood, AnswerBad, Lose, Fail
  <1>9. ASSUME NEW l \in loads, ApplyLoad(l) \/ FailLoad(l) PROVE HereInv'
    BY <1>1, <1>2, <1>9 DEF ApplyLoad, FailLoad
  <1>10. CASE Answer
    BY <1>8, <1>9, <1>10 DEF Answer
  <1>11. CASE UNCHANGED vars
    BY <1>2, <1>11 DEF vars
  <1> QED
    BY <1>5, <1>7, <1>10, <1>11 DEF Next

\* A request was there before, or this step sent it with the next number.
LEMMA BecomesNumbers ==
    ASSUME NEW fs, NEW hs, NEW cs \in SUBSET CallType, NEW ls, NEW sh, Becomes(fs, hs, cs, ls, sh), NEW d \in calls'
    PROVE  \E c \in cs : c.id = d.id /\ c.op = d.op
  BY DEF Becomes, CallType

LEMMA NewRequests ==
    ASSUME TypeInv, [Next]_vars, NEW d \in calls'
    PROVE  \/ \E c \in calls : c.id = d.id /\ c.op = d.op
           \/ \E o \in Ops, k \in Items : Send(o, k) /\ d.op = o /\ d.id = uses + 1
  <1>1. ASSUME NEW fs, NEW hs, NEW cs \in SUBSET calls, NEW ls, NEW sh, Becomes(fs, hs, cs, ls, sh)
        PROVE  \E c \in calls : c.id = d.id /\ c.op = d.op
    <2>1. cs \in SUBSET CallType
      BY Typed
    <2> QED
      BY <1>1, <2>1, BecomesNumbers
  <1>2. ASSUME NEW o \in Ops, Gesture(o) PROVE \E c \in calls : c.id = d.id /\ c.op = d.op
    BY <1>1, <1>2 DEF Gesture
  <1>3. ASSUME NEW o \in Ops, NEW k \in Items, Send(o, k)
        PROVE  (\E c \in calls : c.id = d.id /\ c.op = d.op) \/ (d.op = o /\ d.id = uses + 1)
    <2> DEFINE new == [id |-> uses + 1, op |-> o, item |-> k, stage |-> "sent", here |-> TRUE]
               cs  == calls \cup {new}
    <2>1. uses \in 0 .. MaxUses /\ MaxUses \in Nat
      BY Typed, BoundsAssumption
    <2>2. uses + 1 \in Ids
      BY <1>3, <2>1 DEF Send, Ids
    <2>3. cs \in SUBSET CallType
      BY <2>2, NewCall, Typed
    <2>4. \E fs, hs, ls, sh : Becomes(fs, hs, cs, ls, sh)
      BY <1>3 DEF Send
    <2>5. new.id = uses + 1 /\ new.op = o
      OBVIOUS
    <2>6. \A c \in cs : c \in calls \/ c = new
      OBVIOUS
    <2> HIDE DEF cs, new
    <2>7. \E c \in cs : c.id = d.id /\ c.op = d.op
      BY <2>3, <2>4, BecomesNumbers
    <2> QED
      BY <2>5, <2>6, <2>7
  <1>4. ASSUME NEW c \in calls, Take(c) \/ Refuse(c) PROVE \E b \in calls : b.id = d.id /\ b.op = d.op
    <2>1. PICK x \in {"accepted", "refused"} : calls' = (calls \ {c}) \cup {[c EXCEPT !.stage = x]}
      BY <1>4 DEF Take, Refuse
    <2> DEFINE e == [c EXCEPT !.stage = x]
    <2>2. e.id = c.id /\ e.op = c.op
      BY Typed DEF CallType
    <2>3. d \in calls \/ d = e
      BY <2>1
    <2> HIDE DEF e
    <2> QED
      BY <2>2, <2>3
  <1>5. CASE Server
    BY <1>4, <1>5 DEF Server, Elsewhere, ReadLoad
  <1>6. ASSUME NEW c \in calls, AnswerGood(c) \/ AnswerBad(c) \/ Lose(c) PROVE \E b \in calls : b.id = d.id /\ b.op = d.op
    BY <1>1, <1>6 DEF AnswerGood, AnswerBad, Lose, Fail
  <1>7. ASSUME NEW l \in loads, ApplyLoad(l) \/ FailLoad(l) PROVE \E c \in calls : c.id = d.id /\ c.op = d.op
    BY <1>1, <1>7 DEF ApplyLoad, FailLoad
  <1>8. CASE UNCHANGED vars
    BY <1>8 DEF vars
  <1> QED
    BY <1>2, <1>3, <1>5, <1>6, <1>7, <1>8 DEF Next, User, Answer

LEMMA UsesGrow ==
    ASSUME TypeInv, [Next]_vars
    PROVE  uses \in Nat /\ uses' \in Nat /\ uses <= uses'
  <1>1. uses \in Nat
    BY Typed
  <1>2. uses' = uses \/ uses' = uses + 1
    <2>1. User => uses' = uses \/ uses' = uses + 1
      BY DEF User, Gesture, Send
    <2>2. Server => uses' = uses \/ uses' = uses + 1
      BY DEF Server, Take, Refuse, Elsewhere, ReadLoad
    <2>3. Answer => uses' = uses
      BY DEF Answer, AnswerGood, AnswerBad, Lose, ApplyLoad, FailLoad
    <2> QED
      BY <2>1, <2>2, <2>3 DEF Next, vars
  <1> QED
    BY <1>1, <1>2

\* The assumption about drafts, at the component at work.
LEMMA DraftTable ==
    ASSUME page \in DOMAIN Table, NEW d \in P.drafts
    PROVE  /\ \A x \in P.inside : x[1] # d
           /\ \A qs : d \notin Errors(qs)
           /\ \A q : d \notin Wiped(q)
           /\ \A o \in Ops :
                 /\ d \in P.ops[o].off => P.ops[o].kind # "call" /\ P.ops[o].off \cap P.timers = {}
                 /\ d \in P.ops[o].okOff => /\ P.ops[o].home = "none" /\ P.ops[o].slot \in P.single
                                           /\ \A r \in Ops : d \in P.ops[r].on => P.ops[o].slot \in P.ops[r].idle
                 /\ d \notin P.ops[o].noOff
  <1>1. \A f \in P.fails \cup P.wipes : f[2] # d
    BY DraftAssumption DEF P
  <1>2. /\ \A x \in P.inside : x[1] # d
        /\ \A o \in Ops :
              /\ d \in P.ops[o].off => P.ops[o].kind # "call" /\ P.ops[o].off \cap P.timers = {}
              /\ d \in P.ops[o].okOff => /\ P.ops[o].home = "none" /\ P.ops[o].slot \in P.single
                                        /\ \A r \in Ops : d \in P.ops[r].on => P.ops[o].slot \in P.ops[r].idle
              /\ d \notin P.ops[o].noOff
    BY DraftAssumption DEF P, Ops
  <1> QED
    BY <1>1, <1>2 DEF Errors, Wiped

\* Whatever saves a draft was sent after the draft was begun.
EditedInv ==
    \A d \in P.drafts : /\ edited[d] <= uses
                        /\ \A c \in calls : d \in OpOf(c).okOff => edited[d] < c.id

\* A draft is begun only while nothing saves it.
LEMMA BegunUnsaved ==
    ASSUME TypeInv, SlotInv, HereInv, NEW o \in Ops, Gesture(o),
           NEW d \in P.drafts, d \in P.ops[o].on, NEW c \in calls
    PROVE  d \notin OpOf(c).okOff
  <1> SUFFICES ASSUME d \in OpOf(c).okOff PROVE FALSE
    OBVIOUS
  <1>1. c.op \in Ops /\ OpOf(c) = P.ops[c.op]
    BY Typed DEF OpOf
  <1>2. OpOf(c).home = "none" /\ OpOf(c).slot \in P.single /\ OpOf(c).slot \in P.ops[o].idle
    BY <1>1, Typed, DraftTable
  <1>3. held[OpOf(c).slot] # 0
    BY <1>2 DEF HereInv, SlotInv, BusyIsHeld, HeldIn
  <1> QED
    BY <1>2, <1>3 DEF Gesture, Barred

LEMMA EditedStep ==
    ASSUME TypeInv, SlotInv, HereInv, EditedInv, [Next]_vars
    PROVE  EditedInv'
  <1>1. page' = page /\ P' = P /\ uses \in Nat /\ uses' \in Nat /\ uses <= uses'
    <2>1. page' = page
      BY DEF Next, User, Server, Answer, Gesture, Send, Take, Refuse, Elsewhere, ReadLoad, AnswerGood,
             AnswerBad, Lose, ApplyLoad, FailLoad, vars
    <2> QED
      BY <2>1, UsesGrow DEF P
  <1> SUFFICES ASSUME NEW d \in P.drafts
               PROVE  /\ edited'[d] <= uses'
                      /\ \A c \in calls' : d \in P.ops[c.op].okOff => edited'[d] < c.id
    BY <1>1 DEF EditedInv, OpOf
  <1>2. edited[d] \in Nat /\ edited[d] <= uses
    BY Typed DEF EditedInv
  <1>3. edited'[d] = edited[d] \/ (edited'[d] = uses /\ \A c \in calls : d \notin OpOf(c).okOff)
    <2>1. ASSUME NEW o \in Ops, Gesture(o)
          PROVE  edited'[d] = edited[d] \/ (edited'[d] = uses /\ \A c \in calls : d \notin OpOf(c).okOff)
      <3>1. CASE d \in P.ops[o].on
        BY <2>1, <3>1, BegunUnsaved DEF Gesture
      <3>2. CASE d \notin P.ops[o].on
        BY <2>1, <3>2 DEF Gesture
      <3> QED
        BY <3>1, <3>2
    <2>2. ASSUME ~(\E o \in Ops : Gesture(o)) PROVE edited' = edited
      BY <2>2 DEF Next, User, Server, Answer, Send, Take, Refuse, Elsewhere, ReadLoad, AnswerGood,
                  AnswerBad, Lose, ApplyLoad, FailLoad, vars
    <2> QED
      BY <2>1, <2>2
  <1>4. ASSUME NEW c \in calls', d \in P.ops[c.op].okOff PROVE edited'[d] < c.id
    <2>1. CASE \E b \in calls : b.id = c.id /\ b.op = c.op
      <3>1. PICK b \in calls : b.id = c.id /\ b.op = c.op
        BY <2>1
      <3>2. d \in OpOf(b).okOff
        BY <1>4, <3>1 DEF OpOf
      <3>3. edited[d] < b.id
        BY <3>2 DEF EditedInv
      <3> QED
        BY <1>3, <3>1, <3>2, <3>3
    <2>2. CASE \E o \in Ops, k \in Items : Send(o, k) /\ c.op = o /\ c.id = uses + 1
      BY <1>1, <1>2, <1>3, <2>2
    <2> QED
      BY <2>1, <2>2, NewRequests
  <1> QED
    BY <1>1, <1>2, <1>3, <1>4

\* A draft that goes is one the next screen no longer has.
LEMMA DroppedFlag ==
    ASSUME TypeInv, NEW d \in Dropped, NEW fs, NEW hs, NEW cs, NEW ls, NEW sh, Becomes(fs, hs, cs, ls, sh)
    PROVE  d \in P.drafts /\ d \in ui /\ d \notin fs
  BY Typed, DraftTable, FlagsKept DEF Dropped

LEMMA DraftStep ==
    ASSUME TypeInv, EditedInv, [Next]_vars, Dropped # {}
    PROVE  Discarded \/ Saved
  <1>1. ASSUME NEW o \in Ops, Gesture(o) PROVE Discarded
    <2> DEFINE op == P.ops[o]
               fs == ((ui \ op.off) \ Errors(op.asks)) \cup op.on
    <2>1. \E hs, cs, ls, sh : Becomes(fs, hs, cs, ls, sh)
      BY <1>1 DEF Gesture
    <2>2. ASSUME NEW d \in Dropped PROVE d \in op.off /\ d \in P.drafts
      BY <2>1, Typed, DroppedFlag, DraftTable
    <2>3. op.off \cap P.timers = {}
      BY <2>2, Typed, DraftTable
    <2> QED
      BY <1>1, <2>2, <2>3 DEF Discarded
  <1>2. ASSUME NEW o \in Ops, NEW k \in Items, Send(o, k) PROVE FALSE
    <2> DEFINE op == P.ops[o]
               fs == (ui \ op.off) \cup op.on
    <2>1. \E hs, cs, ls, sh : Becomes(fs, hs, cs, ls, sh)
      BY <1>2 DEF Send
    <2>2. PICK d \in Dropped : TRUE
      OBVIOUS
    <2>3. d \in op.off /\ d \in P.drafts
      BY <2>1, DroppedFlag
    <2> QED
      BY <1>2, <2>3, Typed, DraftTable DEF Send
  <1>3. ASSUME NEW c \in calls, AnswerGood(c) PROVE Saved
    <2> DEFINE op == OpOf(c)
               fs == ((ui \ (op.okOff \ Own(c))) \ Errors(op.okLoads)) \cup (op.okOn \ Own(c))
    <2>1. \E hs, cs, ls, sh : Becomes(fs, hs, cs, ls, sh)
      BY <1>3 DEF AnswerGood
    <2>2. ASSUME NEW d \in Dropped PROVE d \in op.okOff /\ d \in P.drafts
      BY <2>1, Typed, DroppedFlag, DraftTable
    <2>3. \A d \in Dropped : edited[d] < c.id
      BY <2>2 DEF EditedInv
    <2> QED
      BY <1>3, <2>2, <2>3 DEF Saved, AnswerGood
  <1>4. ASSUME NEW c \in calls, Fail(c) PROVE FALSE
    <2> DEFINE op == OpOf(c)
               fs == ((ui \ (op.noOff \ Own(c))) \ Errors(op.noLoads)) \cup (op.noOn \ Own(c))
    <2>1. \E hs, cs, ls, sh : Becomes(fs, hs, cs, ls, sh)
      BY <1>4 DEF Fail
    <2>2. PICK d \in Dropped : TRUE
      OBVIOUS
    <2>3. d \in op.noOff /\ d \in P.drafts
      BY <2>1, Typed, DroppedFlag, DraftTable
    <2> QED
      BY <2>3, Typed, DraftTable DEF OpOf
  <1>5. ASSUME NEW l \in loads, ApplyLoad(l) PROVE FALSE
    <2>1. \E hs, cs, ls, sh : Becomes(ui \ Wiped(l.q), hs, cs, ls, sh)
      BY <1>5 DEF ApplyLoad
    <2> QED
      BY <2>1, Typed, DroppedFlag, DraftTable
  <1>6. ASSUME ui \in SUBSET ui' PROVE FALSE
    BY <1>6 DEF Dropped
  <1>7. CASE Server
    BY <1>6, <1>7 DEF Server, Take, Refuse, Elsewhere, ReadLoad
  <1>8. CASE Answer
    BY <1>3, <1>4, <1>5, <1>6, <1>8 DEF Answer, AnswerBad, Lose, FailLoad
  <1>9. CASE UNCHANGED vars
    BY <1>6, <1>9 DEF vars
  <1> QED
    BY <1>1, <1>2, <1>7, <1>8, <1>9 DEF Next, User

\* What the user typed goes away by a gesture of the user, or because it was saved as it
\* stands: no failure, no load and no answer to an earlier save takes it along.
THEOREM DraftsGoForCause == Spec => DraftsAreKept
  <1>1. Init => HereInv /\ EditedInv
    BY DEF Init, HereInv, EditedInv
  <1>2. IInv /\ EditedInv /\ [Next]_vars => (Dropped # {} => Discarded \/ Saved)
    BY DraftStep DEF IInv
  <1>3. IInv /\ HereInv /\ EditedInv /\ [Next]_vars => HereInv' /\ EditedInv'
    BY HereStep, EditedStep DEF IInv
  <1> QED
    BY <1>1, <1>2, <1>3, Invariance, PTL DEF Spec, DraftsAreKept
\* Queries that are loaded once, when the component is mounted.
Again == P.live \cup UNION {P.ops[r].asks \cup P.ops[r].okLoads \cup P.ops[r].noLoads : r \in Ops}
OnceIn(q, ls, sh) ==
    /\ \A l, k \in ls : l.q = q /\ k.q = q => l = k
    /\ sh[q].seen => \A l \in ls : l.q # q
OnceInv == \A q \in Queries \ Again : OnceIn(q, loads, shown)

\* What the way out of an open dialog needs is still there.
WayOpen(o) == (\A q \in P.ops[o].sees : shown[q].seen) /\ P.ops[o].bar \cap ui = {}
ExitInv == \A m \in P.modals \cap ui, o \in Ops : Exit(page, m, o) => WayOpen(o)

DialogInv == OnceInv /\ ExitInv

\* No fetch of other queries touches one that is loaded once.
LEMMA AskedOthers ==
    ASSUME NEW q, NEW qs, q \notin qs, NEW ls, NEW to, NEW l \in Asked(ls, qs, to), l.q = q
    PROVE  l \in ls
  <1> DEFINE W == Wanted(ls, qs)
             Req(x) == [q |-> x, n |-> 1 + Cardinality({k \in W : k.q = x}), aim |-> to[x],
                        read |-> FALSE, has |-> {}]
  <1>1. Asked(ls, qs, to) = W \cup {Req(x) : x \in qs}
    BY DEF Asked
  <1>2. \A x : Req(x).q = x
    OBVIOUS
  <1>3. W \in SUBSET ls
    BY DEF Wanted
  <1> HIDE DEF W, Req
  <1> QED
    BY <1>1, <1>2, <1>3

LEMMA BecomesOnce ==
    ASSUME page' = page, NEW fs, NEW hs, NEW cs, NEW ls, NEW sh, Becomes(fs, hs, cs, ls, sh),
           NEW q \in Queries, OnceIn(q, ls, sh)
    PROVE  OnceIn(q, loads, shown)'
  <1>1. loads' \in SUBSET ls
    BY DEF Becomes
  <1>2. shown'[q].seen => sh[q].seen
    <2>1. Blank.seen = FALSE
      BY DEF Blank
    <2> QED
      BY <2>1 DEF Becomes
  <1> QED
    BY <1>1, <1>2 DEF OnceIn

LEMMA PatchSees ==
    ASSUME NEW sh \in [Queries -> ShownType], NEW qs, NEW id, NEW q \in Queries
    PROVE  Patched(sh, qs, id)[q].seen = sh[q].seen /\ Unpatched(sh, qs, id)[q].seen = sh[q].seen
  <1>1. \A r \in Queries : /\ [sh[r] EXCEPT !.has = @ \cup {id}].seen = sh[r].seen
                           /\ [sh[r] EXCEPT !.has = @ \ {id}].seen = sh[r].seen
    BY DEF ShownType
  <1> QED
    BY <1>1 DEF Patched, Unpatched

\* What is loaded once is displayed or has failed for good when its load is over.
LEMMA OnceStep == TypeInv /\ OnceInv /\ [Next]_vars => OnceInv'
  <1> SUFFICES ASSUME TypeInv, OnceInv, [Next]_vars PROVE OnceInv'
    OBVIOUS
  <1>1. page' = page
    BY DEF vars, Next, User, Server, Answer, Gesture, Send, Take, Refuse, Elsewhere, ReadLoad,
           AnswerGood, AnswerBad, Lose, ApplyLoad, FailLoad
  <1>2. Queries' = Queries /\ Again' = Again
    BY <1>1 DEF P, Ops, Queries, Again
  <1> SUFFICES ASSUME NEW q \in Queries \ Again PROVE OnceIn(q, loads, shown)'
    BY <1>2 DEF OnceInv
  <1>3. OnceIn(q, loads, shown)
    BY DEF OnceInv
  <1>4. /\ q \notin P.live
        /\ \A o \in Ops : q \notin P.ops[o].asks /\ q \notin P.ops[o].okLoads /\ q \notin P.ops[o].noLoads
    BY DEF Again
  <1>5. ASSUME NEW ls, \A l \in ls : l.q = q => l \in loads, NEW sh, sh[q].seen = shown[q].seen
        PROVE  OnceIn(q, ls, sh)
    BY <1>3, <1>5 DEF OnceIn
  <1>6. ASSUME NEW fs, NEW hs, NEW cs, NEW qs, q \notin qs, NEW to, NEW sh, sh[q].seen = shown[q].seen,
               Becomes(fs, hs, cs, Asked(loads, qs, to), sh)
        PROVE  OnceIn(q, loads, shown)'
    <2>1. OnceIn(q, Asked(loads, qs, to), sh)
      BY <1>5, <1>6, AskedOthers
    <2> QED
      BY <1>1, <1>6, <2>1, BecomesOnce
  <1>7. ASSUME NEW o \in Ops, Gesture(o) PROVE OnceIn(q, loads, shown)'
    <2>1. \E fs, to : Becomes(fs, held, calls, Asked(loads, P.ops[o].asks, to), shown)
      BY <1>7 DEF Gesture
    <2> QED
      BY <1>4, <1>6, <2>1
  <1>8. ASSUME NEW o \in Ops, NEW k \in Items, Send(o, k) PROVE OnceIn(q, loads, shown)'
    <2> DEFINE sh == Patched(shown, P.ops[o].hopes, uses + 1)
    <2>1. \E fs, hs, cs : Becomes(fs, hs, cs, loads, sh)
      BY <1>8 DEF Send
    <2>2. OnceIn(q, loads, sh)
      BY <1>5, Typed, PatchSees
    <2> QED
      BY <1>1, <2>1, <2>2, BecomesOnce
  <1>9. ASSUME shown' = shown, \A l \in loads' : l.q = q => l \in loads PROVE OnceIn(q, loads, shown)'
    BY <1>3, <1>9 DEF OnceIn
  <1>10. ASSUME NEW r \in Queries, Elsewhere(r) PROVE OnceIn(q, loads, shown)'
    BY <1>4, <1>9, <1>10, AskedOthers DEF Elsewhere
  <1>11. ASSUME NEW l \in loads, ReadLoad(l) PROVE OnceIn(q, loads, shown)'
    <2> DEFINE m == [l EXCEPT !.read = TRUE, !.has = truth[l.q]]
    <2>1. m.q = l.q /\ loads' = (loads \ {l}) \cup {m} /\ shown' = shown
      BY <1>11, Typed DEF ReadLoad, LoadType
    <2> HIDE DEF m
    <2> QED
      BY <1>3, <2>1 DEF OnceIn
  <1>12. ASSUME NEW c \in calls, AnswerGood(c) PROVE OnceIn(q, loads, shown)'
    <2> DEFINE op == OpOf(c)
               sh == Patched(shown, op.okPatch \ Own(c), c.id)
    <2>1. \E fs, hs, cs : Becomes(fs, hs, cs, Asked(loads, op.okLoads \ Own(c), aim), sh)
      BY <1>12 DEF AnswerGood
    <2>2. sh[q].seen = shown[q].seen
      BY Typed, PatchSees
    <2>3. q \notin op.okLoads \ Own(c)
      BY <1>4, Typed DEF OpOf
    <2> QED
      BY <1>6, <2>1, <2>2, <2>3
  <1>13. ASSUME NEW c \in calls, Fail(c) PROVE OnceIn(q, loads, shown)'
    <2> DEFINE op == OpOf(c)
               sh == Unpatched(shown, op.undo \ Own(c), c.id)
    <2>1. \E fs, hs, cs : Becomes(fs, hs, cs, Asked(loads, op.noLoads \ Own(c), aim), sh)
      BY <1>13 DEF Fail
    <2>2. sh[q].seen = shown[q].seen
      BY Typed, PatchSees
    <2>3. q \notin op.noLoads \ Own(c)
      BY <1>4, Typed DEF OpOf
    <2> QED
      BY <1>6, <2>1, <2>2, <2>3
  <1>14. ASSUME NEW l \in loads, ApplyLoad(l) PROVE OnceIn(q, loads, shown)'
    <2> DEFINE sh == [shown EXCEPT ![l.q] = [seen |-> TRUE, aim |-> l.aim, has |-> l.has]]
    <2>1. Becomes(ui \ Wiped(l.q), held, calls, loads \ {l}, sh)
      BY <1>14 DEF ApplyLoad
    <2>2. OnceIn(q, loads \ {l}, sh)
      <3>1. CASE l.q = q
        BY <1>3, <3>1 DEF OnceIn
      <3>2. CASE l.q # q
        BY <1>3, <3>2, Typed DEF OnceIn
      <3> QED
        BY <3>1, <3>2
    <2> HIDE DEF sh
    <2> QED
      BY <1>1, <2>1, <2>2, BecomesOnce
  <1>15. ASSUME NEW l \in loads, FailLoad(l) PROVE OnceIn(q, loads, shown)'
    BY <1>9, <1>15 DEF FailLoad
  <1>16. CASE User
    BY <1>7, <1>8, <1>16 DEF User
  <1>17. CASE Server
    BY <1>9, <1>10, <1>11, <1>17 DEF Server, Take, Refuse
  <1>18. CASE Answer
    BY <1>12, <1>13, <1>14, <1>15, <1>18 DEF Answer, AnswerBad, Lose
  <1>19. CASE UNCHANGED vars
    BY <1>9, <1>19 DEF vars
  <1> QED
    BY <1>16, <1>17, <1>18, <1>19 DEF Next

\* What was displayed outside every dialog stays displayed.
LEMMA BecomesSees ==
    ASSUME NEW fs, NEW hs, NEW cs, NEW ls, NEW sh, Becomes(fs, hs, cs, ls, sh),
           NEW q \in Queries, \A x \in P.inside : x[1] # q, sh[q].seen
    PROVE  shown'[q].seen
  <1>1. \A ds : q \notin Inside(ds)
    BY DEF Inside
  <1> QED
    BY <1>1 DEF Becomes

LEMMA SeenStays ==
    ASSUME TypeInv, [Next]_vars, NEW q \in Queries, \A x \in P.inside : x[1] # q, shown[q].seen
    PROVE  shown'[q].seen
  <1>1. ASSUME NEW o \in Ops, Gesture(o) PROVE shown'[q].seen
    <2>1. \E fs, ls : Becomes(fs, held, calls, ls, shown)
      BY <1>1 DEF Gesture
    <2> QED
      BY <2>1, BecomesSees
  <1>2. ASSUME NEW o \in Ops, NEW k \in Items, Send(o, k) PROVE shown'[q].seen
    <2>1. \E fs, hs, cs : Becomes(fs, hs, cs, loads, Patched(shown, P.ops[o].hopes, uses + 1))
      BY <1>2 DEF Send
    <2> QED
      BY <2>1, Typed, PatchSees, BecomesSees
  <1>3. CASE Server
    BY <1>3 DEF Server, Take, Refuse, Elsewhere, ReadLoad
  <1>4. ASSUME NEW c \in calls, AnswerGood(c) PROVE shown'[q].seen
    <2>1. \E fs, hs, cs, ls : Becomes(fs, hs, cs, ls, Patched(shown, OpOf(c).okPatch \ Own(c), c.id))
      BY <1>4 DEF AnswerGood
    <2> QED
      BY <2>1, Typed, PatchSees, BecomesSees
  <1>5. ASSUME NEW c \in calls, Fail(c) PROVE shown'[q].seen
    <2>1. \E fs, hs, cs, ls : Becomes(fs, hs, cs, ls, Unpatched(shown, OpOf(c).undo \ Own(c), c.id))
      BY <1>5 DEF Fail
    <2> QED
      BY <2>1, Typed, PatchSees, BecomesSees
  <1>6. ASSUME NEW l \in loads, ApplyLoad(l) PROVE shown'[q].seen
    <2> DEFINE sh == [shown EXCEPT ![l.q] = [seen |-> TRUE, aim |-> l.aim, has |-> l.has]]
    <2>1. Becomes(ui \ Wiped(l.q), held, calls, loads \ {l}, sh)
      BY <1>6 DEF ApplyLoad
    <2>2. sh[q].seen
      BY Typed
    <2> HIDE DEF sh
    <2> QED
      BY <2>1, <2>2, BecomesSees
  <1>7. CASE Answer
    BY <1>4, <1>5, <1>6, <1>7 DEF Answer, AnswerBad, Lose, FailLoad
  <1>8. CASE UNCHANGED vars
    BY <1>8 DEF vars
  <1> QED
    BY <1>1, <1>2, <1>3, <1>7, <1>8 DEF Next, User
\* A flag that no dialog takes along and no load touches.
Firm(f) == (\A x \in P.inside : x[1] # f) /\ \A g \in P.fails \cup P.wipes : g[2] # f
ByUser(o) == Gesture(o) \/ \E k \in Items : Send(o, k)

\* What the user does changes the flags that the operation names.
LEMMA UserFlags ==
    ASSUME NEW o \in Ops, ByUser(o)
    PROVE  /\ Reachable(o)
           /\ \A f \in ui' : f \in ui \ P.ops[o].off \/ f \in P.ops[o].on
           /\ \A f : Firm(f) /\ (f \in ui \ P.ops[o].off \/ f \in P.ops[o].on) => f \in ui'
  <1> DEFINE op == P.ops[o]
             Goes(f) == f \in ui \ op.off \/ f \in op.on
  <1>1. ASSUME NEW fs, NEW hs, NEW cs, NEW ls, NEW sh, Becomes(fs, hs, cs, ls, sh),
               \A f \in fs : Goes(f), \A f : Firm(f) /\ Goes(f) => f \in fs
        PROVE  (\A f \in ui' : Goes(f)) /\ \A f : Firm(f) /\ Goes(f) => f \in ui'
    BY <1>1, FlagsKept DEF Firm
  <1>2. CASE Gesture(o)
    <2> DEFINE fs == ((ui \ op.off) \ Errors(op.asks)) \cup op.on
    <2>1. \E hs, cs, ls, sh : Becomes(fs, hs, cs, ls, sh)
      BY <1>2 DEF Gesture
    <2>2. \A f \in fs : Goes(f)
      OBVIOUS
    <2>3. \A f : Firm(f) /\ Goes(f) => f \in fs
      BY DEF Firm, Errors
    <2> HIDE DEF fs, Goes
    <2> QED
      BY <1>1, <1>2, <2>1, <2>2, <2>3 DEF Gesture, Goes
  <1>3. ASSUME NEW k \in Items, Send(o, k)
        PROVE  Reachable(o) /\ (\A f \in ui' : Goes(f)) /\ \A f : Firm(f) /\ Goes(f) => f \in ui'
    <2> DEFINE fs == (ui \ op.off) \cup op.on
    <2>1. \E hs, cs, ls, sh : Becomes(fs, hs, cs, ls, sh)
      BY <1>3 DEF Send
    <2>2. \A f : f \in fs <=> Goes(f)
      OBVIOUS
    <2> HIDE DEF fs, Goes
    <2> QED
      BY <1>1, <1>3, <2>1, <2>2 DEF Send
  <1> QED
    BY <1>2, <1>3 DEF ByUser

\* Without the user, a flag comes up by the answer to a request or because a load
\* failed, and goes by an answer, a load or a dialog that closes.
LEMMA OtherFlags ==
    ASSUME TypeInv, [Next]_vars, \A o \in Ops : ~ByUser(o), NEW f
    PROVE  /\ f \in ui' \ ui => \/ \E o \in Ops : f \in P.ops[o].okOn \cup P.ops[o].noOn
                              \/ \E l \in loads : \E g \in P.fails : g[1] = l.q /\ g[2] = f
           /\ f \in ui \ ui' /\ Firm(f) => \E o \in Ops : f \in P.ops[o].okOff \cup P.ops[o].noOff
  <1>1. ASSUME NEW c \in calls, AnswerGood(c)
        PROVE  /\ c.op \in Ops /\ (f \in ui' \ ui => f \in P.ops[c.op].okOn)
               /\ f \in ui \ ui' /\ Firm(f) => f \in P.ops[c.op].okOff
    <2> DEFINE op == OpOf(c)
               fs == ((ui \ (op.okOff \ Own(c))) \ Errors(op.okLoads)) \cup (op.okOn \ Own(c))
    <2>1. \E hs, cs, ls, sh : Becomes(fs, hs, cs, ls, sh)
      BY <1>1 DEF AnswerGood
    <2>2. (f \in ui' => f \in fs) /\ (f \in fs /\ Firm(f) => f \in ui')
      BY <2>1, FlagsKept DEF Firm
    <2>3. Firm(f) => f \notin Errors(op.okLoads)
      BY DEF Firm, Errors
    <2> QED
      BY <2>2, <2>3, Typed DEF OpOf
  <1>2. ASSUME NEW c \in calls, Fail(c)
        PROVE  /\ c.op \in Ops /\ (f \in ui' \ ui => f \in P.ops[c.op].noOn)
               /\ f \in ui \ ui' /\ Firm(f) => f \in P.ops[c.op].noOff
    <2> DEFINE op == OpOf(c)
               fs == ((ui \ (op.noOff \ Own(c))) \ Errors(op.noLoads)) \cup (op.noOn \ Own(c))
    <2>1. \E hs, cs, ls, sh : Becomes(fs, hs, cs, ls, sh)
      BY <1>2 DEF Fail
    <2>2. (f \in ui' => f \in fs) /\ (f \in fs /\ Firm(f) => f \in ui')
      BY <2>1, FlagsKept DEF Firm
    <2>3. Firm(f) => f \notin Errors(op.noLoads)
      BY DEF Firm, Errors
    <2> QED
      BY <2>2, <2>3, Typed DEF OpOf
  <1>3. ASSUME NEW l \in loads, ApplyLoad(l) PROVE f \notin ui' \ ui /\ (f \in ui \ ui' => ~Firm(f))
    <2>1. \E hs, cs, ls, sh : Becomes(ui \ Wiped(l.q), hs, cs, ls, sh)
      BY <1>3 DEF ApplyLoad
    <2>2. Firm(f) => f \notin Wiped(l.q)
      BY DEF Firm, Wiped
    <2> QED
      BY <2>1, <2>2, FlagsKept DEF Firm
  <1>4. ASSUME NEW l \in loads, FailLoad(l)
        PROVE  f \notin ui \ ui' /\ (f \in ui' \ ui => \E g \in P.fails : g[1] = l.q /\ g[2] = f)
    BY <1>4 DEF FailLoad, Errors
  <1>5. CASE Server
    BY <1>5 DEF Server, Take, Refuse, Elsewhere, ReadLoad
  <1>6. CASE Answer
    <2>1. CASE \E c \in calls : AnswerGood(c)
      BY <1>1, <2>1
    <2>2. CASE \E c \in calls : Fail(c)
      BY <1>2, <2>2
    <2>3. CASE \E l \in loads : ApplyLoad(l) \/ FailLoad(l)
      BY <1>3, <1>4, <2>3
    <2> QED
      BY <1>6, <2>1, <2>2, <2>3 DEF Answer, AnswerBad, Lose
  <1>7. CASE UNCHANGED vars
    BY <1>7 DEF vars
  <1>8. ~User
    BY DEF User, ByUser
  <1> QED
    BY <1>5, <1>6, <1>7, <1>8 DEF Next

\* A flag comes up by a gesture or request of the user, by its answer, or because a
\* load failed.
LEMMA NewFlags ==
    ASSUME TypeInv, [Next]_vars, NEW f \in ui' \ ui
    PROVE  \/ \E o \in Ops : Reachable(o) /\ f \in P.ops[o].on
           \/ \E o \in Ops : f \in P.ops[o].okOn \cup P.ops[o].noOn
           \/ \E l \in loads : \E g \in P.fails : g[1] = l.q /\ g[2] = f
  BY UserFlags, OtherFlags

\* What the way out of a dialog needs, at the component at work.
LEMMA ExitTable ==
    ASSUME page \in DOMAIN Table, NEW m, NEW o \in Ops, Exit(page, m, o)
    PROVE  /\ Leads(o, m) /\ P.ops[o].need \in SUBSET {m} /\ P.ops[o].awaits = {}
           /\ P.ops[o].idle \in SUBSET (Slots \ P.leaky)
           /\ P.ops[o].sees \cup P.ops[o].bar # {} =>
                 /\ m \notin P.start /\ \A f \in P.fails : f[2] # m
                 /\ \A r \in Ops : m \notin P.ops[r].okOn \cup P.ops[r].noOn
           /\ \A q \in P.ops[o].sees : /\ q \in Queries /\ \A x \in P.inside : x[1] # q
                                       /\ \A r \in Ops : m \in P.ops[r].on => q \in P.ops[r].sees
           /\ \A b \in P.ops[o].bar :
                 /\ \A r \in Ops : b \notin P.ops[r].on \cup P.ops[r].okOn \cup P.ops[r].noOn
                 /\ \A r \in Ops : m \in P.ops[r].on => b \in P.ops[r].bar
                 /\ \A f \in P.fails : f[2] = b => f[1] \in P.ops[o].sees \ Again
  <1>1. Leads(o, m) /\ P.ops[o].need \in SUBSET {m} /\ P.ops[o].awaits = {}
    BY DEF Exit, Leads, P
  <1>2. P.ops[o].idle \in SUBSET (Slots \ P.leaky)
    BY DEF Exit, P, Ops, Slots, None
  <1>3. P.ops[o].sees \cup P.ops[o].bar # {} =>
           /\ m \notin P.start /\ \A f \in P.fails : f[2] # m
           /\ \A r \in Ops : m \notin P.ops[r].okOn \cup P.ops[r].noOn
    BY DEF Exit, P, Ops
  <1>4. \A q \in P.ops[o].sees : /\ q \in Queries /\ \A x \in P.inside : x[1] # q
                                /\ \A r \in Ops : m \in P.ops[r].on => q \in P.ops[r].sees
    BY DEF Exit, P, Ops, Queries
  <1>5. ASSUME NEW b \in P.ops[o].bar
        PROVE  /\ \A r \in Ops : b \notin P.ops[r].on \cup P.ops[r].okOn \cup P.ops[r].noOn
               /\ \A r \in Ops : m \in P.ops[r].on => b \in P.ops[r].bar
               /\ \A f \in P.fails : f[2] = b => f[1] \in P.ops[o].sees \ Again
    BY DEF Exit, P, Ops, Again
  <1> QED
    BY <1>1, <1>2, <1>3, <1>4, <1>5

\* The way out of a dialog was open when the dialog was, and stays open.
LEMMA ExitStep == TypeInv /\ DialogInv /\ [Next]_vars => ExitInv'
  <1> SUFFICES ASSUME TypeInv, DialogInv, [Next]_vars PROVE ExitInv'
    OBVIOUS
  <1>1. page' = page
    BY DEF vars, Next, User, Server, Answer, Gesture, Send, Take, Refuse, Elsewhere, ReadLoad,
           AnswerGood, AnswerBad, Lose, ApplyLoad, FailLoad
  <1>2. P' = P /\ Ops' = Ops
    BY <1>1 DEF P, Ops
  <1> SUFFICES ASSUME NEW m \in P.modals, m \in ui', NEW o \in Ops, Exit(page, m, o)
               PROVE  WayOpen(o)'
    BY <1>1, <1>2 DEF ExitInv
  <1> DEFINE op == P.ops[o]
  <1>3. op.sees \cup op.bar # {} => WayOpen(o)
    <2> SUFFICES ASSUME op.sees \cup op.bar # {} PROVE WayOpen(o)
      OBVIOUS
    <2>1. CASE m \in ui
      BY <2>1 DEF DialogInv, ExitInv
    <2>2. CASE m \notin ui
      <3>1. PICK r \in Ops : Reachable(r) /\ m \in P.ops[r].on
        BY <2>2, Typed, NewFlags, ExitTable
      <3> QED
        BY <3>1, Typed, ExitTable DEF Reachable, WayOpen
    <2> QED
      BY <2>1, <2>2
  <1>4. \A q \in op.sees : shown[q].seen /\ shown'[q].seen
    BY <1>3, Typed, ExitTable, SeenStays DEF WayOpen
  <1>5. ASSUME NEW b \in op.bar PROVE b \notin ui'
    <2> SUFFICES ASSUME b \in ui' PROVE FALSE
      OBVIOUS
    <2>1. b \notin ui
      BY <1>3 DEF WayOpen
    <2>2. PICK l \in loads, f \in P.fails : f[1] = l.q /\ f[2] = b
      BY <2>1, Typed, NewFlags, ExitTable
    <2>3. l.q \in op.sees /\ l.q \in Queries \ Again
      BY <2>2, Typed, ExitTable
    <2> QED
      BY <1>4, <2>3 DEF DialogInv, OnceInv, OnceIn
  <1> QED
    BY <1>2, <1>4, <1>5 DEF WayOpen

\* Nobody is locked in: once nothing is under way, every dialog that covers the page
\* has a control that works and leads out of it, whatever was asked, refused and lost.
THEOREM NobodyIsLockedIn == Spec => []DialogsCanBeLeft
  <1>1. Init => DialogInv
    <2> SUFFICES ASSUME Init PROVE DialogInv
      OBVIOUS
    <2>1. page \in DOMAIN Table /\ shown = [q \in Queries |-> Blank] /\ ui = P.start
      BY DEF Init
    <2>2. OnceInv
      <3> SUFFICES ASSUME NEW q \in Queries PROVE OnceIn(q, loads, shown)
        BY DEF OnceInv
      <3>1. ~shown[q].seen
        BY <2>1 DEF Blank
      <3>2. \A l, k \in loads : l.q = q /\ k.q = q => l = k
        <4> DEFINE W == Wanted({}, P.loads)
                   Req(x) == [q |-> x, n |-> 1 + Cardinality({l \in W : l.q = x}), aim |-> aim[x],
                              read |-> FALSE, has |-> {}]
        <4>1. loads = W \cup {Req(x) : x \in P.loads} /\ W = {}
          BY DEF Init, Asked, Wanted
        <4>2. \A x : Req(x).q = x
          OBVIOUS
        <4> HIDE DEF W, Req
        <4> QED
          BY <4>1, <4>2
      <3> QED
        BY <3>1, <3>2 DEF OnceIn
    <2>3. ExitInv
      BY <2>1, ExitTable DEF ExitInv, WayOpen
    <2> QED
      BY <2>2, <2>3 DEF DialogInv
  <1>2. IInv /\ DialogInv => DialogsCanBeLeft
    <2> SUFFICES ASSUME IInv, DialogInv, calls = {}, Mounted, NEW m \in P.modals \cap ui
                 PROVE  \E o \in Ops : Reachable(o) /\ ~Barred(o) /\ Leads(o, m)
      BY DEF DialogsCanBeLeft
    <2>1. page \in DOMAIN Table
      BY Typed DEF IInv
    <2>2. PICK o \in Ops : Exit(page, m, o)
      BY <2>1, DialogAssumption DEF P, Ops
    <2>3. WayOpen(o)
      BY <2>2 DEF DialogInv, ExitInv
    <2>4. Reachable(o) /\ Leads(o, m)
      BY <2>1, <2>2, <2>3, ExitTable DEF Reachable, WayOpen
    <2>5. \A s \in P.ops[o].idle : s \in Slots \ P.leaky /\ held[s] = 0
      BY <2>1, <2>2, ExitTable DEF IInv, SlotInv, BusyIsBacked, BackedIn
    <2> QED
      BY <2>4, <2>5 DEF Barred
  <1>3. IInv /\ DialogInv /\ [Next]_vars => DialogInv'
    BY OnceStep, ExitStep DEF IInv, DialogInv
  <1> QED
    BY <1>1, <1>2, <1>3, Invariance, PTL DEF Spec

(***************************************************************************)
(* What is required.  A wizard shows one step at a time, and a step that   *)
(* rests on what an earlier one filled in is shown only while that is      *)
(* there: nobody turns back to empty it without leaving the later step.    *)
(***************************************************************************)
ApartInv == \A f, g \in P.apart \cap ui : f = g
RestInv  == \A x \in P.rests : x[1] \in ui => x[2] \in ui
StepsInv == ApartInv /\ RestInv

\* The assumptions about steps, at the component at work.
LEMMA ApartTable ==
    ASSUME page \in DOMAIN Table
    PROVE  /\ \A f, g \in P.apart \cap P.start : f = g
           /\ \A f \in P.fails : f[2] \notin P.apart
           /\ \A o \in Ops :
                 /\ (P.ops[o].okOn \cup P.ops[o].noOn) \cap P.apart = {}
                 /\ \A f, g \in P.ops[o].on \cap P.apart : f = g
                 /\ P.ops[o].on \cap P.apart # {} => P.ops[o].need \cap P.ops[o].off \cap P.apart # {}
  BY ApartAssumption DEF P, Ops

LEMMA RestTable ==
    ASSUME page \in DOMAIN Table, NEW x \in P.rests
    PROVE  /\ x[1] \in P.start => x[2] \in P.start
           /\ Firm(x[2]) /\ \A f \in P.fails : f[2] # x[1]
           /\ \A o \in Ops :
                 /\ x[1] \notin P.ops[o].okOn \cup P.ops[o].noOn /\ x[2] \notin P.ops[o].okOff \cup P.ops[o].noOff
                 /\ x[1] \in P.ops[o].on =>
                       \/ x[2] \in P.ops[o].on
                       \/ x[2] \notin P.ops[o].off /\ \E f \in P.ops[o].need : f = x[2] \/ <<f, x[2]>> \in P.rests
                 /\ x[2] \in P.ops[o].off =>
                       \/ x[1] \in P.ops[o].off \cup P.ops[o].bar
                       \/ x[1] \in P.apart /\ \E f \in P.ops[o].need \cap P.apart : f # x[1]
  BY RestAssumption DEF P, Ops, Firm

\* What must be there for a control that is reachable is there.
LEMMA Supported ==
    ASSUME StepsInv, NEW o \in Ops, Reachable(o), NEW r, NEW f \in P.ops[o].need, f = r \/ <<f, r>> \in P.rests
    PROVE  r \in ui
  <1>1. f \in ui
    BY DEF Reachable
  <1>2. ASSUME <<f, r>> \in P.rests PROVE r \in ui
    <2> DEFINE x == <<f, r>>
    <2>1. x[1] = f /\ x[2] = r
      OBVIOUS
    <2> QED
      BY <1>1, <1>2, <2>1 DEF StepsInv, RestInv
  <1> QED
    BY <1>1, <1>2

LEMMA StepsStep == TypeInv /\ StepsInv /\ [Next]_vars => StepsInv'
  <1> SUFFICES ASSUME TypeInv, StepsInv, [Next]_vars PROVE StepsInv'
    OBVIOUS
  <1>1. page' = page
    BY DEF vars, Next, User, Server, Answer, Gesture, Send, Take, Refuse, Elsewhere, ReadLoad,
           AnswerGood, AnswerBad, Lose, ApplyLoad, FailLoad
  <1>2. P' = P /\ page \in DOMAIN Table
    BY <1>1, Typed DEF P
  <1>3. ASSUME NEW o \in Ops, ByUser(o) PROVE StepsInv'
    <2> DEFINE op == P.ops[o]
    <2>1. /\ op.need \subseteq ui /\ op.bar \cap ui = {}
          /\ \A f \in ui' : f \in ui \ op.off \/ f \in op.on
          /\ \A f : Firm(f) /\ (f \in ui \ op.off \/ f \in op.on) => f \in ui'
      BY <1>3, UserFlags DEF Reachable
    <2>2. ApartInv'
      <3> SUFFICES ASSUME NEW f \in P.apart, f \in ui', NEW g \in P.apart, g \in ui' PROVE f = g
        BY <1>2 DEF ApartInv
      <3>1. CASE op.on \cap P.apart = {}
        BY <2>1, <3>1 DEF StepsInv, ApartInv
      <3>2. CASE op.on \cap P.apart # {}
        <4>1. PICK h \in P.apart : h \in op.need /\ h \in op.off
          BY <1>2, <3>2, ApartTable
        <4>2. h \in ui
          BY <2>1, <4>1
        <4>3. \A k \in P.apart : k \in ui' => k \in op.on
          BY <2>1, <4>1, <4>2 DEF StepsInv, ApartInv
        <4> QED
          BY <1>2, <4>3, ApartTable
      <3> QED
        BY <3>1, <3>2
    <2>3. RestInv'
      <3> SUFFICES ASSUME NEW x \in P.rests, x[1] \in ui' PROVE x[2] \in ui'
        BY <1>2 DEF RestInv
      <3>1. Firm(x[2])
        BY <1>2, RestTable
      <3>2. CASE x[2] \in op.on
        BY <2>1, <3>1, <3>2
      <3>3. CASE x[1] \in op.on /\ x[2] \notin op.on
        <4>1. x[2] \notin op.off /\ \E f \in op.need : f = x[2] \/ <<f, x[2]>> \in P.rests
          BY <1>2, <3>3, RestTable
        <4>2. x[2] \in ui
          BY <1>3, <4>1, Supported, UserFlags
        <4> QED
          BY <2>1, <3>1, <4>1, <4>2
      <3>4. CASE x[1] \notin op.on
        <4>1. x[1] \in ui /\ x[1] \notin op.off /\ x[2] \in ui
          BY <2>1, <3>4 DEF StepsInv, RestInv
        <4>2. x[2] \notin op.off
          <5> SUFFICES ASSUME x[2] \in op.off PROVE FALSE
            OBVIOUS
          <5>1. x[1] \notin op.bar
            BY <2>1, <4>1
          <5>2. x[1] \in P.apart /\ \E f \in op.need \cap P.apart : f # x[1]
            BY <1>2, <4>1, <5>1, RestTable
          <5> QED
            BY <2>1, <4>1, <5>2 DEF StepsInv, ApartInv
        <4> QED
          BY <2>1, <3>1, <4>1, <4>2
      <3> QED
        BY <3>2, <3>3, <3>4
    <2> QED
      BY <2>2, <2>3 DEF StepsInv
  <1>4. ASSUME \A o \in Ops : ~ByUser(o) PROVE StepsInv'
    <2>1. ASSUME NEW f \in P.apart, f \in ui' PROVE f \in ui
      BY <1>2, <1>4, <2>1, ApartTable, OtherFlags
    <2>2. ASSUME NEW x \in P.rests, x[1] \in ui' PROVE x[2] \in ui'
      <3>1. x[1] \in ui
        BY <1>2, <1>4, <2>2, RestTable, OtherFlags
      <3>2. x[2] \in ui
        BY <3>1 DEF StepsInv, RestInv
      <3> QED
        BY <1>2, <1>4, <3>2, RestTable, OtherFlags
    <2> QED
      BY <1>2, <2>1, <2>2 DEF StepsInv, ApartInv, RestInv
  <1> QED
    BY <1>3, <1>4

\* No request has a number that is still to come.
NumbersInv == \A c \in calls : c.id <= uses

LEMMA NumbersStep == TypeInv /\ NumbersInv /\ [Next]_vars => NumbersInv'
  <1> SUFFICES ASSUME TypeInv, NumbersInv, [Next]_vars, NEW d \in calls' PROVE d.id <= uses'
    BY DEF NumbersInv
  <1>1. uses \in Nat /\ uses' \in Nat /\ uses <= uses'
    BY UsesGrow
  <1>2. \A o \in Ops, k \in Items : Send(o, k) => uses' = uses + 1
    BY DEF Send
  <1>3. \A c \in calls : c.id \in Nat /\ c.id <= uses
    BY Typed DEF NumbersInv, CallType, Ids
  <1> QED
    BY <1>1, <1>2, <1>3, NewRequests

\* What an operation requires is there when it is sent, by whatever way the user came
\* to the control, for any wizard whose table meets the assumptions.
THEOREM RequiredIsThere == Spec => SentAsRequired
  <1>1. Init => StepsInv /\ NumbersInv
    <2> SUFFICES ASSUME Init PROVE StepsInv /\ NumbersInv
      OBVIOUS
    <2>1. page \in DOMAIN Table /\ ui = P.start /\ calls = {}
      BY DEF Init
    <2>2. ApartInv
      BY <2>1, ApartTable DEF ApartInv
    <2>3. RestInv
      BY <2>1, RestTable DEF RestInv
    <2> QED
      BY <2>1, <2>2, <2>3 DEF StepsInv, NumbersInv
  <1>2. TypeInv /\ StepsInv /\ NumbersInv /\ [Next]_vars =>
            \A c \in calls' : c.id > uses => \A r \in P.requires : r[1] = c.op => r[2] \in ui
    <2> SUFFICES ASSUME TypeInv, StepsInv, NumbersInv, [Next]_vars, NEW c \in calls', c.id > uses,
                        NEW r \in P.requires, r[1] = c.op
                 PROVE  r[2] \in ui
      OBVIOUS
    <2>1. \A b \in calls : ~(b.id > uses)
      BY Typed DEF NumbersInv, CallType, Ids
    <2>2. PICK o \in Ops, k \in Items : Send(o, k) /\ c.op = o
      BY <2>1, NewRequests
    <2>3. Reachable(o)
      BY <2>2 DEF Send
    <2>4. \E f \in P.ops[o].need : f = r[2] \/ <<f, r[2]>> \in P.rests
      BY <2>2, Typed, RequiresAssumption DEF P
    <2> QED
      BY <2>3, <2>4, Supported
  <1>3. IInv => TypeInv
    BY DEF IInv
  <1> QED
    BY <1>1, <1>2, <1>3, StepsStep, NumbersStep, Invariance, PTL DEF Spec, SentAsRequired
=============================================================================
