------------------------- MODULE EventStream_proofs -------------------------
(***************************************************************************)
(* Theorems about EventStream, for any groups, instances, batch size and   *)
(* number of entries.                                                      *)
(*                                                                         *)
(* EntryHasOneOwner is not inductive by itself: that a fresh batch meets   *)
(* no other needs that whatever is pending or handled lies behind the      *)
(* group's cursor (BehindCursor).  AckFollowsHandler holds on its own.     *)
(* HandledInOrder needs that what the only instance of a service has read  *)
(* and not handled is younger than all it handled (OrderInv).              *)
(***************************************************************************)
EXTENDS EventStream, TLAPS

\* What is pending or handled lies behind the group's cursor.
BehindCursor ==
    \A g \in Group, e \in Entry :
       (e \in pending[g] \/ outcome[g][e] # "none") => e <= delivered[g]

IInv == TypeOK /\ BehindCursor /\ EntryHasOneOwner /\ AckFollowsHandler

\* A read hands out exactly the entries the cursor passes over, at least one.
LEMMA HandOutMovesCursor ==
    ASSUME TypeOK, NEW g \in Group, HandOut(g)
    PROVE  /\ delivered' \in [Group -> 0..MaxEntries]
           /\ delivered[g] < delivered'[g]
           /\ \A h \in Group \ {g} : delivered'[h] = delivered[h]
           /\ Fresh(g) \in SUBSET Entry
           /\ \A e \in Entry : e \in Fresh(g) <=> (delivered[g] < e /\ e <= delivered'[g])
           /\ pending' \in [Group -> SUBSET Entry]
           /\ pending'[g] = pending[g] \cup Fresh(g)
           /\ \A h \in Group \ {g} : pending'[h] = pending[h]
  <1> DEFINE d == delivered[g]
             n == IF published <= d + BatchSize THEN published ELSE d + BatchSize
  <1>1. d \in Nat /\ published \in Nat /\ published <= MaxEntries /\ BatchSize \in Nat /\ BatchSize > 0
    BY StreamAssumption DEF TypeOK
  <1>2. PICK e \in Entry : e > d /\ e <= published
    BY DEF HandOut, Fresh
  <1>3. n \in Nat /\ d < n /\ n <= published
    BY <1>1, <1>2, StreamAssumption DEF Entry
  <1>4. delivered' = [delivered EXCEPT ![g] = n]
    BY DEF HandOut
  <1>5. /\ delivered' \in [Group -> 0..MaxEntries] /\ delivered'[g] = n
        /\ \A h \in Group \ {g} : delivered'[h] = delivered[h]
    <2> HIDE DEF n
    <2>1. n \in 0..MaxEntries
      BY <1>1, <1>3, StreamAssumption
    <2> QED
      BY <2>1, <1>4 DEF TypeOK
  <1>6. \A x \in Entry : x \in Fresh(g) <=> (d < x /\ x <= n)
    BY <1>1, <1>3, StreamAssumption DEF Fresh, Entry
  <1>7. Fresh(g) \in SUBSET Entry
    BY DEF Fresh
  <1> HIDE DEF n, d
  <1>8. /\ pending' \in [Group -> SUBSET Entry] /\ pending'[g] = pending[g] \cup Fresh(g)
        /\ \A h \in Group \ {g} : pending'[h] = pending[h]
    BY <1>7 DEF HandOut, TypeOK
  <1> QED
    BY <1>3, <1>5, <1>6, <1>7, <1>8 DEF d

\* The next state has its types.
LEMMA TypeStep == TypeOK /\ [Next]_vars => TypeOK'
  <1> SUFFICES ASSUME TypeOK, [Next]_vars PROVE TypeOK'
    OBVIOUS
  <1> USE StreamAssumption
  <1>1. CASE Publish
    BY <1>1 DEF Publish, TypeOK
  <1>2. ASSUME NEW c \in Consumer, Start(c) PROVE TypeOK'
    BY <1>2 DEF Start, TypeOK
  <1>3. ASSUME NEW c \in Consumer, Read(c) PROVE TypeOK'
    <2>1. GroupOf[c] \in Group /\ HandOut(GroupOf[c])
      BY <1>3 DEF Read
    <2> QED
      BY <1>3, <2>1, HandOutMovesCursor DEF Read, HandOut, TypeOK
  <1>4. ASSUME NEW c \in Consumer, ReadLost(c) PROVE TypeOK'
    <2>1. GroupOf[c] \in Group /\ HandOut(GroupOf[c])
      BY <1>4 DEF ReadLost
    <2>2. crashes' \in 0..MaxCrashes
      BY <1>4 DEF ReadLost, TypeOK
    <2>3. delivered' \in [Group -> 0..MaxEntries] /\ pending' \in [Group -> SUBSET Entry]
      BY <2>1, HandOutMovesCursor
    <2> QED
      BY <1>4, <2>1, <2>2, <2>3 DEF ReadLost, HandOut, TypeOK
  <1>5. ASSUME NEW c \in Consumer, Handle(c) PROVE TypeOK'
    <2>1. PICK e \in batch[c], r \in {"ok", "error"} :
            /\ outcome' = [outcome EXCEPT ![GroupOf[c]][e] = r]
            /\ pending' \in {pending, [pending EXCEPT ![GroupOf[c]] = @ \ {e}]}
            /\ batch' = [batch EXCEPT ![c] = @ \ {e}]
      BY <1>5 DEF Handle
    <2>2. e \in Entry /\ GroupOf[c] \in Group
      BY <2>1 DEF TypeOK
    <2>3. pending' \in [Group -> SUBSET Entry] /\ batch' \in [Consumer -> SUBSET Entry]
      BY <2>1, <2>2 DEF TypeOK
    <2>4. outcome' \in [Group -> [Entry -> {"none", "ok", "error"}]]
      BY <2>1, <2>2 DEF TypeOK
    <2> QED
      BY <1>5, <2>3, <2>4 DEF Handle, TypeOK
  <1>6. ASSUME NEW c \in Consumer, Crash(c) PROVE TypeOK'
    BY <1>6 DEF Crash, TypeOK, redis
  <1>7. CASE UNCHANGED vars
    BY <1>7 DEF vars, TypeOK
  <1>8. ASSUME NEW c \in Consumer, Skip(c) PROVE TypeOK'
    BY <1>8 DEF Skip, TypeOK, redis
  <1> QED
    BY <1>1, <1>2, <1>3, <1>4, <1>5, <1>6, <1>7, <1>8 DEF Next

\* Every variable keeps its type, whatever the parameters.
THEOREM TypeCorrect == Spec => []TypeOK
  <1>1. Init => TypeOK
    BY StreamAssumption DEF Init, TypeOK
  <1> QED
    BY <1>1, TypeStep, PTL DEF Spec

(***************************************************************************)
(* The inductive invariant, one lemma for each kind of step that is not a  *)
(* mere restart.                                                           *)
(***************************************************************************)
\* Handing a batch out, with or without the reply arriving, keeps pending and
\* handled entries behind the cursor.
LEMMA HandOutKeepsCursorFacts ==
    ASSUME IInv, NEW g \in Group, HandOut(g)
    PROVE  BehindCursor' /\ AckFollowsHandler'
  <1> USE DEF IInv
  <1>0. /\ delivered \in [Group -> 0..MaxEntries] /\ \A e \in Entry : e \in Nat
        /\ delivered' \in [Group -> 0..MaxEntries] /\ MaxEntries \in Nat /\ outcome' = outcome
    BY HandOutMovesCursor, StreamAssumption DEF TypeOK, Entry, HandOut
  <1>1. ASSUME NEW h \in Group, NEW e \in Entry, (e \in pending[h] \/ outcome[h][e] # "none")'
        PROVE  e <= delivered'[h]
    <2>1. CASE h = g
      BY <1>0, <1>1, <2>1, HandOutMovesCursor DEF BehindCursor
    <2>2. CASE h # g
      BY <1>0, <1>1, <2>2, HandOutMovesCursor DEF BehindCursor
    <2> QED
      BY <2>1, <2>2
  <1>2. ASSUME NEW h \in Group, NEW e \in Entry, e <= delivered'[h], e \notin pending'[h]
        PROVE  outcome'[h][e] # "none"
    <2>1. CASE h = g
      BY <1>0, <1>2, <2>1, HandOutMovesCursor DEF AckFollowsHandler
    <2>2. CASE h # g
      BY <1>0, <1>2, <2>2, HandOutMovesCursor DEF AckFollowsHandler
    <2> QED
      BY <2>1, <2>2
  <1> QED
    BY <1>1, <1>2 DEF BehindCursor, AckFollowsHandler

\* A batch that is read meets no batch of the same group and no result.
LEMMA ReadKeepsOwners ==
    ASSUME IInv, NEW c \in Consumer, Read(c)
    PROVE  EntryHasOneOwner'
  <1> DEFINE g == GroupOf[c]
  <1>1. g \in Group /\ HandOut(g) /\ batch[c] = {}
    BY StreamAssumption DEF Read
  <1>2. /\ batch' = [batch EXCEPT ![c] = Fresh(g)] /\ outcome' = outcome
        /\ batch \in [Consumer -> SUBSET Entry]
        /\ TypeOK /\ BehindCursor /\ EntryHasOneOwner
    BY DEF Read, HandOut, TypeOK, IInv
  <1>3. /\ delivered \in [Group -> 0..MaxEntries] /\ \A e \in Entry : e \in Nat
        /\ delivered' \in [Group -> 0..MaxEntries] /\ MaxEntries \in Nat
    BY <1>1, <1>2, HandOutMovesCursor, StreamAssumption DEF TypeOK, Entry
  <1> HIDE DEF g
  <1>4. \A e \in Fresh(g) : e \in pending'[g] /\ e <= delivered'[g] /\ outcome'[g][e] = "none"
    <2> SUFFICES ASSUME NEW e \in Fresh(g)
                 PROVE  e \in pending'[g] /\ e <= delivered'[g] /\ outcome[g][e] = "none"
      BY <1>2
    <2>1. e \in Entry /\ delivered[g] < e /\ e <= delivered'[g] /\ e \in pending'[g]
      BY <1>1, <1>2, HandOutMovesCursor
    <2>2. ~(e <= delivered[g])
      BY <1>1, <1>3, <2>1
    <2> QED
      BY <1>1, <1>2, <2>1, <2>2 DEF BehindCursor
  <1>5. ASSUME NEW d \in Consumer, d # c, NEW e \in batch[d]
        PROVE  /\ e \in pending'[GroupOf[d]] /\ e <= delivered'[GroupOf[d]]
               /\ outcome'[GroupOf[d]][e] = "none"
               /\ GroupOf[d] = g => e \notin Fresh(g)
    <2>1. /\ e \in Entry /\ GroupOf[d] \in Group /\ e \in pending[GroupOf[d]]
          /\ e <= delivered[GroupOf[d]] /\ outcome[GroupOf[d]][e] = "none"
      BY <1>2, <1>5, StreamAssumption DEF EntryHasOneOwner
    <2>2. CASE GroupOf[d] # g
      BY <1>1, <1>2, <2>1, <2>2, HandOutMovesCursor
    <2>3. CASE GroupOf[d] = g
      <3>1. e <= delivered'[g]
        BY <1>1, <1>2, <1>3, <2>1, <2>3, HandOutMovesCursor
      <3>2. e \notin Fresh(g)
        BY <1>1, <1>2, <1>3, <2>1, <2>3, HandOutMovesCursor
      <3> QED
        BY <1>1, <1>2, <2>1, <2>3, <3>1, <3>2, HandOutMovesCursor
    <2> QED
      BY <2>2, <2>3
  <1>6. GroupOf[c] = g
    BY DEF g
  <1>7. /\ batch'[c] = Fresh(g)
        /\ \A d \in Consumer : d # c => batch'[d] = batch[d]
    BY <1>2
  <1>8. GroupOf' = GroupOf
    OBVIOUS
  <1>9. ASSUME NEW d \in Consumer, NEW e \in batch'[d]
        PROVE  /\ e \in pending'[GroupOf[d]] /\ e <= delivered'[GroupOf[d]]
               /\ outcome'[GroupOf[d]][e] = "none"
    BY <1>4, <1>5, <1>6, <1>7, <1>9
  <1>10. ASSUME NEW d \in Consumer, NEW f \in Consumer \ {d}, GroupOf[d] = GroupOf[f]
         PROVE  batch'[d] \cap batch'[f] = {}
    <2>1. CASE d = c
      BY <1>5, <1>6, <1>7, <1>10, <2>1
    <2>2. CASE f = c
      BY <1>5, <1>6, <1>7, <1>10, <2>2
    <2>3. CASE d # c /\ f # c
      BY <1>2, <1>7, <1>10, <2>3 DEF EntryHasOneOwner
    <2> QED
      BY <2>1, <2>2, <2>3
  <1> QED
    BY <1>9, <1>10 DEF EntryHasOneOwner

\* What Handle does, with the entry and the result named.
LEMMA HandleOneEntry ==
    ASSUME TypeOK, NEW c \in Consumer, Handle(c)
    PROVE  \E e \in batch[c], r \in {"ok", "error"} :
             /\ e \in Entry
             /\ outcome'[GroupOf[c]][e] = r
             /\ \A h \in Group, f \in Entry :
                   (h # GroupOf[c] \/ f # e) => outcome'[h][f] = outcome[h][f]
             /\ \A h \in Group, f \in Entry :
                   (h # GroupOf[c] \/ f # e) => (f \in pending'[h] <=> f \in pending[h])
             /\ \A h \in Group : pending'[h] \subseteq pending[h]
             /\ batch'[c] = batch[c] \ {e}
             /\ \A d \in Consumer \ {c} : batch'[d] = batch[d]
             /\ delivered' = delivered
  <1>1. PICK e \in batch[c], r \in {"ok", "error"} :
            /\ outcome' = [outcome EXCEPT ![GroupOf[c]][e] = r]
            /\ pending' \in {pending, [pending EXCEPT ![GroupOf[c]] = @ \ {e}]}
            /\ batch' = [batch EXCEPT ![c] = @ \ {e}]
    BY DEF Handle
  <1>2. e \in Entry /\ GroupOf[c] \in Group /\ delivered' = delivered
    BY <1>1, StreamAssumption DEF TypeOK, Handle
  <1>3. /\ outcome'[GroupOf[c]][e] = r
        /\ \A h \in Group, f \in Entry :
              (h # GroupOf[c] \/ f # e) => outcome'[h][f] = outcome[h][f]
    BY <1>1, <1>2 DEF TypeOK
  <1>4. /\ \A h \in Group, f \in Entry :
              (h # GroupOf[c] \/ f # e) => (f \in pending'[h] <=> f \in pending[h])
        /\ \A h \in Group : pending'[h] \subseteq pending[h]
    BY <1>1, <1>2 DEF TypeOK
  <1>5. batch'[c] = batch[c] \ {e} /\ \A d \in Consumer \ {c} : batch'[d] = batch[d]
    BY <1>1 DEF TypeOK
  <1> QED
    BY <1>1, <1>2, <1>3, <1>4, <1>5

\* What Skip does: the oldest entry leaves the batch and nothing else happens.
LEMMA SkipOneEntry ==
    ASSUME TypeOK, NEW c \in Consumer, Skip(c)
    PROVE  \E e \in batch[c] :
             /\ e \in Entry
             /\ batch'[c] = batch[c] \ {e}
             /\ \A d \in Consumer \ {c} : batch'[d] = batch[d]
             /\ delivered' = delivered /\ pending' = pending /\ outcome' = outcome
             /\ up' = up /\ shared' = shared
  <1>1. PICK e \in batch[c] : batch' = [batch EXCEPT ![c] = @ \ {e}]
    BY DEF Skip
  <1>2. e \in Entry /\ batch'[c] = batch[c] \ {e} /\ \A d \in Consumer \ {c} : batch'[d] = batch[d]
    BY <1>1 DEF TypeOK
  <1> QED
    BY <1>2 DEF Skip, redis

\* A handler that returns keeps the facts: its entry belonged to nobody else.
LEMMA HandleKeepsFacts ==
    ASSUME IInv, NEW c \in Consumer, Handle(c)
    PROVE  BehindCursor' /\ EntryHasOneOwner' /\ AckFollowsHandler'
  <1>1. TypeOK /\ BehindCursor /\ EntryHasOneOwner /\ AckFollowsHandler
    BY DEF IInv
  <1>2. PICK e \in batch[c], r \in {"ok", "error"} :
             /\ e \in Entry
             /\ outcome'[GroupOf[c]][e] = r
             /\ \A h \in Group, f \in Entry :
                   (h # GroupOf[c] \/ f # e) => outcome'[h][f] = outcome[h][f]
             /\ \A h \in Group, f \in Entry :
                   (h # GroupOf[c] \/ f # e) => (f \in pending'[h] <=> f \in pending[h])
             /\ \A h \in Group : pending'[h] \subseteq pending[h]
             /\ batch'[c] = batch[c] \ {e}
             /\ \A d \in Consumer \ {c} : batch'[d] = batch[d]
             /\ delivered' = delivered
    BY <1>1, HandleOneEntry
  <1>3. \A d \in Consumer : GroupOf[d] \in Group
    BY StreamAssumption
  <1>4. /\ e \in pending[GroupOf[c]] /\ e <= delivered[GroupOf[c]]
        /\ \A d \in Consumer \ {c} : GroupOf[d] = GroupOf[c] => e \notin batch[d]
    BY <1>1, <1>2 DEF EntryHasOneOwner
  <1>5. BehindCursor'
    <2> SUFFICES ASSUME NEW h \in Group, NEW f \in Entry,
                        f \in pending'[h] \/ outcome'[h][f] # "none"
                 PROVE  f <= delivered[h]
      BY <1>2 DEF BehindCursor
    <2>1. CASE h = GroupOf[c] /\ f = e
      BY <1>4, <2>1
    <2>2. CASE h # GroupOf[c] \/ f # e
      BY <1>1, <1>2, <2>2 DEF BehindCursor
    <2> QED
      BY <2>1, <2>2
  <1>6. AckFollowsHandler'
    <2> SUFFICES ASSUME NEW h \in Group, NEW f \in Entry, f <= delivered[h], f \notin pending'[h]
                 PROVE  outcome'[h][f] # "none"
      BY <1>2 DEF AckFollowsHandler
    <2>1. CASE h = GroupOf[c] /\ f = e
      BY <1>2, <2>1
    <2>2. CASE h # GroupOf[c] \/ f # e
      BY <1>1, <1>2, <2>2 DEF AckFollowsHandler
    <2> QED
      BY <2>1, <2>2
  <1>7. EntryHasOneOwner'
    <2>1. \A d \in Consumer : batch'[d] \subseteq batch[d] /\ batch[d] \subseteq Entry
      BY <1>1, <1>2 DEF TypeOK
    <2>2. ASSUME NEW d \in Consumer, NEW f \in batch'[d]
          PROVE  /\ f \in pending'[GroupOf[d]] /\ f <= delivered'[GroupOf[d]]
                 /\ outcome'[GroupOf[d]][f] = "none"
      <3>1. /\ f \in Entry /\ f \in pending[GroupOf[d]] /\ f <= delivered[GroupOf[d]]
            /\ outcome[GroupOf[d]][f] = "none"
        BY <1>1, <2>1, <2>2 DEF EntryHasOneOwner
      <3>2. GroupOf[d] # GroupOf[c] \/ f # e
        BY <1>2, <1>4, <2>1, <2>2
      <3> QED
        BY <1>2, <1>3, <3>1, <3>2
    <2>3. ASSUME NEW d \in Consumer, NEW x \in Consumer \ {d}, GroupOf[d] = GroupOf[x]
          PROVE  batch'[d] \cap batch'[x] = {}
      BY <1>1, <2>1, <2>3 DEF EntryHasOneOwner
    <2> QED
      BY <2>2, <2>3 DEF EntryHasOneOwner
  <1> QED
    BY <1>5, <1>6, <1>7

\* The invariant is inductive.
LEMMA InvStep == IInv /\ [Next]_vars => IInv'
  <1> SUFFICES ASSUME IInv, [Next]_vars PROVE IInv'
    OBVIOUS
  <1>1. TypeOK'
    BY TypeStep DEF IInv
  <1> SUFFICES BehindCursor' /\ EntryHasOneOwner' /\ AckFollowsHandler'
    BY <1>1 DEF IInv
  <1>2. CASE UNCHANGED <<delivered, pending, batch, outcome>>
    BY <1>2 DEF IInv, BehindCursor, EntryHasOneOwner, AckFollowsHandler
  <1>3. CASE Publish \/ \E c \in Consumer : Start(c)
    BY <1>2, <1>3 DEF Publish, Start
  <1>4. ASSUME NEW c \in Consumer, Read(c)
        PROVE  BehindCursor' /\ EntryHasOneOwner' /\ AckFollowsHandler'
    <2>1. GroupOf[c] \in Group /\ HandOut(GroupOf[c])
      BY <1>4, StreamAssumption DEF Read
    <2> QED
      BY <1>4, <2>1, HandOutKeepsCursorFacts, ReadKeepsOwners
  <1>5. ASSUME NEW c \in Consumer, ReadLost(c)
        PROVE  BehindCursor' /\ EntryHasOneOwner' /\ AckFollowsHandler'
    <2>1. GroupOf[c] \in Group /\ HandOut(GroupOf[c]) /\ batch' = batch /\ outcome' = outcome
      BY <1>5, StreamAssumption DEF ReadLost, HandOut
    <2>2. \A h \in Group, e \in Entry :
             /\ e \in pending[h] => e \in pending'[h]
             /\ e <= delivered[h] => e <= delivered'[h]
      <3>1. /\ delivered \in [Group -> 0..MaxEntries] /\ delivered' \in [Group -> 0..MaxEntries]
            /\ MaxEntries \in Nat /\ \A e \in Entry : e \in Nat
        BY <2>1, HandOutMovesCursor, StreamAssumption DEF IInv, TypeOK, Entry
      <3> SUFFICES ASSUME NEW h \in Group, NEW e \in Entry
                   PROVE  /\ e \in pending[h] => e \in pending'[h]
                          /\ e <= delivered[h] => e <= delivered'[h]
        OBVIOUS
      <3>2. CASE h = GroupOf[c]
        BY <2>1, <3>1, <3>2, HandOutMovesCursor DEF IInv
      <3>3. CASE h # GroupOf[c]
        BY <2>1, <3>1, <3>3, HandOutMovesCursor DEF IInv
      <3> QED
        BY <3>2, <3>3
    <2>3. EntryHasOneOwner'
      <3>1. EntryHasOneOwner /\ \A d \in Consumer : GroupOf[d] \in Group /\ batch[d] \subseteq Entry
        BY StreamAssumption DEF IInv, TypeOK
      <3> QED
        BY <2>1, <2>2, <3>1 DEF EntryHasOneOwner
    <2> QED
      BY <2>1, <2>3, HandOutKeepsCursorFacts
  <1>6. ASSUME NEW c \in Consumer, Handle(c)
        PROVE  BehindCursor' /\ EntryHasOneOwner' /\ AckFollowsHandler'
    BY <1>6, HandleKeepsFacts
  <1>7. ASSUME NEW c \in Consumer, Crash(c)
        PROVE  BehindCursor' /\ EntryHasOneOwner' /\ AckFollowsHandler'
    <2>1. /\ \A d \in Consumer : batch'[d] \subseteq batch[d]
          /\ delivered' = delivered /\ pending' = pending /\ outcome' = outcome
      BY <1>7 DEF Crash, redis, IInv, TypeOK
    <2> QED
      BY <2>1 DEF IInv, BehindCursor, EntryHasOneOwner, AckFollowsHandler
  <1>8. CASE UNCHANGED vars
    BY <1>2, <1>8 DEF vars
  <1>9. ASSUME NEW c \in Consumer, Skip(c)
        PROVE  BehindCursor' /\ EntryHasOneOwner' /\ AckFollowsHandler'
    <2>1. /\ \A d \in Consumer : batch'[d] \subseteq batch[d]
          /\ delivered' = delivered /\ pending' = pending /\ outcome' = outcome
      BY <1>9, SkipOneEntry DEF IInv
    <2> QED
      BY <2>1 DEF IInv, BehindCursor, EntryHasOneOwner, AckFollowsHandler
  <1> QED
    BY <1>3, <1>4, <1>5, <1>6, <1>7, <1>8, <1>9 DEF Next

LEMMA InvHolds == Spec => []IInv
  <1>1. Init => IInv
    BY StreamAssumption DEF Init, IInv, TypeOK, BehindCursor, EntryHasOneOwner, AckFollowsHandler, Entry
  <1> QED
    BY <1>1, InvStep, PTL DEF Spec

\* Two instances never work on the same entry, and what an instance works on is
\* pending, behind the cursor and not handled.
THEOREM OneOwner == Spec => []EntryHasOneOwner
  BY InvHolds, PTL DEF IInv

\* A read entry that is no longer pending was handled.
THEOREM AckAfterHandler == Spec => []AckFollowsHandler
  BY InvHolds, PTL DEF IInv

\* No handler ever produces a second result for an entry.
THEOREM HandledAtMostOnce == Spec => HandledOnce
  <1> DEFINE Kept == \A g \in Group, e \in Entry : outcome[g][e] # "none" => outcome'[g][e] = outcome[g][e]
  <1>1. IInv /\ [Next]_vars => [Kept]_outcome
    <2> SUFFICES ASSUME IInv, [Next]_vars, outcome' # outcome PROVE Kept
      OBVIOUS
    <2>1. PICK c \in Consumer : Handle(c)
      BY DEF Next, Publish, Start, Read, ReadLost, HandOut, Skip, Crash, vars
    <2>2. PICK e \in batch[c] :
             /\ e \in Entry
             /\ \A h \in Group, f \in Entry :
                   (h # GroupOf[c] \/ f # e) => outcome'[h][f] = outcome[h][f]
      BY <2>1, HandleOneEntry DEF IInv
    <2>3. outcome[GroupOf[c]][e] = "none"
      BY <2>2 DEF IInv, EntryHasOneOwner
    <2> QED
      BY <2>2, <2>3
  <1> QED
    BY <1>1, InvHolds, PTL DEF Spec, HandledOnce

(***************************************************************************)
(* The refinement.  Each step moves some entries of one group from one     *)
(* fate to the next, or none.                                              *)
(***************************************************************************)
FateMap == [g \in Group |-> [e \in Entry |-> Fate(g, e)]]

\* Fate as the transport sees it, in this state and in the next.
LEMMA FateIs ==
    ASSUME TypeOK, TypeOK', NEW g \in Group, NEW e \in Entry
    PROVE  /\ Fate(g, e) = IF ~(e <= delivered[g]) THEN "waiting"
                           ELSE IF \E c \in Consumer : GroupOf[c] = g /\ e \in batch[c] THEN "taken"
                           ELSE IF outcome[g][e] # "none" THEN "done" ELSE "lost"
           /\ Fate(g, e)' = IF ~(e <= delivered'[g]) THEN "waiting"
                            ELSE IF \E c \in Consumer : GroupOf[c] = g /\ e \in batch'[c] THEN "taken"
                            ELSE IF outcome'[g][e] # "none" THEN "done" ELSE "lost"
  <1>1. /\ e \in InBatch(g) <=> \E c \in Consumer : GroupOf[c] = g /\ e \in batch[c]
        /\ e \in InBatch(g)' <=> \E c \in Consumer : GroupOf[c] = g /\ e \in batch'[c]
    BY DEF InBatch
  <1>2. e > delivered[g] <=> ~(e <= delivered[g])
    BY StreamAssumption DEF TypeOK, Entry
  <1>3. e > delivered'[g] <=> ~(e <= delivered'[g])
    BY StreamAssumption DEF TypeOK, Entry
  <1> QED
    BY <1>1, <1>2, <1>3 DEF Fate

\* A step that gives the entries es of g, all of the fate "from", the fate "to"
\* and leaves the others alone is a move of the abstract specification.
LEMMA FateMoves ==
    ASSUME NEW g \in Group, NEW es \in SUBSET Entry, es # {}, NEW from, NEW to,
           \A e \in es : Fate(g, e) = from /\ Fate(g, e)' = to,
           \A h \in Group, e \in Entry : (h # g \/ e \notin es) => Fate(h, e)' = Fate(h, e)
    PROVE  Abstract!Move(g, es, from, to)
  <1>1. \A e \in es : FateMap[g][e] = from
    BY DEF FateMap
  <1>2. FateMap' = [h \in Group |-> [e \in Entry |-> IF h = g /\ e \in es THEN to ELSE Fate(h, e)]]
    BY DEF FateMap
  <1>3. FateMap' = [FateMap EXCEPT ![g] = [e \in Entry |-> IF e \in es THEN to ELSE FateMap[g][e]]]
    BY <1>2 DEF FateMap
  <1> QED
    BY <1>1, <1>3 DEF Abstract!Move, FateMap

\* A step that changes nobody's fate is a stutter.
LEMMA FateStays ==
    ASSUME \A g \in Group, e \in Entry : Fate(g, e)' = Fate(g, e)
    PROVE  FateMap' = FateMap
  BY DEF FateMap

LEMMA StepRefines ==
    ASSUME IInv, IInv', [Next]_vars
    PROVE  Abstract!Next \/ FateMap' = FateMap
  <1>1. TypeOK /\ TypeOK' /\ BehindCursor /\ EntryHasOneOwner
    BY DEF IInv
  <1>2. \A c \in Consumer : GroupOf[c] \in Group /\ batch[c] \in SUBSET Entry
    BY <1>1, StreamAssumption DEF TypeOK
  <1>3. CASE UNCHANGED <<delivered, batch, outcome>>
    <2>1. \A g \in Group, e \in Entry : Fate(g, e)' = Fate(g, e)
      BY <1>1, <1>3, FateIs
    <2> QED
      BY <2>1, FateStays
  <1>4. ASSUME NEW c \in Consumer, Read(c) \/ ReadLost(c)
        PROVE  Abstract!Next
    <2> DEFINE g == GroupOf[c]
               to == IF Read(c) THEN "taken" ELSE "lost"
    <2>1. /\ g \in Group /\ HandOut(g) /\ batch[c] = {} /\ outcome' = outcome
          /\ Fresh(g) \in SUBSET Entry /\ Fresh(g) # {}
          /\ \A d \in Consumer \ {c} : batch'[d] = batch[d]
          /\ batch'[c] = IF Read(c) THEN Fresh(g) ELSE {}
      <3>1. g \in Group /\ HandOut(g) /\ batch[c] = {} /\ outcome' = outcome
        BY <1>2, <1>4 DEF Read, ReadLost, HandOut
      <3>2. Fresh(g) \in SUBSET Entry /\ Fresh(g) # {}
        BY <3>1 DEF Fresh, HandOut
      <3>3. CASE Read(c)
        BY <1>1, <3>1, <3>2, <3>3 DEF Read, TypeOK
      <3>4. CASE ~Read(c)
        BY <1>1, <1>4, <3>1, <3>2, <3>4 DEF ReadLost, TypeOK
      <3> QED
        BY <3>3, <3>4
    <2>2. /\ delivered \in [Group -> 0..MaxEntries] /\ delivered' \in [Group -> 0..MaxEntries]
          /\ MaxEntries \in Nat /\ \A e \in Entry : e \in Nat
      BY <1>1, StreamAssumption DEF TypeOK, Entry
    <2>3. ASSUME NEW e \in Fresh(g)
          PROVE  Fate(g, e) = "waiting" /\ Fate(g, e)' = to
      <3>1. e \in Entry /\ delivered[g] < e /\ e <= delivered'[g]
        BY <1>1, <2>1, HandOutMovesCursor
      <3>2. ~(e <= delivered[g])
        BY <2>1, <2>2, <3>1
      <3>3. Fate(g, e) = "waiting"
        BY <1>1, <2>1, <3>1, <3>2, FateIs
      <3>4. outcome[g][e] = "none"
        BY <1>1, <2>1, <3>1, <3>2 DEF BehindCursor
      <3>5. \A d \in Consumer : GroupOf[d] = g => e \notin batch[d]
        BY <1>1, <3>2 DEF EntryHasOneOwner
      <3>6. (\E d \in Consumer : GroupOf[d] = g /\ e \in batch'[d]) <=> Read(c)
        BY <2>1, <3>5
      <3>7. Fate(g, e)' = to
        BY <1>1, <2>1, <3>1, <3>4, <3>6, FateIs
      <3> QED
        BY <3>3, <3>7
    <2>4. ASSUME NEW h \in Group, NEW e \in Entry, h # g \/ e \notin Fresh(g)
          PROVE  Fate(h, e)' = Fate(h, e)
      <3>1. e <= delivered'[h] <=> e <= delivered[h]
        <4>1. CASE h # g
          BY <1>1, <2>1, <4>1, HandOutMovesCursor
        <4>2. CASE h = g
          BY <1>1, <2>1, <2>2, <2>4, <4>2, HandOutMovesCursor
        <4> QED
          BY <4>1, <4>2
      <3>2. (\E d \in Consumer : GroupOf[d] = h /\ e \in batch'[d])
               <=> (\E d \in Consumer : GroupOf[d] = h /\ e \in batch[d])
        BY <2>1, <2>4
      <3> HIDE DEF g
      <3> QED
        BY <1>1, <2>1, <3>1, <3>2, FateIs
    <2>5. Abstract!Move(g, Fresh(g), "waiting", to)
      <3> HIDE DEF g, to
      <3> QED
        BY <2>1, <2>3, <2>4, FateMoves
    <2> QED
      BY <2>1, <2>5 DEF Abstract!Next, Abstract!Take, Abstract!Drop
  <1>5. ASSUME NEW c \in Consumer, Handle(c)
        PROVE  Abstract!Next
    <2>1. PICK e \in batch[c], r \in {"ok", "error"} :
             /\ e \in Entry
             /\ outcome'[GroupOf[c]][e] = r
             /\ \A h \in Group, f \in Entry :
                   (h # GroupOf[c] \/ f # e) => outcome'[h][f] = outcome[h][f]
             /\ batch'[c] = batch[c] \ {e}
             /\ \A d \in Consumer \ {c} : batch'[d] = batch[d]
             /\ delivered' = delivered
      BY <1>1, <1>5, HandleOneEntry
    <2>2. /\ e <= delivered[GroupOf[c]]
          /\ \A d \in Consumer \ {c} : GroupOf[d] = GroupOf[c] => e \notin batch[d]
      BY <1>1, <2>1 DEF EntryHasOneOwner
    <2>3. Fate(GroupOf[c], e) = "taken" /\ Fate(GroupOf[c], e)' = "done"
      BY <1>1, <1>2, <2>1, <2>2, FateIs
    <2>4. ASSUME NEW h \in Group, NEW f \in Entry, h # GroupOf[c] \/ f # e
          PROVE  Fate(h, f)' = Fate(h, f)
      <3>1. (\E d \in Consumer : GroupOf[d] = h /\ f \in batch'[d])
               <=> (\E d \in Consumer : GroupOf[d] = h /\ f \in batch[d])
        BY <2>1, <2>4
      <3> QED
        BY <1>1, <2>1, <2>4, <3>1, FateIs
    <2>5. Abstract!Move(GroupOf[c], {e}, "taken", "done")
      BY <1>2, <2>1, <2>3, <2>4, FateMoves
    <2> QED
      BY <1>2, <2>1, <2>5 DEF Abstract!Next, Abstract!Finish
  <1>6. ASSUME NEW c \in Consumer, Crash(c)
        PROVE  Abstract!Next \/ FateMap' = FateMap
    <2>1. /\ delivered' = delivered /\ outcome' = outcome
          /\ batch'[c] = {} /\ \A d \in Consumer \ {c} : batch'[d] = batch[d]
      BY <1>1, <1>6 DEF Crash, redis, TypeOK
    <2>2. ASSUME NEW e \in batch[c]
          PROVE  Fate(GroupOf[c], e) = "taken" /\ Fate(GroupOf[c], e)' = "lost"
      <3>1. /\ e \in Entry /\ e <= delivered[GroupOf[c]] /\ outcome[GroupOf[c]][e] = "none"
            /\ \A d \in Consumer \ {c} : GroupOf[d] = GroupOf[c] => e \notin batch[d]
        BY <1>1, <1>2 DEF EntryHasOneOwner
      <3> QED
        BY <1>1, <1>2, <2>1, <3>1, FateIs
    <2>3. ASSUME NEW h \in Group, NEW e \in Entry, h # GroupOf[c] \/ e \notin batch[c]
          PROVE  Fate(h, e)' = Fate(h, e)
      <3>1. (\E d \in Consumer : GroupOf[d] = h /\ e \in batch'[d])
               <=> (\E d \in Consumer : GroupOf[d] = h /\ e \in batch[d])
        BY <2>1, <2>3
      <3> QED
        BY <1>1, <2>1, <3>1, FateIs
    <2>4. CASE batch[c] = {}
      BY <2>3, <2>4, FateStays
    <2>5. CASE batch[c] # {}
      <3>1. Abstract!Move(GroupOf[c], batch[c], "taken", "lost")
        BY <1>2, <2>2, <2>3, <2>5, FateMoves
      <3> QED
        BY <1>2, <3>1 DEF Abstract!Next, Abstract!Lose
    <2> QED
      BY <2>4, <2>5
  <1>7. CASE Publish \/ UNCHANGED vars \/ \E c \in Consumer : Start(c)
    BY <1>3, <1>7 DEF Publish, Start, vars
  <1>8. ASSUME NEW c \in Consumer, Skip(c)
        PROVE  Abstract!Next
    <2>1. PICK e \in batch[c] :
             /\ e \in Entry /\ outcome' = outcome /\ delivered' = delivered
             /\ batch'[c] = batch[c] \ {e}
             /\ \A d \in Consumer \ {c} : batch'[d] = batch[d]
      BY <1>1, <1>8, SkipOneEntry
    <2>2. /\ e <= delivered[GroupOf[c]] /\ outcome[GroupOf[c]][e] = "none"
          /\ \A d \in Consumer \ {c} : GroupOf[d] = GroupOf[c] => e \notin batch[d]
      BY <1>1, <2>1 DEF EntryHasOneOwner
    <2>3. Fate(GroupOf[c], e) = "taken" /\ Fate(GroupOf[c], e)' = "lost"
      BY <1>1, <1>2, <2>1, <2>2, FateIs
    <2>4. ASSUME NEW h \in Group, NEW f \in Entry, h # GroupOf[c] \/ f # e
          PROVE  Fate(h, f)' = Fate(h, f)
      <3>1. (\E d \in Consumer : GroupOf[d] = h /\ f \in batch'[d])
               <=> (\E d \in Consumer : GroupOf[d] = h /\ f \in batch[d])
        BY <2>1, <2>4
      <3> QED
        BY <1>1, <2>1, <2>4, <3>1, FateIs
    <2>5. Abstract!Move(GroupOf[c], {e}, "taken", "lost")
      BY <1>2, <2>1, <2>3, <2>4, FateMoves
    <2> QED
      BY <1>2, <2>1, <2>5 DEF Abstract!Next, Abstract!Lose
  <1> QED
    BY <1>4, <1>5, <1>6, <1>7, <1>8 DEF Next

\* The transport implements at-most-once delivery: an entry is taken once,
\* finished or lost once, and never comes back.
THEOREM DeliversAtMostOnce == Spec => AtMostOnce
  <1>1. Init => Abstract!Init
    <2> SUFFICES ASSUME Init PROVE FateMap = [g \in Group |-> [e \in Entry |-> "waiting"]]
      BY DEF Abstract!Init, FateMap
    <2>1. \A g \in Group, e \in Entry : Fate(g, e) = "waiting"
      BY DEF Init, Fate, Entry
    <2> QED
      BY <2>1 DEF FateMap
  <1>2. IInv /\ IInv' /\ [Next]_vars => [Abstract!Next]_FateMap
    BY StepRefines
  <1> QED
    BY <1>1, <1>2, InvHolds, PTL DEF Spec, AtMostOnce, Abstract!Spec, FateMap

(***************************************************************************)
(* The order of handling.  In a group that never had two instances up at   *)
(* once, what its one instance still has in its batch is younger than all  *)
(* that was handled: the batch is worked off from its oldest entry, and    *)
(* the next one is read only when it is empty.                             *)
(***************************************************************************)
IdleHoldNothing == \A c \in Consumer \ up : batch[c] = {}
OneInstance(g) == \A c, d \in up : (GroupOf[c] = g /\ GroupOf[d] = g) => c = d
BatchIsYounger(g) ==
    \A c \in Consumer : GroupOf[c] = g =>
       \A e \in batch[c], f \in Entry : outcome[g][f] # "none" => f < e
OrderInv == IdleHoldNothing /\ \A g \in Group \ shared : OneInstance(g) /\ BatchIsYounger(g)

\* A step that reads, handles and starts nothing keeps the order.
LEMMA QuietOrder ==
    ASSUME TypeOK, OrderInv, shared' = shared, outcome' = outcome, up' \subseteq up,
           \A c \in Consumer : batch'[c] \subseteq batch[c] /\ (c \in up \ up' => batch'[c] = {})
    PROVE  OrderInv'
  <1>1. \A c \in Consumer : c \notin up' => batch'[c] = {}
    BY DEF OrderInv, IdleHoldNothing
  <1>2. \A g \in Group \ shared : OneInstance(g)' /\ BatchIsYounger(g)'
    BY DEF OrderInv, OneInstance, BatchIsYounger
  <1> QED
    BY <1>1, <1>2 DEF OrderInv, IdleHoldNothing

LEMMA StartOrder ==
    ASSUME TypeOK, OrderInv, NEW c \in Consumer, Start(c)
    PROVE  OrderInv'
  <1>1. /\ batch' = batch /\ outcome' = outcome /\ up' = up \cup {c} /\ shared \subseteq shared'
        /\ (\E d \in up : GroupOf[d] = GroupOf[c]) => GroupOf[c] \in shared'
    BY DEF Start
  <1>2. IdleHoldNothing'
    BY <1>1 DEF OrderInv, IdleHoldNothing
  <1>3. ASSUME NEW g \in Group, g \notin shared' PROVE OneInstance(g)' /\ BatchIsYounger(g)'
    <2>1. OneInstance(g) /\ BatchIsYounger(g)
      BY <1>1, <1>3 DEF OrderInv
    <2>2. GroupOf[c] = g => \A d \in up : GroupOf[d] # g
      BY <1>1, <1>3
    <2> QED
      BY <1>1, <2>1, <2>2 DEF OneInstance, BatchIsYounger
  <1> QED
    BY <1>2, <1>3 DEF OrderInv

LEMMA ReadOrder ==
    ASSUME TypeOK, BehindCursor, OrderInv, NEW c \in Consumer, Read(c)
    PROVE  OrderInv'
  <1>1. /\ up' = up /\ shared' = shared /\ outcome' = outcome /\ c \in up
        /\ HandOut(GroupOf[c]) /\ GroupOf[c] \in Group
        /\ batch'[c] = Fresh(GroupOf[c]) /\ \A d \in Consumer \ {c} : batch'[d] = batch[d]
    BY StreamAssumption DEF Read, HandOut, TypeOK
  <1>2. IdleHoldNothing'
    BY <1>1 DEF OrderInv, IdleHoldNothing
  <1>3. ASSUME NEW e \in Fresh(GroupOf[c]), NEW f \in Entry, outcome[GroupOf[c]][f] # "none"
        PROVE  f < e
    <2>1. e \in Entry /\ delivered[GroupOf[c]] < e /\ f <= delivered[GroupOf[c]]
      BY <1>1, <1>3, HandOutMovesCursor DEF BehindCursor
    <2>2. e \in Nat /\ f \in Nat /\ delivered[GroupOf[c]] \in Nat
      BY <1>1, <2>1, StreamAssumption DEF Entry, TypeOK
    <2> QED
      BY <2>1, <2>2
  <1>4. ASSUME NEW g \in Group, g \notin shared PROVE OneInstance(g)' /\ BatchIsYounger(g)'
    <2>1. OneInstance(g) /\ BatchIsYounger(g)
      BY <1>4 DEF OrderInv
    <2>2. ASSUME NEW d \in Consumer, GroupOf[d] = g, NEW e \in batch'[d], NEW f \in Entry,
                 outcome[g][f] # "none"
          PROVE  f < e
      <3>1. CASE d = c
        BY <1>1, <1>3, <2>2, <3>1
      <3>2. CASE d # c
        BY <1>1, <2>1, <2>2, <3>2 DEF BatchIsYounger
      <3> QED
        BY <3>1, <3>2
    <2> QED
      BY <1>1, <2>1, <2>2 DEF OneInstance, BatchIsYounger
  <1> QED
    BY <1>1, <1>2, <1>4 DEF OrderInv

LEMMA HandleOrder ==
    ASSUME TypeOK, EntryHasOneOwner, OrderInv, NEW c \in Consumer, Handle(c)
    PROVE  OrderInv'
  <1>1. up' = up /\ shared' = shared /\ c \in up /\ \A d \in Consumer : GroupOf[d] \in Group
    BY StreamAssumption DEF Handle
  <1>2. PICK e \in batch[c], r \in {"ok", "error"} :
            /\ \A f \in batch[c] : e <= f
            /\ outcome' = [outcome EXCEPT ![GroupOf[c]][e] = r]
            /\ batch' = [batch EXCEPT ![c] = @ \ {e}]
    BY DEF Handle
  <1>3. /\ e \in Entry /\ batch'[c] = batch[c] \ {e} /\ \A d \in Consumer \ {c} : batch'[d] = batch[d]
        /\ batch[c] \subseteq Entry /\ \A x \in Entry : x \in Nat
    BY <1>2, StreamAssumption DEF TypeOK, Entry
  <1>4. \A h \in Group, f \in Entry : (h # GroupOf[c] \/ f # e) => outcome'[h][f] = outcome[h][f]
    BY <1>1, <1>2, <1>3 DEF TypeOK
  <1>5. IdleHoldNothing'
    BY <1>1, <1>3 DEF OrderInv, IdleHoldNothing
  <1>6. ASSUME NEW g \in Group, g \notin shared PROVE OneInstance(g)' /\ BatchIsYounger(g)'
    <2>1. OneInstance(g) /\ BatchIsYounger(g) /\ IdleHoldNothing
      BY <1>6 DEF OrderInv
    <2>2. ASSUME NEW d \in Consumer, GroupOf[d] = g, NEW x \in batch'[d], NEW f \in Entry,
                 outcome'[g][f] # "none"
          PROVE  f < x
      <3>1. CASE g # GroupOf[c] \/ f # e
        BY <1>3, <1>4, <2>1, <2>2, <3>1 DEF BatchIsYounger
      <3>2. CASE g = GroupOf[c] /\ f = e
        <4>1. d = c
          <5>1. d \in up
            BY <1>1, <1>3, <2>1, <2>2 DEF IdleHoldNothing
          <5> QED
            BY <1>1, <2>1, <2>2, <3>2, <5>1 DEF OneInstance
        <4>2. x \in batch[c] /\ x # e /\ e <= x
          BY <1>2, <1>3, <2>2, <4>1
        <4>3. e \in Nat /\ x \in Nat
          BY <1>3, <4>2
        <4> QED
          BY <3>2, <4>2, <4>3
      <3> QED
        BY <3>1, <3>2
    <2> QED
      BY <1>1, <2>1, <2>2 DEF OneInstance, BatchIsYounger
  <1> QED
    BY <1>1, <1>5, <1>6 DEF OrderInv

LEMMA OrderStep == IInv /\ OrderInv /\ [Next]_vars => OrderInv'
  <1> SUFFICES ASSUME IInv, OrderInv, [Next]_vars PROVE OrderInv'
    OBVIOUS
  <1>1. TypeOK /\ BehindCursor /\ EntryHasOneOwner
    BY DEF IInv
  <1>2. CASE UNCHANGED <<batch, up, outcome, shared>>
    BY <1>1, <1>2, QuietOrder
  <1>3. ASSUME NEW c \in Consumer, Crash(c) PROVE OrderInv'
    <2>1. /\ up' = up \ {c} /\ outcome' = outcome /\ shared' = shared
          /\ batch'[c] = {} /\ \A d \in Consumer \ {c} : batch'[d] = batch[d]
      BY <1>1, <1>3 DEF Crash, TypeOK
    <2> QED
      BY <1>1, <2>1, QuietOrder
  <1>4. CASE Publish \/ UNCHANGED vars \/ \E c \in Consumer : ReadLost(c)
    BY <1>2, <1>4 DEF Publish, ReadLost, HandOut, vars
  <1>5. ASSUME NEW c \in Consumer, Skip(c) PROVE OrderInv'
    <2>1. /\ up' = up /\ outcome' = outcome /\ shared' = shared
          /\ \A d \in Consumer : batch'[d] \subseteq batch[d]
      BY <1>1, <1>5, SkipOneEntry
    <2> QED
      BY <1>1, <2>1, QuietOrder
  <1> QED
    BY <1>1, <1>3, <1>4, <1>5, StartOrder, ReadOrder, HandleOrder DEF Next

LEMMA OrderHolds == Spec => []OrderInv
  <1>1. Init => OrderInv
    BY DEF Init, OrderInv, IdleHoldNothing, OneInstance, BatchIsYounger
  <1> QED
    BY <1>1, OrderStep, InvHolds, PTL DEF Spec

\* A service with one instance at a time handles the stream in order: when an
\* entry has been handled, the older ones have been, or are lost for good.
THEOREM InOrder == Spec => []HandledInOrder
  <1>1. ASSUME IInv, OrderInv, NEW g \in Group \ shared, NEW e \in Entry, NEW f \in Entry,
               e < f, outcome[g][f] # "none", outcome[g][e] = "none"
        PROVE  Fate(g, e) = "lost"
    <2>1. e \in Nat /\ f \in Nat /\ delivered[g] \in Nat
      BY <1>1, StreamAssumption DEF IInv, TypeOK, Entry
    <2>2. e <= delivered[g]
      BY <1>1, <2>1 DEF IInv, BehindCursor
    <2>3. e \notin InBatch(g)
      <3> SUFFICES ASSUME NEW c \in Consumer, GroupOf[c] = g, e \in batch[c] PROVE FALSE
        BY DEF InBatch
      <3>1. f < e
        BY <1>1 DEF OrderInv, BatchIsYounger
      <3> QED
        BY <1>1, <2>1, <3>1
    <2> QED
      BY <1>1, <2>1, <2>2, <2>3 DEF Fate
  <1>2. IInv /\ OrderInv => HandledInOrder
    BY <1>1 DEF HandledInOrder
  <1> QED
    BY <1>2, InvHolds, OrderHolds, PTL
=============================================================================
