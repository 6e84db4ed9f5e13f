---------------------- MODULE WebhookDelivery_proofs ----------------------
(***************************************************************************)
(* Proofs about WebhookDelivery: what the table says of a delivery was     *)
(* earned, for any numbers of events, subscriptions, instances, retries,   *)
(* attempts and faults.                                                    *)
(***************************************************************************)
EXTENDS WebhookDelivery, FiniteSetTheorems, TLAPS

TypeInv ==
    /\ sub \in [Sub -> {"ACTIVE", "PAUSED", "DELETED"}]
    /\ dispatched \subseteq Event
    /\ row \in [Delivery -> Row \cup {None}]
    /\ batch \in [Worker -> SUBSET Copy]
    /\ hand \in [Worker -> Copy \cup {None}]
    /\ retry \in [Retrier -> [pc : {"idle", "done"}] \cup [pc : {"read"}, id : Delivery]]
    /\ posts \in [Delivery -> Nat] /\ granted \in [Delivery -> Nat]
    /\ accepted \subseteq Delivery
    /\ fetchers \subseteq Worker /\ IsFiniteSet(fetchers)
    /\ faults \in Nat

\* What holds of a row wherever it is: in the table, or in a worker's hand.
Earned(d, r) ==
    /\ r.attempts <= MaxRetries /\ r.attempts <= posts[d]
    /\ r.status = "PENDING" => r.attempts < MaxRetries
    /\ r.status = "SUCCESS" => d \in accepted

\* Rows of the table: of a subscription that is there, of an event dispatched.
RowsEarned ==
    \A d \in Delivery : Exists(d) =>
        /\ sub[SubOf(d)] # "DELETED" /\ d[1] \in dispatched
        /\ Earned(d, row[d])
        /\ row[d].status = "FAILED" /\ faults = 0 => row[d].attempts = MaxRetries \/ d \in spared

\* Copies in a batch: pending, one for each delivery.
BatchesEarned ==
    \A w \in Worker : \A h \in batch[w] :
        /\ w \in fetchers /\ h.id[1] \in dispatched
        /\ h.row.status = "PENDING" /\ h.row.attempts < MaxRetries
        /\ h.row.attempts <= posts[h.id]
        /\ \A k \in batch[w] : k.id = h.id => k = h

\* The copy about to be written back: given up early only when no request could be
\* built, or for a subscription that is gone, whose row is gone too.
HandsEarned ==
    \A w \in Worker : hand[w] # None =>
        /\ w \in fetchers /\ hand[w].id[1] \in dispatched
        /\ Earned(hand[w].id, hand[w].row)
        /\ hand[w].row.status = "FAILED" /\ faults = 0 =>
               \/ hand[w].row.attempts = MaxRetries \/ hand[w].id \in spared
               \/ sub[SubOf(hand[w].id)] = "DELETED"

NothingBeforeDispatch == \A d \in Delivery : d[1] \notin dispatched => posts[d] = 0

\* With one instance: the POSTs of a delivery are those its row counts, or one more
\* while the worker has yet to write the last one back.
Held(d) == \E w \in Worker : hand[w] # None /\ hand[w].id = d
Allowed(d) == MaxRetries * granted[d] + faults
RowCounts(d) ==
    Exists(d) => /\ posts[d] <= Allowed(d) + row[d].attempts + 1
                 /\ Held(d) \/ posts[d] <= Allowed(d) + row[d].attempts
CopiesCount(d) ==
    \A w \in Worker :
        /\ \A h \in batch[w] : h.id = d => posts[d] <= Allowed(d) + h.row.attempts
        /\ hand[w] # None /\ hand[w].id = d => posts[d] <= Allowed(d) + hand[w].row.attempts
PostsCounted ==
    OneInstance => \A d \in Delivery :
        posts[d] <= Allowed(d) + MaxRetries /\ RowCounts(d) /\ CopiesCount(d)

IInv == /\ TypeInv /\ RowsEarned /\ BatchesEarned /\ HandsEarned
        /\ NothingBeforeDispatch /\ PostsCounted

-----------------------------------------------------------------------------
LEMMA Numbers ==
    ASSUME TypeInv, NEW d \in Delivery
    PROVE  /\ MaxRetries \in Nat \ {0} /\ faults \in Nat /\ posts[d] \in Nat
           /\ granted[d] \in Nat /\ Allowed(d) \in Nat
  <1>1. MaxRetries \in Nat \ {0} /\ faults \in Nat /\ posts[d] \in Nat /\ granted[d] \in Nat
    BY WebhookAssumption DEF TypeInv
  <1>2. MaxRetries * granted[d] \in Nat
    BY <1>1
  <1> QED
    BY <1>1, <1>2 DEF Allowed

LEMMA Records ==
    /\ \A r \in Row : r # None /\ r.attempts \in Nat /\ r.due \in BOOLEAN
                      /\ r.status \in {"PENDING", "SUCCESS", "FAILED"}
    /\ \A h \in Copy : h # None /\ h.id \in Delivery /\ h.row \in Row
  BY NullAssumption DEF Row, Copy

LEMMA OnlyOne ==
    ASSUME NEW S, IsFiniteSet(S), Cardinality(S) <= 1, NEW v \in S, NEW w \in S
    PROVE  v = w
  <1> SUFFICES ASSUME v # w PROVE FALSE
    OBVIOUS
  <1>1. Cardinality({v, w}) = 2
    <2>1. IsFiniteSet({v}) /\ Cardinality({v}) = 1
      BY FS_Singleton
    <2>2. {v, w} = {v} \cup {w} /\ w \notin {v}
      OBVIOUS
    <2> QED
      BY <2>1, <2>2, FS_AddElement
  <1>2. Cardinality({v, w}) <= Cardinality(S)
    BY <1>1, FS_Subset
  <1>3. Cardinality(S) \in Nat
    BY FS_CardinalityType
  <1> QED
    BY <1>1, <1>2, <1>3

\* Steps that touch neither posts nor what was granted, nor any copy, and no row's
\* count.
LEMMA CountsKept ==
    ASSUME IInv, UNCHANGED <<posts, granted, fetchers, batch, hand, faults>>,
           \A d \in Delivery : Exists(d)' => Exists(d) /\ row'[d].attempts = row[d].attempts
    PROVE  PostsCounted'
  BY DEF IInv, PostsCounted, OneInstance, RowCounts, CopiesCount, Held, Allowed, Exists

LEMMA InitHolds == Init => IInv
  <1> SUFFICES ASSUME Init PROVE IInv
    OBVIOUS
  <1>1. TypeInv
    BY FS_EmptySet DEF Init, TypeInv
  <1>2. RowsEarned /\ BatchesEarned /\ HandsEarned /\ NothingBeforeDispatch
    BY DEF Init, RowsEarned, BatchesEarned, HandsEarned, NothingBeforeDispatch, Exists
  <1>3. PostsCounted
    BY <1>1, Numbers DEF Init, PostsCounted, RowCounts, CopiesCount, Exists
  <1> QED
    BY <1>1, <1>2, <1>3 DEF IInv

LEMMA UpdateStep ==
    ASSUME IInv, NEW s \in Sub, NEW st \in {"ACTIVE", "PAUSED"}, NEW u \in BOOLEAN, UpdateSubscription(s, st, u)
    PROVE  IInv'
  <1> USE DEF tables, workers, ghosts
  <1>1. TypeInv'
    BY DEF IInv, TypeInv, UpdateSubscription
  <1>2. \A t \in Sub : sub'[t] = "DELETED" <=> sub[t] = "DELETED"
    BY DEF IInv, TypeInv, UpdateSubscription
  <1>3. RowsEarned' /\ BatchesEarned' /\ HandsEarned' /\ NothingBeforeDispatch'
    <2>1. \A d \in Delivery : SubOf(d) \in Sub
      BY DEF Delivery, SubOf
    <2>2. \A w \in Worker : hand[w] # None => hand[w].id \in Delivery
      BY Records DEF IInv, TypeInv
    <2> QED
      BY <1>2, <2>1, <2>2 DEF IInv, UpdateSubscription, RowsEarned, BatchesEarned, HandsEarned, NothingBeforeDispatch, Exists, Earned
  <1>4. PostsCounted'
    BY CountsKept DEF UpdateSubscription, Exists
  <1> QED
    BY <1>1, <1>3, <1>4 DEF IInv

LEMMA DeleteStep ==
    ASSUME IInv, NEW s \in Sub, Delete(s)
    PROVE  IInv'
  <1> USE DEF tables, workers, ghosts
  <1>1. TypeInv'
    BY DEF IInv, TypeInv, Delete
  <1>2. /\ \A d \in Delivery : Exists(d)' => Exists(d) /\ row'[d] = row[d] /\ SubOf(d) # s
        /\ \A u \in Sub : u # s => sub'[u] = sub[u]
        /\ \A u \in Sub : sub[u] = "DELETED" => sub'[u] = "DELETED"
        /\ \A d \in Delivery : SubOf(d) \in Sub
    BY DEF IInv, TypeInv, Delete, Exists, Delivery, SubOf
  <1>3. RowsEarned'
    BY <1>2 DEF IInv, Delete, RowsEarned, Earned
  <1>4. BatchesEarned' /\ NothingBeforeDispatch'
    BY DEF IInv, Delete, BatchesEarned, NothingBeforeDispatch
  <1>5. HandsEarned'
    <2>1. \A w \in Worker : hand[w] # None => hand[w].id \in Delivery
      BY Records DEF IInv, TypeInv
    <2> QED
      BY <1>2, <2>1 DEF IInv, Delete, HandsEarned, Earned
  <1>6. PostsCounted'
    BY <1>2, CountsKept DEF Delete
  <1> QED
    BY <1>1, <1>3, <1>4, <1>5, <1>6 DEF IInv

LEMMA BackoffStep ==
    ASSUME IInv, NEW d \in Delivery, BackoffEnds(d)
    PROVE  IInv'
  <1> USE DEF tables, workers, ghosts
  <1>1. row[d] \in Row /\ row' = [row EXCEPT ![d] = [row[d] EXCEPT !.due = TRUE]]
    BY DEF IInv, TypeInv, BackoffEnds, Exists
  <1>2. [row[d] EXCEPT !.due = TRUE] \in Row
    BY <1>1 DEF Row
  <1>3. TypeInv'
    BY <1>1, <1>2 DEF IInv, TypeInv, BackoffEnds
  <1>4. \A e \in Delivery : Exists(e)' => /\ Exists(e) /\ row'[e].attempts = row[e].attempts
                                          /\ row'[e].status = row[e].status
    BY <1>1, Records DEF IInv, TypeInv, Exists, BackoffEnds, Row
  <1>5. RowsEarned' /\ BatchesEarned' /\ HandsEarned' /\ NothingBeforeDispatch'
    BY <1>4 DEF IInv, BackoffEnds, RowsEarned, BatchesEarned, HandsEarned, NothingBeforeDispatch, Earned
  <1>6. PostsCounted'
    BY <1>4, CountsKept DEF BackoffEnds
  <1> QED
    BY <1>3, <1>5, <1>6 DEF IInv

LEMMA DispatchStep ==
    ASSUME IInv, NEW e \in Event, Dispatch(e)
    PROVE  IInv'
  <1> USE DEF tables, workers, ghosts
  <1> DEFINE first == [status |-> "PENDING", attempts |-> 0, due |-> TRUE]
  <1>1. PICK ss \in SUBSET Matching(e) :
            /\ faults' = faults \/ faults' = faults + 1
            /\ row' = [d \in Delivery |-> IF d[1] = e /\ SubOf(d) \in ss THEN first ELSE row[d]]
    BY Zenon DEF Dispatch, Fault
  <1>2. first \in Row /\ first # None /\ faults' \in Nat /\ (faults' = 0 => faults = 0) /\ faults <= faults'
    <2>1. first \in Row
      BY DEF Row
    <2>2. faults \in Nat
      BY DEF IInv, TypeInv
    <2>3. first # None
      BY <2>1, Records, Zenon
    <2> HIDE DEF first
    <2> QED
      BY <1>1, <2>1, <2>2, <2>3
  <1>3. TypeInv'
    BY <1>1, <1>2 DEF IInv, TypeInv, Dispatch
  <1>4. \A d \in Delivery :
            \/ row'[d] = first /\ d[1] = e /\ sub[SubOf(d)] # "DELETED"
            \/ row'[d] = row[d]
    BY <1>1 DEF Matching
  <1>5. MaxRetries \in Nat \ {0} /\ \A d \in Delivery : posts[d] \in Nat
    BY WebhookAssumption DEF IInv, TypeInv
  <1>6. RowsEarned'
    BY <1>2, <1>4, <1>5 DEF IInv, Dispatch, RowsEarned, Earned, Exists
  <1>7. BatchesEarned' /\ NothingBeforeDispatch'
    BY DEF IInv, Dispatch, BatchesEarned, NothingBeforeDispatch
  <1>8. HandsEarned'
    BY <1>2 DEF IInv, Dispatch, HandsEarned, Earned
  <1>9. PostsCounted'
    <2> SUFFICES ASSUME OneInstance', NEW d \in Delivery
                 PROVE  posts'[d] <= Allowed(d)' + MaxRetries /\ RowCounts(d)' /\ CopiesCount(d)'
      BY DEF PostsCounted
    <2>1. posts[d] <= Allowed(d) + MaxRetries /\ RowCounts(d) /\ CopiesCount(d)
      BY DEF IInv, Dispatch, PostsCounted, OneInstance
    <2>2. posts' = posts /\ batch' = batch /\ hand' = hand /\ Allowed(d) <= Allowed(d)'
          /\ Allowed(d) \in Nat /\ Allowed(d)' \in Nat /\ posts[d] \in Nat
      <3>1. posts' = posts /\ batch' = batch /\ hand' = hand /\ granted' = granted
        BY DEF Dispatch
      <3>2. MaxRetries * granted[d] \in Nat
        BY <1>5 DEF IInv, TypeInv
      <3> QED
        BY <3>1, <3>2, <1>2, <1>5 DEF Allowed, IInv, TypeInv
    <2>3. CopiesCount(d)'
      <3>1. \A w \in Worker : \A h \in batch[w] : h.row.attempts \in Nat
        BY Records DEF IInv, TypeInv
      <3>2. \A w \in Worker : hand[w] # None => hand[w].row.attempts \in Nat
        BY Records DEF IInv, TypeInv
      <3> QED
        BY <2>1, <2>2, <3>1, <3>2 DEF CopiesCount
    <2>4. RowCounts(d)'
      <3>1. CASE row'[d] = first /\ d[1] = e
        <4>1. posts[d] = 0
          BY <3>1 DEF IInv, NothingBeforeDispatch, Dispatch
        <4> QED
          BY <3>1, <4>1, <2>2 DEF RowCounts
      <3>2. CASE row'[d] = row[d]
        <4>1. Exists(d)' => Exists(d) /\ row[d].attempts \in Nat
          BY <3>2, Records DEF Exists, IInv, TypeInv
        <4> QED
          BY <3>2, <4>1, <2>1, <2>2 DEF RowCounts, Held
      <3> QED
        BY <3>1, <3>2, <1>4
    <2> QED
      BY <2>1, <2>2, <2>3, <2>4, <1>5
  <1> QED
    BY <1>3, <1>6, <1>7, <1>8, <1>9 DEF IInv

LEMMA FetchStep ==
    ASSUME IInv, NEW w \in Worker, FetchBatch(w)
    PROVE  IInv'
  <1> USE DEF tables, workers, ghosts
  <1> DEFINE got == {[id |-> d, row |-> row[d]] : d \in {x \in Delivery : Due(x)}}
  <1>1. /\ batch' = [batch EXCEPT ![w] = got] /\ fetchers' = fetchers \cup {w}
        /\ hand[w] = None /\ UNCHANGED <<tables, dispatched, hand, up, retry, posts, accepted, granted, spared, faults>>
    BY DEF FetchBatch
  <1>2. \A h \in got : /\ h \in Copy /\ Exists(h.id) /\ h.row = row[h.id] /\ h.row.status = "PENDING"
                       /\ \A k \in got : k.id = h.id => k = h
    <2> SUFFICES ASSUME NEW d \in Delivery, Due(d)
                 PROVE  [id |-> d, row |-> row[d]] \in Copy /\ Exists(d) /\ row[d].status = "PENDING"
      OBVIOUS
    <2>1. row[d] \in Row
      BY DEF Due, Exists, IInv, TypeInv
    <2> QED
      BY <2>1 DEF Copy, Due
  <1>3. TypeInv'
    <2>1. IsFiniteSet(fetchers')
      BY <1>1, FS_AddElement DEF IInv, TypeInv
    <2>2. got \in SUBSET Copy
      BY <1>2
    <2>3. fetchers' \subseteq Worker /\ batch' \in [Worker -> SUBSET Copy]
      BY <1>1, <2>2 DEF IInv, TypeInv
    <2> QED
      BY <1>1, <2>1, <2>3 DEF IInv, TypeInv
  <1>4. RowsEarned' /\ HandsEarned' /\ NothingBeforeDispatch'
    BY <1>1 DEF IInv, RowsEarned, HandsEarned, NothingBeforeDispatch, Exists, Earned
  <1>5. BatchesEarned'
    <2>1. \A h \in got : /\ h.id \in Delivery /\ h.id[1] \in dispatched
                         /\ h.row.attempts < MaxRetries /\ h.row.attempts <= posts[h.id]
      BY <1>2, Records DEF IInv, RowsEarned, Earned
    <2>2. \A v \in Worker : batch'[v] = IF v = w THEN got ELSE batch[v]
      BY <1>1 DEF IInv, TypeInv
    <2>3. \A v \in Worker : \A h \in batch[v] : v \in fetchers
      BY DEF IInv, BatchesEarned
    <2> SUFFICES ASSUME NEW v \in Worker, NEW h \in batch'[v]
                 PROVE  /\ v \in fetchers' /\ h.id[1] \in dispatched' /\ h.row.status = "PENDING"
                        /\ h.row.attempts < MaxRetries /\ h.row.attempts <= posts'[h.id]
                        /\ \A k \in batch'[v] : k.id = h.id => k = h
      BY DEF BatchesEarned
    <2>4. CASE v = w
      <3>1. h \in got /\ batch'[v] = got
        BY <2>4, <2>2
      <3>2. v \in fetchers' /\ dispatched' = dispatched /\ posts' = posts
        BY <2>4, <1>1
      <3> HIDE DEF got
      <3> QED
        BY <3>1, <3>2, <1>2, <2>1
    <2>5. CASE v # w
      BY <2>5, <1>1, <2>2 DEF IInv, BatchesEarned
    <2> QED
      BY <2>4, <2>5
  <1>6. PostsCounted'
    <2> SUFFICES ASSUME OneInstance', NEW d \in Delivery
                 PROVE  posts'[d] <= Allowed(d)' + MaxRetries /\ RowCounts(d)' /\ CopiesCount(d)'
      BY DEF PostsCounted
    <2>1. OneInstance /\ \A v \in fetchers : v = w
      <3>1. IsFiniteSet(fetchers') /\ Cardinality(fetchers') <= 1 /\ fetchers \subseteq fetchers' /\ w \in fetchers'
        BY <1>1, <1>3 DEF TypeInv, OneInstance
      <3>2. Cardinality(fetchers) <= Cardinality(fetchers') /\ IsFiniteSet(fetchers)
        BY <3>1, FS_Subset
      <3>3. Cardinality(fetchers) \in Nat /\ Cardinality(fetchers') \in Nat
        BY <3>1, <3>2, FS_CardinalityType
      <3> QED
        BY <3>1, <3>2, <3>3, OnlyOne DEF OneInstance
    <2>2. posts[d] <= Allowed(d) + MaxRetries /\ RowCounts(d) /\ CopiesCount(d)
      BY <2>1 DEF IInv, PostsCounted
    <2>3. ~Held(d)
      BY <2>1, <1>1 DEF IInv, HandsEarned, Held
    <2>4. RowCounts(d)' /\ Allowed(d)' = Allowed(d)
      BY <1>1, <2>2 DEF RowCounts, Allowed, Exists, Held
    <2>5. CopiesCount(d)'
      <3>1. \A v \in Worker : batch'[v] = IF v = w THEN got ELSE batch[v]
        BY <1>1 DEF IInv, TypeInv
      <3>2. \A h \in got : h.id = d => posts[d] <= Allowed(d) + h.row.attempts
        BY <1>2, <2>2, <2>3 DEF RowCounts
      <3> QED
        BY <1>1, <2>2, <2>4, <3>1, <3>2 DEF CopiesCount
    <2> QED
      BY <1>1, <2>2, <2>4, <2>5
  <1> QED
    BY <1>3, <1>4, <1>5, <1>6 DEF IInv

\* A copy moves from the batch to the hand, counted by n (1 after a POST, 0 when the
\* worker gives up).
LEMMA HandStep ==
    ASSUME IInv, NEW w \in Worker, NEW h \in batch[w], NEW r \in Row, NEW n \in {0, 1},
           hand[w] = None,
           batch' = [batch EXCEPT ![w] = @ \ {h}],
           hand' = [hand EXCEPT ![w] = [id |-> h.id, row |-> r]],
           posts' = [posts EXCEPT ![h.id] = @ + n],
           r.attempts = h.row.attempts + n,
           accepted \subseteq accepted', accepted' \subseteq Delivery,
           r.status = "SUCCESS" => h.id \in accepted',
           r.status = "PENDING" => r.attempts < MaxRetries,
           faults' \in Nat, faults <= faults',
           spared \subseteq spared',
           r.status = "FAILED" /\ faults' = 0 =>
               r.attempts = MaxRetries \/ h.id \in spared' \/ sub[SubOf(h.id)] = "DELETED",
           UNCHANGED <<sub, row, dispatched, up, retry, granted, fetchers>>
    PROVE  IInv'
  <1> DEFINE g == [id |-> h.id, row |-> r]
  <1>1. h \in Copy /\ h.id \in Delivery /\ h.row \in Row /\ h.row.attempts \in Nat
        /\ g \in Copy /\ g # None /\ g.id = h.id /\ g.row = r /\ r.attempts \in Nat
    <2>1. h \in Copy
      BY DEF IInv, TypeInv
    <2>2. g \in Copy
      BY <2>1, Records DEF Copy
    <2> QED
      BY <2>1, <2>2, Records
  <1>2. /\ \A v \in Worker : hand'[v] = IF v = w THEN g ELSE hand[v]
        /\ \A v \in Worker : batch'[v] = IF v = w THEN batch[w] \ {h} ELSE batch[v]
        /\ \A d \in Delivery : posts'[d] = IF d = h.id THEN posts[d] + n ELSE posts[d]
        /\ \A d \in Delivery : posts[d] \in Nat
        /\ MaxRetries \in Nat \ {0} /\ faults \in Nat
    BY <1>1, WebhookAssumption DEF IInv, TypeInv
  <1>3. TypeInv'
    <2>1. hand' \in [Worker -> Copy \cup {None}] /\ batch' \in [Worker -> SUBSET Copy]
      BY <1>1 DEF IInv, TypeInv
    <2>2. posts' \in [Delivery -> Nat]
      BY <1>1, <1>2 DEF IInv, TypeInv
    <2> QED
      BY <2>1, <2>2 DEF IInv, TypeInv
  <1>4. h.row.attempts < MaxRetries /\ h.row.attempts <= posts[h.id] /\ w \in fetchers /\ h.id[1] \in dispatched
        /\ \A k \in batch[w] : k.id = h.id => k = h
    BY DEF IInv, BatchesEarned
  <1>5. RowsEarned'
    <2>1. \A d \in Delivery : Exists(d) => row[d].attempts \in Nat
      BY Records DEF IInv, TypeInv, Exists
    <2>2. \A d \in Delivery : posts[d] <= posts'[d] /\ posts'[d] \in Nat
      BY <1>2
    <2> QED
      BY <1>2, <2>1, <2>2 DEF IInv, RowsEarned, Earned, Exists
  <1>6. BatchesEarned'
    <2> SUFFICES ASSUME NEW v \in Worker, NEW k \in batch'[v]
                 PROVE  /\ v \in fetchers' /\ k.id[1] \in dispatched' /\ k.row.status = "PENDING"
                        /\ k.row.attempts < MaxRetries /\ k.row.attempts <= posts'[k.id]
                        /\ \A j \in batch'[v] : j.id = k.id => j = k
      BY DEF BatchesEarned
    <2>1. k \in batch[v] /\ batch'[v] \subseteq batch[v]
      BY <1>2
    <2>2. k.id \in Delivery /\ k.row.attempts \in Nat
      BY <2>1, Records DEF IInv, TypeInv
    <2> QED
      BY <1>2, <2>1, <2>2 DEF IInv, BatchesEarned
  <1>7. HandsEarned'
    <2> SUFFICES ASSUME NEW v \in Worker, hand'[v] # None
                 PROVE  /\ v \in fetchers' /\ hand'[v].id[1] \in dispatched'
                        /\ Earned(hand[v].id, hand[v].row)'
                        /\ hand'[v].row.status = "FAILED" /\ faults' = 0 =>
                               \/ hand'[v].row.attempts = MaxRetries \/ hand'[v].id \in spared'
                               \/ sub'[SubOf(hand'[v].id)] = "DELETED"
      BY DEF HandsEarned
    <2>1. CASE v = w
      <3>1. hand'[v] = g
        BY <2>1, <1>2
      <3> QED
        BY <3>1, <2>1, <1>1, <1>2, <1>4 DEF Earned
    <2>2. CASE v # w
      <3>1. hand'[v] = hand[v] /\ hand[v].id \in Delivery /\ hand[v].row.attempts \in Nat
        BY <2>2, <1>2, Records DEF IInv, TypeInv
      <3> QED
        BY <3>1, <1>2 DEF IInv, HandsEarned, Earned
    <2> QED
      BY <2>1, <2>2
  <1>8. NothingBeforeDispatch'
    BY <1>2, <1>4 DEF IInv, NothingBeforeDispatch
  <1>9. PostsCounted'
    <2> SUFFICES ASSUME OneInstance', NEW d \in Delivery
                 PROVE  posts'[d] <= Allowed(d)' + MaxRetries /\ RowCounts(d)' /\ CopiesCount(d)'
      BY DEF PostsCounted
    <2>1. posts[d] <= Allowed(d) + MaxRetries /\ RowCounts(d) /\ CopiesCount(d)
      BY DEF IInv, PostsCounted, OneInstance
    <2>2. Allowed(d) \in Nat /\ Allowed(d)' \in Nat /\ Allowed(d) <= Allowed(d)' /\ posts[d] \in Nat
      <3>1. MaxRetries * granted[d] \in Nat
        BY <1>2 DEF IInv, TypeInv
      <3> QED
        BY <3>1, <1>2 DEF Allowed
    <2>3. \A v \in Worker : (\A k \in batch[v] : v \in fetchers) /\ (hand[v] # None => v \in fetchers)
      BY DEF IInv, BatchesEarned, HandsEarned
    <2>4. \A v \in fetchers : v = w
      BY <1>4, OnlyOne DEF OneInstance, IInv, TypeInv
    <2>5. h.id = d => posts[d] <= Allowed(d) + h.row.attempts
      BY <2>1 DEF CopiesCount
    <2>6. CopiesCount(d)'
      <3> SUFFICES ASSUME NEW v \in Worker
                   PROVE  /\ \A k \in batch'[v] : k.id = d => posts'[d] <= Allowed(d)' + k.row.attempts
                          /\ hand'[v] # None /\ hand'[v].id = d => posts'[d] <= Allowed(d)' + hand'[v].row.attempts
        BY DEF CopiesCount
      <3>1. ASSUME NEW k \in batch'[v], k.id = d PROVE posts'[d] <= Allowed(d)' + k.row.attempts
        <4>1. k \in batch[v] /\ v = w /\ k # h /\ k.row.attempts \in Nat
          BY <3>1, <1>2, <2>3, <2>4, Records DEF IInv, TypeInv
        <4>2. k.id # h.id
          BY <4>1, <1>4
        <4> QED
          BY <3>1, <4>1, <4>2, <1>2, <2>1, <2>2 DEF CopiesCount
      <3>2. ASSUME hand'[v] # None, hand'[v].id = d PROVE posts'[d] <= Allowed(d)' + hand'[v].row.attempts
        <4>1. v = w
          BY <3>2, <1>2, <2>3, <2>4
        <4>2. hand'[v] = g /\ h.id = d
          BY <3>2, <4>1, <1>1, <1>2
        <4>3. posts'[d] = posts[d] + n /\ hand'[v].row.attempts = h.row.attempts + n
          BY <4>2, <1>1, <1>2
        <4> QED
          BY <4>2, <4>3, <2>2, <2>5, <1>1
      <3> QED
        BY <3>1, <3>2
    <2>7. RowCounts(d)'
      <3> SUFFICES ASSUME Exists(d) PROVE /\ posts'[d] <= Allowed(d)' + row[d].attempts + 1
                                          /\ Held(d)' \/ posts'[d] <= Allowed(d)' + row[d].attempts
        BY DEF RowCounts, Exists
      <3>1. row[d].attempts \in Nat
        BY Records DEF IInv, TypeInv, Exists
      <3>2. ~Held(d)
        BY <2>3, <2>4 DEF Held
      <3>3. posts[d] <= Allowed(d) + row[d].attempts
        BY <2>1, <3>2 DEF RowCounts
      <3>4. d = h.id => Held(d)'
        BY <1>1, <1>2 DEF Held
      <3> QED
        BY <3>1, <3>3, <3>4, <1>2, <2>2
    <2>8. posts'[d] <= Allowed(d)' + MaxRetries
      BY <1>1, <1>2, <1>4, <2>1, <2>2, <2>5
    <2> QED
      BY <2>6, <2>7, <2>8
  <1> QED
    BY <1>3, <1>5, <1>6, <1>7, <1>8, <1>9 DEF IInv

LEMMA AfterPost ==
    ASSUME NEW c \in Row, c.status = "PENDING", c.attempts <= MaxRetries, MaxRetries \in Nat
    PROVE  /\ AfterSuccess(c) \in Row /\ AfterSuccess(c).attempts = c.attempts
           /\ AfterSuccess(c).status = "SUCCESS"
           /\ AfterFailure(c) \in Row /\ AfterFailure(c).attempts = c.attempts
           /\ \/ AfterFailure(c).status = "PENDING" /\ c.attempts < MaxRetries
              \/ AfterFailure(c).status = "FAILED" /\ c.attempts = MaxRetries
  <1>1. c.attempts \in Nat
    BY DEF Row
  <1>2. AfterSuccess(c) \in Row /\ AfterSuccess(c).attempts = c.attempts /\ AfterSuccess(c).status = "SUCCESS"
    BY DEF AfterSuccess, Row
  <1>3. CASE c.attempts >= MaxRetries
    <2>1. AfterFailure(c) = [c EXCEPT !.status = "FAILED"]
      BY <1>3 DEF AfterFailure
    <2> QED
      BY <1>1, <1>2, <1>3, <2>1 DEF Row
  <1>4. CASE ~(c.attempts >= MaxRetries)
    <2>1. AfterFailure(c) = [c EXCEPT !.due = FALSE]
      BY <1>4 DEF AfterFailure
    <2>2. AfterFailure(c) \in Row /\ AfterFailure(c).attempts = c.attempts /\ AfterFailure(c).status = "PENDING"
      BY <2>1 DEF Row
    <2>3. c.attempts < MaxRetries
      BY <1>1, <1>4
    <2> QED
      BY <1>2, <2>2, <2>3
  <1> QED
    BY <1>1, <1>3, <1>4, WebhookAssumption

LEMMA PostStep ==
    ASSUME IInv, NEW w \in Worker, NEW h \in batch[w], NEW a \in {"2xx", "other"}, Post(w, h, a)
    PROVE  IInv'
  <1> USE DEF tables, workers, ghosts
  <1> DEFINE c == [h.row EXCEPT !.attempts = @ + 1]
             r == IF a = "2xx" THEN AfterSuccess(c) ELSE AfterFailure(c)
  <1>1. h \in Copy /\ h.id \in Delivery /\ h.row \in Row /\ h.row.attempts \in Nat /\ h = [id |-> h.id, row |-> h.row]
    BY Records DEF IInv, TypeInv, Copy
  <1>2. h.row.status = "PENDING" /\ h.row.attempts < MaxRetries /\ MaxRetries \in Nat
    BY WebhookAssumption DEF IInv, BatchesEarned
  <1>3. c \in Row /\ c.attempts = h.row.attempts + 1 /\ c.status = "PENDING"
    BY <1>1, <1>2 DEF Row
  <1>4. /\ r \in Row /\ r.attempts = h.row.attempts + 1
        /\ r.status = "SUCCESS" => a = "2xx"
        /\ r.status = "PENDING" => r.attempts < MaxRetries
        /\ r.status = "FAILED" => r.attempts = MaxRetries
    <2> HIDE DEF c
    <2>1. c.attempts <= MaxRetries
      BY <1>1, <1>2, <1>3
    <2> QED
      BY <1>2, <1>3, <2>1, AfterPost
  <1>5. [h EXCEPT !.row = r] = [id |-> h.id, row |-> r]
    BY <1>1
  <1>6. /\ hand[w] = None /\ batch' = [batch EXCEPT ![w] = @ \ {h}]
        /\ hand' = [hand EXCEPT ![w] = [h EXCEPT !.row = r]]
        /\ posts' = [posts EXCEPT ![h.id] = @ + 1]
        /\ accepted' = IF a = "2xx" THEN accepted \cup {h.id} ELSE accepted
        /\ UNCHANGED <<sub, row, dispatched, up, retry, granted, fetchers, spared, faults>>
    BY DEF Post
  <1>7. faults \in Nat /\ accepted \subseteq Delivery
    BY DEF IInv, TypeInv
  <1> HIDE DEF r, c
  <1>8. accepted \subseteq accepted' /\ accepted' \subseteq Delivery /\ (r.status = "SUCCESS" => h.id \in accepted')
    <2>1. CASE a = "2xx"
      BY <2>1, <1>1, <1>6, <1>7
    <2>2. CASE a # "2xx"
      <3>1. accepted' = accepted /\ r.status # "SUCCESS"
        BY <2>2, <1>4, <1>6
      <3> QED
        BY <3>1, <1>7
    <2> QED
      BY <2>1, <2>2
  <1>9. hand' = [hand EXCEPT ![w] = [id |-> h.id, row |-> r]] /\ faults' \in Nat /\ faults <= faults'
    <2>1. hand' = [hand EXCEPT ![w] = [id |-> h.id, row |-> r]]
      BY <1>5, <1>6, Zenon
    <2>2. faults' = faults
      BY <1>6
    <2> QED
      BY <2>1, <2>2, <1>7
  <1>10. UNCHANGED <<sub, row, dispatched, up, retry, granted, fetchers, spared>> /\ (r.status = "FAILED" => r.attempts = MaxRetries)
    BY <1>4, <1>6
  <1>11. posts' = [posts EXCEPT ![h.id] = @ + 1] /\ hand[w] = None /\ batch' = [batch EXCEPT ![w] = @ \ {h}]
         /\ r \in Row /\ r.attempts = h.row.attempts + 1 /\ (r.status = "PENDING" => r.attempts < MaxRetries)
    BY <1>4, <1>6
  <1> QED
    BY <1>8, <1>9, <1>10, <1>11, HandStep

LEMMA GiveUpStep ==
    ASSUME IInv, NEW w \in Worker, NEW h \in batch[w], GiveUp(w, h)
    PROVE  IInv'
  <1> USE DEF tables, workers, ghosts
  <1> DEFINE r == [h.row EXCEPT !.status = "FAILED"]
  <1>1. h \in Copy /\ h.id \in Delivery /\ h.row \in Row /\ h.row.attempts \in Nat /\ h = [id |-> h.id, row |-> h.row]
    BY Records DEF IInv, TypeInv, Copy
  <1>2. r \in Row /\ r.attempts = h.row.attempts + 0 /\ r.status = "FAILED"
    BY <1>1 DEF Row
  <1>3. [h EXCEPT !.row.status = "FAILED"] = [id |-> h.id, row |-> r]
    BY <1>1
  <1>4. /\ hand[w] = None /\ batch' = [batch EXCEPT ![w] = @ \ {h}]
        /\ hand' = [hand EXCEPT ![w] = [h EXCEPT !.row.status = "FAILED"]]
        /\ UNCHANGED <<sub, row, dispatched, up, retry, posts, accepted, granted, fetchers>>
    BY DEF GiveUp
  <1>5. posts' = [posts EXCEPT ![h.id] = @ + 0]
    BY <1>1, <1>4 DEF IInv, TypeInv
  <1>6. /\ faults \in Nat /\ accepted \subseteq Delivery
        /\ faults' \in Nat /\ faults <= faults' /\ spared \subseteq spared'
        /\ (faults' = 0 => h.id \in spared' \/ sub[SubOf(h.id)] = "DELETED")
    BY DEF IInv, TypeInv, GiveUp, Fault
  <1> HIDE DEF r
  <1> QED
    BY <1>1, <1>2, <1>3, <1>4, <1>5, <1>6, HandStep

\* A row is written and no copy is made: WriteBack and RetryWrite.  What reaches the
\* table is earned, and a row that is not there stays away.
LEMMA RowStep ==
    ASSUME IInv, NEW id \in Delivery, NEW r \in Row,
           row' = IF Exists(id) THEN [row EXCEPT ![id] = r] ELSE row,
           UNCHANGED <<sub, dispatched, posts, accepted, spared>>, faults' = faults,
           Earned(id, r),
           r.status = "FAILED" /\ faults = 0 => r.attempts = MaxRetries \/ id \in spared \/ sub[SubOf(id)] = "DELETED"
    PROVE  /\ RowsEarned' /\ NothingBeforeDispatch'
           /\ row' \in [Delivery -> Row \cup {None}]
           /\ \A d \in Delivery : Exists(d)' => Exists(d) /\ (row'[d] = IF d = id THEN r ELSE row[d])
  <1>1. row' \in [Delivery -> Row \cup {None}]
    BY DEF IInv, TypeInv
  <1>2. \A d \in Delivery : Exists(d)' => Exists(d) /\ (row'[d] = IF d = id THEN r ELSE row[d])
    BY DEF IInv, TypeInv, Exists
  <1>3. RowsEarned'
    <2> SUFFICES ASSUME NEW d \in Delivery, Exists(d)'
                 PROVE  /\ sub[SubOf(d)] # "DELETED" /\ d[1] \in dispatched
                        /\ Earned(d, row'[d])
                        /\ row'[d].status = "FAILED" /\ faults = 0 => row'[d].attempts = MaxRetries \/ d \in spared
      BY DEF RowsEarned, Earned
    <2>1. sub[SubOf(d)] # "DELETED" /\ d[1] \in dispatched
      BY <1>2 DEF IInv, RowsEarned
    <2>2. CASE d = id
      BY <2>1, <2>2, <1>2
    <2>3. CASE d # id
      BY <2>1, <2>3, <1>2 DEF IInv, RowsEarned
    <2> QED
      BY <2>2, <2>3
  <1>4. NothingBeforeDispatch'
    BY DEF IInv, NothingBeforeDispatch
  <1> QED
    BY <1>1, <1>2, <1>3, <1>4

\* Copies that go away, faults that are counted and workers that stop or start: what is
\* left in batches and hands stays earned.
LEMMA CopiesDropped ==
    ASSUME IInv, UNCHANGED <<dispatched, posts, accepted, fetchers, spared>>,
           UNCHANGED sub, faults' \in Nat, faults <= faults',
           \A w \in Worker : batch'[w] \subseteq batch[w],
           \A w \in Worker : hand'[w] = hand[w] \/ hand'[w] = None
    PROVE  BatchesEarned' /\ HandsEarned'
  <1>1. BatchesEarned'
    BY DEF IInv, BatchesEarned
  <1>2. faults' = 0 => faults = 0
    BY DEF IInv, TypeInv
  <1>3. HandsEarned'
    <2> SUFFICES ASSUME NEW w \in Worker, hand'[w] # None
                 PROVE  /\ w \in fetchers /\ hand'[w].id[1] \in dispatched
                        /\ Earned(hand'[w].id, hand'[w].row)
                        /\ hand'[w].row.status = "FAILED" /\ faults' = 0 =>
                               \/ hand'[w].row.attempts = MaxRetries \/ hand'[w].id \in spared
                               \/ sub[SubOf(hand'[w].id)] = "DELETED"
      BY DEF HandsEarned, Earned
    <2> QED
      BY <1>2 DEF IInv, HandsEarned
  <1> QED
    BY <1>1, <1>3

\* The count goes on when a copy is dropped and the fault that drops it is counted.
LEMMA CountsWithFault ==
    ASSUME IInv, UNCHANGED <<row, posts, granted, fetchers>>,
           \A w \in Worker : batch'[w] \subseteq batch[w],
           \A w \in Worker : hand'[w] = hand[w] \/ hand'[w] = None,
           faults' = faults + 1
    PROVE  PostsCounted'
  <1> SUFFICES ASSUME OneInstance', NEW d \in Delivery
               PROVE  posts'[d] <= Allowed(d)' + MaxRetries /\ RowCounts(d)' /\ CopiesCount(d)'
    BY DEF PostsCounted
  <1>1. posts[d] <= Allowed(d) + MaxRetries /\ RowCounts(d) /\ CopiesCount(d)
    BY DEF IInv, PostsCounted, OneInstance
  <1>2. MaxRetries \in Nat /\ faults \in Nat /\ posts[d] \in Nat /\ granted[d] \in Nat /\ Allowed(d) \in Nat
    BY Numbers DEF IInv
  <1>3. Allowed(d)' = Allowed(d) + 1
    <2>1. MaxRetries * granted[d] \in Nat
      BY <1>2
    <2> QED
      BY <1>2, <2>1 DEF Allowed
  <1>4. RowCounts(d)'
    <2> SUFFICES ASSUME Exists(d) PROVE posts[d] <= Allowed(d) + 1 + row[d].attempts
      BY <1>2, <1>3, Records DEF RowCounts, Exists, IInv, TypeInv
    <2>1. row[d].attempts \in Nat
      BY Records DEF IInv, TypeInv, Exists
    <2> QED
      BY <1>1, <1>2, <2>1 DEF RowCounts
  <1>5. CopiesCount(d)'
    <2>1. \A w \in Worker : \A h \in batch[w] : h.row.attempts \in Nat
      BY Records DEF IInv, TypeInv
    <2>2. \A w \in Worker : hand[w] # None => hand[w].row.attempts \in Nat
      BY Records DEF IInv, TypeInv
    <2>3. ASSUME NEW w \in Worker, NEW h \in batch'[w], h.id = d PROVE posts[d] <= Allowed(d) + 1 + h.row.attempts
      BY <1>1, <1>2, <2>1, <2>3 DEF CopiesCount
    <2>4. ASSUME NEW w \in Worker, hand'[w] # None, hand'[w].id = d PROVE posts[d] <= Allowed(d) + 1 + hand'[w].row.attempts
      BY <1>1, <1>2, <2>2, <2>4 DEF CopiesCount
    <2> QED
      BY <1>3, <2>3, <2>4 DEF CopiesCount
  <1> QED
    BY <1>1, <1>2, <1>3, <1>4, <1>5

LEMMA WriteBackStep ==
    ASSUME IInv, NEW w \in Worker, WriteBack(w)
    PROVE  IInv'
  <1> USE DEF tables, workers, ghosts
  <1> DEFINE g == hand[w]
  <1>1. /\ hand[w] # None /\ hand' = [hand EXCEPT ![w] = None]
        /\ UNCHANGED <<sub, dispatched, batch, up, retry, posts, accepted, granted, fetchers, spared>>
        /\ faults' \in Nat /\ faults <= faults' /\ faults \in Nat
    BY DEF WriteBack, Fault, IInv, TypeInv
  <1>2. g \in Copy /\ g.id \in Delivery /\ g.row \in Row
    BY <1>1, Records DEF IInv, TypeInv
  <1>3. /\ \A v \in Worker : hand'[v] = IF v = w THEN None ELSE hand[v]
        /\ hand' \in [Worker -> Copy \cup {None}]
    BY <1>1 DEF IInv, TypeInv
  <1>4. BatchesEarned' /\ HandsEarned'
    BY <1>1, <1>3, CopiesDropped
  <1>5. CASE Save(hand[w]) /\ faults' = faults
    <2>1. /\ Earned(g.id, g.row) /\ w \in fetchers
          /\ g.row.status = "FAILED" /\ faults = 0 =>
                 g.row.attempts = MaxRetries \/ g.id \in spared \/ sub[SubOf(g.id)] = "DELETED"
      BY <1>1 DEF IInv, HandsEarned
    <2>2. /\ RowsEarned' /\ NothingBeforeDispatch' /\ row' \in [Delivery -> Row \cup {None}]
          /\ \A d \in Delivery : Exists(d)' => Exists(d) /\ (row'[d] = IF d = g.id THEN g.row ELSE row[d])
      BY <1>1, <1>2, <1>5, <2>1, RowStep DEF Save
    <2>3. TypeInv'
      BY <1>1, <1>3, <2>2 DEF IInv, TypeInv
    <2>4. PostsCounted'
      <3> SUFFICES ASSUME OneInstance', NEW d \in Delivery
                   PROVE  posts'[d] <= Allowed(d)' + MaxRetries /\ RowCounts(d)' /\ CopiesCount(d)'
        BY DEF PostsCounted
      <3>1. posts[d] <= Allowed(d) + MaxRetries /\ RowCounts(d) /\ CopiesCount(d)
        BY <1>1 DEF IInv, PostsCounted, OneInstance
      <3>2. Allowed(d)' = Allowed(d) /\ Allowed(d) \in Nat /\ posts[d] \in Nat
        BY <1>1, <1>5, Numbers DEF Allowed, IInv
      <3>3. CopiesCount(d)'
        BY <1>1, <1>3, <3>1, <3>2 DEF CopiesCount
      <3>4. \A v \in Worker : hand[v] # None => v = w
        <4>1. \A v \in Worker : hand[v] # None => v \in fetchers
          BY DEF IInv, HandsEarned
        <4> QED
          BY <1>1, <2>1, <4>1, OnlyOne DEF OneInstance, IInv, TypeInv
      <3>5. RowCounts(d)'
        <4> SUFFICES ASSUME Exists(d)'
                     PROVE  posts[d] <= Allowed(d) + row'[d].attempts /\ row'[d].attempts \in Nat
          BY <1>1, <3>2 DEF RowCounts
        <4>1. CASE d = g.id
          <5>1. row'[d] = g.row /\ g.row.attempts \in Nat /\ posts[d] <= Allowed(d) + g.row.attempts
            BY <1>1, <1>2, <2>2, <3>1, <4>1, Records DEF CopiesCount
          <5> QED
            BY <5>1
        <4>2. CASE d # g.id
          <5>1. Exists(d) /\ row'[d] = row[d] /\ ~Held(d)
            BY <2>2, <3>4, <4>2 DEF Held
          <5>2. row[d].attempts \in Nat
            BY <5>1, Records DEF IInv, TypeInv, Exists
          <5> QED
            BY <3>1, <5>1, <5>2 DEF RowCounts
        <4> QED
          BY <4>1, <4>2
      <3> QED
        BY <1>1, <3>1, <3>2, <3>3, <3>5
    <2> QED
      BY <1>4, <2>2, <2>3, <2>4 DEF IInv
  <1>6. CASE row' = row /\ Fault
    <2>1. faults' = faults + 1 /\ faults' # 0
      BY <1>1, <1>6 DEF Fault
    <2>2. TypeInv'
      BY <1>1, <1>3, <1>6 DEF IInv, TypeInv
    <2>3. RowsEarned' /\ NothingBeforeDispatch'
      BY <1>1, <1>6, <2>1 DEF IInv, RowsEarned, NothingBeforeDispatch, Exists, Earned
    <2>4. PostsCounted'
      BY <1>1, <1>3, <1>6, <2>1, CountsWithFault
    <2> QED
      BY <1>4, <2>2, <2>3, <2>4 DEF IInv
  <1> QED
    BY <1>5, <1>6 DEF WriteBack

LEMMA CrashStep ==
    ASSUME IInv, NEW w \in Worker, Crash(w)
    PROVE  IInv'
  <1> USE DEF tables, workers, ghosts
  <1>1. /\ UNCHANGED <<tables, dispatched, retry, ghosts>> /\ up' \subseteq up
        /\ batch' = [batch EXCEPT ![w] = {}] /\ hand' = [hand EXCEPT ![w] = None]
        /\ faults' = faults + 1 /\ faults' \in Nat /\ faults <= faults' /\ faults' # 0
    BY DEF Crash, Fault, IInv, TypeInv
  <1>2. /\ \A v \in Worker : batch'[v] \subseteq batch[v]
        /\ \A v \in Worker : hand'[v] = hand[v] \/ hand'[v] = None
    BY <1>1 DEF IInv, TypeInv
  <1>3. TypeInv'
    BY <1>1 DEF IInv, TypeInv
  <1>4. BatchesEarned' /\ HandsEarned'
    BY <1>1, <1>2, CopiesDropped
  <1>5. RowsEarned' /\ NothingBeforeDispatch'
    BY <1>1 DEF IInv, RowsEarned, NothingBeforeDispatch, Exists, Earned
  <1>6. PostsCounted'
    BY <1>1, <1>2, CountsWithFault
  <1> QED
    BY <1>3, <1>4, <1>5, <1>6 DEF IInv

LEMMA StartStep ==
    ASSUME IInv, NEW w \in Worker, Start(w)
    PROVE  IInv'
  BY DEF tables, workers, ghosts, IInv, Start, TypeInv, RowsEarned, BatchesEarned, HandsEarned,
         NothingBeforeDispatch, PostsCounted, Exists, Earned, OneInstance, RowCounts, CopiesCount, Held, Allowed

LEMMA RetryReadStep ==
    ASSUME IInv, NEW x \in Retrier, NEW d \in Delivery, RetryRead(x, d)
    PROVE  IInv'
  <1> USE DEF tables, workers, ghosts
  <1>1. TypeInv'
    BY DEF IInv, TypeInv, RetryRead
  <1> QED
    BY <1>1 DEF IInv, RetryRead, RowsEarned, BatchesEarned, HandsEarned, NothingBeforeDispatch,
                PostsCounted, Exists, Earned, OneInstance, RowCounts, CopiesCount, Held, Allowed

LEMMA RetryWriteStep ==
    ASSUME IInv, NEW x \in Retrier, RetryWrite(x)
    PROVE  IInv'
  <1> USE DEF tables, workers, ghosts
  <1> DEFINE id == retry[x].id
             first == [status |-> "PENDING", attempts |-> 0, due |-> TRUE]
  <1>1. id \in Delivery
    BY DEF IInv, TypeInv, RetryWrite
  <1>2. first \in Row /\ first.attempts = 0 /\ first.status = "PENDING"
    BY DEF Row
  <1>3. /\ row' = IF Exists(id) THEN [row EXCEPT ![id] = first] ELSE row
        /\ granted' = [granted EXCEPT ![id] = @ + 1]
        /\ UNCHANGED <<sub, dispatched, batch, hand, up, posts, accepted, fetchers, spared, faults>>
    BY DEF RetryWrite, Save
  <1>4. MaxRetries \in Nat \ {0} /\ faults \in Nat /\ \A d \in Delivery : posts[d] \in Nat /\ granted[d] \in Nat
    BY WebhookAssumption DEF IInv, TypeInv
  <1>5. Earned(id, first)
    BY <1>1, <1>2, <1>4 DEF Earned
  <1>6. /\ RowsEarned' /\ NothingBeforeDispatch' /\ row' \in [Delivery -> Row \cup {None}]
        /\ \A d \in Delivery : Exists(d)' => Exists(d) /\ (row'[d] = IF d = id THEN first ELSE row[d])
    <2> HIDE DEF first, id
    <2> QED
      BY <1>1, <1>2, <1>3, <1>5, RowStep
  <1>7. TypeInv'
    <2>1. granted' \in [Delivery -> Nat]
      BY <1>1, <1>3, <1>4 DEF IInv, TypeInv
    <2>2. retry' \in [Retrier -> [pc : {"idle", "done"}] \cup [pc : {"read"}, id : Delivery]]
      BY DEF IInv, TypeInv, RetryWrite
    <2> QED
      BY <1>3, <1>6, <2>1, <2>2 DEF IInv, TypeInv
  <1>8. BatchesEarned' /\ HandsEarned'
    BY <1>3, <1>4, CopiesDropped
  <1>9. PostsCounted'
    <2> SUFFICES ASSUME OneInstance', NEW d \in Delivery
                 PROVE  posts'[d] <= Allowed(d)' + MaxRetries /\ RowCounts(d)' /\ CopiesCount(d)'
      BY DEF PostsCounted
    <2>1. posts[d] <= Allowed(d) + MaxRetries /\ RowCounts(d) /\ CopiesCount(d)
      BY <1>3 DEF IInv, PostsCounted, OneInstance
    <2>2. Allowed(d) \in Nat /\ Allowed(d)' = IF d = id THEN Allowed(d) + MaxRetries ELSE Allowed(d)
      <3>1. Allowed(d) \in Nat
        BY Numbers DEF IInv
      <3>2. CASE d = id
        <4>1. granted'[d] = granted[d] + 1
          BY <1>1, <1>3, <3>2 DEF IInv, TypeInv
        <4>2. MaxRetries * (granted[d] + 1) = MaxRetries * granted[d] + MaxRetries /\ MaxRetries * granted[d] \in Nat
          BY <1>4
        <4> QED
          BY <1>3, <1>4, <3>1, <3>2, <4>1, <4>2 DEF Allowed
      <3>3. CASE d # id
        <4>1. granted'[d] = granted[d]
          BY <1>1, <1>3, <3>3 DEF IInv, TypeInv
        <4> QED
          BY <1>3, <3>1, <3>3, <4>1 DEF Allowed
      <3> QED
        BY <3>2, <3>3
    <2>3. CopiesCount(d)'
      <3>1. \A w \in Worker : \A h \in batch[w] : h.row.attempts \in Nat
        BY Records DEF IInv, TypeInv
      <3>2. \A w \in Worker : hand[w] # None => hand[w].row.attempts \in Nat
        BY Records DEF IInv, TypeInv
      <3> QED
        BY <1>3, <1>4, <2>1, <2>2, <3>1, <3>2 DEF CopiesCount
    <2>4. RowCounts(d)'
      <3> SUFFICES ASSUME Exists(d)' PROVE /\ posts[d] <= Allowed(d)' + row'[d].attempts + 1
                                           /\ Held(d) \/ posts[d] <= Allowed(d)' + row'[d].attempts
        BY <1>3 DEF RowCounts, Held
      <3>1. Exists(d) /\ row'[d] = IF d = id THEN first ELSE row[d]
        BY <1>6
      <3>2. row[d].attempts \in Nat /\ row[d].attempts <= MaxRetries
        BY <3>1, Records DEF IInv, TypeInv, Exists, RowsEarned, Earned
      <3>3. CASE d = id
        <4>1. Allowed(d)' = Allowed(d) + MaxRetries /\ row'[d].attempts = 0
          BY <1>2, <2>2, <3>1, <3>3
        <4> HIDE DEF id, first
        <4> QED
          BY <4>1, <1>4, <2>1, <2>2, <3>1, <3>2 DEF RowCounts
      <3>4. CASE d # id
        BY <2>1, <2>2, <3>1, <3>4 DEF RowCounts
      <3> QED
        BY <3>3, <3>4
    <2> QED
      BY <1>3, <1>4, <2>1, <2>2, <2>3, <2>4
  <1> QED
    BY <1>6, <1>7, <1>8, <1>9 DEF IInv

LEMMA Step == IInv /\ [Next]_vars => IInv'
  <1> SUFFICES ASSUME IInv, [Next]_vars PROVE IInv'
    OBVIOUS
  <1>1. ASSUME NEW s \in Sub, Delete(s) PROVE IInv'
    BY <1>1, DeleteStep
  <1>2. ASSUME NEW s \in Sub, NEW st \in {"ACTIVE", "PAUSED"}, NEW u \in BOOLEAN, UpdateSubscription(s, st, u) PROVE IInv'
    BY <1>2, UpdateStep
  <1>3. ASSUME NEW e \in Event, Dispatch(e) PROVE IInv'
    BY <1>3, DispatchStep
  <1>4. ASSUME NEW d \in Delivery, BackoffEnds(d) PROVE IInv'
    BY <1>4, BackoffStep
  <1>5. ASSUME NEW w \in Worker, FetchBatch(w) \/ WriteBack(w) \/ Crash(w) \/ Start(w) PROVE IInv'
    BY <1>5, FetchStep, WriteBackStep, CrashStep, StartStep
  <1>6. ASSUME NEW w \in Worker, NEW h \in batch[w], GiveUp(w, h) PROVE IInv'
    BY <1>6, GiveUpStep
  <1>7. ASSUME NEW w \in Worker, NEW h \in batch[w], NEW a \in {"2xx", "other"}, Post(w, h, a) PROVE IInv'
    BY <1>7, PostStep
  <1>8. ASSUME NEW x \in Retrier, RetryWrite(x) PROVE IInv'
    BY <1>8, RetryWriteStep
  <1>9. ASSUME NEW x \in Retrier, NEW d \in Delivery, RetryRead(x, d) PROVE IInv'
    BY <1>9, RetryReadStep
  <1>10. CASE UNCHANGED vars
    BY <1>10 DEF vars, IInv, TypeInv, RowsEarned, BatchesEarned, HandsEarned, NothingBeforeDispatch,
                 PostsCounted, Exists, Earned, OneInstance, RowCounts, CopiesCount, Held, Allowed
  <1> QED
    BY <1>1, <1>2, <1>3, <1>4, <1>5, <1>6, <1>7, <1>8, <1>9, <1>10 DEF Next

LEMMA Invariance == Spec => []IInv
  BY InitHolds, Step, PTL DEF Spec

LEMMA EarnedFollows == IInv => StatusIsEarned
  <1> SUFFICES ASSUME IInv PROVE StatusIsEarned
    OBVIOUS
  <1>1. PendingHasAttemptsLeft
    BY DEF IInv, RowsEarned, BatchesEarned, Earned, PendingHasAttemptsLeft
  <1>2. SuccessWasAccepted
    BY DEF IInv, RowsEarned, Earned, SuccessWasAccepted
  <1>3. FailedWasExhausted
    BY DEF IInv, RowsEarned, Earned, FailedWasExhausted
  <1>4. PostsAreLimited
    <2> SUFFICES ASSUME OneInstance, NEW d \in Delivery
                 PROVE  posts[d] <= MaxRetries * (1 + granted[d]) + faults
      BY DEF PostsAreLimited
    <2>1. posts[d] <= MaxRetries * granted[d] + faults + MaxRetries
      BY DEF IInv, PostsCounted, Allowed
    <2>2. MaxRetries \in Nat /\ faults \in Nat /\ posts[d] \in Nat /\ granted[d] \in Nat
      BY Numbers DEF IInv
    <2>3. MaxRetries * (1 + granted[d]) = MaxRetries * granted[d] + MaxRetries /\ MaxRetries * granted[d] \in Nat
      BY <2>2
    <2> QED
      BY <2>1, <2>2, <2>3
  <1> QED
    BY <1>1, <1>2, <1>3, <1>4 DEF StatusIsEarned

\* What the table says of a delivery was earned, for any number of instances that carry
\* copies of the same rows, crash and race with RetryDelivery.
THEOREM StatusEarned == Spec => []StatusIsEarned
  BY Invariance, EarnedFollows, PTL

(***************************************************************************)
(* Successes.  With one instance no copy of a delivery that succeeded is   *)
(* left anywhere: a worker holds one copy of a row, and fetches none while *)
(* it holds any.                                                           *)
(***************************************************************************)
HandIsApart == \A w \in Worker : hand[w] # None => \A h \in batch[w] : h.id # hand[w].id

Succeeded(d) == Exists(d) /\ row[d].status = "SUCCESS"
Copied(d) == Held(d) \/ \E w \in Worker : \E h \in batch[w] : h.id = d
SuccessesAreOut == OneInstance => \A d \in Delivery : Succeeded(d) => ~Copied(d)

\* A RetryDelivery call for a delivery that succeeded read it before.
RetriesAreLate == \A d \in Delivery : Succeeded(d) => Retrying(d) \subseteq late

FinalInv == IInv /\ HandIsApart /\ SuccessesAreOut /\ RetriesAreLate

LEMMA CopiesAreFetched ==
    ASSUME IInv, OneInstance
    PROVE  \A v, w \in Worker : (hand[v] # None \/ batch[v] # {}) /\ (hand[w] # None \/ batch[w] # {}) => v = w
  <1>1. \A w \in Worker : hand[w] # None \/ batch[w] # {} => w \in fetchers
    BY DEF IInv, BatchesEarned, HandsEarned
  <1> QED
    BY <1>1, OnlyOne DEF IInv, TypeInv, OneInstance

\* Steps that leave the copies alone, or drop some, and make no success.
LEMMA FinalKept ==
    ASSUME FinalInv, fetchers' = fetchers, late' = late,
           \A w \in Worker : batch'[w] \subseteq batch[w],
           \A w \in Worker : hand'[w] = hand[w] \/ hand'[w] = None,
           \A d \in Delivery : Succeeded(d)' => Succeeded(d),
           \A x \in Retrier, d \in Delivery : x \in Retrying(d)' => x \in Retrying(d) \/ ~Succeeded(d)
    PROVE  HandIsApart' /\ SuccessesAreOut' /\ RetriesAreLate'
  <1>1. HandIsApart'
    BY DEF FinalInv, HandIsApart
  <1>2. SuccessesAreOut'
    BY DEF FinalInv, SuccessesAreOut, OneInstance, Copied, Held
  <1>3. RetriesAreLate'
    <2> SUFFICES ASSUME NEW d \in Delivery, Succeeded(d)', NEW x \in Retrying(d)' PROVE x \in late
      BY DEF RetriesAreLate
    <2>1. x \in Retrier
      BY DEF Retrying
    <2> QED
      BY <2>1 DEF FinalInv, RetriesAreLate
  <1> QED
    BY <1>1, <1>2, <1>3

\* A copy that the worker takes in hand is of a delivery that has not succeeded.
LEMMA FinalTaken ==
    ASSUME FinalInv, NEW w \in Worker, NEW h \in batch[w],
           hand[w] = None, batch' = [batch EXCEPT ![w] = @ \ {h}],
           \A v \in Worker \ {w} : hand'[v] = hand[v], hand'[w].id = h.id,
           UNCHANGED <<row, retry, fetchers, late>>
    PROVE  HandIsApart' /\ SuccessesAreOut' /\ RetriesAreLate'
  <1>1. batch'[w] = batch[w] \ {h} /\ \A v \in Worker \ {w} : batch'[v] = batch[v]
    BY DEF FinalInv, IInv, TypeInv
  <1>2. \A k \in batch[w] : k.id = h.id => k = h
    BY DEF FinalInv, IInv, BatchesEarned
  <1>3. HandIsApart'
    BY <1>1, <1>2 DEF FinalInv, HandIsApart
  <1>4. \A d \in Delivery : Copied(d)' => Copied(d)
    BY <1>1 DEF Copied, Held
  <1>5. SuccessesAreOut'
    BY <1>4 DEF FinalInv, SuccessesAreOut, OneInstance, Succeeded, Exists
  <1>6. RetriesAreLate'
    BY DEF FinalInv, RetriesAreLate, Succeeded, Exists, Retrying
  <1> QED
    BY <1>3, <1>5, <1>6

LEMMA FinalFetch ==
    ASSUME FinalInv, NEW w \in Worker, FetchBatch(w)
    PROVE  HandIsApart' /\ SuccessesAreOut' /\ RetriesAreLate'
  <1> DEFINE got == {[id |-> d, row |-> row[d]] : d \in {x \in Delivery : Due(x)}}
  <1>1. /\ batch' = [batch EXCEPT ![w] = got] /\ fetchers' = fetchers \cup {w}
        /\ hand[w] = None /\ UNCHANGED <<row, hand, retry, late>>
    BY DEF FetchBatch, tables
  <1>2. batch'[w] = got /\ \A v \in Worker \ {w} : batch'[v] = batch[v]
    BY <1>1 DEF FinalInv, IInv, TypeInv
  <1>3. \A h \in got : ~Succeeded(h.id)
    BY DEF Due, Succeeded
  <1> HIDE DEF got
  <1>4. HandIsApart'
    BY <1>1, <1>2 DEF FinalInv, HandIsApart
  <1>5. OneInstance' => OneInstance
    <2>1. IsFiniteSet(fetchers') /\ fetchers \subseteq fetchers'
      BY <1>1, FS_AddElement DEF FinalInv, IInv, TypeInv
    <2>2. Cardinality(fetchers) <= Cardinality(fetchers') /\ IsFiniteSet(fetchers)
      BY <2>1, FS_Subset
    <2>3. Cardinality(fetchers) \in Nat /\ Cardinality(fetchers') \in Nat
      BY <2>1, <2>2, FS_CardinalityType
    <2> QED
      BY <2>2, <2>3 DEF OneInstance
  <1>6. SuccessesAreOut'
    <2> SUFFICES ASSUME OneInstance', NEW d \in Delivery, Succeeded(d)' PROVE ~Copied(d)'
      BY DEF SuccessesAreOut
    <2>1. Succeeded(d) /\ ~Copied(d)
      BY <1>1, <1>5 DEF FinalInv, SuccessesAreOut, Succeeded, Exists
    <2> QED
      BY <1>1, <1>2, <1>3, <2>1 DEF Copied, Held
  <1>7. RetriesAreLate'
    BY <1>1 DEF FinalInv, RetriesAreLate, Succeeded, Exists, Retrying
  <1> QED
    BY <1>4, <1>6, <1>7

LEMMA FinalWriteBack ==
    ASSUME FinalInv, NEW w \in Worker, WriteBack(w)
    PROVE  HandIsApart' /\ SuccessesAreOut' /\ RetriesAreLate'
  <1>1. /\ hand[w] # None /\ hand' = [hand EXCEPT ![w] = None]
        /\ UNCHANGED <<batch, retry, fetchers>>
    BY DEF WriteBack
  <1>2. hand'[w] = None /\ \A v \in Worker \ {w} : hand'[v] = hand[v]
    BY <1>1 DEF FinalInv, IInv, TypeInv
  <1>3. CASE row' = row /\ late' = late
    BY <1>1, <1>2, <1>3, FinalKept DEF Succeeded, Exists, Retrying
  <1>4. CASE Save(hand[w]) /\ late' = IF hand[w].row.status = "SUCCESS" THEN late \cup Retrying(hand[w].id) ELSE late
    <2> DEFINE g == hand[w].id
    <2>1. hand[w] \in Copy /\ g \in Delivery
      BY <1>1, Records DEF FinalInv, IInv, TypeInv
    <2>2. \A d \in Delivery : Succeeded(d)' => \/ d # g /\ Succeeded(d)
                                               \/ d = g /\ hand[w].row.status = "SUCCESS"
      BY <1>4, <2>1 DEF Save, Succeeded, Exists, FinalInv, IInv, TypeInv
    <2>3. HandIsApart'
      BY <1>1, <1>2 DEF FinalInv, HandIsApart
    <2>4. SuccessesAreOut'
      <3> SUFFICES ASSUME OneInstance', NEW d \in Delivery, Succeeded(d)' PROVE ~Copied(d)'
        BY DEF SuccessesAreOut
      <3>1. CASE d # g
        <4>1. ~Copied(d)
          BY <1>1, <2>2, <3>1 DEF FinalInv, SuccessesAreOut, OneInstance
        <4> QED
          BY <1>1, <1>2, <4>1 DEF Copied, Held
      <3>2. CASE d = g
        <4>1. \A v \in Worker : hand[v] # None \/ batch[v] # {} => v = w
          BY <1>1, CopiesAreFetched DEF FinalInv, OneInstance
        <4>2. \A h \in batch[w] : h.id # g
          BY <1>1 DEF FinalInv, HandIsApart
        <4> QED
          BY <1>1, <1>2, <3>2, <4>1, <4>2 DEF Copied, Held
      <3> QED
        BY <3>1, <3>2
    <2>5. RetriesAreLate'
      <3> SUFFICES ASSUME NEW d \in Delivery, Succeeded(d)' PROVE Retrying(d) \subseteq late'
        BY <1>1 DEF RetriesAreLate, Retrying
      <3>1. late \subseteq late'
        BY <1>4
      <3>2. d = g \/ Retrying(d) \subseteq late
        BY <2>2 DEF FinalInv, RetriesAreLate
      <3>3. d = g => Retrying(d) \subseteq late'
        BY <1>4, <2>2
      <3> QED
        BY <3>1, <3>2, <3>3
    <2> QED
      BY <2>3, <2>4, <2>5
  <1> QED
    BY <1>3, <1>4 DEF WriteBack

LEMMA FinalStep ==
    ASSUME FinalInv, [Next]_vars
    PROVE  FinalInv'
  <1> USE DEF tables, workers, ghosts
  <1>t. IInv /\ IInv' /\ TypeInv
    BY Step DEF FinalInv, IInv
  <1>1. ASSUME NEW s \in Sub, Delete(s) PROVE FinalInv'
    <2>1. \A d \in Delivery : Succeeded(d)' => Succeeded(d)
      BY <1>1 DEF Delete, Succeeded, Exists
    <2> QED
      BY <1>t, <1>1, <2>1, FinalKept DEF Delete, FinalInv, Retrying
  <1>2. ASSUME NEW s \in Sub, NEW st \in {"ACTIVE", "PAUSED"}, NEW u \in BOOLEAN, UpdateSubscription(s, st, u)
        PROVE  FinalInv'
    BY <1>t, <1>2, FinalKept DEF UpdateSubscription, FinalInv, Retrying, Succeeded, Exists
  <1>3. ASSUME NEW e \in Event, Dispatch(e) PROVE FinalInv'
    <2>1. \A d \in Delivery : Succeeded(d)' => Succeeded(d)
      <3>1. PICK ss \in SUBSET Matching(e) :
               row' = [d \in Delivery |-> IF d[1] = e /\ SubOf(d) \in ss
                          THEN [status |-> "PENDING", attempts |-> 0, due |-> TRUE] ELSE row[d]]
        BY <1>3 DEF Dispatch
      <3> QED
        BY <3>1 DEF Succeeded, Exists
    <2> QED
      BY <1>t, <1>3, <2>1, FinalKept DEF Dispatch, FinalInv, Retrying
  <1>4. ASSUME NEW d \in Delivery, BackoffEnds(d) PROVE FinalInv'
    <2>1. \A e \in Delivery : Succeeded(e)' => Succeeded(e)
      <3>1. row[d] \in Row /\ row[d].status = "PENDING" /\ row' = [row EXCEPT ![d].due = TRUE]
        BY <1>t, <1>4 DEF BackoffEnds, Exists, TypeInv
      <3>2. row'[d].status = "PENDING" /\ \A e \in Delivery \ {d} : row'[e] = row[e]
        BY <1>t, <3>1 DEF Row, TypeInv
      <3> QED
        BY <3>2 DEF Succeeded, Exists
    <2> QED
      BY <1>t, <1>4, <2>1, FinalKept DEF BackoffEnds, FinalInv, Retrying
  <1>5. ASSUME NEW w \in Worker, FetchBatch(w) \/ WriteBack(w) PROVE FinalInv'
    BY <1>t, <1>5, FinalFetch, FinalWriteBack DEF FinalInv
  <1>6. ASSUME NEW w \in Worker, Crash(w) PROVE FinalInv'
    <2>1. (\A v \in Worker : batch'[v] \subseteq batch[v]) /\ \A v \in Worker : hand'[v] = hand[v] \/ hand'[v] = None
      BY <1>t, <1>6 DEF Crash, TypeInv
    <2> QED
      BY <1>t, <1>6, <2>1, FinalKept DEF Crash, FinalInv, Retrying, Succeeded, Exists
  <1>7. ASSUME NEW w \in Worker, Start(w) PROVE FinalInv'
    BY <1>t, <1>7, FinalKept DEF Start, FinalInv, Retrying, Succeeded, Exists
  <1>8. ASSUME NEW w \in Worker, NEW h \in batch[w], GiveUp(w, h) \/ \E a \in {"2xx", "other"} : Post(w, h, a)
        PROVE  FinalInv'
    <2>1. h \in Copy
      BY <1>t DEF TypeInv
    <2>2. (\A v \in Worker \ {w} : hand'[v] = hand[v]) /\ hand'[w].id = h.id
      <3>1. CASE GiveUp(w, h)
        <4>1. [h EXCEPT !.row.status = "FAILED"].id = h.id
          BY <2>1 DEF Copy
        <4>2. hand' = [hand EXCEPT ![w] = [h EXCEPT !.row.status = "FAILED"]]
          BY <3>1 DEF GiveUp
        <4> QED
          BY <1>t, <4>1, <4>2 DEF TypeInv
      <3>2. ASSUME NEW a \in {"2xx", "other"}, Post(w, h, a)
            PROVE  (\A v \in Worker \ {w} : hand'[v] = hand[v]) /\ hand'[w].id = h.id
        <4> DEFINE c == [h.row EXCEPT !.attempts = @ + 1]
                   r == IF a = "2xx" THEN AfterSuccess(c) ELSE AfterFailure(c)
        <4>1. hand' = [hand EXCEPT ![w] = [h EXCEPT !.row = r]]
          BY <3>2 DEF Post
        <4> HIDE DEF r
        <4>2. [h EXCEPT !.row = r].id = h.id
          BY <2>1 DEF Copy
        <4> QED
          BY <1>t, <4>1, <4>2 DEF TypeInv
      <3> QED
        BY <1>8, <3>1, <3>2
    <2>3. /\ hand[w] = None /\ batch' = [batch EXCEPT ![w] = @ \ {h}]
          /\ UNCHANGED <<row, retry, fetchers, late>>
      BY <1>8 DEF GiveUp, Post
    <2> QED
      BY <1>t, <2>2, <2>3, FinalTaken DEF FinalInv
  <1>9. ASSUME NEW x \in Retrier, RetryWrite(x) PROVE FinalInv'
    <2>1. retry[x].id \in Delivery /\ retry' = [retry EXCEPT ![x] = [pc |-> "done"]]
      BY <1>t, <1>9 DEF RetryWrite, TypeInv
    <2>2. \A d \in Delivery : Succeeded(d)' => Succeeded(d)
      BY <1>t, <1>9, <2>1 DEF RetryWrite, Save, Succeeded, Exists, TypeInv
    <2>3. \A y \in Retrier, d \in Delivery : y \in Retrying(d)' => y \in Retrying(d)
      BY <1>t, <2>1 DEF Retrying, TypeInv
    <2> QED
      BY <1>t, <1>9, <2>2, <2>3, FinalKept DEF RetryWrite, FinalInv
  <1>10. ASSUME NEW x \in Retrier, NEW d \in Delivery, RetryRead(x, d) PROVE FinalInv'
    <2>1. retry' = [retry EXCEPT ![x] = [pc |-> "read", id |-> d]] /\ ~Succeeded(d)
      BY <1>10 DEF RetryRead, Succeeded
    <2>2. \A y \in Retrier, e \in Delivery : y \in Retrying(e)' => y \in Retrying(e) \/ ~Succeeded(e)
      BY <1>t, <2>1 DEF Retrying, TypeInv
    <2> QED
      BY <1>t, <1>10, <2>2, FinalKept DEF RetryRead, FinalInv, Succeeded, Exists
  <1>11. CASE UNCHANGED vars
    BY <1>t, <1>11, FinalKept DEF vars, FinalInv, Retrying, Succeeded, Exists
  <1> QED
    BY <1>1, <1>2, <1>3, <1>4, <1>5, <1>6, <1>7, <1>8, <1>9, <1>10, <1>11 DEF Next

\* While one instance delivers, no copy is written over a success, whatever crashes,
\* fails and is retried; only a retry that read too early resets it.
THEOREM SuccessFinal == Spec => SuccessIsFinal
  <1> DEFINE Final(d) == (Exists(d) /\ row[d].status = "SUCCESS") =>
                            \/ ~Exists(d)' \/ row'[d].status = "SUCCESS"
                            \/ \E x \in late \cap Retrying(d) : retry'[x].pc = "done"
  <1>1. ASSUME FinalInv, [Next]_vars, OneInstance', NEW d \in Delivery PROVE Final(d)
    <2> USE DEF tables, workers, ghosts
    <2>t. IInv /\ TypeInv
      BY <1>1 DEF FinalInv, IInv
    <2> SUFFICES ASSUME Succeeded(d), Exists(d)', row'[d].status # "SUCCESS"
                 PROVE  \E x \in late \cap Retrying(d) : retry'[x].pc = "done"
      BY DEF Succeeded
    <2>0. row'[d] # row[d]
      BY DEF Succeeded
    <2>1. ASSUME NEW w \in Worker, WriteBack(w) PROVE FALSE
      <3>1. fetchers' = fetchers /\ hand[w] # None /\ row' # row
        BY <2>0, <2>1 DEF WriteBack
      <3>2. hand[w].id # d
        BY <1>1, <3>1 DEF FinalInv, SuccessesAreOut, OneInstance, Copied, Held
      <3> QED
        BY <2>t, <2>0, <2>1, <3>1, <3>2 DEF WriteBack, Save, TypeInv
    <2>2. ASSUME NEW x \in Retrier, RetryWrite(x) PROVE \E y \in late \cap Retrying(d) : retry'[y].pc = "done"
      <3>1. retry[x].id = d
        BY <2>t, <2>0, <2>2 DEF RetryWrite, Save, TypeInv
      <3>2. x \in Retrying(d) /\ retry'[x].pc = "done"
        BY <2>t, <2>2, <3>1 DEF RetryWrite, Retrying, TypeInv
      <3> QED
        BY <1>1, <3>2 DEF FinalInv, RetriesAreLate
    <2>3. ASSUME NEW e \in Event, Dispatch(e) PROVE FALSE
      <3>1. PICK ss \in SUBSET Matching(e) :
               row' = [x \in Delivery |-> IF x[1] = e /\ SubOf(x) \in ss
                          THEN [status |-> "PENDING", attempts |-> 0, due |-> TRUE] ELSE row[x]]
        BY <2>3 DEF Dispatch
      <3>2. d[1] = e /\ e \notin dispatched
        BY <2>0, <2>3, <3>1 DEF Dispatch
      <3> QED
        BY <2>t, <3>2 DEF Succeeded, IInv, RowsEarned
    <2>4. ASSUME NEW s \in Sub, Delete(s) PROVE FALSE
      BY <2>0, <2>4 DEF Delete, Exists
    <2>5. ASSUME NEW e \in Delivery, BackoffEnds(e) PROVE FALSE
      BY <2>t, <2>0, <2>5 DEF BackoffEnds, Succeeded, TypeInv
    <2>6. ASSUME NEW w \in Worker, FetchBatch(w) \/ Crash(w) \/ Start(w) \/ \E h \in batch[w] : GiveUp(w, h)
          PROVE  FALSE
      BY <2>0, <2>6 DEF FetchBatch, Crash, Start, GiveUp
    <2>7. ASSUME NEW w \in Worker, NEW h \in batch[w], NEW a \in {"2xx", "other"}, Post(w, h, a) PROVE FALSE
      BY <2>0, <2>7 DEF Post
    <2>8. ASSUME NEW s \in Sub, NEW st \in {"ACTIVE", "PAUSED"}, NEW u \in BOOLEAN, UpdateSubscription(s, st, u)
          PROVE  FALSE
      BY <2>0, <2>8 DEF UpdateSubscription
    <2>9. ASSUME NEW x \in Retrier, NEW e \in Delivery, RetryRead(x, e) PROVE FALSE
      BY <2>0, <2>9 DEF RetryRead
    <2>10. CASE UNCHANGED vars
      BY <2>0, <2>10 DEF vars
    <2> QED
      BY <1>1, <2>1, <2>2, <2>3, <2>4, <2>5, <2>6, <2>7, <2>8, <2>9, <2>10 DEF Next
  <1>2. Init => FinalInv
    <2> SUFFICES ASSUME Init PROVE HandIsApart /\ SuccessesAreOut /\ RetriesAreLate
      BY InitHolds DEF FinalInv
    <2> QED
      BY DEF Init, HandIsApart, SuccessesAreOut, RetriesAreLate, Succeeded, Exists
  <1>3. FinalInv /\ [Next]_vars => FinalInv'
    BY FinalStep
  <1>4. FinalInv /\ [Next]_vars => [OneInstance' => \A d \in Delivery : Final(d)]_vars
    BY <1>1
  <1> QED
    BY <1>2, <1>3, <1>4, PTL DEF Spec, SuccessIsFinal
===============================================================================
