-------------------------- MODULE WebhookDelivery --------------------------
(***************************************************************************)
(* webhook-service: events become delivery rows for the subscriptions that *)
(* match, and every instance runs a delivery worker that POSTs the due     *)
(* rows, backs off and gives up.  A row is read into a batch long before   *)
(* its turn comes, and is written back as a whole: rows carry no version   *)
(* and are not locked, and RetryDelivery and other instances work on the   *)
(* same rows meanwhile.                                                    *)
(*                                                                         *)
(* Payloads, signatures and the response kept for display are left out; of *)
(* a URL the model keeps whether http.NewRequest takes it (the service     *)
(* only asks that it is not empty), of next_retry_at whether it has passed.*)
(***************************************************************************)
EXTENDS Naturals, FiniteSets

CONSTANTS
    Event,         \* events on the stream that map to one webhook event name
    Sub,           \* subscriptions that name it
    Worker,        \* service instances
    Retrier,       \* RetryDelivery calls; each runs at most once
    MaxRetries,    \* max_retries of a delivery (5 in the code)
    MaxFaults,     \* bound: crashes, failed statements
    None

ASSUME WebhookAssumption == MaxRetries \in Nat \ {0} /\ MaxFaults \in Nat

Delivery == Event \X Sub
SubOf(d) == d[2]

Row == [status : {"PENDING", "SUCCESS", "FAILED"}, attempts : Nat, due : BOOLEAN]
Copy == [id : Delivery, row : Row]     \* a row as somebody carries it
ASSUME NullAssumption == None \notin Row \cup Copy

VARIABLES
    sub,           \* status of each subscription
    url,           \* can a request be built for its URL
    dispatched,    \* events the stream consumer has dispatched
    row,           \* webhook_deliveries
    batch,         \* rows each worker has fetched and not reached yet
    hand,          \* the row a worker is about to write back
    up,            \* workers that run
    retry,         \* the RetryDelivery calls and the row each has read
    posts,         \* POSTs sent for each delivery
    accepted,      \* deliveries the endpoint has answered with 2xx
    granted,       \* RetryDelivery resets of each delivery
    fetchers,      \* workers that have ever fetched a batch
    spared,        \* deliveries failed because no request could be built
    late,          \* RetryDelivery calls that had read when a success was stored
    faults

tables == <<sub, url, row>>
workers == <<batch, hand, up>>
ghosts == <<posts, accepted, granted, fetchers, spared, late>>
vars == <<sub, url, dispatched, row, batch, hand, up, retry, posts, accepted, granted, fetchers,
          spared, late, faults>>

Exists(d) == row[d] # None
Fault == faults < MaxFaults /\ faults' = faults + 1

\* deliveryRepo.Update: every mutable column from the copy, WHERE id only; no
\* row, no effect.
Save(h) == row' = IF Exists(h.id) THEN [row EXCEPT ![h.id] = h.row] ELSE row

Init ==
    /\ sub \in [Sub -> {"ACTIVE", "PAUSED"}] /\ url \in [Sub -> BOOLEAN]
    /\ dispatched = {} /\ faults = 0
    /\ row = [d \in Delivery |-> None]
    /\ batch = [w \in Worker |-> {}] /\ hand = [w \in Worker |-> None] /\ up = Worker
    /\ retry = [x \in Retrier |-> [pc |-> "idle"]]
    /\ posts = [d \in Delivery |-> 0] /\ accepted = {}
    /\ granted = [d \in Delivery |-> 0] /\ fetchers = {} /\ spared = {} /\ late = {}

(***************************************************************************)
(* Subscriptions and events.                                               *)
(***************************************************************************)
\* UpdateSubscription by its owner: any status and any URL the caller names is stored;
\* PAUSED stands for every status but ACTIVE.
UpdateSubscription(s, st, u) ==
    /\ sub[s] # "DELETED"
    /\ sub' = [sub EXCEPT ![s] = st] /\ url' = [url EXCEPT ![s] = u]
    /\ UNCHANGED <<dispatched, row, workers, retry, ghosts, faults>>

\* DeleteSubscription: the deliveries go with it (ON DELETE CASCADE).
Delete(s) ==
    /\ sub[s] # "DELETED"
    /\ sub' = [sub EXCEPT ![s] = "DELETED"]
    /\ row' = [d \in Delivery |-> IF SubOf(d) = s THEN None ELSE row[d]]
    /\ UNCHANGED <<url, dispatched, workers, retry, ghosts, faults>>

\* FindByEvent: the active subscriptions that name the event, of any provider.
Matching(e) == {s \in Sub : sub[s] = "ACTIVE"}

\* DispatchEvent: one PENDING row per match; a row that cannot be inserted is
\* skipped and the event counts as dispatched.
Dispatch(e) ==
    /\ e \notin dispatched
    /\ dispatched' = dispatched \cup {e}
    /\ \E ss \in SUBSET Matching(e) :
          /\ \/ ss = Matching(e) /\ faults' = faults
             \/ ss # Matching(e) /\ Fault
          /\ row' = [d \in Delivery |-> IF d[1] = e /\ SubOf(d) \in ss
                        THEN [status |-> "PENDING", attempts |-> 0, due |-> TRUE] ELSE row[d]]
    /\ UNCHANGED <<sub, url, workers, retry, ghosts>>

(***************************************************************************)
(* The delivery worker.                                                    *)
(***************************************************************************)
\* next_retry_at passes.
BackoffEnds(d) ==
    /\ Exists(d) /\ row[d].status = "PENDING" /\ ~row[d].due
    /\ row' = [row EXCEPT ![d].due = TRUE]
    /\ UNCHANGED <<sub, url, dispatched, workers, retry, ghosts, faults>>

\* Mutant of Due: scheduled retries are forgotten.
DueFirstOnly(d) == Exists(d) /\ row[d].status = "PENDING" /\ row[d].attempts = 0

Due(d) == Exists(d) /\ row[d].status = "PENDING" /\ row[d].due

\* Mutant of FetchBatch: the ticker does not wait for the batch before.
FetchBatchAnyTime(w) ==
    /\ w \in up /\ batch[w] = {}
    /\ \E d \in Delivery : Due(d)
    /\ batch' = [batch EXCEPT ![w] = {[id |-> d, row |-> row[d]] : d \in {x \in Delivery : Due(x)}}]
    /\ fetchers' = fetchers \cup {w}
    /\ UNCHANGED <<tables, dispatched, hand, up, retry, posts, accepted, granted, spared, late, faults>>

\* processBatch: GetPendingRetries, a plain SELECT of the due rows.
FetchBatch(w) ==
    /\ w \in up /\ batch[w] = {} /\ hand[w] = None
    /\ \E d \in Delivery : Due(d)
    /\ batch' = [batch EXCEPT ![w] = {[id |-> d, row |-> row[d]] : d \in {x \in Delivery : Due(x)}}]
    /\ fetchers' = fetchers \cup {w}
    /\ UNCHANGED <<tables, dispatched, hand, up, retry, posts, accepted, granted, spared, late, faults>>

\* handleFailure, on the copy whose attempts count the POST just made.
AfterFailure(r) ==
    IF r.attempts >= MaxRetries THEN [r EXCEPT !.status = "FAILED"] ELSE [r EXCEPT !.due = FALSE]
AfterSuccess(r) == [r EXCEPT !.status = "SUCCESS"]

\* Mutant of Post: the attempt is not counted.
PostUncounted(w, h, answer) ==
    /\ hand[w] = None /\ h \in batch[w] /\ sub[SubOf(h.id)] # "DELETED" /\ url[SubOf(h.id)]
    /\ batch' = [batch EXCEPT ![w] = @ \ {h}]
    /\ hand' = [hand EXCEPT ![w] = [h EXCEPT !.row = IF answer = "2xx" THEN AfterSuccess(h.row) ELSE AfterFailure(h.row)]]
    /\ posts' = [posts EXCEPT ![h.id] = @ + 1]
    /\ accepted' = IF answer = "2xx" THEN accepted \cup {h.id} ELSE accepted
    /\ UNCHANGED <<tables, dispatched, up, retry, granted, fetchers, spared, late, faults>>

\* deliver, up to the answer: the subscription is loaded for its URL and secret
\* (its status is not looked at), a request is built, the attempt is counted on
\* the copy, the POST is sent and answered.
Post(w, h, answer) ==
    /\ hand[w] = None /\ h \in batch[w] /\ sub[SubOf(h.id)] # "DELETED" /\ url[SubOf(h.id)]
    /\ batch' = [batch EXCEPT ![w] = @ \ {h}]
    /\ LET r == [h.row EXCEPT !.attempts = @ + 1]
       IN  hand' = [hand EXCEPT ![w] = [h EXCEPT !.row = IF answer = "2xx" THEN AfterSuccess(r) ELSE AfterFailure(r)]]
    /\ posts' = [posts EXCEPT ![h.id] = @ + 1]
    /\ accepted' = IF answer = "2xx" THEN accepted \cup {h.id} ELSE accepted
    /\ UNCHANGED <<tables, dispatched, up, retry, granted, fetchers, spared, late, faults>>

\* deliver without an attempt, markFailed: the subscription cannot be loaded,
\* deleted or not, or http.NewRequestWithContext does not take its URL.
GiveUp(w, h) ==
    /\ hand[w] = None /\ h \in batch[w]
    /\ \/ sub[SubOf(h.id)] = "DELETED" /\ UNCHANGED <<faults, spared>>
       \/ sub[SubOf(h.id)] # "DELETED" /\ Fault /\ spared' = spared
       \/ /\ sub[SubOf(h.id)] # "DELETED" /\ ~url[SubOf(h.id)] /\ faults' = faults
          /\ spared' = spared \cup {h.id}
    /\ batch' = [batch EXCEPT ![w] = @ \ {h}]
    /\ hand' = [hand EXCEPT ![w] = [h EXCEPT !.row.status = "FAILED"]]
    /\ UNCHANGED <<tables, dispatched, up, retry, posts, accepted, granted, fetchers, late>>

\* RetryDelivery calls that have read the delivery and not reset it yet.
Retrying(d) == {x \in Retrier : retry[x].pc = "read" /\ retry[x].id = d}

\* The copy is written back; if the UPDATE fails, that is logged.
WriteBack(w) ==
    /\ hand[w] # None
    /\ \/ /\ Save(hand[w]) /\ faults' = faults
          /\ late' = IF hand[w].row.status = "SUCCESS" THEN late \cup Retrying(hand[w].id) ELSE late
       \/ row' = row /\ late' = late /\ Fault
    /\ hand' = [hand EXCEPT ![w] = None]
    /\ UNCHANGED <<sub, url, dispatched, batch, up, retry, posts, accepted, granted, fetchers, spared>>

\* The instance dies or is shut down, between any two statements; what it held is
\* gone.  Somebody may start it again.
Crash(w) ==
    /\ w \in up /\ up' = up \ {w} /\ Fault
    /\ batch' = [batch EXCEPT ![w] = {}] /\ hand' = [hand EXCEPT ![w] = None]
    /\ UNCHANGED <<tables, dispatched, retry, ghosts>>

Start(w) ==
    /\ w \notin up /\ up' = up \cup {w}
    /\ UNCHANGED <<tables, dispatched, batch, hand, retry, ghosts, faults>>

(***************************************************************************)
(* RetryDelivery.                                                          *)
(***************************************************************************)
RetryRead(x, d) ==
    /\ retry[x].pc = "idle" /\ Exists(d) /\ row[d].status # "SUCCESS"
    /\ retry' = [retry EXCEPT ![x] = [pc |-> "read", id |-> d]]
    /\ UNCHANGED <<tables, dispatched, workers, ghosts, faults>>

RetryWrite(x) ==
    /\ retry[x].pc = "read"
    /\ Save([id |-> retry[x].id, row |-> [status |-> "PENDING", attempts |-> 0, due |-> TRUE]])
    /\ granted' = [granted EXCEPT ![retry[x].id] = @ + 1]
    /\ retry' = [retry EXCEPT ![x] = [pc |-> "done"]]
    /\ UNCHANGED <<sub, url, dispatched, workers, posts, accepted, fetchers, spared, late, faults>>

Next ==
    \/ \E s \in Sub :
          \/ Delete(s)
          \/ \E st \in {"ACTIVE", "PAUSED"}, u \in BOOLEAN : UpdateSubscription(s, st, u)
    \/ \E e \in Event : Dispatch(e)
    \/ \E d \in Delivery : BackoffEnds(d)
    \/ \E w \in Worker :
          \/ FetchBatch(w) \/ WriteBack(w) \/ Crash(w) \/ Start(w)
          \/ \E h \in batch[w] : GiveUp(w, h) \/ \E a \in {"2xx", "other"} : Post(w, h, a)
    \/ \E x \in Retrier : RetryWrite(x) \/ \E d \in Delivery : RetryRead(x, d)

Spec == Init /\ [][Next]_vars

\* One step of deliver.
Advance(w) == WriteBack(w) \/ \E h \in batch[w] : GiveUp(w, h) \/ \E a \in {"2xx", "other"} : Post(w, h, a)

\* The ticker of an instance that runs fires, deliver terminates (the client times
\* out after 10 s), backoffs pass.  Nobody has to start an instance that died.
Fairness ==
    /\ \A w \in Worker : WF_vars(FetchBatch(w)) /\ WF_vars(Advance(w))
    /\ \A d \in Delivery : WF_vars(BackoffEnds(d))
FairSpec == Spec /\ Fairness

(***************************************************************************)
(* Properties.                                                             *)
(***************************************************************************)
\* A delivery that is still pending has attempts left, in the table and in every
\* copy a worker carries, whoever wrote it last: what the worker fetches it may
\* POST.
PendingHasAttemptsLeft ==
    /\ \A d \in Delivery : Exists(d) /\ row[d].status = "PENDING" => row[d].attempts < MaxRetries
    /\ \A w \in Worker : \A h \in batch[w] : h.row.attempts < MaxRetries

\* What the table calls a success, the endpoint accepted.
SuccessWasAccepted == \A d \in Delivery : Exists(d) /\ row[d].status = "SUCCESS" => d \in accepted

\* Without faults a delivery is given up only after all its attempts, or when no
\* request could be built for the URL its subscription had at the time.
FailedWasExhausted ==
    \A d \in Delivery : (faults = 0 /\ Exists(d) /\ row[d].status = "FAILED") =>
                           \/ row[d].attempts = MaxRetries /\ posts[d] >= MaxRetries
                           \/ d \in spared

\* While one instance delivers, the endpoint sees at most max_retries POSTs of a
\* delivery, as many again for each RetryDelivery that was granted, and one more
\* for each crash or failed UPDATE that makes the worker forget a POST it sent.
OneInstance == Cardinality(fetchers) <= 1
PostsAreLimited ==
    OneInstance => \A d \in Delivery : posts[d] <= MaxRetries * (1 + granted[d]) + faults

\* What the table says of a delivery was earned, whoever wrote the row last and
\* however old the copy was: pending with attempts left, a success by an answer, a
\* failure by all its attempts or an unusable URL, and the endpoint saw no more than
\* its share of POSTs.
StatusIsEarned ==
    /\ PendingHasAttemptsLeft
    /\ SuccessWasAccepted
    /\ FailedWasExhausted
    /\ PostsAreLimited

\* While one instance delivers, a success stays one until its subscription goes: no
\* old copy is written over it, whatever the worker still carries.  The one thing that
\* resets it is a RetryDelivery call that read the row before the success was stored
\* and looks no more; a call that finds a success is refused.
SuccessIsFinal ==
    [][OneInstance' =>
          \A d \in Delivery : (Exists(d) /\ row[d].status = "SUCCESS") =>
             \/ ~Exists(d)' \/ row'[d].status = "SUCCESS"
             \/ \E x \in late \cap Retrying(d) : retry'[x].pc = "done"]_vars

\* As long as some instance stays up no delivery is pending for ever: it succeeds,
\* fails or is deleted.
DeliveriesSettle ==
    <>[](up # {}) =>
        \A d \in Delivery : (Exists(d) /\ row[d].status = "PENDING") ~>
                               (~Exists(d) \/ row[d].status # "PENDING")
=============================================================================
