------------------------- MODULE CallbackLifecycle -------------------------
(***************************************************************************)
(* The life of a callback request.  A service provider asks to call a      *)
(* customer; the customer approves (naming a slot) or rejects; the worker  *)
(* turns the published events into notifications; the hourly cleanup is    *)
(* meant to expire what nobody answered.                                   *)
(*                                                                         *)
(* communication-service answers each gRPC call in a goroutine of its own  *)
(* and takes no lock, so a handler is a process that can be interrupted    *)
(* between its SELECT, its UPDATE and its XADD.  The gateway's provider    *)
(* API writes the same table with a statement of its own.  Early returns   *)
(* that change nothing (unknown id, wrong owner, policy denial) are        *)
(* guards: the call simply does not start.                                 *)
(***************************************************************************)
EXTENDS Naturals, Sequences, FiniteSets

CONSTANTS
    Request,       \* ids of callback requests (fresh UUIDs)
    Slot,          \* call slots a customer can approve
    Call,          \* handler invocations; each runs at most once
    MaxInFlight,   \* handlers that may be between two of their steps at once
    None           \* SQL NULL, and "no event in hand"

ASSUME CallbackAssumption == MaxInFlight \in Nat \ {0} /\ None \notin Slot

VARIABLES
    row,       \* callback_requests: status, responded_at set?, approved slot
    aged,      \* requests older than the expiry interval
    call,      \* the handlers
    stream,    \* Redis stream "trustinbox:events": every entry ever added
    channel,   \* the events published on Pub/Sub
    cursor,    \* entries handed to the worker's consumer group so far
    workerUp,  \* is the worker process running
    inHand,    \* event and row copy the worker holds before it notifies
    notices,   \* notifications the worker asked notification-service for
    sweep,     \* outcome of the last cleanup cycle
    stale,     \* history: approvals whose request was decided after they read it
    again      \* history: requests whose decision was written over

rows == <<row, aged, stale, again>>
bus  == <<stream, channel>>
work == <<cursor, inHand, notices, workerUp>>
vars == <<row, aged, call, stream, channel, cursor, inHand, notices,
          workerUp, sweep, stale, again>>

Decision == {"APPROVED", "REJECTED"}
Status   == {"ABSENT", "PENDING", "EXPIRED"} \cup Decision
SlotOrNull == Slot \cup {None}
Row      == [status: Status, responded: BOOLEAN, slot: SlotOrNull]
Writer   == {"service", "gateway"}
Event    == [says: {"PENDING"} \cup Decision, req: Request, by: Writer]
Handler  == [pc: {"checked", "written"}, sets: {"PENDING"} \cup Decision,
             by: Writer, req: Request, slot: SlotOrNull]
Parked   == [pc: {"idle", "done"}]
Notice   == [kind: {"request", "reminder"}, req: Request]
InHand   == [event: Event, copy: Row]

Exists(r)  == row[r].status # "ABSENT"
InFlight   == {c \in Call : call[c].pc \in {"checked", "written"}}
EventsIn(s) == {s[i] : i \in 1..Len(s)}

Init ==
    /\ row = [r \in Request |-> [status |-> "ABSENT", responded |-> FALSE, slot |-> None]]
    /\ aged = {}
    /\ call = [c \in Call |-> [pc |-> "idle"]]
    /\ stream = <<>> /\ channel = {}
    /\ cursor = 0 /\ inHand = None /\ notices = {} /\ workerUp = TRUE
    /\ sweep = "none" /\ stale = {} /\ again = {}

(***************************************************************************)
(* The handlers.                                                           *)
(***************************************************************************)
MayStart(c) == call[c].pc = "idle" /\ Cardinality(InFlight) < MaxInFlight

Approving(c, r) == call[c].pc = "checked" /\ call[c].sets = "APPROVED" /\ call[c].req = r

\* What the write of a decision on r by c means for the others.
Decides(c, r) ==
    /\ stale' = (stale \cup {d \in Call : Approving(d, r)}) \ {c}
    /\ again' = IF row[r].responded THEN again \cup {r} ELSE again

Enter(c, at, sets, by, r, s) ==
    /\ call' = [call EXCEPT ![c] = [pc |-> at, sets |-> sets, by |-> by, req |-> r, slot |-> s]]

\* CreateCallbackRequest, once the policy (if wired) allowed it: a fresh id,
\* status PENDING, INSERT.  The event is still to be published.
Create(c, r) ==
    /\ MayStart(c) /\ ~Exists(r)
    /\ row' = [row EXCEPT ![r].status = "PENDING"]
    /\ Enter(c, "written", "PENDING", "service", r, None)
    /\ UNCHANGED <<aged, stale, again, bus, work, sweep>>

\* Mutants of CheckApprove: the write is missing; the status is not tested.
CheckApproveUnwritten(c, r, s) ==
    /\ MayStart(c) /\ row[r].status = "PENDING"
    /\ Enter(c, "written", "APPROVED", "service", r, s)
    /\ UNCHANGED <<rows, bus, work, sweep>>
CheckApproveAny(c, r, s) ==
    /\ MayStart(c) /\ Exists(r)
    /\ Enter(c, "checked", "APPROVED", "service", r, s)
    /\ UNCHANGED <<rows, bus, work, sweep>>

\* ApproveCallbackRequest reads the row and lets only a PENDING one pass.
CheckApprove(c, r, s) ==
    /\ MayStart(c) /\ row[r].status = "PENDING"
    /\ Enter(c, "checked", "APPROVED", "service", r, s)
    /\ UNCHANGED <<rows, bus, work, sweep>>

\* RejectCallbackRequest reads the row but never looks at its status.
CheckReject(c, r) ==
    /\ MayStart(c) /\ Exists(r)
    /\ Enter(c, "checked", "REJECTED", "service", r, None)
    /\ UNCHANGED <<rows, bus, work, sweep>>

\* Mutant of Write: the approval stores the slot and leaves the status.
WriteSlotOnly(c) ==
    /\ call[c].pc = "checked"
    /\ row' = [row EXCEPT ![call[c].req] =
                 IF call[c].sets = "APPROVED" THEN [@ EXCEPT !.responded = TRUE, !.slot = call[c].slot]
                 ELSE [@ EXCEPT !.status = "REJECTED", !.responded = TRUE]]
    /\ Decides(c, call[c].req)
    /\ call' = [call EXCEPT ![c].pc = "written"]
    /\ UNCHANGED <<aged, bus, work, sweep>>

\* callbackRepo.Approve / Reject: UPDATE ... WHERE id = $n, whatever the
\* status is by now; Reject leaves approved_slot_* as it finds them.
Write(c) ==
    /\ call[c].pc = "checked"
    /\ row' = [row EXCEPT ![call[c].req] =
                 [status |-> call[c].sets, responded |-> TRUE,
                  slot |-> IF call[c].sets = "APPROVED" THEN call[c].slot ELSE @.slot]]
    /\ Decides(c, call[c].req)
    /\ call' = [call EXCEPT ![c].pc = "written"]
    /\ UNCHANGED <<aged, bus, work, sweep>>

\* dbUpdateCallbackStatus in the gateway: one UPDATE scoped by id and
\* provider, no status in its WHERE clause, no slot in its SET clause.
ProviderUpdate(c, r, d) ==
    /\ MayStart(c) /\ Exists(r)
    /\ row' = [row EXCEPT ![r].status = d, ![r].responded = TRUE]
    /\ Decides(c, r)
    /\ Enter(c, "written", d, "gateway", r, None)
    /\ UNCHANGED <<aged, bus, work, sweep>>

\* publishEvent: the service's DualPublisher adds to the stream first and
\* publishes on the channel only if that worked, best effort; the gateway
\* publishes on the channel alone.  Every failure is logged and forgotten.
Publish(c) ==
    /\ call[c].pc = "written"
    /\ LET e == [says |-> call[c].sets, req |-> call[c].req, by |-> call[c].by]
       IN  \/ e.by = "service" /\ stream' = Append(stream, e) /\ channel' \in {channel, channel \cup {e}}
           \/ e.by = "gateway" /\ stream' = stream /\ channel' = channel \cup {e}
    /\ call' = [call EXCEPT ![c] = [pc |-> "done"]]
    /\ UNCHANGED <<rows, work, sweep>>

\* The handler ends early: its statement or its publish fails, its context
\* is cancelled, or the process dies.  What it has written stays.
Abort(c) ==
    /\ c \in InFlight
    /\ call' = [call EXCEPT ![c] = [pc |-> "done"]]
    /\ UNCHANGED <<rows, bus, work, sweep>>

(***************************************************************************)
(* The worker (one goroutine) and its cleanup ticker.                      *)
(***************************************************************************)
\* Mutant of Fetch: an entry without a processor is left where it is.
FetchStuck ==
    /\ workerUp /\ inHand = None /\ cursor < Len(stream) /\ stream[cursor + 1].says # "REJECTED"
    /\ cursor' = cursor + 1
    /\ inHand' = [event |-> stream[cursor + 1], copy |-> row[stream[cursor + 1].req]]
    /\ UNCHANGED <<rows, call, bus, notices, sweep, workerUp>>

\* CallbackReminderProcessor.ProcessEvent up to GetCallbackRequest.  An entry
\* leaves the group's backlog when it is read, before it is processed;
\* Dispatcher.Handle has no case for callback.rejected.
Fetch ==
    /\ workerUp /\ inHand = None /\ cursor < Len(stream)
    /\ cursor' = cursor + 1
    /\ LET e == stream[cursor + 1]
       IN  inHand' = IF e.says = "REJECTED" THEN None ELSE [event |-> e, copy |-> row[e.req]]
    /\ UNCHANGED <<rows, call, bus, notices, sweep, workerUp>>

\* The rest of ProcessEvent: a request notice, or a reminder if the copy has a
\* slot that starts within 30 minutes.  An error from notification-service, or
\* a slot that is not near, gives no notice; the entry is acknowledged anyway.
Notify ==
    /\ inHand # None
    /\ LET r == inHand.event.req
           n == [kind |-> IF inHand.event.says = "PENDING" THEN "request" ELSE "reminder",
                 req |-> r]
           due == inHand.event.says = "PENDING" \/ inHand.copy.slot # None
       IN  notices' \in {notices} \cup (IF due THEN {notices \cup {n}} ELSE {})
    /\ inHand' = None
    /\ UNCHANGED <<rows, call, bus, cursor, sweep, workerUp>>

\* Mutant of WorkerCrash: the restarted consumer skips one entry.
WorkerCrashSkip ==
    /\ workerUp /\ workerUp' = FALSE
    /\ inHand' = None /\ cursor' = cursor + 1
    /\ UNCHANGED <<rows, call, bus, notices, sweep>>

\* The worker dies or is shut down; what it holds nobody else will be given.
WorkerCrash ==
    /\ workerUp /\ workerUp' = FALSE
    /\ inHand' = None
    /\ UNCHANGED <<rows, call, bus, cursor, notices, sweep>>

\* Somebody starts it again; its group remembers the cursor.
WorkerStart ==
    /\ ~workerUp /\ workerUp' = TRUE
    /\ UNCHANGED <<rows, call, bus, cursor, inHand, notices, sweep>>

Age(r) ==
    /\ Exists(r) /\ r \notin aged
    /\ aged' = aged \cup {r}
    /\ UNCHANGED <<row, call, stale, again, bus, work, sweep>>

\* The columns of callback_requests, and those expireCallbackRequests names.
CallbackColumns == {"id", "user_id", "service_provider_id", "requested_by_sp_user_id",
                    "reason", "details", "status", "requested_at", "responded_at",
                    "approved_slot_start", "approved_slot_end"}
ExpiryColumns   == {"status", "updated_at", "created_at"}

\* expireCallbackRequests: a statement that names a column the table does not
\* have fails as a whole; RunAll logs the error and goes on.
ExpireSweep ==
    /\ workerUp
    /\ IF ExpiryColumns \subseteq CallbackColumns
       THEN /\ row' = [r \in Request |-> IF r \in aged /\ row[r].status = "PENDING"
                                         THEN [row[r] EXCEPT !.status = "EXPIRED"] ELSE row[r]]
            /\ sweep' = "ok"
       ELSE row' = row /\ sweep' = "error"
    /\ UNCHANGED <<aged, call, stale, again, bus, work>>

Next ==
    \/ \E c \in Call, r \in Request :
          \/ Create(c, r)
          \/ \E s \in Slot : CheckApprove(c, r, s)
          \/ CheckReject(c, r)
          \/ \E d \in Decision : ProviderUpdate(c, r, d)
    \/ \E c \in Call : Write(c) \/ Publish(c) \/ Abort(c)
    \/ Fetch \/ Notify \/ WorkerCrash \/ WorkerStart
    \/ \E r \in Request : Age(r)
    \/ ExpireSweep

Spec == Init /\ [][Next]_vars

\* The consumer goroutine of a worker that is running keeps reading and
\* processing; nobody has to call, and nobody has to start a worker that died.
Fairness == WF_vars(Fetch) /\ WF_vars(Notify)
FairSpec == Spec /\ Fairness

(***************************************************************************)
(* Properties.                                                             *)
(***************************************************************************)
\* Every variable has its type.
TypeOK ==
    /\ row \in [Request -> Row]
    /\ aged \subseteq Request
    /\ call \in [Call -> Handler \cup Parked]
    /\ stream \in Seq(Event) /\ channel \subseteq Event
    /\ cursor \in 0..Len(stream)
    /\ inHand \in InHand \cup {None} /\ workerUp \in BOOLEAN
    /\ notices \subseteq Notice
    /\ sweep \in {"none", "ok", "error"}
    /\ stale \subseteq Call /\ again \subseteq Request

\* Nothing outruns what it tells of, whatever handlers race and wherever they die.
\* When the stream or the channel says that a request exists or was decided, the
\* row already says so; the customer is reminded of a call only after a handler of
\* this service published an approval of it, and asked about a request only after
\* the request was published, although the worker reads the row, not the event.
NothingOutrunsTheRow ==
    \A e \in EventsIn(stream) \cup channel :
       /\ Exists(e.req)
       /\ e.says \in Decision => row[e.req].responded
NoticesAreBacked ==
    \A n \in notices : \E e \in EventsIn(stream) :
       /\ e.req = n.req
       /\ e.says = IF n.kind = "reminder" THEN "APPROVED" ELSE "PENDING"
EventsAreBacked == NothingOutrunsTheRow /\ NoticesAreBacked

\* An answer that stands is not written over by an approval: the customer can
\* approve only what is pending.  The one exception is an approval that read the
\* request before the answer was stored, since nothing looks again before the
\* UPDATE.  (Rejections and the provider API never look and may replace any answer,
\* and the expiry, had it the right columns, would leave answered requests alone.)
AnswersStand ==
    [][\A r \in Request :
          (row[r].responded /\ row'[r] # row[r] /\ row'[r].status # "REJECTED") =>
             \E c \in Call : call'[c] # call[c] /\ (call'[c].by = "gateway" \/ (Approving(c, r) /\ c \in stale))]_vars

\* As long as a request was answered once, the reminder the worker sends for it says
\* what the row says when it is read, however late that is: that it is approved.  (An
\* answer that is written over leaves the slot, and a request that was approved and
\* then rejected is announced as approved.)
RemindersAreTrue ==
    [][\A r \in Request \ again :
          [kind |-> "reminder", req |-> r] \in notices' \ notices => inHand.copy.status = "APPROVED"]_vars

\* A worker that stays up catches up with the stream again and again: no entry,
\* whether it has a processor or not or was held in a crash, holds up the others.
StreamIsDrained == <>[]workerUp => []<>(cursor = Len(stream) /\ inHand = None)
=============================================================================
