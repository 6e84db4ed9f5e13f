----------------------- MODULE CallbackLifecycle_proofs -----------------------
(***************************************************************************)
(* Theorems about CallbackLifecycle, for any requests, slots, calls and    *)
(* overlap.                                                                *)
(*                                                                         *)
(* What is published is backed by the row because a handler that is about  *)
(* to publish has written it (HandlersAreBacked) and nothing takes a       *)
(* decision back (RespondedIsDecided); what the worker tells is backed by  *)
(* the stream because what it holds comes from there (InHandIsRead).  An   *)
(* approval about to be written over an answer is one that read before it  *)
(* (LateOnesAreStale), and for a request that was answered once whatever   *)
(* says APPROVED agrees with the row (TruthInv).                           *)
(***************************************************************************)
EXTENDS CallbackLifecycle, TLAPS

\* responded_at is set exactly on the requests that were decided.
RespondedIsDecided == \A r \in Request : row[r].responded <=> row[r].status \in Decision

\* A handler's row exists; a handler that has decided has said so in the row.
Backed(c) ==
    /\ call[c].pc \in {"checked", "written"} => Exists(call[c].req)
    /\ call[c].pc = "checked" => call[c].sets \in Decision
    /\ call[c].pc = "written" /\ call[c].sets \in Decision => row[call[c].req].responded
HandlersAreBacked == \A c \in Call : Backed(c)

\* What the worker holds came from the stream, and is of a kind it processes.
InHandIsRead == inHand # None => inHand.event \in EventsIn(stream) /\ inHand.event.says # "REJECTED"

\* An approval of an answered request read it before it was answered.
LateOnesAreStale ==
    \A c \in Call, r \in Request : Approving(c, r) /\ row[r].responded => c \in stale

\* Of a request answered once, whoever says that it is approved agrees with the row.
TruthInv ==
    \A r \in Request \ again :
       /\ \A c \in Call : (call[c].pc = "written" /\ call[c].sets = "APPROVED" /\ call[c].req = r)
                             => row[r].status = "APPROVED"
       /\ \A e \in EventsIn(stream) : (e.says = "APPROVED" /\ e.req = r) => row[r].status = "APPROVED"
       /\ (inHand # None /\ inHand.event.says = "APPROVED" /\ inHand.event.req = r)
             => inHand.copy.status = "APPROVED"

RowInv == TypeOK /\ RespondedIsDecided /\ HandlersAreBacked
IInv   == RowInv /\ NothingOutrunsTheRow /\ InHandIsRead /\ NoticesAreBacked

\* No row disappears and no decision is taken back.
RowGrows ==
    \A r \in Request : (Exists(r) => Exists(r)') /\ (row[r].responded => row'[r].responded)

(***************************************************************************)
(* Helpers.                                                                *)
(***************************************************************************)
LEMMA AppendEvents ==
    ASSUME NEW s \in Seq(Event), NEW e \in Event
    PROVE  Append(s, e) \in Seq(Event) /\ EventsIn(Append(s, e)) = EventsIn(s) \cup {e}
  <1>1. Append(s, e) \in Seq(Event) /\ Len(Append(s, e)) = Len(s) + 1
    OBVIOUS
  <1>2. \A i \in 1..Len(s) : Append(s, e)[i] = s[i]
    OBVIOUS
  <1>3. Append(s, e)[Len(s) + 1] = e
    OBVIOUS
  <1>4. 1..(Len(s) + 1) = 1..Len(s) \cup {Len(s) + 1}
    OBVIOUS
  <1> QED
    BY <1>1, <1>2, <1>3, <1>4 DEF EventsIn

LEMMA CallFields ==
    ASSUME TypeOK, NEW c \in Call
    PROVE  /\ call[c].pc \in {"idle", "done", "checked", "written"}
           /\ call[c].pc \in {"checked", "written"} => call[c] \in Handler
  BY DEF TypeOK, Handler, Parked

LEMMA EventsAreTyped ==
    ASSUME TypeOK
    PROVE  \A e \in EventsIn(stream) \cup channel : e.req \in Request /\ e.says \in {"PENDING"} \cup Decision
  <1>1. EventsIn(stream) \subseteq Event /\ channel \subseteq Event
    BY DEF TypeOK, EventsIn
  <1> QED
    BY <1>1 DEF Event

\* The expiry names columns that the table does not have.
LEMMA ExpiryFails == ~(ExpiryColumns \subseteq CallbackColumns)
  BY DEF ExpiryColumns, CallbackColumns

(***************************************************************************)
(* The calls and the rows.                                                 *)
(***************************************************************************)
\* A call enters a step, with the row as its step leaves it.
LEMMA EnterBacked ==
    ASSUME RowInv, NEW c \in Call, NEW at \in {"checked", "written"}, NEW sets \in {"PENDING"} \cup Decision,
           NEW by \in Writer, NEW r \in Request, NEW s \in SlotOrNull,
           Enter(c, at, sets, by, r, s), RowGrows,
           Exists(r)', at = "checked" => sets \in Decision,
           at = "written" /\ sets \in Decision => row'[r].responded
    PROVE  call' \in [Call -> Handler \cup Parked] /\ HandlersAreBacked'
  <1> DEFINE h == [pc |-> at, sets |-> sets, by |-> by, req |-> r, slot |-> s]
  <1>1. h \in Handler
    BY DEF Handler
  <1>2. call' = [call EXCEPT ![c] = h]
    BY DEF Enter
  <1>3. call' \in [Call -> Handler \cup Parked] /\ call'[c] = h
    BY <1>1, <1>2 DEF RowInv, TypeOK
  <1>4. Backed(c)'
    BY <1>3 DEF Backed
  <1>5. ASSUME NEW d \in Call \ {c} PROVE Backed(d)'
    <2>1. call'[d] = call[d]
      BY <1>2 DEF RowInv, TypeOK
    <2>2. call[d].pc \in {"checked", "written"} => call[d].req \in Request
      BY CallFields DEF RowInv, Handler
    <2> QED
      BY <2>1, <2>2 DEF Backed, RowInv, HandlersAreBacked, RowGrows
  <1> QED
    BY <1>3, <1>4, <1>5 DEF HandlersAreBacked

\* A call leaves.
LEMMA LeaveBacked ==
    ASSUME RowInv, NEW c \in Call, call' = [call EXCEPT ![c] = [pc |-> "done"]], row' = row
    PROVE  call' \in [Call -> Handler \cup Parked] /\ HandlersAreBacked'
  <1>1. call' \in [Call -> Handler \cup Parked] /\ call'[c] = [pc |-> "done"]
    BY DEF RowInv, TypeOK, Parked
  <1>2. ASSUME NEW d \in Call PROVE Backed(d)'
    BY <1>1 DEF RowInv, TypeOK, HandlersAreBacked, Backed, Exists
  <1> QED
    BY <1>1, <1>2 DEF HandlersAreBacked

LEMMA RowStep ==
    ASSUME RowInv, [Next]_vars
    PROVE  RowInv' /\ RowGrows
  <1> USE DEF RowInv
  <1>r. row \in [Request -> Row] /\ RespondedIsDecided
    BY DEF TypeOK
  <1>1. ASSUME NEW c \in Call, NEW r \in Request, Create(c, r) PROVE RowInv' /\ RowGrows
    <2>1. row' = [row EXCEPT ![r].status = "PENDING"] /\ row[r].status = "ABSENT"
      BY <1>1 DEF Create, Exists
    <2>2. row' \in [Request -> Row] /\ RespondedIsDecided' /\ RowGrows /\ Exists(r)'
      BY <1>r, <2>1 DEF Row, Status, RespondedIsDecided, Decision, RowGrows, Exists
    <2>3. call' \in [Call -> Handler \cup Parked] /\ HandlersAreBacked'
      BY <1>1, <2>2, EnterBacked DEF Create, Writer, SlotOrNull, Decision
    <2> QED
      BY <1>1, <2>2, <2>3 DEF Create, TypeOK, bus, work
  <1>2. ASSUME NEW c \in Call, NEW r \in Request, NEW d \in Decision, NEW s \in SlotOrNull,
               MayStart(c), Exists(r), Enter(c, "checked", d, "service", r, s), UNCHANGED <<rows, bus, work, sweep>>
        PROVE  RowInv' /\ RowGrows
    <2>1. row' = row
      BY <1>2 DEF rows
    <2>2. RowGrows /\ RespondedIsDecided' /\ Exists(r)'
      BY <1>2, <1>r, <2>1 DEF RespondedIsDecided, RowGrows, Exists
    <2>3. call' \in [Call -> Handler \cup Parked] /\ HandlersAreBacked'
      BY <1>2, <2>2, EnterBacked DEF Writer
    <2> QED
      BY <1>2, <2>2, <2>3 DEF TypeOK, rows, bus, work
  <1>3. ASSUME NEW c \in Call, NEW r \in Request, NEW s \in Slot, CheckApprove(c, r, s) PROVE RowInv' /\ RowGrows
    BY <1>2, <1>3 DEF CheckApprove, Decision, SlotOrNull, Exists
  <1>4. ASSUME NEW c \in Call, NEW r \in Request, CheckReject(c, r) PROVE RowInv' /\ RowGrows
    BY <1>2, <1>4 DEF CheckReject, Decision, SlotOrNull
  <1>5. ASSUME NEW c \in Call, NEW r \in Request, NEW d \in Decision, ProviderUpdate(c, r, d) PROVE RowInv' /\ RowGrows
    <2>1. row' = [row EXCEPT ![r].status = d, ![r].responded = TRUE]
      BY <1>5 DEF ProviderUpdate
    <2>2. row' \in [Request -> Row] /\ RespondedIsDecided' /\ RowGrows /\ Exists(r)' /\ row'[r].responded
      BY <1>r, <2>1 DEF Row, Status, RespondedIsDecided, Decision, RowGrows, Exists
    <2>3. call' \in [Call -> Handler \cup Parked] /\ HandlersAreBacked'
      BY <1>5, <2>2, EnterBacked DEF ProviderUpdate, Writer, SlotOrNull
    <2> QED
      BY <1>5, <2>2, <2>3 DEF ProviderUpdate, Decides, TypeOK, bus, work
  <1>6. ASSUME NEW c \in Call, Write(c) PROVE RowInv' /\ RowGrows
    <2>1. call[c] \in Handler /\ call[c].sets \in Decision /\ Backed(c)
      BY <1>6, CallFields DEF Write, HandlersAreBacked, Backed
    <2> DEFINE r == call[c].req
               slot == IF call[c].sets = "APPROVED" THEN call[c].slot ELSE row[r].slot
    <2>2. r \in Request /\ slot \in SlotOrNull
      BY <1>r, <2>1 DEF Handler, Row
    <2>3. row' = [row EXCEPT ![r] = [status |-> call[c].sets, responded |-> TRUE, slot |-> slot]]
      BY <1>6, <1>r, <2>2 DEF Write
    <2> DEFINE new == [status |-> call[c].sets, responded |-> TRUE, slot |-> slot]
    <2>a. new \in Row /\ new.responded /\ new.status \in Decision /\ new.status # "ABSENT"
      BY <2>1, <2>2 DEF Row, Status, Decision
    <2>b. row' \in [Request -> Row] /\ row'[r] = new /\ \A q \in Request \ {r} : row'[q] = row[q]
      BY <1>r, <2>a, <2>2, <2>3
    <2> HIDE DEF new, slot, r
    <2>4. row' \in [Request -> Row] /\ RespondedIsDecided' /\ RowGrows /\ row'[r].responded /\ row'[r].status # "ABSENT"
      <3>1. RespondedIsDecided'
        BY <1>r, <2>a, <2>b DEF RespondedIsDecided
      <3>2. RowGrows
        BY <2>a, <2>b DEF RowGrows, Exists
      <3> QED
        BY <2>a, <2>b, <3>1, <3>2
    <2>r. r = call[c].req
      BY DEF r
    <2>5. call' \in [Call -> Handler \cup Parked] /\ call'[c] = [call[c] EXCEPT !.pc = "written"]
          /\ \A d \in Call \ {c} : call'[d] = call[d]
      BY <1>6, <2>1 DEF Write, TypeOK, Handler
    <2>6. ASSUME NEW d \in Call PROVE Backed(d)'
      <3>1. CASE d = c
        <4>1. call'[c].pc = "written" /\ call'[c].req = r
          <5>1. call'[c].pc = "written" /\ call'[c].req = call[c].req
            BY <2>1, <2>5 DEF Handler
          <5> QED
            BY <5>1, <2>r
        <4> QED
          BY <2>4, <3>1, <4>1 DEF Backed, Exists
      <3>2. CASE d # c
        <4>1. call[d].pc \in {"checked", "written"} => call[d].req \in Request
          BY CallFields DEF Handler
        <4> QED
          BY <2>4, <2>5, <3>2, <4>1 DEF Backed, HandlersAreBacked, RowGrows
      <3> QED
        BY <3>1, <3>2
    <2> QED
      <3>1. stale' \subseteq Call /\ again' \subseteq Request
        BY <1>6, <2>1 DEF Write, Decides, TypeOK, Handler
      <3>2. UNCHANGED <<aged, bus, work, sweep>>
        BY <1>6 DEF Write
      <3>3. HandlersAreBacked'
        BY <2>6 DEF HandlersAreBacked
      <3>4. call' \in [Call -> Handler \cup Parked]
        BY <2>1, <2>5 DEF TypeOK, Handler
      <3>5. TypeOK'
        BY <2>4, <3>1, <3>2, <3>4 DEF TypeOK, bus, work
      <3> QED
        BY <2>4, <3>3, <3>5
  <1>7. ASSUME NEW c \in Call, Publish(c) PROVE RowInv' /\ RowGrows
    <2>1. call[c] \in Handler /\ row' = row /\ aged' = aged
      BY <1>7, CallFields DEF Publish, rows
    <2>2. [says |-> call[c].sets, req |-> call[c].req, by |-> call[c].by] \in Event
      BY <2>1 DEF Handler, Event
    <2> DEFINE e == [says |-> call[c].sets, req |-> call[c].req, by |-> call[c].by]
    <2>p. /\ stream' = stream \/ stream' = Append(stream, e)
          /\ channel' \subseteq channel \cup {e} /\ cursor' = cursor
      BY <1>7 DEF Publish, work
    <2> HIDE DEF e
    <2>3. stream' \in Seq(Event) /\ channel' \subseteq Event /\ cursor' \in 0..Len(stream')
      <3>1. e \in Event /\ stream \in Seq(Event) /\ channel \subseteq Event /\ cursor \in 0..Len(stream)
        BY <2>2 DEF TypeOK, e
      <3>2. Append(stream, e) \in Seq(Event) /\ Len(Append(stream, e)) = Len(stream) + 1
        BY <3>1
      <3> QED
        BY <2>p, <3>1, <3>2
    <2>4. call' \in [Call -> Handler \cup Parked] /\ HandlersAreBacked'
      BY <1>7, <2>1, LeaveBacked DEF Publish
    <2> QED
      BY <1>7, <1>r, <2>1, <2>3, <2>4 DEF Publish, TypeOK, RespondedIsDecided, RowGrows, Exists, rows, work
  <1>8. ASSUME NEW c \in Call, Abort(c) PROVE RowInv' /\ RowGrows
    <2>1. call' \in [Call -> Handler \cup Parked] /\ HandlersAreBacked'
      BY <1>8, LeaveBacked DEF Abort, rows
    <2> QED
      BY <1>8, <1>r, <2>1 DEF Abort, TypeOK, RespondedIsDecided, RowGrows, Exists, rows, bus, work
  <1>9. ASSUME UNCHANGED <<row, call, stale, again, bus>>, aged' \subseteq Request, cursor' \in 0..Len(stream),
               inHand' \in InHand \cup {None}, workerUp' \in BOOLEAN, notices' \subseteq Notice,
               sweep' \in {"none", "ok", "error"}
        PROVE  RowInv' /\ RowGrows
    BY <1>9, <1>r DEF TypeOK, RespondedIsDecided, RowGrows, Exists, HandlersAreBacked, Backed, bus
  <1>10. CASE Fetch
    <2>1. cursor' \in 0..Len(stream) /\ stream[cursor + 1] \in Event
      BY <1>10 DEF Fetch, TypeOK
    <2>2. inHand' \in InHand \cup {None}
      BY <1>10, <1>r, <2>1 DEF Fetch, InHand, Event
    <2> QED
      BY <1>9, <1>10, <2>1, <2>2 DEF Fetch, TypeOK, rows
  <1>11. CASE Notify
    <2>1. inHand \in InHand /\ inHand.event.req \in Request
      BY <1>11 DEF Notify, TypeOK, InHand, Event
    <2>2. notices' \subseteq Notice
      BY <1>11, <2>1 DEF Notify, TypeOK, Notice
    <2> QED
      BY <1>9, <1>11, <2>2 DEF Notify, TypeOK, rows
  <1>12. CASE WorkerCrash \/ WorkerStart
    BY <1>9, <1>12 DEF WorkerCrash, WorkerStart, TypeOK, rows
  <1>13. ASSUME NEW r \in Request, Age(r) PROVE RowInv' /\ RowGrows
    BY <1>9, <1>13 DEF Age, TypeOK, work
  <1>14. CASE ExpireSweep
    BY <1>9, <1>14, ExpiryFails DEF ExpireSweep, TypeOK, work
  <1>15. CASE UNCHANGED vars
    BY <1>9, <1>15 DEF vars, TypeOK, bus
  <1> QED
    BY <1>1, <1>3, <1>4, <1>5, <1>6, <1>7, <1>8, <1>10, <1>11, <1>12, <1>13, <1>14, <1>15 DEF Next

(***************************************************************************)
(* The events and the notices.                                             *)
(***************************************************************************)
LEMMA EventStep ==
    ASSUME IInv, [Next]_vars
    PROVE  NothingOutrunsTheRow' /\ InHandIsRead' /\ NoticesAreBacked'
  <1>1. RowGrows /\ RowInv /\ TypeOK
    BY RowStep DEF IInv, RowInv
  <1>2. ASSUME NEW e \in EventsIn(stream) \cup channel
        PROVE  Exists(e.req)' /\ (e.says \in Decision => row'[e.req].responded)
    BY <1>1, EventsAreTyped DEF IInv, NothingOutrunsTheRow, RowGrows
  <1>3. ASSUME NEW c \in Call, Publish(c) PROVE NothingOutrunsTheRow' /\ InHandIsRead' /\ NoticesAreBacked'
    <2> DEFINE e == [says |-> call[c].sets, req |-> call[c].req, by |-> call[c].by]
    <2>1. call[c] \in Handler /\ e \in Event
      BY <1>1, <1>3, CallFields DEF Publish, Handler, Event
    <2>2. /\ EventsIn(stream') \subseteq EventsIn(stream) \cup {e} /\ EventsIn(stream) \subseteq EventsIn(stream')
          /\ channel' \subseteq channel \cup {e}
      BY <1>1, <1>3, <2>1, AppendEvents DEF Publish, TypeOK
    <2>3. row'[e.req].status # "ABSENT" /\ (e.says \in Decision => row'[e.req].responded)
      <3>1. call[c].pc = "written" /\ row' = row /\ Backed(c)
        BY <1>1, <1>3 DEF Publish, rows, RowInv, HandlersAreBacked
      <3>2. e.req = call[c].req /\ e.says = call[c].sets
        OBVIOUS
      <3> QED
        BY <3>1, <3>2 DEF Backed, Exists
    <2> HIDE DEF e
    <2>4. NothingOutrunsTheRow'
      <3> SUFFICES ASSUME NEW x \in EventsIn(stream') \cup channel'
                   PROVE  Exists(x.req)' /\ (x.says \in Decision => row'[x.req].responded)
        BY DEF NothingOutrunsTheRow, EventsIn
      <3> QED
        BY <1>2, <2>2, <2>3 DEF Exists
    <2> QED
      BY <1>3, <2>2, <2>4 DEF Publish, work, IInv, InHandIsRead, NoticesAreBacked
  <1>4. ASSUME stream' = stream, channel' = channel PROVE NothingOutrunsTheRow'
    BY <1>2, <1>4 DEF NothingOutrunsTheRow
  <1>5. ASSUME UNCHANGED <<stream, channel, inHand, notices>>
        PROVE  NothingOutrunsTheRow' /\ InHandIsRead' /\ NoticesAreBacked'
    BY <1>4, <1>5 DEF IInv, InHandIsRead, NoticesAreBacked
  <1>6. CASE Fetch
    <2>1. cursor + 1 \in 1..Len(stream)
      BY <1>1, <1>6 DEF Fetch, TypeOK
    <2>2. stream[cursor + 1] \in EventsIn(stream)
      BY <2>1 DEF EventsIn
    <2>3. InHandIsRead'
      BY <1>6, <2>2 DEF Fetch, bus, InHandIsRead
    <2> QED
      BY <1>4, <1>6, <2>3 DEF Fetch, bus, IInv, NoticesAreBacked
  <1>7. CASE Notify
    <2> DEFINE e == inHand.event
               n == [kind |-> IF e.says = "PENDING" THEN "request" ELSE "reminder", req |-> e.req]
    <2>1. e \in EventsIn(stream) /\ e.says \in {"PENDING", "APPROVED"}
      BY <1>1, <1>7, EventsAreTyped DEF Notify, IInv, InHandIsRead, Decision
    <2>2. notices' \subseteq notices \cup {n}
      BY <1>7 DEF Notify
    <2>3. ASSUME NEW m \in notices'
          PROVE  \E x \in EventsIn(stream) : x.req = m.req /\ x.says = IF m.kind = "reminder" THEN "APPROVED" ELSE "PENDING"
      <3>1. CASE m \in notices
        BY <3>1 DEF IInv, NoticesAreBacked
      <3>2. CASE m = n
        BY <2>1, <3>2
      <3> QED
        BY <2>2, <3>1, <3>2
    <2>4. stream' = stream /\ channel' = channel /\ inHand' = None
      BY <1>7 DEF Notify, bus
    <2> QED
      BY <1>4, <2>3, <2>4 DEF InHandIsRead, NoticesAreBacked
  <1>8. CASE WorkerCrash
    BY <1>4, <1>8 DEF WorkerCrash, bus, IInv, InHandIsRead, NoticesAreBacked
  <1>9. ASSUME NEW c \in Call, Write(c) \/ Abort(c) PROVE UNCHANGED <<stream, channel, inHand, notices>>
    BY <1>9 DEF Write, Abort, bus, work
  <1>10. ASSUME NEW c \in Call, NEW r \in Request,
                \/ Create(c, r) \/ CheckReject(c, r) \/ \E s \in Slot : CheckApprove(c, r, s)
                \/ \E d \in Decision : ProviderUpdate(c, r, d)
         PROVE  UNCHANGED <<stream, channel, inHand, notices>>
    BY <1>10 DEF Create, CheckReject, CheckApprove, ProviderUpdate, bus, work
  <1>11. CASE WorkerStart \/ ExpireSweep \/ \E r \in Request : Age(r)
    BY <1>5, <1>11 DEF WorkerStart, ExpireSweep, Age, bus, work
  <1>12. CASE UNCHANGED vars
    BY <1>5, <1>12 DEF vars
  <1> QED
    BY <1>3, <1>5, <1>6, <1>7, <1>8, <1>9, <1>10, <1>11, <1>12 DEF Next

LEMMA InitHolds == Init => IInv
  <1> SUFFICES ASSUME Init PROVE IInv
    OBVIOUS
  <1>1. TypeOK
    BY DEF Init, TypeOK, Row, Status, SlotOrNull, Parked
  <1>2. RespondedIsDecided /\ HandlersAreBacked
    BY DEF Init, RespondedIsDecided, HandlersAreBacked, Backed, Decision
  <1>3. EventsIn(stream) = {}
    BY DEF Init, EventsIn
  <1> QED
    BY <1>1, <1>2, <1>3 DEF Init, IInv, RowInv, NothingOutrunsTheRow, InHandIsRead, NoticesAreBacked

LEMMA Invariance == Spec => []IInv
  <1>1. Init => IInv
    BY InitHolds
  <1>2. IInv /\ [Next]_vars => IInv'
    BY RowStep, EventStep DEF IInv
  <1> QED
    BY <1>1, <1>2, PTL DEF Spec

\* Every variable keeps its type, however many handlers overlap and die.
THEOREM TypeCorrect == Spec => []TypeOK
  <1>1. IInv => TypeOK
    BY DEF IInv, RowInv
  <1> QED
    BY <1>1, Invariance, PTL

\* Nothing that is published or told outruns the row, whatever handlers race and
\* wherever they die.
THEOREM EventsBacked == Spec => []EventsAreBacked
  <1>1. IInv => EventsAreBacked
    BY DEF IInv, EventsAreBacked
  <1> QED
    BY <1>1, Invariance, PTL

(***************************************************************************)
(* Answers and reminders.                                                  *)
(***************************************************************************)
\* An approval starts only on a request that nobody answered, and whoever answers it
\* then makes the approvals that have read it stale.
LEMMA StaleStep ==
    ASSUME RowInv, LateOnesAreStale, [Next]_vars
    PROVE  LateOnesAreStale'
  <1> USE DEF RowInv
  <1>r. row \in [Request -> Row] /\ call \in [Call -> Handler \cup Parked]
    BY DEF TypeOK
  <1>1. ASSUME NEW c \in Call, NEW r \in Request, Create(c, r) PROVE LateOnesAreStale'
    <2>1. call' = [call EXCEPT ![c] = [pc |-> "written", sets |-> "PENDING", by |-> "service", req |-> r, slot |-> None]]
          /\ row' = [row EXCEPT ![r].status = "PENDING"] /\ stale' = stale
      BY <1>1 DEF Create, Enter
    <2> QED
      BY <1>r, <2>1 DEF LateOnesAreStale, Approving, Row
  <1>2. ASSUME NEW c \in Call, NEW r \in Request, NEW s \in Slot, CheckApprove(c, r, s) PROVE LateOnesAreStale'
    <2>1. call' = [call EXCEPT ![c] = [pc |-> "checked", sets |-> "APPROVED", by |-> "service", req |-> r, slot |-> s]]
          /\ row' = row /\ stale' = stale /\ ~row[r].responded
      BY <1>2 DEF CheckApprove, Enter, rows, RespondedIsDecided, Decision
    <2>2. call'[c].req = r /\ \A d \in Call \ {c} : call'[d] = call[d]
      BY <1>r, <2>1
    <2> QED
      BY <2>1, <2>2 DEF LateOnesAreStale, Approving
  <1>3. ASSUME NEW c \in Call, NEW r \in Request, CheckReject(c, r) PROVE LateOnesAreStale'
    <2>1. call' = [call EXCEPT ![c] = [pc |-> "checked", sets |-> "REJECTED", by |-> "service", req |-> r, slot |-> None]]
          /\ row' = row /\ stale' = stale
      BY <1>3 DEF CheckReject, Enter, rows
    <2> QED
      BY <1>r, <2>1 DEF LateOnesAreStale, Approving
  <1>4. ASSUME NEW c \in Call, NEW q \in Request, Decides(c, q), call'[c].pc = "written",
               \A d \in Call \ {c} : call'[d] = call[d], \A r \in Request \ {q} : row'[r] = row[r]
        PROVE  LateOnesAreStale'
    BY <1>4 DEF LateOnesAreStale, Approving, Decides
  <1>5. ASSUME NEW c \in Call, NEW r \in Request, NEW d \in Decision, ProviderUpdate(c, r, d) PROVE LateOnesAreStale'
    <2>1. Decides(c, r) /\ call'[c].pc = "written" /\ \A e \in Call \ {c} : call'[e] = call[e]
      BY <1>r, <1>5 DEF ProviderUpdate, Enter
    <2>2. \A q \in Request \ {r} : row'[q] = row[q]
      BY <1>r, <1>5 DEF ProviderUpdate
    <2> QED
      BY <1>4, <2>1, <2>2
  <1>6. ASSUME NEW c \in Call, Write(c) PROVE LateOnesAreStale'
    <2>1. call[c] \in Handler /\ call[c].req \in Request
      BY <1>6, CallFields DEF Write, Handler
    <2>2. Decides(c, call[c].req) /\ call'[c].pc = "written" /\ \A e \in Call \ {c} : call'[e] = call[e]
      BY <1>r, <1>6, <2>1 DEF Write, Handler
    <2>3. \A q \in Request \ {call[c].req} : row'[q] = row[q]
      BY <1>r, <1>6, <2>1 DEF Write
    <2> QED
      BY <1>4, <2>1, <2>2, <2>3
  <1>7. ASSUME NEW c \in Call, call' = [call EXCEPT ![c] = [pc |-> "done"]], row' = row, stale' = stale
        PROVE  LateOnesAreStale'
    BY <1>r, <1>7 DEF LateOnesAreStale, Approving
  <1>8. ASSUME NEW c \in Call, Publish(c) \/ Abort(c) PROVE LateOnesAreStale'
    BY <1>7, <1>8 DEF Publish, Abort, rows
  <1>9. ASSUME UNCHANGED <<row, call, stale>> PROVE LateOnesAreStale'
    BY <1>9 DEF LateOnesAreStale, Approving
  <1>10. CASE Fetch \/ Notify \/ WorkerCrash \/ WorkerStart \/ (\E r \in Request : Age(r)) \/ ExpireSweep \/ UNCHANGED vars
    BY <1>9, <1>10, ExpiryFails DEF Fetch, Notify, WorkerCrash, WorkerStart, Age, ExpireSweep, vars, rows
  <1> QED
    BY <1>1, <1>2, <1>3, <1>5, <1>6, <1>8, <1>10 DEF Next
LEMMA TruthStep ==
    ASSUME RowInv, TruthInv, InHandIsRead, [Next]_vars
    PROVE  TruthInv'
  <1> USE DEF RowInv
  <1>r. row \in [Request -> Row] /\ call \in [Call -> Handler \cup Parked]
    BY DEF TypeOK
  \* A request that the step answers for the second time leaves the claim.
  <1>1. ASSUME NEW c \in Call, NEW q \in Request, NEW d \in Decision, Decides(c, q), row'[q].status = d,
               call'[c].sets = d, call'[c].req = q,
               \A e \in Call \ {c} : call'[e] = call[e], \A r \in Request \ {q} : row'[r] = row[r],
               UNCHANGED <<bus, work>>
        PROVE  TruthInv'
    <2> SUFFICES ASSUME NEW r \in Request \ again'
                 PROVE  /\ \A e \in Call : (call'[e].pc = "written" /\ call'[e].sets = "APPROVED" /\ call'[e].req = r)
                                           => row'[r].status = "APPROVED"
                        /\ \A e \in EventsIn(stream') : (e.says = "APPROVED" /\ e.req = r) => row'[r].status = "APPROVED"
                        /\ (inHand' # None /\ inHand'.event.says = "APPROVED" /\ inHand'.event.req = r)
                             => inHand'.copy.status = "APPROVED"
      BY DEF TruthInv, EventsIn
    <2>1. r \in Request \ again /\ stream' = stream /\ inHand' = inHand
      BY <1>1 DEF Decides, bus, work
    <2>2. CASE r = q
      <3>1. row[r].status # "APPROVED"
        BY <1>1, <2>2 DEF Decides, RespondedIsDecided, Decision
      <3> QED
        BY <1>1, <2>1, <2>2, <3>1 DEF TruthInv
    <2>3. CASE r # q
      BY <1>1, <2>1, <2>3 DEF TruthInv
    <2> QED
      BY <2>2, <2>3
  <1>2. ASSUME NEW c \in Call, NEW r \in Request, NEW d \in Decision, ProviderUpdate(c, r, d) PROVE TruthInv'
    <2>1. Decides(c, r) /\ call'[c].sets = d /\ call'[c].req = r /\ \A e \in Call \ {c} : call'[e] = call[e]
      BY <1>r, <1>2 DEF ProviderUpdate, Enter
    <2>2. row'[r].status = d /\ \A q \in Request \ {r} : row'[q] = row[q]
      BY <1>r, <1>2 DEF ProviderUpdate, Row
    <2> QED
      BY <1>1, <1>2, <2>1, <2>2 DEF ProviderUpdate
  <1>3. ASSUME NEW c \in Call, Write(c) PROVE TruthInv'
    <2>1. call[c] \in Handler /\ call[c].req \in Request /\ call[c].sets \in Decision
      BY <1>3, CallFields DEF Write, Handler, HandlersAreBacked, Backed
    <2>2. Decides(c, call[c].req) /\ \A e \in Call \ {c} : call'[e] = call[e]
      BY <1>r, <1>3, <2>1 DEF Write
    <2>3. call'[c].sets = call[c].sets /\ call'[c].req = call[c].req
      BY <1>r, <1>3, <2>1 DEF Write, Handler
    <2>4. row'[call[c].req].status = call[c].sets /\ \A q \in Request \ {call[c].req} : row'[q] = row[q]
      BY <1>r, <1>3, <2>1 DEF Write
    <2> QED
      BY <1>1, <1>3, <2>1, <2>2, <2>3, <2>4 DEF Write
  \* A call that starts, or a request that is created, says nothing is approved.
  <1>4. ASSUME NEW c \in Call, ~(call'[c].pc = "written" /\ call'[c].sets = "APPROVED"),
               \A e \in Call \ {c} : call'[e] = call[e],
               \A r \in Request : row[r].status = "APPROVED" => row'[r].status = "APPROVED",
               again' = again, UNCHANGED <<bus, work>>
        PROVE  TruthInv'
    <2>1. stream' = stream /\ inHand' = inHand
      BY <1>4 DEF bus, work
    <2> QED
      BY <1>4, <2>1 DEF TruthInv
  <1>5. ASSUME NEW c \in Call, NEW r \in Request,
               Create(c, r) \/ CheckReject(c, r) \/ \E s \in Slot : CheckApprove(c, r, s)
        PROVE  TruthInv'
    <2>1. ~(call'[c].pc = "written" /\ call'[c].sets = "APPROVED") /\ \A e \in Call \ {c} : call'[e] = call[e]
      BY <1>r, <1>5 DEF Create, CheckReject, CheckApprove, Enter
    <2>2. \A q \in Request : row[q].status = "APPROVED" => row'[q].status = "APPROVED"
      BY <1>r, <1>5 DEF Create, CheckReject, CheckApprove, Exists, rows
    <2> QED
      BY <1>4, <1>5, <2>1, <2>2 DEF Create, CheckReject, CheckApprove, rows
  <1>6. ASSUME NEW c \in Call, Abort(c) PROVE TruthInv'
    BY <1>r, <1>4, <1>6 DEF Abort, rows
  <1>7. ASSUME NEW c \in Call, Publish(c) PROVE TruthInv'
    <2> DEFINE e == [says |-> call[c].sets, req |-> call[c].req, by |-> call[c].by]
    <2>1. call[c].pc = "written" /\ e \in Event
      BY <1>7, CallFields DEF Publish, Handler, Event
    <2>2. EventsIn(stream') \subseteq EventsIn(stream) \cup {e}
      BY <1>7, <2>1, AppendEvents DEF Publish, TypeOK
    <2>3. row' = row /\ again' = again /\ inHand' = inHand
      BY <1>7 DEF Publish, rows, work
    <2>4. call'[c].pc = "done" /\ \A d \in Call \ {c} : call'[d] = call[d]
      BY <1>r, <1>7 DEF Publish
    <2>5. e.says = call[c].sets /\ e.req = call[c].req
      OBVIOUS
    <2> HIDE DEF e
    <2>6. ASSUME NEW r \in Request \ again, NEW x \in EventsIn(stream'), x.says = "APPROVED", x.req = r
          PROVE  row[r].status = "APPROVED"
      BY <2>1, <2>2, <2>5, <2>6 DEF TruthInv
    <2> QED
      BY <2>3, <2>4, <2>6 DEF TruthInv, EventsIn
  <1>8. ASSUME UNCHANGED <<row, call, again, bus>>, inHand' \in {inHand, None} PROVE TruthInv'
    BY <1>8 DEF TruthInv, bus
  <1>9. CASE Fetch
    <2>1. cursor + 1 \in 1..Len(stream)
      BY <1>9 DEF Fetch, TypeOK
    <2> DEFINE e == stream[cursor + 1]
    <2>2. e \in EventsIn(stream)
      BY <2>1 DEF EventsIn
    <2>3. inHand' = (IF e.says = "REJECTED" THEN None ELSE [event |-> e, copy |-> row[e.req]])
          /\ UNCHANGED <<row, call, again, stream>>
      BY <1>9 DEF Fetch, rows, bus
    <2>4. ASSUME NEW r \in Request \ again, inHand' # None, inHand'.event.says = "APPROVED", inHand'.event.req = r
          PROVE  inHand'.copy.status = "APPROVED"
      <3>1. inHand' = [event |-> e, copy |-> row[e.req]]
        BY <2>3, <2>4
      <3>2. e.says = "APPROVED" /\ e.req = r /\ inHand'.copy = row[r]
        BY <2>4, <3>1
      <3> QED
        BY <2>2, <3>2 DEF TruthInv
    <2> QED
      BY <2>3, <2>4 DEF TruthInv
  <1>10. CASE Notify \/ WorkerCrash \/ WorkerStart \/ (\E r \in Request : Age(r)) \/ ExpireSweep \/ UNCHANGED vars
    BY <1>8, <1>10, ExpiryFails DEF Notify, WorkerCrash, WorkerStart, Age, ExpireSweep, vars, rows, bus, work
  <1> QED
    BY <1>2, <1>3, <1>5, <1>6, <1>7, <1>9, <1>10 DEF Next

AnswerInv == IInv /\ LateOnesAreStale /\ TruthInv

LEMMA AnswersInvariance == Spec => []AnswerInv
  <1>1. Init => AnswerInv
    <2> SUFFICES ASSUME Init PROVE LateOnesAreStale /\ TruthInv
      BY InitHolds DEF AnswerInv
    <2>1. EventsIn(stream) = {}
      BY DEF Init, EventsIn
    <2> QED
      BY <2>1 DEF Init, LateOnesAreStale, Approving, TruthInv
  <1>2. AnswerInv /\ [Next]_vars => AnswerInv'
    BY RowStep, EventStep, StaleStep, TruthStep DEF AnswerInv, IInv
  <1> QED
    BY <1>1, <1>2, PTL DEF Spec

\* Of the decisions of this service only those that never looked, the rejections, and
\* those that looked before somebody else answered are written over an answer.
THEOREM ApprovalsRespectAnswers == Spec => AnswersStand
  <1> DEFINE Held(r) == (row[r].responded /\ row'[r] # row[r] /\ row'[r].status # "REJECTED") =>
                          \E c \in Call : call'[c] # call[c] /\ (call'[c].by = "gateway" \/ (Approving(c, r) /\ c \in stale))
  <1>1. ASSUME AnswerInv, [Next]_vars, NEW r \in Request PROVE Held(r)
    <2>r. row \in [Request -> Row] /\ call \in [Call -> Handler \cup Parked] /\ RowInv
      BY <1>1 DEF AnswerInv, IInv, RowInv, TypeOK
    <2>1. ASSUME NEW c \in Call, NEW q \in Request, Create(c, q) PROVE Held(r)
      BY <2>r, <2>1 DEF Create, Exists, RowInv, RespondedIsDecided, Decision
    <2>2. ASSUME NEW c \in Call, NEW q \in Request, NEW d \in Decision, ProviderUpdate(c, q, d) PROVE Held(r)
      <3>1. call[c].pc = "idle" /\ call'[c].pc = "written" /\ call'[c].by = "gateway"
        BY <2>r, <2>2 DEF ProviderUpdate, MayStart, Enter
      <3> QED
        BY <3>1
    <2>3. ASSUME NEW c \in Call, Write(c), row[r].responded, row'[r] # row[r], row'[r].status # "REJECTED"
          PROVE  Approving(c, r) /\ c \in stale /\ call'[c] # call[c]
      <3>1. call[c] \in Handler /\ call[c].req \in Request /\ call[c].pc = "checked" /\ call[c].sets \in Decision
        BY <2>r, <2>3, CallFields DEF Write, Handler, RowInv, HandlersAreBacked, Backed
      <3>2. call[c].req = r /\ row'[r].status = call[c].sets
        BY <2>r, <2>3, <3>1 DEF Write
      <3>3. Approving(c, r)
        BY <2>3, <3>1, <3>2 DEF Approving, Decision
      <3>4. call'[c].pc = "written"
        BY <2>r, <2>3, <3>1 DEF Write, Handler
      <3> QED
        BY <1>1, <2>3, <3>1, <3>3, <3>4 DEF AnswerInv, LateOnesAreStale
    <2>4. ASSUME row' = row PROVE Held(r)
      BY <2>4
    <2>5. ASSUME NEW c \in Call, NEW q \in Request,
                 CheckReject(c, q) \/ (\E s \in Slot : CheckApprove(c, q, s)) \/ Publish(c) \/ Abort(c)
          PROVE  Held(r)
      BY <2>4, <2>5 DEF CheckReject, CheckApprove, Publish, Abort, rows
    <2>6. CASE Fetch \/ Notify \/ WorkerCrash \/ WorkerStart \/ (\E q \in Request : Age(q)) \/ ExpireSweep \/ UNCHANGED vars
      BY <2>4, <2>6, ExpiryFails DEF Fetch, Notify, WorkerCrash, WorkerStart, Age, ExpireSweep, vars, rows
    <2> QED
      BY <1>1, <2>1, <2>2, <2>3, <2>5, <2>6 DEF Next
  <1>2. AnswerInv /\ [Next]_vars => [\A r \in Request : Held(r)]_vars
    BY <1>1
  <1> QED
    BY <1>2, AnswersInvariance, PTL DEF Spec, AnswersStand

\* The worker acts on the row it reads, and for a request that was answered once this
\* says the same as the event, however late the event is read.
THEOREM RemindersTrue == Spec => RemindersAreTrue
  <1> DEFINE True(r) == [kind |-> "reminder", req |-> r] \in notices' \ notices => inHand.copy.status = "APPROVED"
  <1>1. ASSUME AnswerInv, [Next]_vars, NEW r \in Request \ again, [kind |-> "reminder", req |-> r] \in notices' \ notices
        PROVE  inHand.copy.status = "APPROVED"
    <2>1. Notify
      BY <1>1 DEF Next, Create, CheckApprove, CheckReject, Write, ProviderUpdate, Publish, Abort, Fetch, WorkerCrash,
                  WorkerStart, Age, ExpireSweep, work, vars
    <2> DEFINE e == inHand.event
               n == [kind |-> IF e.says = "PENDING" THEN "request" ELSE "reminder", req |-> e.req]
    <2>2. notices' \subseteq notices \cup {n} /\ inHand # None
      BY <2>1 DEF Notify
    <2>3. e \in EventsIn(stream) /\ e.says \in {"PENDING", "APPROVED"}
      BY <1>1, <2>2, EventsAreTyped DEF AnswerInv, IInv, RowInv, InHandIsRead, Decision
    <2>4. n = [kind |-> "reminder", req |-> r]
      BY <1>1, <2>2
    <2>5. e.says = "APPROVED" /\ e.req = r
      BY <2>3, <2>4
    <2> QED
      BY <1>1, <2>2, <2>5 DEF AnswerInv, TruthInv
  <1>2. AnswerInv /\ [Next]_vars => [\A r \in Request \ again : True(r)]_vars
    BY <1>1
  <1> QED
    BY <1>2, AnswersInvariance, PTL DEF Spec, RemindersAreTrue
=============================================================================
