---------------------------- MODULE EventStream ----------------------------
(***************************************************************************)
(* packages/cornerstone/events/redis.go: the stream "trustinbox:events",   *)
(* its consumer groups (worker-service, webhook-service,                   *)
(* analytics-service, notification-push) and the loop every                *)
(* RedisStreamConsumer runs.  An entry is its position in the stream; what *)
(* a handler does with it is one of two outcomes.                          *)
(*                                                                         *)
(* Redis itself is external and is modelled from the commands the loop     *)
(* sends: a group is a cursor (last-delivered-id) and a set of pending     *)
(* entries; XREADGROUP with ">" moves the cursor.                          *)
(***************************************************************************)
EXTENDS Naturals, FiniteSets

CONSTANTS
    Group,         \* consumer groups, one per subscribing service
    Consumer,      \* instances of the services
    GroupOf,       \* the group of each instance
    BatchSize,     \* Count of XREADGROUP (10 in the code)
    Malformed,     \* entries whose "data" is missing or does not unmarshal
    MaxEntries,    \* bound: entries published
    MaxCrashes     \* bound: crashes and shutdowns of instances

ASSUME StreamAssumption ==
    /\ GroupOf \in [Consumer -> Group]
    /\ BatchSize \in Nat \ {0} /\ MaxEntries \in Nat /\ MaxCrashes \in Nat
    /\ Malformed \subseteq 1..MaxEntries

Entry == 1..MaxEntries

VARIABLES
    published,     \* entries in the stream
    groups,        \* groups that exist
    delivered,     \* last-delivered-id of each group
    pending,       \* the group's PEL: read and not acknowledged
    up,            \* instances that run
    batch,         \* entries an instance has read and not finished
    outcome,       \* what the group's handler returned for each entry
    shared,        \* history: groups that have had two instances up at once
    crashes

redis == <<published, groups, delivered, pending>>
vars  == <<published, groups, delivered, pending, up, batch, outcome, shared, crashes>>

InBatch(g) == UNION {batch[c] : c \in {d \in Consumer : GroupOf[d] = g}}

Init ==
    /\ published = 0 /\ groups = {} /\ up = {} /\ shared = {} /\ crashes = 0
    /\ delivered = [g \in Group |-> 0]
    /\ pending = [g \in Group |-> {}]
    /\ batch = [c \in Consumer |-> {}]
    /\ outcome = [g \in Group |-> [e \in Entry |-> "none"]]

\* RedisStreamPublisher.Publish: XADD, without MAXLEN.  A failed XADD leaves
\* nothing behind, here or at the publisher.
Publish ==
    /\ published < MaxEntries
    /\ published' = published + 1
    /\ UNCHANGED <<groups, delivered, pending, up, batch, outcome, crashes, shared>>

\* Mutant of Start: a new group begins at the end of the stream ("$").
StartAtEnd(c) ==
    /\ c \notin up
    /\ up' = up \cup {c} /\ groups' = groups \cup {GroupOf[c]}
    /\ delivered' = IF GroupOf[c] \in groups THEN delivered
                    ELSE [delivered EXCEPT ![GroupOf[c]] = published]
    /\ shared' = IF \E d \in up : GroupOf[d] = GroupOf[c] THEN shared \cup {GroupOf[c]} ELSE shared
    /\ UNCHANGED <<published, pending, batch, outcome, crashes>>

\* Mutant of Start: a starting instance takes the group's pending entries over.
StartReclaim(c) ==
    /\ c \notin up
    /\ up' = up \cup {c} /\ groups' = groups \cup {GroupOf[c]}
    /\ batch' = [batch EXCEPT ![c] = pending[GroupOf[c]]]
    /\ shared' = IF \E d \in up : GroupOf[d] = GroupOf[c] THEN shared \cup {GroupOf[c]} ELSE shared
    /\ UNCHANGED <<published, delivered, pending, outcome, crashes>>

\* Start: XGROUP CREATE MKSTREAM at "0"; BUSYGROUP means it exists already.
\* Nothing is read back from the group's pending entries.
Start(c) ==
    /\ c \notin up
    /\ up' = up \cup {c}
    /\ groups' = groups \cup {GroupOf[c]}
    /\ shared' = IF \E d \in up : GroupOf[d] = GroupOf[c] THEN shared \cup {GroupOf[c]} ELSE shared
    /\ UNCHANGED <<published, delivered, pending, batch, outcome, crashes>>

\* What XREADGROUP ... COUNT BatchSize STREAMS s ">" hands out: entries past
\* the group's cursor, oldest first, at most BatchSize of them.
Fresh(g) == {e \in Entry : e > delivered[g] /\ e <= published /\ e <= delivered[g] + BatchSize}

\* Mutants of HandOut: the cursor always moves by a whole batch; the entries are
\* read with NOACK.
HandOutWhole(g) ==
    /\ g \in groups /\ Fresh(g) # {}
    /\ delivered' = [delivered EXCEPT ![g] = @ + BatchSize]
    /\ pending' = [pending EXCEPT ![g] = @ \cup Fresh(g)]
    /\ UNCHANGED <<published, groups, outcome>>
HandOutNoAck(g) ==
    /\ g \in groups /\ Fresh(g) # {}
    /\ delivered' = [delivered EXCEPT ![g] = IF published <= @ + BatchSize THEN published ELSE @ + BatchSize]
    /\ UNCHANGED <<published, groups, pending, outcome>>

\* The command the loop sends: Count BatchSize, ">", no NoAck.
HandOut(g) ==
    /\ g \in groups /\ Fresh(g) # {}
    /\ delivered' = [delivered EXCEPT ![g] = IF published <= @ + BatchSize THEN published ELSE @ + BatchSize]
    /\ pending' = [pending EXCEPT ![g] = @ \cup Fresh(g)]
    /\ UNCHANGED <<published, groups, outcome>>

\* The loop reads a batch once it has finished the one before.
Read(c) ==
    /\ c \in up /\ batch[c] = {}
    /\ HandOut(GroupOf[c])
    /\ batch' = [batch EXCEPT ![c] = Fresh(GroupOf[c])]
    /\ UNCHANGED <<up, crashes, shared>>

\* Redis hands the batch out but the reply does not arrive: "stream read
\* error", a pause of a second, and the next read again asks for ">".
ReadLost(c) ==
    /\ c \in up /\ batch[c] = {}
    /\ crashes < MaxCrashes /\ crashes' = crashes + 1
    /\ HandOut(GroupOf[c])
    /\ UNCHANGED <<up, batch, shared>>

\* Mutant of Handle: one goroutine per entry, finishing in any order.
HandleAnyOrder(c) ==
    /\ c \in up
    /\ \E e \in batch[c] \ Malformed, result \in {"ok", "error"} :
          /\ outcome' = [outcome EXCEPT ![GroupOf[c]][e] = result]
          /\ pending' \in {pending, [pending EXCEPT ![GroupOf[c]] = @ \ {e}]}
          /\ batch' = [batch EXCEPT ![c] = @ \ {e}]
    /\ UNCHANGED <<published, groups, delivered, up, crashes, shared>>

\* The next entry of the batch, in stream order: run the handler, log its
\* error if it returns one, XACK in either case; XACK itself may fail.
Handle(c) ==
    /\ c \in up
    /\ \E e \in batch[c] \ Malformed, result \in {"ok", "error"} :
          /\ \A f \in batch[c] : e <= f
          /\ outcome' = [outcome EXCEPT ![GroupOf[c]][e] = result]
          /\ pending' \in {pending, [pending EXCEPT ![GroupOf[c]] = @ \ {e}]}
          /\ batch' = [batch EXCEPT ![c] = @ \ {e}]
    /\ UNCHANGED <<published, groups, delivered, up, crashes, shared>>

\* The next entry of the batch cannot be read: the loop goes on with the one after
\* it, without a handler and without XACK, so it stays pending for ever.
Skip(c) ==
    /\ c \in up
    /\ \E e \in batch[c] \cap Malformed :
          /\ \A f \in batch[c] : e <= f
          /\ batch' = [batch EXCEPT ![c] = @ \ {e}]
    /\ UNCHANGED <<redis, up, outcome, crashes, shared>>

\* The instance dies or is shut down; main returns without waiting for the
\* loop, and the rest of its batch stays in the pending entries.
Crash(c) ==
    /\ c \in up /\ crashes < MaxCrashes
    /\ up' = up \ {c} /\ crashes' = crashes + 1
    /\ batch' = [batch EXCEPT ![c] = {}]
    /\ UNCHANGED <<redis, outcome, shared>>

Next ==
    \/ Publish
    \/ \E c \in Consumer : Start(c) \/ Read(c) \/ ReadLost(c) \/ Handle(c) \/ Skip(c) \/ Crash(c)

Spec == Init /\ [][Next]_vars

\* The loop of an instance that runs keeps reading and calls return.  Nothing
\* starts an instance again by itself.
Fairness == \A c \in Consumer : WF_vars(Read(c)) /\ WF_vars(Handle(c) \/ Skip(c))
FairSpec == Spec /\ Fairness

\* What has become of an entry, seen from outside the transport.
Fate(g, e) == CASE e > delivered[g] -> "waiting"
                [] e <= delivered[g] /\ e \in InBatch(g) -> "taken"
                [] e <= delivered[g] /\ e \notin InBatch(g) /\ outcome[g][e] # "none" -> "done"
                [] OTHER -> "lost"

(***************************************************************************)
(* Properties.                                                             *)
(***************************************************************************)
\* Every variable has its type.
TypeOK ==
    /\ published \in 0..MaxEntries
    /\ groups \subseteq Group /\ shared \subseteq Group /\ up \subseteq Consumer
    /\ delivered \in [Group -> 0..MaxEntries]
    /\ pending \in [Group -> SUBSET Entry]
    /\ batch \in [Consumer -> SUBSET Entry]
    /\ outcome \in [Group -> [Entry -> {"none", "ok", "error"}]]
    /\ crashes \in 0..MaxCrashes

\* Two instances of a service never work on the same entry, and what an
\* instance works on is pending, behind the cursor and not yet handled.
EntryHasOneOwner ==
    \A c \in Consumer :
       /\ \A e \in batch[c] : /\ e \in pending[GroupOf[c]]
                              /\ e <= delivered[GroupOf[c]]
                              /\ outcome[GroupOf[c]][e] = "none"
       /\ \A d \in Consumer \ {c} : GroupOf[c] = GroupOf[d] => batch[c] \cap batch[d] = {}

\* An entry leaves the pending entries only when its handler has returned:
\* a read entry that is not pending was handled.
AckFollowsHandler ==
    \A g \in Group, e \in Entry :
       (e <= delivered[g] /\ e \notin pending[g]) => outcome[g][e] # "none"

\* A handler runs at most once per entry and group: no read, restart or error
\* ever produces a second result for an entry.
HandledOnce ==
    [][\A g \in Group, e \in Entry : outcome[g][e] # "none" => outcome'[g][e] = outcome[g][e]]_outcome

\* A service that has never had two instances up at once handles the stream in
\* order: when an entry has been handled, the older ones have been handled or
\* are lost for good, whatever crashes and lost replies lie between.
HandledInOrder ==
    \A g \in Group \ shared, e, f \in Entry :
       (e < f /\ outcome[g][f] # "none") => (outcome[g][e] # "none" \/ Fate(g, e) = "lost")

\* A group that has an instance running for good sees the stream from its first
\* entry and is never stuck behind an entry whose handler fails or whose reader
\* died: again and again it has read all that was published.
Staffed(g) == \E c \in up : GroupOf[c] = g
EveryEntryIsRead ==
    \A g \in Group :
       <>[]Staffed(g) => []<>(\A e \in 1..published : e \in pending[g] \/ outcome[g][e] # "none")

\* The transport implements the at-most-once delivery of EventDelivery.
Abstract == INSTANCE EventDelivery WITH fate <- [g \in Group |-> [e \in Entry |-> Fate(g, e)]]
AtMostOnce == Abstract!Spec
=============================================================================
