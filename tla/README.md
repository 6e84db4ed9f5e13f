# TrustInbox: a TLA+ model

TrustInbox lets companies ("service providers") reach a customer only as far as the
customer permits: notifications, callback requests, chats, documents, do-not-disturb
rules, blocks, frequency caps. This directory holds TLA+ modules of its core, TLC
configurations that check them on small instances, and proofs that TLAPS checks for
every value of the constants. `PROJECT.json` gives, for every definition, the source lines
it stands for, and lists runs, mutants, findings, hazards and theorems.

## 1. The system

Thirteen Go services behind a GraphQL/REST gateway, a shared Go library
(`packages/cornerstone`), one PostgreSQL database that several services write, Redis
(streams and Pub/Sub), and React applications: `apps/web` for customers, `apps/provider` for
providers, a small `apps/admin` and a Flutter `apps/hybrid-app`. Nothing takes a lock across
statements and almost nothing uses a transaction: every gRPC call runs in its own goroutine, so its
SELECT, its UPDATE and its publish are separate steps that other calls, instances and
crashes come between. In the browsers every `await` is such a point.

| component | state it keeps | operations | hard behaviour | what makes it correct |
|---|---|---|---|---|
| `cornerstone/events` | Redis stream `trustinbox:events`, one consumer group per service | XADD, XGROUP CREATE, XREADGROUP, handler, XACK | instances share a group; crashes with a batch in hand; failed handlers | one owner per entry, acknowledged only after its handler, nothing twice, nobody stuck |
| communication-service | callback_requests, conversations, messages, spam reports, shares | create, approve, reject a callback; messages | status read long before it is written; publish best effort | an approval respects the answers it could see, events never outrun the row |
| worker-service | none of its own | dispatch of events, reminders; hourly clean-up | reads the row later than the event; clean-up races handlers | notices are backed by events and true of the row; clean-up takes only what it may |
| webhook-service | webhook_subscriptions, webhook_deliveries | dispatch, POST, back-off, give up, RetryDelivery, subscriptions | several instances, whole-row write-back, crash after POST | attempts bounded, statuses earned, a success final, everything settles |
| organization-service | service_providers, service_provider_users, invitations | roles, removal, deactivation, invite, accept, revoke | count-then-write, check-then-insert | an administrator stays, an invitation admits one, revoked admits nobody |
| auth-service | users, refresh_tokens | register, login, rotate | read-then-revoke, dropped errors, whole-second tokens | tokens distinct, rotation bounded, revocation final |
| policy-service | reads preferences, blocks, rules, provider status, counts | Evaluate | each query looks at another moment; failing queries count as "no" | what bars all along is not allowed, what is denied was barred |
| notification-service | notifications, delivery attempts | create, mark read, list | the policy call before its INSERT is not wired | nothing bypasses policy (violated) |
| user-service | profiles, privacy_preferences, dnd_rules, blocks | CRUD | changes while an evaluation runs | rules mean what the user asked |
| gateway `graphql-bff` | chat messages, one-time passwords, presence, API keys | forwards; provider API writes tables itself; chat; push with its own DND test | second implementations beside the services | see policy-service |
| `apps/web` session (`auth-context.tsx`, `apollo-client.ts`) | tokens in localStorage, token and timer of each tab, queue of refused operations | login, logout, refresh by timer, by error link, by the chat | one-use tokens exchanged by parts and tabs that do not know of each other; late answers | the stored token is good and its user's; nobody is signed out without a cause; the queue moves on |
| `apps/web` chat (`chat-context.tsx`, `xmpp-client.ts`, `notification-context.tsx`) | conversations, messages and their check marks, unread counts | send, receive, select, load, mark read | each message comes by stanza, event, echo, answer and list, in any order | shown once, honest check marks, the view is the conversation |
| pages of `apps/web` and `apps/provider` | useState flags, busy flags, query results | gestures, mutations, queries, reloads on events | double clicks, late and lost answers, answers overtaking each other, dialogs closed under way | one request per busy flag, no control dead for ever, nothing stale, drafts kept, dialogs can be left |
| bot-, document-, analytics-, ai-, industry-service; libraries; `apps/admin`, `apps/hybrid-app` | workflows, versions, event log, prompts, profiles | see section 6 | - | - |

Interactions. A service writes its row, then publishes through `DualPublisher`: stream first,
then Pub/Sub. worker-service, webhook-service, analytics-service and the push
consumer each read the stream as a group. The gateway's live channel listens on Pub/Sub. notification- and
communication-service would ask policy-service before they insert, but `main.go` passes them no checker; bot-service asks it
as a tool of its agents; policy-service reads tables of user- and organization-service. worker-service calls communication- and notification-service and
writes refresh_tokens and callback_requests directly, as the gateway's provider API does. The browsers
talk to the gateway by GraphQL and REST, get server-sent events from it, and exchange XMPP stanzas with ejabberd.

## 2. Modules

| module | models | variables and their code | actions |
|---|---|---|---|
| `EventStream` | `packages/cornerstone/events/redis.go` | `published`, `groups`, `delivered`, `pending`: the stream and what Redis keeps of a group; `up`, `batch`: the instances and the entries between XREADGROUP and XACK; `outcome`: what the handler returned | `Publish`, `Start`, `Read`, `ReadLost`, `Handle`, `Skip` (an entry that cannot be parsed, neither handled nor acknowledged), `Crash` |
| `EventDelivery` | what the transport promises, abstractly | `fate` of an entry for a group | `Take`, `Drop`, `Finish`, `Lose` |
| `CallbackLifecycle` | communication-service's handlers, gateway provider API, worker's reminder processor and expiry | `row`, `call` (a handler between two steps), `stream`, `channel`, `cursor`, `inHand`, `workerUp`, `notices`, `sweep` | `Create`, `CheckApprove`, `CheckReject`, `Write`, `ProviderUpdate`, `Publish`, `Abort`; `Fetch`, `Notify`, `WorkerCrash`, `WorkerStart`; `ExpireSweep`, `Age` |
| `WebhookDelivery` | dispatch, delivery worker, RetryDelivery, subscriptions | `sub`, `url` (can a request be built from it), `row`: tables; `batch`, `hand`: copies a worker carries; `up`; `retry` | `Dispatch`, `FetchBatch`, `Post`, `GiveUp`, `WriteBack`, `Crash`, `Start`, `BackoffEnds`, `RetryRead`, `RetryWrite`, `UpdateSubscription`, `Delete` |
| `TeamMembership` | `TeamUseCase`, AddSPUser | `member`, `invite`: tables; `call` | one action per statement of each call, `Refuse`, `Fail`, `Expire` |
| `TokenRotation` | Register, Login, RefreshToken, `expireRefreshTokens` | `user`, `row`: tables; `call`, `answer` | `Login`, `Register`, `ReadToken`, `Revoke`, `Mint`, `Store`, `Fail`, `Tick`, `ExpireRefreshTokens` |
| `PolicyGate` (extends `QuietHours`) | `Evaluate`, query by query, and `CreateNotification` of advertisements as wired | what users and administrators set; `adsToday`; `call` (an evaluation between two queries) | `Begin`, one `Check...` per query, `GiveUp`; `CreateAd`; `ChangePreferences`, `ChangeProvider`, `TimePasses` |
| `QuietHours` | the two do-not-disturb evaluations, of rules as the database returns them | `rules`, `day`, `minute` | `SaveRule`, `Tick` |
| `WebSession` | the tokens of one browser and the three parts of each tab that exchange them | `stored`: localStorage; `tab`: React state, timer, `isRefreshing` and the pending queue; `owner`, `live`, `calls`: the gateway's `/api/auth/refresh` | `Open`, `Login`, `Logout`, `Close`, `TimerFires`, `ChatRejected`, `Unauthenticated`, `Rejected`; `Take`, `Refuse`, `Answered`, `Refused`, `Lost`, `Revoke` |
| `WebChat` | one browser's chat between XMPP, server-sent events, its own fetches and the gateway's `chat.go` | `log`, `linked`, `handled`: messages stored, with files linked, and stored without their event sent yet; `wire`, `events`, `receipts`, `loads`, `finds`, `posts`, `hydrates`: what is under way; `shown`, `known`, `unread`, `active`: React state | `Others`, `Arrivals`, `User`, each a disjunction of one action per callback |
| `PageMachine` | what every component does with useState flags, `disabled={busy}`, mutations and queries | `ui` (flags), `held` (busy slots), `calls`, `loads`, `aim` and `truth` (parameters and content of a query), `shown` | `Gesture`, `Send`; `Take`, `Refuse`, `Elsewhere`, `ReadLoad`; `AnswerGood`, `AnswerBad`, `Lose`, `ApplyLoad`, `FailLoad` |
| `PageTable` | the vocabulary of the tables, with its defaults | - | - |
| `ProviderPages`, `WebPages` | 71 components of the two applications, one table entry each: which controls there are, what they need, take, send, reload and undo | - | run by `PageMachine` |

`CallbackLifecycle` composes four programs over one table and one stream: it keeps the stream as a
sequence and one consumer, since `EventStream` (proved to be an at-most-once delivery) says that an
entry is taken at most once and can be lost, which here are `Fetch` and `WorkerCrash`. `WebSession` composes
the tabs of a browser with the exchange of `TokenRotation`, reduced to what a client sees of it: a
token is taken once.

The pages share one machine because they share one shape: a handler checks its flags, sets a busy
flag, awaits, and changes flags and lists by the outcome. A page is therefore data; `PageMachine` gives the data its meaning
and carries the properties and proofs. Where a component departs from the shape (it does not look at the
status, frees its flag only on success, applies superseded answers), the table says so, and the claims
`single`, `leaky`, `fresh`, `drafts`, `apart` and `rests` of the entry say which properties are claimed of what: whatever is not
claimed is in the list of section 5.

`MC...` modules instantiate them for TLC; `..._proofs` modules hold theorems.
Operators named "Mutant of" or marked "(mutant)" state a plausible bug in the operator they precede or follow;
substituting them must break a property, which shows that the property looks at that code.

History variables never guard an action: `overlapped` (two calls have been in progress
together), `shared` (a group has had two instances up at once), `fetchers` (workers that
have fetched), `posts`, `accepted`, `granted`, `spared` (deliveries whose URL could not be used), `presented`, `exchanged`, `joined`, `revoked`,
`stale` and `again` (approvals that read the row before an answer; requests answered more than once), `standing`, `seen`, `edited`, `clean`,
`overlap`, `late`, `hasty`, `early`. They let a property say under which
circumstances a promise holds: a guard of check-then-write form can only promise something to calls that do not overlap.

### Abstractions
Payloads, names, wording, logging, signatures and passwords are left out. A next
retry time is "has passed or not", an age is "over 72 hours or not", a refresh token in `TokenRotation` is the second it was
made in (its claims are the user and two whole-second times) and in `WebSession` a number, a spam score is "reaches the
threshold". A text of a time is the sequence of its parts. The content of a query is the set of changes it contains, its
parameters are a count of how often they were changed. An early return that changes nothing is
a guard, or `Refuse`. Events published after a success are modelled where some property is about
them (callbacks, chat, lists that reload) and left out elsewhere (team, tokens). In `PolicyGate` there is one user, and of
what services create only advertisements, which later evaluations count. `Evaluate` writes nothing that another evaluation reads.
`WebChat` has one browser and one correspondent side that sends, reads and is told; of a file only whether it is there. Its stores are
the statements of `handleSendMessageREST` (INSERT, linking of files, event) each at its moment; a list or a message that is read is read in one.

## 3. Runs

Passing runs fire every action of their next-state relation.

| run | question | bounds, and why they suffice | distinct states |
|---|---|---|---|
| `callback` | does an approval respect answers, do events and notices stay behind the database, are reminders true, does the worker drain the stream | one request (handlers of different requests touch different rows), four handler calls, two in progress: create plus any two racing decisions plus the event that follows; one slot | 1,097,356 |
| `stream` | one owner, acknowledgment after handling, order, every entry read, refinement of `EventDelivery` | two instances of one service (groups never interact), five entries, the second of which cannot be parsed (`Malformed`), in batches of up to three, so that full and partial batches are out together; two crashes or lost replies | 35,609 |
| `webhook` | are attempts bounded, are statuses earned, is a success final, does each delivery settle | one delivery, two instances, two retries, two attempts, one fault, any URL: a stale copy of each kind meets each other | 735,646 |
| `team` | are memberships and invitations consistent | three users, two invitations to one address, four calls, two in progress, one fault | 136,898 |
| `team_last_admin` | does an administrator always stay | violated, see 5 | - |
| `token` | are tokens distinct, final, bounded | four calls, two in progress, three seconds after the first, lifetime two, one fault: tokens of one second, expired ones and dropped revocations all occur | 41,537 |
| `policy` | does a standing bar hold, has a denial its cause, when does a stored rule mute | one evaluation (it writes nothing another one reads), one provider, one rule of two scopes, cap two, three advertisements, two changes, one fault, any initial preferences: a bar that comes, goes or stays between any two queries | 6,022,944 |
| `policy_bypass` | is nothing created without an evaluation | violated, see 5 | - |
| `pages` | for each component: one request per busy flag, nothing stuck, nothing stale, dialogs left, drafts kept, requirements met | two changes or requests, both in flight together, and any number of free gestures: two are what a double click, an answer overtaken by another, or a change under way needs; no claim is about three | 427,278 |
| `chat` | shown once, honest check marks, the view is the conversation, files are shown | two conversations, two messages, one of them with files (`MaxFiles`), two selections or readings, with every order of stanza, event, echo, answer and list and any loss: a duplicate, an overtaking and a switch of the view each fit | 6,609,453 |
| `chat_unread` | is a message counted once | violated, see 5 | - |
| `session` | is the stored token good, is nobody signed out without cause, do waiting operations end | two tabs, two users, three tokens, two exchanges, one waiting operation: two exchanges of one token, one exchange each side of a login, and a tab that waits for the other | 1,243,261 |

Symmetry is used over calls and conversations only, in safety runs. `chat` identifies states that differ only in unread counts and in
look-ups of conversations (`VIEW Uncounted`): no guard of another action looks at a count, and `Found` does to everything else what `CreateConversation`, which is
always possible, does. `chat_unread`, which is about the counts, does without. Deadlock is not checked where every call runs at
most once or uses are bounded, so that the instance ends; in `callback` the system goes on for ever
and deadlock is checked. `MCPages` puts the joined tables in a LET: otherwise TLC's coverage counts walk
through all of them wherever `Table` is mentioned.

`PolicyGate` and `QuietHours` model the services as `main.go` wires them and the rules as the repositories return them: the creating services
do not ask, and every rule mutes at midnight. No run assumes another deployment.

### Fairness
`callback`: the consumer loop of a worker that is running (one goroutine, `for { ... }`) keeps
reading and processing. `stream`: the loop of an instance that is up keeps reading and handlers
return. `webhook`: the delivery ticker of an instance that is up fires, `deliver` ends because
the HTTP client has a timeout, time passes. `session`: for each tab, a refresh under way is
settled (`Settles`: answered, refused or lost), because `fetch` ends by an answer or by an error
and both branches are written. All of it is weak fairness. Nothing in the repository starts a
process again (`docker-compose.yml` has no restart policy), so starting is never fair, and the liveness
properties `StreamIsDrained`, `EveryEntryIsRead` and `DeliveriesSettle` are
about a process, or some instance of the service, that in the end stays up. No call by a user, no step of
a handler, no answer of an endpoint and no fault is assumed to happen. That the pages and the chat have
no liveness property is deliberate: what their users wait for is a server; `NoStuckBusy` and `DialogsCanBeLeft` state as invariants
that nobody waits for nothing.

## 4. What is proved

TLAPS proves these for every value of the constants (any number of instances, users, calls, tabs, requests, overlaps
and faults), under the named assumptions of each module, which say only that bounds are numbers,
that NULL is no row, and that the tables of the pages are well formed. No theorem has another hypothesis.

The assumptions about the tables are where the theorems about `PageMachine` meet the components; the run `pages` evaluates each of them
on all 71 tables. `TableAssumption` and `SlotAssumption`: requests of a busy slot stand in one dialog, and free the slot whatever the answer.
`GoneAssumption`: nothing reopens a component that was left. `FreshAssumption`: whoever changes what is claimed to be fresh, or its parameters,
fetches it again, and the list drops superseded answers; lists for which the code does not do that are not in `fresh`.
`DraftAssumption`: no failure, timer or closing dialog clears what was typed; drafts that the code does clear are not in `drafts`.
`DialogAssumption`: each dialog of `modals` has a control (`Exit`) that leads out of it and needs only what stays there while the dialog is open.
`ApartAssumption`, `RestAssumption` and `RequiresAssumption`: the steps of a wizard exclude each other, a step is entered only from one that asks for what it rests on, and that is emptied
only in an earlier step; what an operation requires its control looks at, or stands in such a step.
A component that breaks one of them would end the run, so that the theorem and the table cannot part.

| module | theorems | inductive invariant |
|---|---|---|
| `EventStream_proofs` | `TypeCorrect`, `OneOwner`, `AckAfterHandler`, `HandledAtMostOnce`, `DeliversAtMostOnce`, `InOrder` | `TypeOK`, `BehindCursor` (what lies past a group's cursor is neither pending nor handled), `EntryHasOneOwner`, `AckFollowsHandler`; and `OrderInv` (what the only instance of a service has read and not handled is younger than all it handled) |
| `CallbackLifecycle_proofs` | `TypeCorrect`, `EventsBacked`, `ApprovalsRespectAnswers`, `RemindersTrue` | `RespondedIsDecided`, `HandlersAreBacked` (the row of a handler exists, and one about to publish a decision has written it), `NothingOutrunsTheRow`, `InHandIsRead` (what the worker holds was on the stream), `NoticesAreBacked`; and `LateOnesAreStale` (an approval of an answered request read it before), `TruthInv` (of a request answered once, handler, stream, worker and row agree that it is approved) |
| `WebhookDelivery_proofs` | `StatusEarned`, `SuccessFinal` | `RowsEarned`, `BatchesEarned`, `HandsEarned` (each copy, wherever it is, carries a status its attempts and answers earn), `NothingBeforeDispatch`, `PostsCounted` (with one instance, a row counts all POSTs but the one in the worker's hand); and `HandIsApart`, `SuccessesAreOut` (with one instance no copy of a successful row is out), `RetriesAreLate` |
| `TeamMembership_proofs` | `TypeCorrect`, `OnePending`, `AcceptedJoined`, `DeactivatedOut`, `GuardsKeep`, `AdmitsOne`, `RevokedNobody` | `TypeOK`, `CallsBacked` (the invitation a call holds exists, and a call about to mark it accepted has added its user), `OnePendingPerEmail`, `AcceptedWasJoined`; and `SerialInv` (while calls do not overlap, the one in flight has a guard that still holds: another administrator, a pending invitation; members and faults are counted) |
| `TokenRotation_proofs` | `TypeCorrect`, `DistinctAnswers`, `RevokedForGood`, `RevokedForACause`, `LimitedExchanges` | `TypeOK`, `CallsBacked` (a rotation holds a stored, presented token), `RowsOutlive` (a row's expiry is not before its token's), `AnswersAreStored`, `AnswersAreDistinct`; and `ExchangeInv` (exchanges and calls past the revocation of a valid token are counted by the faults, exchanges and calls that hold a token by the overlap and the faults) |
| `Policy_proofs` | of `PolicyGate`: `BarsHold`, `DenialsNamed`; of `QuietHours`, whose rules it reads: `StoredRulesLoseTheirHours` | `OnRecord` (what is said to have stood stands, what stands has been seen), `Carries` (what an evaluation carries from an earlier query had its cause then), `Excluded` (no evaluation has passed the query for a bar that has stood, but by a fault), `HoursTypes` |
| `PageMachine_proofs` | `TypeCorrect`, `OneRequestPerSlot`, `SlotsAreGivenBack`, `SettledIsFresh`, `DraftsGoForCause`, `NobodyIsLockedIn`, `RequiredIsThere` | `TypeInv`, `OneEach`, `BusyIsHeld` (a request under way keeps a single slot held), `BusyIsBacked` (a held slot has a request under way); `FreshInv` (the newest fetch will have all the server has, or somebody under way fetches again), `HereInv` (what stands in no dialog is never closed under its request), `EditedInv` (what saves a draft was sent after the draft was begun), `OnceInv` and `ExitInv` (what the way out of an open dialog looks at stays there), `StepsInv` (one step of a wizard at a time, none without what it rests on) |
| `WebApp_proofs` | of `WebSession`: `StoredIsGood`, `SignedOutForACause` | `NewIsUnused` and `NewIsLive` (a token just made is in one answer only and good), `StoredIsReplaceable` (the stored token is good or an exchange of it brings a good one), `OneIdentity`, `LoneExchangesSucceed` |
| | of `WebChat`: `DisplayedOnce`, `HonestMarks`, `WholeConversation`, `FilesArrive` | `LogInv` (a conversation stores its own messages, each once), `GateInv` (while nothing is lost, a stored message has its files linked or its event still to be sent), `WireInv` and `PostInv` (an event is about a stored message, a message has one POST, answered once stored), `LoadInv`, `ShownOnce`, `LineInv` (the status a line lacks is under way), `FilesInv` (so are its files, or the line is in `early`), `ViewInv` (what the view lacks is under way) |

The strengthenings are needed. `EntryHasOneOwner` is not kept by a read unless fresh entries are
known to be in nobody's batch: `BehindCursor`. `AcceptedWasJoined` rests on what a call holds between
two statements: `CallsBacked`. `RevocationHasCause` fails for a clean-up of a token whose row ends before the token: `RowsOutlive`.
`StatusIsEarned` says nothing of a copy on its way back to the table: `HandsEarned`; and that a failure is one of all attempts
needs that a row of a deleted subscription never comes back. `PostsAreLimited` needs to know how far a row lags behind the POSTs: `PostsCounted`.
`StandingBarsHold` speaks of evaluations that have ended; what carries it is that one which has passed a query
found nothing that has stood since its beginning: `Excluded`. `SuccessIsFinal` needs that a worker never fetches a row it still holds: `HandIsApart`.
`SingleFlight` needs that a held slot and its request
come and go together even when a dialog closes under them: `BusyIsHeld` and `BusyIsBacked`.
`StoredTokenIsGood` speaks of quiet moments; between them the token is consumed and its successor
is in an answer: `StoredIsReplaceable`.
`DeliversAtMostOnce` maps an entry to its `Fate`: a read is a `Take`, a lost reply a `Drop`,
a handler's return a `Finish`, a crash a `Lose`, everything else a stutter.

Some type invariants (`TeamMembership`, `TokenRotation`, `PageMachine`) are proved and need no run, others are conjuncts of an inductive invariant.

Invariants that hold at rest only (`FreshWhenSettled`, `CheckMarksAreHonest`, `ViewIsTheConversation`, `FilesAreShown`) are carried by what
is under way when they do not hold yet. `LineInv` says for each mark of a line which POST or fetch will correct it, and that its message is not stored if
none is left; `ViewInv` that a message missing on screen is announced by an event or will be in the only fetch under way. `ShownOnce` needs three facts about
what is not on screen: a message has one POST, the echo of an own message precedes its POST, and a list that was read has each message once.
`GuardsKeepAnAdmin` needs the guard of the call in flight to stand until it writes; it does, because the call is alone: `SerialInv`. `ExchangesAreLimited` is true of
each token by a count over calls: those that got past its revocation while it stayed valid did so by a fault. In `QuietHours` nothing is inductive but the types.
`FilesAreShown` follows a file through the three statements of its POST: a line without it is in `early`, or a fetch, an answer or an event that will bring it is under way (`FilesInv`).

Only model-checked: liveness (`StreamIsDrained`, `EveryEntryIsRead`, `DeliveriesSettle`, `QueuedOperationsEnd`), since fairness and ENABLED are beyond the prover.
Every other property of a passing run is a theorem. No module declares a RECURSIVE operator; nothing here needs induction over data.

## 5. Where code and documents part

Runs that TLC ends with a counterexample, quoted in `PROJECT.json`:

- `team_last_admin`: overlapping demotions or removals that both counted two administrators leave none.
- `policy_bypass`: `main.go` of notification- and communication-service (lines 77 and 78) passes a nil policy checker, so that what they create is
  evaluated by nobody, where `docs/architecture/adr.md:10` says "No service may deliver or create a communication without a policy evaluation";
- `chat_unread`: a message that comes as a stanza and as an event is counted as unread twice, where
  `notification-context.tsx:208` calls double delivery safe.

Stated in the models by an exception of a property or by a comment at the definition:

- the reminder is decided by the slot in the row (`processor.go:184`), which a rejection leaves, so a
  callback approved and then rejected before the worker read the event is announced as approved (`docs/business-flows/callback-request.md:25`); `RemindersAreTrue` claims requests answered once;
- nothing reads or claims pending entries again (`redis.go:261` asks for `>` only), while `docs/architecture/event-architecture.md:16` promises redelivery; an entry without data or with data that is no event
  is skipped without an acknowledgment (`redis.go:275-283`) and stays pending too;
- a TIME column reaches `timeToMinutes` (`evaluate.go:288`) as a timestamp with two colons and becomes minute 0, and `parseHHMM` of the gateway takes none of it:
  the hours of no stored rule count (`StoredRulesMuteAtMidnight`), though the evaluator's unit tests, which hand it HH:MM, pass;
- the guards of the team count administrators whatever their status, so that after one is deactivated the other can be deactivated too, although `team.go:329` says
  "Prevent deactivating the last admin"; `GuardsKeepAnAdmin` claims it only while every administrator is active;
- a URL is only checked for emptiness (`webhook.go:51`); one that cannot be parsed fails its delivery with no attempt made (`delivery_worker.go:89-93`);
- the gateway answers an expired access token with HTTP 401 (`rbac_middleware.go:139`), never with the GraphQL code UNAUTHENTICATED, so the refreshing branch of
  Apollo's error link, and with it the queue `QueuedOperationsEnd` is about, is not reached and the 401 (`apollo-client.ts:133`) signs out at once; `docs/tasks2/task_2_1.md:184` says it refreshes;
- approvals that overlap write over an answer; the expiry names columns the table lacks, so no
  callback ever expires; failed handlers are acknowledged and not retried; instances of webhook-service POST the same delivery and write a failure over a success; a RetryDelivery
  that read the row earlier undoes a success; FindByEvent crosses providers; two holders of a token can join by one invitation, and one can join while it is being revoked; a refresh
  token can be exchanged by each call that overlaps, and two of one second are equal; the weekday of an overnight
  rule is tested on both days separately; a category rule cannot match, since its reference is a
  UUID; the advertisement cap binds the answer of an evaluation and not what is created; a callback that needs approval skips the spam test; a
  failing block look-up counts as not blocked.

In the session (`WebSession`): the answer of a refresh that comes after a logout restores tokens (`auth-context.tsx:188`); the loser of two overlapping refreshes
signs everybody out; a late answer can pair one user's token with another's name; a refresh by Apollo does not update React's token.

In the chat (`WebChat`): `setActiveConversation` applies superseded answers; a read event turns a pending message into a read one; a forward
is shown as sent whatever the answer and is not deduplicated; the files of a stanza are fetched 800 ms later and may not be there yet, or a list is read between the INSERT of a message
and the linking of its files, and the event that has them is dropped as a duplicate, so that they are not shown until the conversation is opened again (`early`); a late `disconnect` can clear a newer client.

In the pages, as the tables and their comments say:

- provider console: a webhook test that went through leaves a dialog without a button; the secret of a new webhook is never shown (`webhooks/page.tsx:138`); late answers
  close a reopened dialog where Cancel is not disabled; lists that no success reloads (callback actions, spam reports, campaign launch and cancel, API keys); a stale policy check gates the composer;
  the password form makes no request; organization data arriving late wipes the typed form (`settings/profile/page.tsx:298`); the registration wizard restores its step but not its documents;
  the conversation list appends a page of the old filter; a resent invitation is revoked first and lost if the second call fails;
  a debounced search overwrites the filter of the URL in documents; useSSE leaves its timer behind; a share request nests its variables (`ShareDocumentModal.tsx:54`);
  autosave overwrites a draft not yet restored; a new CMS page saved twice makes two; the CMS list shows answers of older filters; notes and tags have no busy flag; the composer clears a text whose sending failed.
- customer application: the forms of career, addresses (`settings/addresses/page.tsx:70`), do-not-disturb rules and availability can be left and opened again while a save is under
  way, and its answer closes the new form, so they are not among the drafts; a cover colour wipes typed fields (`profile/page.tsx:170`); one `saving` flag for six career mutations; superseded searches of friends are shown (`friends/page.tsx:124`);
  Enter sends while files upload; the upload of a document ignores the status of its last two steps; `refetchQueries` without variables misses the displayed list;
  archiving clears whichever message is selected; a rule is edited by delete and create; an availability toggle likewise; Skip while the onboarding saves advances twice; the sound switch has no rollback; edit and delete of a chat message ignore the status.

## 6. Not modelled

- Go services: conversations, messages, spam reports and shares of communication-service (single INSERTs); `DeliveryProcessor` (its first call
  is unimplemented, so it always fails); `CampaignSendProcessor` (a target is notified, then marked); the stream's growth (XADD has no MAXLEN); notification read and delivery status; username
  resolution (look-up, then INSERT); CreateServiceProvider (two INSERTs); document version numbers; the deadline of workflow suspensions; the provisioning of the agent suite;
  the gateway's presence, one-time passwords and API keys; ai-, analytics- and
  industry-service; encryption, PII scanning, permission tables.
- Chat: older pages of a conversation, typing, presence, stars and pins, the group echo. Edits, deletions and reactions are gestures of `ChatArea` in `WebPages`.
- Pages: login, bot, dashboard, agent-suite and static pages; charts, formatting, layout; the Apollo cache beyond "a mutation patches or reloads a query".
- Applications: `apps/admin` (a few pages without state), `apps/hybrid-app` (Flutter, the flows of `apps/web` against the same gateway).

`PROJECT.json` gives a reason for each component.

## 7. Plan

Order followed: the transport everything rests on (`EventDelivery`, `EventStream`), the flow at the centre
of the product (`CallbackLifecycle`), the tables with the hardest races (`TeamMembership`,
`TokenRotation`, `WebhookDelivery`), the policy (`PolicyGate`, `QuietHours`), then the browsers, where most of the code is: the pages
(`PageMachine` and its tables), the session and the chat. Proofs came with each module where the property does not depend on liveness or on a table's content. What would come next:

1. Models: workflow suspensions of bot-service (suspend, trigger, resume, the deadline), the agent suite step by step, the campaign fan-out,
   document versions, username resolution and CreateServiceProvider; the bot and agent-suite pages as further tables.
2. Abstract specifications: a linear life of a callback request, which `CallbackLifecycle` implements while handlers do not
   overlap; a delivery that is pending, then settled once, which `WebhookDelivery` with one instance implements.
3. Proofs: that the models implement those abstract specifications, step by step, as `DeliversAtMostOnce` does for the transport.

To run: `tlc -config MCTeam.cfg MCTeamMembership`, and so on by the table in `PROJECT.json`; `tlapm TeamMembership_proofs.tla`.
