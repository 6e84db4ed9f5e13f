-------------------------------- MODULE WebChat --------------------------------
(* The chat of apps/web: lib/chat-context.tsx on top of lib/xmpp-client.ts and the
   event stream of lib/notification-context.tsx, against the gateway (chat.go).

   A message of somebody else arrives twice, as an XMPP stanza and as an SSE event,
   in any order; an own message is echoed on screen, sent as a stanza, posted, and
   comes back as an event.  Conversations are shorter than a page of 50 messages.  *)
EXTENDS Naturals, Sequences, FiniteSets

CONSTANTS
    Convs,         \* conversations of the user
    MaxMessages,   \* bound on messages composed
    MaxFiles,      \* bound on those with files
    MaxUses        \* bound on selections, and readings by others, of a conversation

NoConv == "none"
Kinds   == {"text", "file"}

ASSUME WebChatAssumption ==
    NoConv \notin Convs /\ MaxMessages \in Nat /\ MaxFiles \in Nat /\ MaxUses \in Nat

VARIABLES
    made,       \* message -> [conv, by, kind], in the order of composition
    log,        \* messages the gateway has stored, in that order, of each conversation
    linked,     \* messages with files whose files are linked to them
    handled,    \* stored messages with files whose event is not sent yet
    readThere,  \* own messages that the others have read
    wire,       \* stanzas under way to this client
    events,     \* SSE events under way to this client, first in first out
    receipts,   \* own messages whose delivery receipt may still come
    active,     \* activeConversation
    shown,      \* messages: [id, status, whole] in the order of display
    known,      \* conversations in the list
    unread,     \* their unreadCount
    loads,      \* fetchMessages under way
    finds,      \* messages whose conversation is fetched by fetchConversationByID
    posts,      \* POST of own messages under way
    hydrates,   \* fetchMessageByID of messages whose stanza had no files
    uses,       \* selections and readings so far
    lossless,   \* no event and no answer was lost so far
    hasty,      \* the view changed while another one was being loaded
    early       \* messages on screen as a read left them that came before their files

gateway == <<log, linked, handled>>
server == <<made, gateway, readThere>>
links  == <<wire, events, receipts>>
view   == <<active, shown, known, unread>>
asked  == <<loads, finds, posts, hydrates>>
marks  == <<lossless, hasty, early>>
chatVars == <<server, links, view, asked, uses, marks>>

Msgs       == 1 .. Len(made)
Mine(i)    == made[i].by # "peer"
Of(c)      == {i \in Msgs : made[i].conv = c}
Logged     == {i \in Msgs : \E k \in DOMAIN log[made[i].conv] : log[made[i].conv][k] = i}
OnScreen   == {shown[i].id : i \in DOMAIN shown}
Fits(k)    == /\ Len(made) < MaxMessages
              /\ k = "file" => Cardinality({i \in Msgs : made[i].kind = "file"}) < MaxFiles
Whole(i)   == made[i].kind = "text" \/ i \in linked
Line(i, s, w) == [id |-> i, status |-> s, whole |-> w]
Status(i)  == IF Mine(i) /\ i \in readThere THEN "read" ELSE "sent"
History(c) == [k \in DOMAIN log[c] |-> Line(log[c][k], Status(log[c][k]), Whole(log[c][k]))]
Revised(sh, Test(_), New(_)) == [k \in DOMAIN sh |-> IF Test(sh[k]) THEN New(sh[k]) ELSE sh[k]]

(* fetchConversations has answered; conversations made since are not in the list.   *)
ChatInit ==
    /\ made = <<>> /\ log = [c \in Convs |-> <<>>] /\ readThere = {}
    /\ linked = {} /\ handled = {}
    /\ wire = {} /\ events = <<>> /\ receipts = {}
    /\ active = NoConv /\ shown = <<>>
    /\ known \in SUBSET Convs /\ unread = [c \in Convs |-> 0]
    /\ loads = {} /\ finds = {} /\ posts = {} /\ hydrates = {}
    /\ uses = 0
    /\ lossless = TRUE /\ hasty = FALSE /\ early = {}

(* The view becomes a, sh; ChatArea then marks the conversation as read whenever the
   conversation or the number of its messages changed (chat-area.tsx).             *)
Becomes(a, sh, un) ==
    /\ active' = a /\ shown' = sh
    /\ unread' = IF a # NoConv /\ sh # <<>> /\ (a # active \/ Len(sh) # Len(shown))
                   THEN [un EXCEPT ![a] = 0] ELSE un

--------------------------------------------------------------------------------
(* The others and the gateway                                                    *)

(* Somebody writes: a stanza leaves, and a POST.                                    *)
PeerComposes(c, k) ==
    /\ Fits(k)
    /\ made' = Append(made, [conv |-> c, by |-> "peer", kind |-> k])
    /\ wire' = wire \cup {Len(made) + 1}
    /\ UNCHANGED <<gateway, readThere, events, receipts, view, asked, uses, marks>>

(* handleSendMessageREST: the message is inserted, its files are linked to it by further
   statements, whose errors are dropped, and then an event is sent to every participant,
   the sender included.  Whoever reads in between finds the message without its files.
   For a text nothing lies in between: its event is under way once it is stored.     *)
Sent(i) == Append(events, [type |-> "chat_message", id |-> i, conv |-> made[i].conv])
Insert(i) ==
    /\ log' = [log EXCEPT ![made[i].conv] = Append(@, i)]
    /\ IF made[i].kind = "text"
         THEN events' = Sent(i) /\ UNCHANGED handled
         ELSE handled' = handled \cup {i} /\ UNCHANGED events
PeerPosted(i) ==
    /\ ~Mine(i) /\ i \notin Logged
    /\ Insert(i)
    /\ UNCHANGED <<made, linked, readThere, wire, receipts, view, asked, uses, marks>>
LinkFiles(i) ==
    /\ i \notin linked
    /\ linked' = linked \cup {i}
    /\ UNCHANGED <<made, log, handled, readThere, links, view, asked, uses, marks>>
PublishQuietly(i) ==   \* (mutant) the event is not published
    /\ i \in linked \/ lossless
    /\ handled' = handled \ {i}
    /\ lossless' = (lossless /\ i \in linked)
    /\ UNCHANGED <<made, log, linked, readThere, links, view, asked, uses, hasty, early>>
Publish(i) ==
    /\ i \in linked \/ lossless
    /\ handled' = handled \ {i}
    /\ events' = Sent(i)
    /\ lossless' = (lossless /\ i \in linked)
    /\ UNCHANGED <<made, log, linked, readThere, wire, receipts, view, asked, uses, hasty, early>>

(* Somebody reads a conversation in which the user has written.                     *)
PeerReads(c) ==
    /\ uses < MaxUses
    /\ \E i \in Of(c) : Mine(i)
    /\ uses' = uses + 1
    /\ readThere' = readThere \cup {i \in Of(c) \cap Logged : Mine(i)}
    /\ events' = Append(events, [type |-> "message_read", id |-> 0, conv |-> c])
    /\ UNCHANGED <<made, gateway, wire, receipts, view, asked, marks>>

--------------------------------------------------------------------------------
(* What is lost                                                                  *)

(* The event stream is opened again after a failure without a look at what was missed.
   Stanzas are lost too, while nobody listens: they never arrive.  One event or one
   answer is lost at most.                                                          *)
LoseEvent ==
    /\ lossless /\ events # <<>>
    /\ events' = Tail(events)
    /\ lossless' = FALSE
    /\ UNCHANGED <<server, wire, receipts, view, asked, uses, hasty, early>>

--------------------------------------------------------------------------------
(* What arrives                                                                  *)

ArrivesAgain(i, line) ==   \* (mutant) no look whether the line is there
    LET c == made[i].conv
    IN /\ Becomes(active, IF active = c THEN Append(shown, line) ELSE shown,
                  IF c \in known /\ active # c /\ ~Mine(i) THEN [unread EXCEPT ![c] = @ + 1] ELSE unread)
       /\ finds' = IF c \in known THEN finds ELSE finds \cup {i}
       /\ hasty' = (hasty \/ (active = c /\ loads # {}))
       /\ early' = early
(* Common to handleNewXMPPMessage and handleSSEChatMessage: a line unless it is there,
   and one more unread, once per arrival; an unknown conversation is fetched.       *)
Arrives(i, line) ==
    LET c   == made[i].conv
        new == active = c /\ i \notin OnScreen
    IN /\ Becomes(active, IF new THEN Append(shown, line) ELSE shown,
                  IF c \in known /\ active # c /\ ~Mine(i) THEN [unread EXCEPT ![c] = @ + 1] ELSE unread)
       /\ finds' = IF c \in known THEN finds ELSE finds \cup {i}
       /\ hasty' = (hasty \/ (new /\ loads # {}))
       /\ early' = IF new THEN early \ {i} ELSE early

OnStanzaWithoutFiles(i) ==   \* (mutant) the files are not asked for
    /\ i \in wire
    /\ wire' = wire \ {i}
    /\ Arrives(i, Line(i, "sent", made[i].kind = "text"))
    /\ UNCHANGED <<server, events, receipts, known, loads, posts, hydrates, uses, lossless>>
OnStanza(i) ==
    /\ i \in wire
    /\ wire' = wire \ {i}
    /\ Arrives(i, Line(i, "sent", made[i].kind = "text"))
    /\ hydrates' = IF active = made[i].conv /\ made[i].kind = "file" THEN hydrates \cup {i} ELSE hydrates
    /\ UNCHANGED <<server, events, receipts, known, loads, posts, uses, lossless>>

OnChatMessage ==
    /\ events # <<>> /\ Head(events).type = "chat_message"
    /\ events' = Tail(events)
    /\ Arrives(Head(events).id, Line(Head(events).id, "sent", Whole(Head(events).id)))
    /\ UNCHANGED <<server, wire, receipts, known, loads, posts, hydrates,
                   uses, lossless>>

(* handleMessageRead: all own messages on screen count as read.                    *)
OnMessageRead ==
    /\ events # <<>> /\ Head(events).type = "message_read"
    /\ events' = Tail(events)
    /\ shown' = IF active # Head(events).conv THEN shown
                ELSE Revised(shown, LAMBDA l : Mine(l.id), LAMBDA l : [l EXCEPT !.status = "read"])
    /\ UNCHANGED <<server, wire, receipts, active, known, unread, asked, uses, marks>>

OnReceiptAnyStatus(i) ==   \* (mutant) no look at the status
    /\ i \in receipts
    /\ shown' = Revised(shown, LAMBDA l : l.id = i, LAMBDA l : [l EXCEPT !.status = "delivered"])
    /\ UNCHANGED <<server, links, active, known, unread, asked, uses, marks>>
(* handleDeliveryReceipt: only what is already known to be sent becomes delivered.  A
   receipt comes from every device of the receiver, so that one may always follow.   *)
OnReceipt(i) ==
    /\ i \in receipts
    /\ shown' = Revised(shown, LAMBDA l : l.id = i /\ l.status = "sent",
                        LAMBDA l : [l EXCEPT !.status = "delivered"])
    /\ UNCHANGED <<server, links, active, known, unread, asked, uses, marks>>

(* The files of a message are asked for 800 ms after its stanza, in the hope that the
   sender's POST has been stored and its files linked by then.                      *)
Hydrate(i) ==
    /\ i \in hydrates
    /\ hydrates' = hydrates \ {i}
    /\ shown' = IF i \in Logged THEN Revised(shown, LAMBDA l : l.id = i, LAMBDA l : Line(i, Status(i), Whole(i)))
                ELSE shown
    /\ early' = IF Whole(i) THEN early \ {i} ELSE early \cup ({i} \cap OnScreen)
    /\ UNCHANGED <<server, links, active, known, unread, loads, finds, posts, uses, lossless, hasty>>

--------------------------------------------------------------------------------
(* fetchConversationByID: prepended with one unread message, unless it is there.   *)
Found(i) ==
    LET m == made[i]
    IN /\ finds' = finds \ {i}
       /\ known' = known \cup {m.conv}
       /\ unread' = IF m.conv \in known \/ m.by # "peer" THEN unread ELSE [unread EXCEPT ![m.conv] = 1]
       /\ UNCHANGED <<server, links, active, shown, loads, posts, hydrates, uses, marks>>

--------------------------------------------------------------------------------
(* The conversation on screen                                                    *)

(* setActiveConversation empties the view and fetches; what is fetched is displayed
   and its conversation marked as read, whatever is selected by then.              *)
UnderWay == loads # {} \/ \E p \in posts : ~p.echo
Select(c) ==
    /\ c \in known
    /\ uses < MaxUses
    /\ uses' = uses + 1
    /\ Becomes(c, <<>>, unread)
    /\ early' = {}
    /\ loads' = loads \cup {[n |-> uses, conv |-> c, read |-> FALSE, has |-> <<>>,
                             unread |-> unread[c] > 0]}
    /\ hasty' = UnderWay
    /\ UNCHANGED <<server, links, known, finds, posts, hydrates, lossless>>
Back ==
    /\ active # NoConv
    /\ Becomes(NoConv, <<>>, unread)
    /\ early' = {}
    /\ hasty' = UnderWay
    /\ UNCHANGED <<server, links, known, asked, uses, lossless>>

ReadLoad(l) ==
    /\ ~l.read
    /\ loads' = (loads \ {l}) \cup {[l EXCEPT !.read = TRUE, !.has = History(l.conv)]}
    /\ UNCHANGED <<server, links, view, finds, posts, hydrates, uses, marks>>
Loaded(l, has) ==
    /\ loads' = loads \ {l}
    /\ Becomes(active, has, IF l.unread THEN [unread EXCEPT ![l.conv] = 0] ELSE unread)
    /\ early' = {has[k].id : k \in {j \in DOMAIN has : ~has[j].whole}}
    /\ UNCHANGED <<server, links, known, finds, posts, hydrates, uses, hasty>>
ApplyLoad(l) == l.read /\ Loaded(l, l.has) /\ UNCHANGED lossless
FailLoad(l)  == lossless /\ Loaded(l, <<>>) /\ lossless' = FALSE

--------------------------------------------------------------------------------
(* Own messages                                                                  *)

(* createConversation: the answer is prepended to the list, unless it is there.    *)
CreateConversation(c) ==
    /\ known' = known \cup {c}
    /\ UNCHANGED <<server, links, active, shown, unread, asked, uses, marks>>

(* `up` is the flag `connected` of XMPPClient, which "online" and "offline" set.  A
   disconnect that ends after the connect that follows it removes the new instance, so
   a stanza that is sent while up may be swallowed; like one that is lost, it has no
   receipt.                                                                         *)
Compose(c, k, by, up) ==
    /\ Fits(k)
    /\ made' = Append(made, [conv |-> c, by |-> by, kind |-> k])
    /\ posts' = posts \cup {[id |-> Len(made) + 1, stage |-> "sent", echo |-> up /\ by = "me"]}
    /\ receipts' = IF up THEN receipts \cup {Len(made) + 1} ELSE receipts
    /\ UNCHANGED <<gateway, readThere, wire, events, known, loads, finds, hydrates, uses, lossless, early>>

(* sendMessage: with XMPP up a pending line is shown at once.                       *)
SendMessage(k, up) ==
    /\ active # NoConv
    /\ Compose(active, k, "me", up)
    /\ IF up
         THEN Becomes(active, Append(shown, Line(Len(made) + 1, "pending", k = "text")), unread)
         ELSE UNCHANGED <<active, shown, unread>>
    /\ hasty' = (hasty \/ loads # {})
ForwardMessage(c, up) ==
    /\ shown # <<>> /\ c \in known
    /\ Compose(c, "text", "forward", up)
    /\ UNCHANGED <<active, shown, unread, hasty>>

PostTaken(p) ==
    /\ p.stage = "sent"
    /\ posts' = (posts \ {p}) \cup {[p EXCEPT !.stage = "taken"]}
    /\ Insert(p.id)
    /\ UNCHANGED <<made, linked, readThere, wire, receipts, view, loads, finds, hydrates,
                   uses, marks>>

(* The answer: a pending line is confirmed, or replaced when it carries files; with
   XMPP down, the line is added to whatever is on screen, unless it is there; what
   was forwarded is added when its conversation is on screen, taken or not.         *)
Upgraded(i) ==
    Revised(shown, LAMBDA l : l.id = i /\ l.status = "pending", LAMBDA l : [l EXCEPT !.status = "sent"])
Confirmed(i) ==
    IF made[i].kind = "file"
      THEN Revised(shown, LAMBDA l : l.id = i, LAMBDA l : Line(i, "sent", Whole(i))) ELSE Upgraded(i)
Forwarded(p) == IF active = made[p.id].conv THEN Append(shown, Line(p.id, "sent", TRUE)) ELSE shown
PostEnded(p, sh) ==
    /\ posts' = posts \ {p}
    /\ Becomes(active, sh, unread)
    /\ hasty' = (hasty \/ (Len(sh) # Len(shown) /\ loads # {}))
    /\ UNCHANGED <<server, links, known, loads, finds, hydrates, uses, early>>
PostAnswered(p) ==
    /\ p.stage = "taken" /\ p.id \notin handled
    /\ PostEnded(p, CASE made[p.id].by = "forward" -> Forwarded(p)
                     [] p.echo -> Confirmed(p.id)
                     [] OTHER -> IF p.id \in OnScreen THEN shown ELSE Append(shown, Line(p.id, "sent", Whole(p.id))))
    /\ UNCHANGED lossless
PostFailed(p) ==
    /\ lossless \/ p.stage = "sent"
    /\ PostEnded(p, IF made[p.id].by = "forward" THEN Forwarded(p) ELSE shown)
    /\ lossless' = (lossless /\ p.stage = "sent")
(* The status of the answer came, its body did not: the line is confirmed as it is.  *)
BodyLost(p) ==
    /\ lossless /\ p.stage = "taken" /\ p.id \notin handled /\ p.echo /\ made[p.id].kind = "file"
    /\ PostEnded(p, Upgraded(p.id))
    /\ lossless' = FALSE

--------------------------------------------------------------------------------
Others == \/ \E c \in Convs : PeerReads(c) \/ \E k \in Kinds : PeerComposes(c, k)
          \/ \E i \in Msgs : PeerPosted(i)
          \/ \E i \in handled : LinkFiles(i) \/ Publish(i)
          \/ LoseEvent
Arrivals == \/ \E i \in Msgs : OnStanza(i) \/ OnReceipt(i) \/ Hydrate(i)
            \/ OnChatMessage \/ OnMessageRead
            \/ \E i \in finds : Found(i)
            \/ \E l \in loads : ReadLoad(l) \/ ApplyLoad(l) \/ FailLoad(l)
            \/ \E p \in posts : PostTaken(p) \/ PostAnswered(p) \/ PostFailed(p) \/ BodyLost(p)
User == \/ Back
        \/ \E c \in Convs : Select(c) \/ CreateConversation(c)
        \/ \E up \in BOOLEAN : \/ \E k \in Kinds : SendMessage(k, up)
                            \/ \E c \in Convs : ForwardMessage(c, up)

ChatNext == Others \/ Arrivals \/ User
ChatSpec == ChatInit /\ [][ChatNext]_chatVars

--------------------------------------------------------------------------------
(* A message that comes as a stanza, as an event, as an echo, in an answer and in a
   list is displayed once.  What is forwarded to the conversation on screen is not
   claimed: forwardMessage adds it without a look whether its event was faster.     *)
ShownOnce ==
    \A j, k \in DOMAIN shown : shown[j].id = shown[k].id /\ made[shown[j].id].by # "forward" => j = k

(* A single check mark means what it says: an own message that shows as sent or as
   delivered is stored, and one that is stored does not stay pending.  (A read mark
   means less, see handleMessageRead; a forward shows as sent without a look.)      *)
Settled == loads = {} /\ posts = {} /\ hydrates = {} /\ events = <<>> /\ handled = {}
CheckMarksAreHonest ==
    \A k \in DOMAIN shown :
        LET l == shown[k]
        IN made[l.id].by = "me" =>
               /\ l.status \in {"sent", "delivered"} => l.id \in Logged
               /\ l.status = "pending" /\ Settled /\ lossless => l.id \notin Logged

(* Whatever is lost on XMPP: once everything has arrived, the view of a conversation
   that was opened while nothing was under way has all of its messages and no other's,
   unless something came in while it was being loaded.                              *)
ViewIsTheConversation ==
    Settled /\ lossless /\ ~hasty /\ active # NoConv =>
        /\ OnScreen \subseteq Of(active)
        /\ Of(active) \cap Logged \subseteq OnScreen

(* Files that the server has are on screen in the end, by the answer, the event, the
   list or the fetch after the stanza; only a line that a list or a fetch left as it
   was before the files were linked goes without them, until it is displayed anew.  *)
FilesAreShown ==
    Settled /\ lossless =>
        \A k \in DOMAIN shown :
            LET i == shown[k].id IN i \in Logged /\ Whole(i) => shown[k].whole \/ i \in early

(* No message counts twice: "double delivery is safe".                             *)
UnreadCountsMessages ==
    \A c \in Convs : unread[c] <= Cardinality({i \in Of(c) : ~Mine(i)})
================================================================================
