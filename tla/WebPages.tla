------------------------------- MODULE WebPages -------------------------------
(* The components of apps/web, the console of the people who are contacted, as
   tables for PageMachine.  Where an effect's cleanup sets "cancelled", the answers of
   superseded fetches are dropped ("latest").  Apollo drops them when the variables
   change, but a reload may join a fetch that was under way before the change.  A
   mutation that names a query to be fetched again without the variables it is
   displayed with reloads nothing that is on screen.                               *)
EXTENDS PageTable

--------------------------------------------------------------------------------
(* profile                                                                       *)

(* An update patches what is shown without loading it again.  A change of privacy
   loads all six parts of the profile, which are displayed together.              *)
ProfileHook ==
    [update  |-> [writes |-> {"profile"}, okPatch |-> {"profile"}] @@ Call,
     privacy |-> [writes |-> {"profile"}, okPatch |-> {"profile"}, okLoads |-> {"profile"}] @@ Call]

(* One flag tells of all six mutations, and each of them ends it.                *)
CareerHook ==
    LET change == [slot |-> "career", writes |-> {"career"}, okLoads |-> {"career"}]
    IN [save |-> change @@ Call, delete |-> [items |-> {1, 2}] @@ change @@ Call]

(* A file is checked before it is sent; while a picture is on its way the controls
   are not there.                                                                 *)
AvatarUpload ==
    LET request == [slot |-> "avatar", idle |-> {"avatar"}, off |-> {"avatarError"},
                    noOn |-> {"avatarError"}]
    IN [upload  |-> [okOn |-> {"avatar"}] @@ request @@ Call,
        reject  |-> [idle |-> {"avatar"}] @@ Show("avatarError"),
        remove  |-> [need |-> {"avatar"}, okOff |-> {"avatar"}] @@ request @@ Call,
        dismiss |-> Hide("avatarError")]

(* The fields follow the profile: whenever it is loaded or patched, what was typed
   into them is replaced.  A colour is stored at once, edits with the button.      *)
ProfileFields ==
    [edit   |-> [bar |-> {"editing"}] @@ Show("editing"),
     type   |-> [need |-> {"editing"}] @@ Show("typed"),
     cover  |-> [need |-> {"editing"}, okOff |-> {"typed"}] @@ ProfileHook.update,
     save   |-> [need |-> {"editing"}, slot |-> "saving", idle |-> {"saving"},
                 okOff |-> {"editing", "typed"}] @@ ProfileHook.update,
     cancel |-> [idle |-> {"saving"}, off |-> {"editing", "typed"}, need |-> {"editing"}] @@ Tap,
     copy   |-> Show("copied"), copied |-> Hide("copied")]

(* A form is closed by its own save, however long ago that was: one opened anew during
   the save goes with it (so the forms are no drafts).  Saving in one form disables
   the buttons that save the others.                                              *)
CareerForm(form) ==
    [n \in {form \o ".open", form \o ".cancel", form \o ".save"} |->
        CASE n = form \o ".open"   -> Show(form)
          [] n = form \o ".cancel" -> Hide(form)
          [] n = form \o ".save"   -> [need |-> {form}, idle |-> {"career"}, okOff |-> {form}]
                                          @@ CareerHook.save]

CareerTab ==
    [ops |-> CareerForm("work") @@ CareerForm("education") @@ CareerForm("skill") @@
             [delete |-> [awaits |-> {"career"}] @@ CareerHook.delete]] @@ Reads({"career"})

(* The tabs only choose what is displayed: the page holds the state of all of them. *)
ProfilePage ==
    [queries |-> {"profile"}, loads |-> {"profile"}, latest |-> {"profile"},
     wipes |-> {<<"profile", "typed">>}, timers |-> {"copied"}, single |-> {"saving", "avatar"},
     ops |-> ProfileFields @@ AvatarUpload] @@ Component

--------------------------------------------------------------------------------
(* friends                                                                       *)

(* The search is sent 300 ms after the last key; an answer on its way is not
   dropped when the text changes.                                                 *)
FindPeople ==
    [type  |-> [moves |-> {"people"}] @@ Show("debounce"),
     timer |-> [asks |-> {"people"}] @@ Hide("debounce"),
     short |-> [moves |-> {"people"}] @@ Hide("debounce")]

(* One flag holds the row at work, and only that row is disabled.                *)
FriendHandlers ==
    LET row(k) == [slot |-> "row", own |-> TRUE, items |-> {k}, writes |-> {"friends", "requests"}]
    IN [message |-> [okOn |-> {"gone"}] @@ Call,
        accept  |-> [okLoads |-> {"friends", "requests"}] @@ row(1) @@ Call,
        reject  |-> [okLoads |-> {"requests"}] @@ row(2) @@ Call,
        request |-> [okLoads |-> {"requests"}, okOn |-> {"sent"}] @@ row(3) @@ Call,
        remove  |-> [okLoads |-> {"friends"}, own |-> FALSE] @@ row(4) @@ Call]

FriendsPage ==
    LET known == {"friends", "requests"}
    IN [queries |-> known \cup {"people"}, loads |-> known, live |-> known,
        timers |-> {"debounce"},
        ops |-> Within([sees |-> {"friends"}],
                    [message |-> FriendHandlers.message, remove |-> FriendHandlers.remove]) @@
                Within([sees |-> {"requests"}],
                    [accept |-> FriendHandlers.accept, reject |-> FriendHandlers.reject]) @@
                [request |-> [sees |-> {"people"}] @@ FriendHandlers.request] @@ FindPeople]
       @@ Component

--------------------------------------------------------------------------------
(* The composer of the chat                                                      *)

(* Files are uploaded one after the other.  The buttons wait for that, the Enter key
   does not: it empties the queue, and an upload that ends later finds no entry.    *)
ComposerFiles ==
    LET upload == [home |-> "queued", on |-> {"queued"}, okOn |-> {"ready"}]
    IN [attach  |-> [idle |-> {"upload", "dropped"}, slot |-> "upload"] @@ upload @@ Call,
        drop    |-> [slot |-> "dropped"] @@ upload @@ Call,
        discard |-> [idle |-> {"upload", "dropped"}] @@ Hide("queued")]

(* What was typed leaves the composer when it is sent, whatever becomes of it; what
   is sent while a message is edited replaces that message.                        *)
ComposerText ==
    LET post == [off |-> {"text", "queued"}, writes |-> {"messages"}]
    IN [type      |-> Show("text"), erase |-> Hide("text"),
        sendText  |-> [need |-> {"text"}, idle |-> {"upload", "dropped"}] @@ post @@ Call,
        sendFiles |-> [need |-> {"ready"}, idle |-> {"upload", "dropped"}] @@ post @@ Call,
        enterText |-> [need |-> {"text"}] @@ post @@ Call,
        enterFiles |-> [need |-> {"ready"}] @@ post @@ Call]

(* The recorder takes the place of the input; while its recording is uploaded it has
   no control, and the answer closes it.                                           *)
VoiceRecorder ==
    [record  |-> [bar |-> {"voice"}] @@ Show("voice"),
     granted |-> [need |-> {"voice"}, bar |-> {"recording", "recorded"}] @@ Show("recording"),
     abandon |-> [need |-> {"voice"}, idle |-> {"voice"}, off |-> {"voice"}] @@ Tap,
     speak   |-> [need |-> {"recording"}, off |-> {"recording"}, on |-> {"recorded"}, slot |-> "voice",
                  idle |-> {"voice"}, home |-> "voice", okOff |-> {"voice"}, noOff |-> {"voice"},
                  writes |-> {"messages"}] @@ Call]

Composer ==
    [queries |-> {"messages"}, single |-> {"upload", "voice"},
     inside |-> {<<"ready", "queued">>, <<"recording", "voice">>, <<"recorded", "voice">>},
     modals |-> {"voice"},
     ops |-> Covered({"voice"}, DOMAIN ComposerText \cup {"attach", "discard"},
                 ComposerText @@ ComposerFiles) @@ VoiceRecorder] @@ Component

--------------------------------------------------------------------------------
(* The messages of a conversation                                                *)

(* A message is answered or edited, never both; another conversation ends either.
   Editing and deleting do not look at the status; reactions show at once, and stay.
   A page of older messages is put in front of whatever is shown when it comes.      *)
ChatAreaHandlers ==
    [reply   |-> [off |-> {"editing"}] @@ Show("reply"),
     edit    |-> [off |-> {"reply"}] @@ Show("editing"),
     cancel  |-> [off |-> {"reply", "editing"}] @@ Tap,
     send    |-> [bar |-> {"editing"}, off |-> {"reply"}, writes |-> {"messages"}] @@ Call,
     replace |-> [need |-> {"editing"}, off |-> {"editing"}, writes |-> {"messages"},
                  okPatch |-> {"messages"}, blind |-> TRUE] @@ Call,
     delete  |-> [need |-> {"menu"}, off |-> {"menu"}, writes |-> {"messages"},
                  okPatch |-> {"messages"}, blind |-> TRUE] @@ Call,
     react   |-> [writes |-> {"messages"}, hopes |-> {"messages"}] @@ Call,
     select  |-> [off |-> {"reply", "editing", "menu"}] @@ Filter("messages"),
     scroll  |-> [sees |-> {"messages"}] @@ Fetch("older")]

(* The answers to forwarding are not looked at; the dialog closes when all are in. *)
ForwardDialog ==
    Dialog("forward", [choose  |-> Show("chosen"), unchoose |-> Hide("chosen"),
                       send    |-> [need |-> {"chosen"}, slot |-> "forward", idle |-> {"forward"},
                                    blind |-> TRUE, okOff |-> {"forward"}, noOff |-> {"forward"}]
                                       @@ Call,
                       close   |-> [off |-> {"forward"}] @@ Tap])

ChatArea ==
    LET overlays == {"forward", "lightbox"}
        body == ChatAreaHandlers @@
                [menu    |-> [bar |-> {"menu"}] @@ Show("menu"), outside |-> Hide("menu"),
                 forward |-> [off |-> {"menu"}] @@ Show("forward"),
                 enlarge |-> Show("lightbox")]
    IN [queries |-> {"messages", "older"}, loads |-> {"messages"}, single |-> {"forward"},
        modals |-> overlays, inside |-> {<<"chosen", "forward">>},
        ops |-> Covered(overlays, DOMAIN body, body) @@ ForwardDialog @@
                [shrink |-> Hide("lightbox")]] @@ Component

(* Opening the page loads the conversations; the one named in the address is chosen
   when it is in the list, else the list is loaded once more.                      *)
ConversationsPage ==
    [queries |-> {"conversations"}, loads |-> {"conversations"},
     ops |-> [arrive |-> [sees |-> {"conversations"}, bar |-> {"chosen"}] @@ Show("chosen"),
              again  |-> [sees |-> {"conversations"}, bar |-> {"chosen", "again"}, on |-> {"again"}]
                             @@ Fetch("conversations"),
              leave  |-> Hide("chosen")]] @@ Component

--------------------------------------------------------------------------------
(* service-providers, documents, inbox and callbacks                             *)

(* The directory that is on screen is not among what blocking fetches again.       *)
ServiceProviderHandlers ==
    LET chosen == [need |-> {"chosen"}, awaits |-> {"providers"}, own |-> TRUE, items |-> {1, 2}]
    IN [block |-> [slot |-> "block", writes |-> {"providers", "blocked"}] @@ chosen @@ Call,
        chat  |-> [sees |-> {"bots"}, slot |-> "chat", okOn |-> {"gone"}] @@ chosen @@ Call]

ServiceProvidersPage ==
    [queries |-> {"providers", "bots", "blocked"}, loads |-> {"providers", "blocked"},
     latest |-> {"providers", "bots"}, fails |-> {<<"providers", "failed">>}, fresh |-> {"bots"},
     ops |-> Within([bar |-> {"failed"}, awaits |-> {"providers"}],
                 ServiceProviderHandlers @@
                 [search |-> Filter("providers"), tab |-> Filter("providers"),
                  choose |-> [on |-> {"chosen"}] @@ Filter("bots"),
                  back   |-> Hide("chosen")]) @@
             [reload |-> [need |-> {"failed"}] @@ Show("gone")]] @@ Component

(* Three requests upload a document: for an address, the bytes, the confirmation.  Of
   the last two the status is not read; when all were answered the page is reloaded. *)
UploadModal ==
    LET upload == [need |-> {"file"}, slot |-> "uploading", idle |-> {"uploading"}, off |-> {"error"},
                   writes |-> {"documents"}, okOff |-> {"upload"}, okOn |-> {"gone"},
                   noOn |-> {"error"}]
    IN [pick   |-> [need |-> {"upload"}] @@ Show("file"),
        upload |-> upload @@ Call,
        uploadUnread |-> [blind |-> TRUE] @@ upload @@ Call,
        close  |-> [need |-> {"upload"}, off |-> {"upload"}] @@ Tap]

DocumentsPage ==
    LET body == [toUpload |-> Show("upload"), choose |-> Show("chosen"), back |-> Hide("chosen"),
                 download |-> [need |-> {"chosen"}, slot |-> "downloading",
                               idle |-> {"downloading"}] @@ Call]
    IN [fails |-> {<<"documents", "failed">>}, modals |-> {"upload"},
        inside |-> {<<"file", "upload">>, <<"error", "upload">>}, single |-> {"uploading", "downloading"},
        ops |-> Within([sees |-> {"documents"}, bar |-> {"failed"}],
                    Covered({"upload"}, DOMAIN body, body) @@ UploadModal) @@
                [reload |-> [need |-> {"failed"}] @@ Show("gone")]] @@ Reads({"documents"})

(* Reading, archiving and reading all fetch a list that is not the one on screen; a
   notification that comes over the stream fetches that one.  Whatever is chosen when
   an archiving is answered is no longer chosen.                                    *)
InboxHandlers ==
    [read    |-> [on |-> {"chosen"}, writes |-> {"notifications"}] @@ Call,
     choose  |-> Show("chosen"),
     archive |-> [need |-> {"chosen"}, okOff |-> {"chosen"}, writes |-> {"notifications"}] @@ Call,
     readAll |-> [writes |-> {"notifications"}] @@ Call,
     tab     |-> [off |-> {"chosen"}] @@ Filter("notifications"),
     turn    |-> Filter("notifications")]

InboxPage ==
    [queries |-> {"notifications"}, loads |-> {"notifications"}, live |-> {"notifications"},
     fails |-> {<<"notifications", "failed">>},
     ops |-> Within([sees |-> {"notifications"}, bar |-> {"failed"}], InboxHandlers) @@
             [reload |-> [need |-> {"failed"}] @@ Show("gone")]] @@ Component

(* Approving and rejecting share the busy flag, and no picker is opened while it is
   set: the answer, which closes the picker whatever request is chosen by then, takes
   no other along.                                                                 *)
CallbackAnswers ==
    LET answer == [need |-> {"chosen"}, slot |-> "submitting", idle |-> {"submitting"},
                   writes |-> {"callbacks"}, okPatch |-> {"callbacks"}]
    IN [approve |-> [need |-> {"chosen", "picker"}, okOff |-> {"picker"}] @@ answer @@ Call,
        reject  |-> answer @@ Call,
        pick    |-> [need |-> {"chosen"}, idle |-> {"submitting"}] @@ Show("picker"),
        unpick  |-> Hide("picker")]

CallbacksPage ==
    [queries |-> {"callbacks"}, loads |-> {"callbacks"}, fails |-> {<<"callbacks", "failed">>},
     single |-> {"submitting"}, drafts |-> {"picker"}, requires |-> {<<"approve", "picker">>},
     ops |-> Within([awaits |-> {"callbacks"}, bar |-> {"failed"}],
                 [tab    |-> Filter("callbacks"),
                  choose |-> [off |-> {"picker"}] @@ Show("chosen")] @@ CallbackAnswers) @@
             [reload |-> [need |-> {"failed"}] @@ Show("gone")]] @@ Component

--------------------------------------------------------------------------------
(* settings                                                                      *)

(* The form is closed by the save that it sent, or by one sent before it was opened or
   filled for another address (so it is no draft); deleting and marking as current
   share no flag with it but disable it.                                           *)
AddressSettingsPage ==
    LET change == [slot |-> "saving", idle |-> {"saving"}, writes |-> {"addresses"},
                   okLoads |-> {"addresses"}]
    IN [queries |-> {"addresses"}, loads |-> {"addresses"}, single |-> {"saving"},
        ops |-> Within([sees |-> {"addresses"}],
                    [add     |-> [bar |-> {"form"}] @@ Show("form"),
                     edit    |-> Show("form"),
                     save    |-> [need |-> {"form"}, okOff |-> {"form"}] @@ change @@ Call,
                     cancel  |-> Hide("form"),
                     delete  |-> change @@ Call,
                     current |-> change @@ Call])] @@ Component

(* A rule is edited by deleting it and creating another: when the second fails the
   first has happened.  A form opened during a save is closed by its answer.       *)
DNDSettingsPage ==
    LET change == [writes |-> {"rules"}, okLoads |-> {"rules"}]
        save   == [need |-> {"form"}, slot |-> "submitting", idle |-> {"submitting"},
                   okOff |-> {"form", "editing"}]
    IN [queries |-> {"rules"}, loads |-> {"rules"}, fails |-> {<<"rules", "failed">>},
        single |-> {"submitting"},
        ops |-> Within([sees |-> {"rules"}, bar |-> {"failed"}],
                    [add    |-> [on |-> {"form"}] @@ Hide("editing"),
                     addNew |-> [bar |-> {"editing"}] @@ Show("form"),
                     edit   |-> [on |-> {"form", "editing"}] @@ Tap,
                     create |-> [bar |-> {"editing"}] @@ save @@ change @@ Call,
                     update |-> [need |-> {"form", "editing"}, spills |-> {"rules"}]
                                    @@ save @@ change @@ Call,
                     cancel |-> [need |-> {"form"}, off |-> {"form", "editing"}] @@ Tap,
                     toggle |-> change @@ Call,
                     delete |-> change @@ Call]) @@
                [reload |-> [need |-> {"failed"}] @@ Show("gone")]] @@ Component

(* A slot is toggled by deleting it and creating it anew, which does not say whether
   it is active.  A form opened during a save is closed by its answer.             *)
AvailabilitySettingsPage ==
    LET change == [writes |-> {"slots"}, okLoads |-> {"slots"}]
    IN [queries |-> {"slots"}, loads |-> {"slots"}, fails |-> {<<"slots", "failed">>},
        single |-> {"submitting"},
        ops |-> Within([sees |-> {"slots"}, bar |-> {"failed"}],
                    [open   |-> [bar |-> {"form"}] @@ Show("form"),
                     add    |-> [need |-> {"form"}, slot |-> "submitting", idle |-> {"submitting"},
                                 okOff |-> {"form"}] @@ change @@ Call,
                     cancel |-> Hide("form"),
                     toggle |-> [spills |-> {"slots"}] @@ change @@ Call,
                     delete |-> change @@ Call]) @@
                [reload |-> [need |-> {"failed"}] @@ Show("gone")]] @@ Component

(* The switches follow the server once, when the page is opened, and are disabled
   during a save.  The confirmation shows for two seconds.                         *)
PrivacySettingsPage ==
    [queries |-> {"privacy"}, loads |-> {"privacy"}, fails |-> {<<"privacy", "failed">>},
     single |-> {"saving"}, timers |-> {"saved"}, drafts |-> {"unsaved"},
     ops |-> Within([sees |-> {"privacy"}, bar |-> {"failed"}],
                 [switch |-> [idle |-> {"saving"}, on |-> {"unsaved"}, off |-> {"saved"}] @@ Tap,
                  save   |-> [slot |-> "saving", idle |-> {"saving"}, writes |-> {"privacy"},
                              hopes |-> {"privacy"}, undo |-> {"privacy"}, okOff |-> {"unsaved"},
                              okOn |-> {"saved"}] @@ Call]) @@
             [after  |-> Hide("saved"),
              reload |-> [need |-> {"failed"}] @@ Show("gone")]] @@ Component

(* The sound is switched at once, whatever the server says to it.                *)
SoundToggle ==
    [queries |-> {"privacy"}, loads |-> {"privacy"},
     ops |-> [toggle |-> [writes |-> {"privacy"}, hopes |-> {"privacy"}] @@ Call]] @@ Component

PushToggle ==
    [ops |-> [enable |-> [bar |-> {"granted", "denied"}] @@ Show("asked"),
              grant  |-> [need |-> {"asked"}, off |-> {"asked"}] @@ Show("granted"),
              deny   |-> [need |-> {"asked"}, off |-> {"asked"}] @@ Show("denied")]] @@ Component

(* The list that is on screen is not the one that unblocking fetches again.       *)
BlockedOrganizationsPage ==
    [queries |-> {"blocked"}, loads |-> {"blocked"}, fails |-> {<<"blocked", "failed">>},
     ops |-> [unblock |-> [sees |-> {"blocked"}, bar |-> {"failed"}, slot |-> "row", own |-> TRUE,
                           items |-> {1, 2}, writes |-> {"blocked"}] @@ Call,
              reload  |-> [need |-> {"failed"}] @@ Show("gone")]] @@ Component

--------------------------------------------------------------------------------
(* auth: whoever is logged in is sent on from the forms                          *)

CredentialsForm ==
    [single |-> {"submitting"},
     ops |-> [submit |-> [slot |-> "submitting", idle |-> {"submitting"}, off |-> {"error"},
                          noOn |-> {"error"}, okOn |-> {"user"}] @@ Call,
              onward |-> [need |-> {"user"}] @@ Show("gone")]] @@ Component

(* Going back empties the code, not the passwords; an answer of the first step that
   comes after that takes the user to the second again.                            *)
ForgotPasswordPage ==
    LET send == [slot |-> "submitting", idle |-> {"submitting"}, off |-> {"error"}, noOn |-> {"error"}]
    IN [single |-> {"submitting"}, requires |-> {<<"reset", "code">>},
        ops |-> [ask   |-> [bar |-> {"second"}, okOn |-> {"second", "info"}] @@ send @@ Call,
                 type  |-> [need |-> {"second"}] @@ Show("code"),
                 wrong |-> [need |-> {"second"}] @@ Show("error"),
                 reset |-> [need |-> {"second", "code"}, okOn |-> {"gone"}] @@ send @@ Call,
                 back  |-> [need |-> {"second"}, off |-> {"second", "info", "code"}] @@ Tap]] @@ Component

(* A code is sent when the page is opened and again on request, which a countdown
   holds off; nothing holds it off while the code is being sent.                   *)
VerifyEmailPage ==
    [single |-> {"submitting"}, requires |-> {<<"verify", "code">>}, timers |-> {"cooldown"},
     ops |-> [resend |-> [bar |-> {"cooldown"}, off |-> {"error", "info"}, noOn |-> {"error"},
                          okOn |-> {"info", "cooldown"}] @@ Call,
              cooled |-> Hide("cooldown"),
              type   |-> Show("code"),
              verify |-> [need |-> {"code"}, slot |-> "submitting", idle |-> {"submitting"},
                          off |-> {"error"}, noOn |-> {"error"}, okOn |-> {"gone"}] @@ Call]] @@ Component

--------------------------------------------------------------------------------
(* The first visit                                                               *)

(* Each step hands on when it is skipped and when its save is answered, well or not:
   the wizard is then moved from wherever it stands.                               *)
OnboardingStep(changed) ==
    [queries |-> {changed}, single |-> {"saving"},
     ops |-> [skip |-> Show("gone"),
              save |-> [slot |-> "saving", idle |-> {"saving"}, writes |-> {changed},
                        okOn |-> {"configured", "gone"}, noOn |-> {"gone"}] @@ Call]] @@ Component

PrivacyStep == OnboardingStep("privacy")

DNDStep == OnboardingStep("rules")

(* One request for each day: some may have been taken when another is refused.    *)
AvailabilityStep ==
    LET one == OnboardingStep("slots")
    IN [one EXCEPT !.ops = [@ EXCEPT !.save = [@ EXCEPT !.spills = {"slots"}]]]

OnboardingWizard ==
    [start |-> {"welcome"},
     ops |-> [next1 |-> Move("welcome", "privacy"), next2 |-> Move("privacy", "rules"),
              next3 |-> Move("rules", "slots"),     next4 |-> Move("slots", "complete"),
              back1 |-> Move("privacy", "welcome"), back2 |-> Move("rules", "privacy"),
              back3 |-> Move("slots", "rules"),
              skipAll  |-> [bar |-> {"welcome", "complete"}] @@ Show("gone"),
              complete |-> [need |-> {"complete"}] @@ Show("gone")]] @@ Component

--------------------------------------------------------------------------------
(* What stands around the pages                                                  *)

(* One menu is open at a time, and a click elsewhere closes it.                   *)
HeaderMenus ==
    LET menu(m, other) == [off |-> {other}, bar |-> {m}] @@ Show(m)
    IN [bell    |-> menu("bell", "account"), noBell |-> Hide("bell"),
        account |-> menu("account", "bell"), noAccount |-> Hide("account"),
        readAll |-> [need |-> {"bell"}, writes |-> {"notifications"}, okPatch |-> {"notifications"},
                     blind |-> TRUE] @@ Call,
        logout  |-> [need |-> {"account"}, off |-> {"account"}] @@ Show("gone")]

(* Found while typing, 300 ms after the last key.  Notifications and messages that
   come in start the wait anew; an answer on its way is not dropped.              *)
SearchModal ==
    [openSearch  |-> [bar |-> {"search"}] @@ Show("search"),
     closeSearch |-> [need |-> {"search"}, off |-> {"search", "debounce"}] @@ Tap,
     typeSearch  |-> [need |-> {"search"}, moves |-> {"found"}] @@ Show("debounce"),
     shorten     |-> [need |-> {"search"}, moves |-> {"found"}] @@ Hide("debounce"),
     timer       |-> [asks |-> {"found"}] @@ Hide("debounce"),
     goTo        |-> [need |-> {"search"}, sees |-> {"found"}] @@ Show("gone")]

Header ==
    [queries |-> {"notifications", "found"}, timers |-> {"debounce"}, modals |-> {"search"},
     ops |-> Covered({"search"}, DOMAIN HeaderMenus, HeaderMenus) @@ SearchModal] @@ Component

(* Counts of unread notifications and messages, and of pending callbacks, polled.  *)
Sidebar ==
    [ops |-> [open |-> [bar |-> {"bell"}] @@ Show("bell"), outside |-> Hide("bell"),
              poll |-> Fetch("dashboard")]]
    @@ Reads({"dashboard"})

(* The timer is stopped under the mouse.  Leaving starts it, also when the toast is on
   its way out, and a second removal of the same toast does nothing.                *)
ToastItem ==
    [start |-> {"ticking"}, timers |-> {"ticking", "leaving"},
     ops |-> [expire  |-> Move("ticking", "leaving"),
              hover   |-> Hide("ticking"),
              unhover |-> Show("ticking"),
              dismiss |-> Move("ticking", "leaving"),
              press   |-> [bar |-> {"ticking"}] @@ Show("leaving"),
              remove  |-> [need |-> {"leaving"}] @@ Show("gone")]] @@ Component

(* What came over the stream, the stored notifications, callbacks and messages in one
   list; filtering and paging do not fetch.                                        *)
ActivityPage ==
    [queries |-> {"notifications", "callbacks"}, loads |-> {"notifications", "callbacks"},
     ops |-> [refresh |-> [asks |-> {"notifications", "callbacks"}] @@ Tap,
              filter  |-> Tap, more |-> Tap]] @@ Component

DashboardPage == Reads({"summary", "recent"})

WebTable ==
    [careerTab |-> CareerTab, profilePage |-> ProfilePage, friendsPage |-> FriendsPage,
     composer |-> Composer, chatArea |-> ChatArea, conversationsPage |-> ConversationsPage,
     serviceProvidersPage |-> ServiceProvidersPage, documentsPage |-> DocumentsPage,
     inboxPage |-> InboxPage, callbacksPage |-> CallbacksPage,
     addressSettingsPage |-> AddressSettingsPage, dNDSettingsPage |-> DNDSettingsPage,
     availabilitySettingsPage |-> AvailabilitySettingsPage,
     privacySettingsPage |-> PrivacySettingsPage, soundToggle |-> SoundToggle,
     pushToggle |-> PushToggle, blockedOrganizationsPage |-> BlockedOrganizationsPage,
     credentialsForm |-> CredentialsForm, forgotPasswordPage |-> ForgotPasswordPage,
     verifyEmailPage |-> VerifyEmailPage, privacyStep |-> PrivacyStep, dNDStep |-> DNDStep,
     availabilityStep |-> AvailabilityStep, onboardingWizard |-> OnboardingWizard,
     header |-> Header, sidebar |-> Sidebar, toastItem |-> ToastItem,
     activityPage |-> ActivityPage, dashboardPage |-> DashboardPage]
================================================================================
