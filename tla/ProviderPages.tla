----------------------------- MODULE ProviderPages -----------------------------
(* The components of apps/provider, the console of service providers, as tables
   for PageMachine.  useData drops the answers of superseded fetches, so its
   queries are "latest"; useMutationHelper frees its busy flag in a finally.      *)
EXTENDS PageTable

--------------------------------------------------------------------------------
(* webhooks                                                                      *)

(* The form that creates or edits a subscription.  The flag that would keep it open
   to show the secret is read from before it was set, so it always closes.        *)
WebhookForm(d) ==
    Dialog(d, [submit |-> [bar |-> {"secret"}, slot |-> d, idle |-> {d}, writes |-> {"webhooks"},
                           okOff |-> {d}, okOn |-> {"secret"}, okLoads |-> {"webhooks"}] @@ Call,
               cancel |-> [off |-> {d}] @@ Tap,
               done   |-> [need |-> {"secret"}, off |-> {d}] @@ Tap])

DeleteWebhookModal ==
    Dialog("delete", [confirm |-> [slot |-> "delete", idle |-> {"delete"}, writes |-> {"webhooks"},
                                   okOff |-> {"delete"}, okLoads |-> {"webhooks"}] @@ Call,
                      cancel  |-> [off |-> {"delete"}] @@ Tap])

(* The hook never returns a result, so after a test that went through neither the
   result nor an error is there, and with them no button.                        *)
TestWebhookModal ==
    Dialog("test", [send   |-> [bar |-> {"tested"}, slot |-> "test", idle |-> {"test"},
                                okOn |-> {"tested"}] @@ Call,
                    cancel |-> [bar |-> {"tested"}, off |-> {"test"}] @@ Tap,
                    done   |-> [need |-> {"tested", "result"}, off |-> {"test"}] @@ Tap,
                    close  |-> [need |-> {"tested", "error"}, off |-> {"test"}] @@ Tap])

DeliveryLog ==
    [queries |-> {"deliveries"}, loads |-> {"deliveries"}, latest |-> {"deliveries"},
     single |-> {"retry"},
     ops |-> [filter |-> [moves |-> {"deliveries"}, asks |-> {"deliveries"}] @@ Tap,
              turn   |-> [awaits |-> {"deliveries"}, moves |-> {"deliveries"},
                          asks |-> {"deliveries"}] @@ Tap,
              retry  |-> [awaits |-> {"deliveries"}, slot |-> "retry", idle |-> {"retry"},
                          items |-> {1, 2}, writes |-> {"deliveries"}] @@ Call]] @@ Component

WebhooksContent ==
    LET modals == {"create", "edit", "delete", "test"}
        list   == [add    |-> [on |-> {"create"}] @@ Tap,
                   filter |-> [moves |-> {"webhooks"}, asks |-> {"webhooks"}] @@ Tap,
                   edit   |-> [awaits |-> {"webhooks"}, on |-> {"edit"}] @@ Tap,
                   remove |-> [awaits |-> {"webhooks"}, on |-> {"delete"}] @@ Tap,
                   try    |-> [awaits |-> {"webhooks"}, on |-> {"test"}] @@ Tap]
    IN [queries |-> {"webhooks"}, loads |-> {"webhooks"}, latest |-> {"webhooks"},
        modals |-> modals \ {"test"},
        inside |-> {<<"secret", "create">>, <<"secret", "edit">>, <<"tested", "test">>},
        single |-> {"create", "edit", "delete", "test"}, fresh |-> {"webhooks"},
        ops |-> Covered(modals, DOMAIN list, list) @@ WebhookForm("create") @@ WebhookForm("edit")
                    @@ DeleteWebhookModal @@ TestWebhookModal] @@ Component

--------------------------------------------------------------------------------
(* callbacks                                                                     *)

(* The mutation hooks: each has a busy flag of its own and reloads nothing.      *)
CallbackMutations ==
    [create   |-> [slot |-> "create", writes |-> {"callbacks"}] @@ Call,
     approve  |-> [slot |-> "approve", writes |-> {"callbacks"}] @@ Call,
     reject   |-> [slot |-> "reject", writes |-> {"callbacks"}] @@ Call,
     complete |-> [slot |-> "complete", writes |-> {"callbacks"}] @@ Call,
     assign   |-> [slot |-> "assign", writes |-> {"callbacks"}, items |-> {1, 2}] @@ Call]

(* The answer of the check of an earlier customer may come last.                 *)
CheckCallbackPolicy == [moves |-> {"policy"}, asks |-> {"policy"}] @@ Tap

CallbackDetailExpansion ==
    [queries |-> {"policy"}, loads |-> {"policy"}, fresh |-> {"policy"},
     ops |-> [collapse |-> [on |-> {"gone"}] @@ Tap]] @@ Component

CompleteCallbackModal ==
    Dialog("complete", [submit |-> [idle |-> {"complete"}, okOff |-> {"complete"}]
                                       @@ CallbackMutations.complete,
                        close  |-> [off |-> {"complete"}] @@ Tap])

(* The list of agents stays clickable while an assignment is on its way.         *)
AgentAssignDropdown ==
    [queries |-> {"team", "callbacks"}, loads |-> {"team"}, latest |-> {"team"},
     fresh |-> {"team"},
     ops |-> [open    |-> [bar |-> {"open"}, idle |-> {"assign"}, on |-> {"open"}] @@ Tap,
              close   |-> [need |-> {"open"}, idle |-> {"assign"}, off |-> {"open"}] @@ Tap,
              outside |-> [need |-> {"open"}, off |-> {"open"}] @@ Tap,
              assign  |-> [need |-> {"open"}, okOff |-> {"open"}] @@ CallbackMutations.assign]]
    @@ Component

(* The search is applied 300 ms after the last key.                              *)
CallbackFilters ==
    [type   |-> [moves |-> {"callbacks"}, on |-> {"debounce"}] @@ Tap,
     timer  |-> [need |-> {"debounce"}, off |-> {"debounce"}, asks |-> {"callbacks"}] @@ Tap,
     status |-> [moves |-> {"callbacks"}, asks |-> {"callbacks"}, off |-> {"selected"}] @@ Tap,
     retry  |-> [need |-> {"failed"}, asks |-> {"callbacks"}] @@ Tap]

(* An approval without a slot opens the dialog; an approval or rejection that went
   through closes it.  The bulk loop goes on after a failure.                    *)
CallbackHandlers ==
    LET bulk == [slot |-> "bulk", okOff |-> {"selected"}, noOff |-> {"selected"}]
    IN [approve     |-> [okOff |-> {"approving"}] @@ CallbackMutations.approve,
        reject      |-> [okOff |-> {"rejecting"}] @@ CallbackMutations.reject,
        bulkApprove |-> bulk @@ CallbackMutations.approve,
        bulkReject  |-> bulk @@ CallbackMutations.reject]

CallbackControls ==
    LET row  == [awaits |-> {"callbacks"}, bar |-> {"failed"}]
        many == [need |-> {"selected"}, idle |-> {"bulk"}]
    IN [select      |-> [on |-> {"selected"}] @@ row @@ Tap,
        unselect    |-> [need |-> {"selected"}, off |-> {"selected"}] @@ Tap,
        toApprove   |-> [on |-> {"approving"}] @@ row @@ Tap,
        toReject    |-> [on |-> {"rejecting"}] @@ row @@ Tap,
        toComplete  |-> [on |-> {"complete"}] @@ row @@ Tap,
        leaveApprove |-> [need |-> {"approving"}, off |-> {"approving"}] @@ Tap,
        leaveReject  |-> [need |-> {"rejecting"}, off |-> {"rejecting"}] @@ Tap,
        approve     |-> [need |-> {"approving"}, idle |-> {"approve", "bulk"}]
                            @@ CallbackHandlers.approve,
        reject      |-> [need |-> {"rejecting"}, idle |-> {"reject", "bulk"}]
                            @@ CallbackHandlers.reject,
        bulkApprove |-> many @@ CallbackHandlers.bulkApprove,
        bulkReject  |-> many @@ CallbackHandlers.bulkReject]

CallbacksContent ==
    LET modals == {"approving", "rejecting", "complete"}
        list   == {"select", "unselect", "toApprove", "toReject", "toComplete", "bulkApprove",
                   "bulkReject"}
        ops    == Covered(modals, list, CallbackControls)
    IN [queries |-> {"callbacks", "stats"}, loads |-> {"callbacks", "stats"},
        latest |-> {"callbacks", "stats"}, fails |-> {<<"callbacks", "failed">>},
        timers |-> {"debounce"}, modals |-> modals,
        single |-> {"approve", "reject", "bulk", "complete"}, fresh |-> {"stats"},
        ops |-> ops @@ CallbackFilters @@ CompleteCallbackModal] @@ Component

(* A first submission asks for confirmation, the second one creates.             *)
CreateCallbackForm ==
    [start |-> {"form"}, queries |-> {"callbacks", "policy"}, single |-> {"create"},
     drafts |-> {"form"},
     ops |-> [blur    |-> CheckCallbackPolicy,
              confirm |-> [bar |-> {"confirm"}, idle |-> {"create"}, on |-> {"confirm"}] @@ Tap,
              submit  |-> [need |-> {"confirm"}, idle |-> {"create"}, okOff |-> {"form"},
                           okOn |-> {"gone"}] @@ CallbackMutations.create,
              cancel  |-> [off |-> {"form"}, on |-> {"gone"}] @@ Tap]] @@ Component

--------------------------------------------------------------------------------
(* settings/profile, as an administrator sees it                                 *)

(* The picture is shown, then uploaded; when the server gives no URL to upload to,
   the form takes the picture all the same.                                      *)
LogoUpload == [choose |-> [slot |-> "logo", blind |-> TRUE, okOn |-> {"orgDirty"}] @@ Call,
               remove |-> [on |-> {"orgDirty"}] @@ Tap]

(* The form of the organization is filled when its data arrives, over whatever was
   typed; what is typed during a save stays unsaved.  A change of password only
   empties its fields.                                                           *)
ProfileHandlers ==
    [saveProfile    |-> [slot |-> "saving", writes |-> {"me"}] @@ Call,
     changePassword |-> [off |-> {"password"}] @@ Tap,
     editOrg        |-> [bar |-> {"orgSent"}, on |-> {"orgDirty"}] @@ Tap,
     editLate       |-> [need |-> {"orgSent"}, on |-> {"orgLate"}] @@ Tap,
     saveOrg        |-> [slot |-> "orgSaving", on |-> {"orgSent"}, writes |-> {"org"},
                         okOff |-> {"orgDirty", "orgSent"}, noOff |-> {"orgSent"}] @@ Call]

ProfileControls ==
    Within([awaits |-> {"me"}],
        [saveProfile    |-> [idle |-> {"saving"}] @@ ProfileHandlers.saveProfile,
         typePassword   |-> [bar |-> {"password"}, on |-> {"password"}] @@ Tap,
         changePassword |-> [need |-> {"password"}, idle |-> {"saving"}]
                                @@ ProfileHandlers.changePassword,
         editOrg        |-> ProfileHandlers.editOrg,
         editLate       |-> ProfileHandlers.editLate,
         saveOrg        |-> [need |-> {"orgDirty"}, idle |-> {"orgSaving"}]
                                @@ ProfileHandlers.saveOrg])

ProfileSettingsPage ==
    [queries |-> {"me", "org"}, loads |-> {"me", "org"}, latest |-> {"org"},
     wipes |-> {<<"org", "orgDirty">>}, single |-> {"saving", "orgSaving"},
     drafts |-> {"password", "orgLate"}, ops |-> ProfileControls @@ LogoUpload] @@ Component

--------------------------------------------------------------------------------
(* compliance                                                                    *)

ComplianceCards == Reads({"status"})

(* Old rows stay on screen while others are fetched.                             *)
AuditLogTab ==
    [ops |-> Within([sees |-> {"logs"}], [action |-> Filter("logs"), turn |-> Filter("logs")])]
    @@ Reads({"logs"})

CommunicationAuditTab ==
    [ops |-> Within([sees |-> {"decisions"}],
                 [result |-> Filter("decisions"), category |-> Filter("decisions"),
                  turn |-> Filter("decisions")])] @@ Reads({"decisions"})

(* A report that was resolved or dismissed stays in the list as it was.          *)
SpamReportsTab ==
    LET row == [sees |-> {"reports"}, items |-> {1, 2}, writes |-> {"reports", "summary"}]
    IN [queries |-> {"reports", "summary"}, loads |-> {"reports", "summary"},
        latest |-> {"reports", "summary"}, single |-> {"resolve", "dismiss"},
        ops |-> [status  |-> Filter("reports"), turn |-> Filter("reports"),
                 resolve |-> [slot |-> "resolve", idle |-> {"resolve"}] @@ row @@ Call,
                 dismiss |-> [slot |-> "dismiss", idle |-> {"dismiss"}] @@ row @@ Call]]
       @@ Component

(* The tabs share nothing but the page; each is mounted anew when chosen.        *)
ComplianceContent ==
    [start |-> {"status"}, ops |-> Tabs({"status", "audit", "communication", "spamTab"})]
    @@ Reads({"score", "spam", "total"})

--------------------------------------------------------------------------------
(* analytics: everything is fetched again when the range of dates changes        *)

(* A panel that fails offers to fetch again.                                     *)
AnalyticsPanels ==
    LET dated == {"notifications", "callbacks", "daily"}
    IN [fails |-> {<<"notifications", "notificationsFailed">>, <<"callbacks", "callbacksFailed">>},
        ops |-> [range |-> [moves |-> dated, asks |-> dated] @@ Tap,
                 retryNotifications |-> [need |-> {"notificationsFailed"}] @@ Fetch("notifications"),
                 retryCallbacks     |-> [need |-> {"callbacksFailed"}] @@ Fetch("callbacks")]]
       @@ Reads(dated \cup {"campaigns"})

ExportButton ==
    [toggle  |-> [bar |-> {"menu"}] @@ Show("menu"), outside |-> Hide("menu"),
     export  |-> [awaits |-> {"daily"}] @@ Hide("menu")]

AnalyticsPageContent ==
    LET dated == {"overview", "daily"}
    IN [ops |-> [range |-> [moves |-> dated, asks |-> dated] @@ Tap] @@ ExportButton] @@ Reads(dated)

--------------------------------------------------------------------------------
(* auth/register: a wizard of five steps, kept in the session's storage           *)

(* Each step is left forwards only when its fields are filled in; the fourth wants
   a document.  A reload restores the fields and the step, not the documents.      *)
RegisterSteps ==
    [next1 |-> Move("step1", "step2"), next2 |-> Move("step2", "step3"),
     next3 |-> Move("step3", "step4"),
     next4 |-> [need |-> {"step4", "docs"}] @@ Move("step4", "step5"),
     back2 |-> Move("step2", "step1"), back3 |-> Move("step3", "step2"),
     back4 |-> Move("step4", "step3"), back5 |-> Move("step5", "step4"),
     addFile    |-> [need |-> {"step4"}] @@ Show("docs"),
     removeFile |-> [need |-> {"step4", "docs"}] @@ Hide("docs")]

RegisterPage ==
    [start |-> {"step1"}, single |-> {"register"}, requires |-> {<<"submit", "terms">>},
     ops |-> RegisterSteps @@
             [accept |-> [need |-> {"step5"}] @@ Show("terms"),
              reload |-> [idle |-> {"register"}, off |-> {"docs"}] @@ Tap,
              submit |-> [need |-> {"step5", "terms"}, slot |-> "register", idle |-> {"register"},
                          okOn |-> {"gone"}] @@ Call]] @@ Component

--------------------------------------------------------------------------------
(* integrations: none of the mutations reloads the list of keys                  *)

CreateKeyForm ==
    Dialog("create", [submit |-> [slot |-> "create", idle |-> {"create"}, writes |-> {"keys"},
                                  okOff |-> {"create"}, okOn |-> {"secret"}] @@ Call,
                      cancel |-> Hide("create")])

(* The secret of a new key is shown until it is dismissed.                       *)
SecretBanner == [copy    |-> [need |-> {"secret"}] @@ Show("copied"),
                 copied  |-> Hide("copied"),
                 dismiss |-> Hide("secret")]

RevokeKeyModal ==
    Dialog("revoke", [confirm |-> [slot |-> "revoke", idle |-> {"revoke"}, writes |-> {"keys"},
                                   okOff |-> {"revoke"}] @@ Call,
                      cancel  |-> Hide("revoke")])

APIKeysTab ==
    LET list == [toggle |-> [bar |-> {"create"}] @@ Show("create"),
                 fold   |-> Hide("create"),
                 revoke |-> [sees |-> {"keys"}] @@ Show("revoke")]
    IN [queries |-> {"keys"}, loads |-> {"keys"}, latest |-> {"keys"}, modals |-> {"revoke"},
        timers |-> {"copied"}, inside |-> {<<"copied", "secret">>},
        single |-> {"create", "revoke"},
        ops |-> Covered({"revoke"}, DOMAIN list, list) @@ SecretBanner @@ CreateKeyForm
                    @@ RevokeKeyModal] @@ Component

IntegrationsGridTab == Reads({"configs"})

IntegrationLogsTab ==
    [ops |-> Within([sees |-> {"logs"}],
                 [integration |-> Filter("logs"), status |-> Filter("logs"), turn |-> Filter("logs")])]
    @@ Reads({"logs"})

RateLimitDashboard == Reads({"limits"})

IntegrationsContent ==
    [start |-> {"keysTab"}, ops |-> Tabs({"keysTab", "grid", "logsTab", "limitsTab"})] @@ Component

--------------------------------------------------------------------------------
(* settings/industry                                                             *)

(* Only the confirmation is disabled while the profile is applied, by a flag of the
   page; the answer closes the dialog, be it the one that asked or a later one.  *)
ApplyConfirmDialog ==
    [cancel  |-> Hide("confirm"),
     confirm |-> [need |-> {"confirm"}, slot |-> "applying", idle |-> {"applying"}, writes |-> {"org"},
                  okOn |-> {"current"}, okOff |-> {"confirm", "picked"}] @@ Call]

(* A profile that differs from the one in force is asked about first; with none in
   force it is applied at once.  The overrides start out unsaved.                 *)
IndustryHandlers ==
    LET differs == [need |-> {"picked"}, idle |-> {"applying"}]
    IN [select  |-> [moves |-> {"profile"}, asks |-> {"profile"}, on |-> {"picked"}] @@ Tap,
        apply   |-> [bar |-> {"current"}, slot |-> "applying", writes |-> {"org"},
                     okOn |-> {"current"}, okOff |-> {"confirm", "picked"}] @@ differs @@ Call,
        switch  |-> [sees |-> {"org"}] @@ differs @@ Show("confirm"),
        switchBack |-> [need |-> {"picked", "current"}] @@ differs @@ Show("confirm"),
        refetch |-> [need |-> {"failed"}] @@ Fetch("profiles"),
        edit    |-> [sees |-> {"profile"}] @@ Show("unsaved"),
        save    |-> [need |-> {"unsaved"}, slot |-> "overrides", idle |-> {"overrides"},
                     writes |-> {"overrides"}, off |-> {"unsaved"}, noOn |-> {"unsaved"}] @@ Call]

IndustryPage ==
    [queries |-> {"profiles", "org", "profile"}, loads |-> {"profiles", "org"},
     latest |-> {"profiles", "org", "profile"}, fails |-> {<<"profiles", "failed">>},
     start |-> {"unsaved"}, modals |-> {"confirm"}, single |-> {"applying", "overrides"},
     fresh |-> {"profiles", "profile"},
     ops |-> Covered({"confirm"}, DOMAIN IndustryHandlers, IndustryHandlers) @@ ApplyConfirmDialog]
    @@ Component

--------------------------------------------------------------------------------
(* conversations                                                                 *)

(* The search is applied 300 ms after the last key; clearing it does not stop that. *)
ConversationFilters ==
    [type      |-> Show("debounce"),
     timer     |-> [moves |-> {"conversations"}, asks |-> {"conversations"}] @@ Hide("debounce"),
     tooShort  |-> Hide("debounce"),
     clear     |-> Filter("conversations"),
     assignee  |-> Filter("conversations"),
     status    |-> Filter("conversations"),
     unread    |-> Filter("conversations"),
     openSort  |-> [bar |-> {"sort"}] @@ Show("sort"),
     closeSort |-> Hide("sort"),
     pickSort  |-> [need |-> {"sort"}, off |-> {"sort"}] @@ Filter("conversations")]

(* A page that is fetched on scrolling is appended to the list that is shown when it
   comes, whatever the filters are by then.  Only the claimed row is disabled.    *)
ConversationHandlers ==
    [scroll |-> [sees |-> {"conversations"}] @@ Fetch("more"),
     claim  |-> [awaits |-> {"conversations"}, slot |-> "claiming", own |-> TRUE, items |-> {1, 2},
                 writes |-> {"conversations", "stats"}, okLoads |-> {"conversations"}] @@ Call]

ConversationsContent ==
    LET listed == {"conversations", "stats", "team"}
    IN [queries |-> listed \cup {"more"}, loads |-> listed, latest |-> listed,
        fresh |-> {"conversations", "team"}, timers |-> {"debounce"},
        ops |-> ConversationFilters @@ ConversationHandlers] @@ Component

--------------------------------------------------------------------------------
(* campaigns/new: a wizard of five steps                                         *)

(* A step is left forwards only when its fields are filled in; to click on an earlier
   step is to go back several times.  The last one asks for a preview of the policy
   each time it is entered; nothing stops an older preview from coming last.      *)
CampaignSteps ==
    LET next(a, b, filled) == [need |-> {a} \cup filled] @@ Move(a, b)
        at(a, op) == [op EXCEPT !.need = @ \cup {a}]
    IN [name   |-> at("basics", Show("named")),     unname  |-> at("basics", Hide("named")),
        target |-> [need |-> {"audience"}, moves |-> {"preview"}] @@ Tap,
        write  |-> at("content", Show("written")),  erase   |-> at("content", Hide("written")),
        time   |-> at("schedule", Show("timed")),   later   |-> at("schedule", Hide("timed")),
        next1  |-> next("basics", "audience", {"named"}),
        next2  |-> next("audience", "content", {}),
        next3  |-> next("content", "schedule", {"written"}),
        next4  |-> [asks |-> {"preview"}] @@ next("schedule", "review", {"timed"}),
        back2  |-> Move("audience", "basics"),      back3   |-> Move("content", "audience"),
        back4  |-> Move("schedule", "content"),     back5   |-> Move("review", "schedule")]

(* Saving a draft and launching share the busy flag.                             *)
NewCampaignContent ==
    LET create == [need |-> {"review"}, bar |-> {"launch"}, slot |-> "creating",
                   idle |-> {"creating"}, writes |-> {"campaigns"}]
    IN [start |-> {"basics", "timed"}, queries |-> {"preview", "campaigns"},
        modals |-> {"launch"}, single |-> {"creating"},
        requires |-> {"save", "launch"} \X {"named", "written", "timed"},
        apart |-> {"basics", "audience", "content", "schedule", "review"},
        rests |-> ({"audience", "content", "schedule", "review"} \X {"named"})
                  \cup ({"schedule", "review"} \X {"written"}) \cup {<<"review", "timed">>},
        ops |-> Covered({"launch"}, DOMAIN CampaignSteps, CampaignSteps) @@
                [save   |-> [okOn |-> {"gone"}] @@ create @@ Call,
                 launch |-> [okOn |-> {"launch"}] @@ create @@ Call,
                 leave  |-> [need |-> {"launch"}, off |-> {"launch"}] @@ Show("gone")]] @@ Component

--------------------------------------------------------------------------------
(* settings/team                                                                 *)

(* One flag holds the row and the action at work.  An invitation is sent again by
   revoking it and inviting anew: when the second fails the first has happened, and
   the list is not loaded again.                                                  *)
TeamHandlers ==
    LET row(k) == [awaits |-> {"members", "invitations"}, slot |-> "action", own |-> TRUE, items |-> {k}]
        members     == [writes |-> {"members"}, okLoads |-> {"members"}, noOn |-> {"error"}]
        invitations == [writes |-> {"invitations"}, okLoads |-> {"invitations"}, noOn |-> {"error"}]
    IN [invite |-> [need |-> {"invite"}, slot |-> "inviting", idle |-> {"inviting"}, off |-> {"error"},
                    okOff |-> {"invite"}] @@ invitations @@ Call,
        role   |-> [off |-> {"error"}] @@ row(1) @@ members @@ Call,
        remove |-> [off |-> {"error"}, need |-> {"removing"}, okOff |-> {"removing"}]
                       @@ row(2) @@ members @@ Call,
        revoke |-> [off |-> {"error"}] @@ row(3) @@ invitations @@ Call,
        resend |-> [off |-> {"error"}, spills |-> {"invitations"}] @@ row(4) @@ invitations @@ Call]

(* Neither oneself nor the last administrator of the list can be changed.        *)
TeamSettingsPage ==
    [queries |-> {"members", "invitations", "activity"},
     loads |-> {"members", "invitations", "activity"},
     latest |-> {"members", "invitations", "activity"}, single |-> {"inviting"},
     fresh |-> {"members"},
     ops |-> TeamHandlers @@
             [toggle  |-> [bar |-> {"invite"}] @@ Show("invite"),
              cancel  |-> Hide("invite"),
              dismiss |-> Hide("error"),
              refresh |-> [awaits |-> {"members", "invitations"}, asks |-> {"members", "invitations"}]
                              @@ Tap,
              ask     |-> [awaits |-> {"members", "invitations"}] @@ Show("removing"),
              spare   |-> Hide("removing")]] @@ Component

--------------------------------------------------------------------------------
(* documents                                                                     *)

(* The search reaches the URL 300 ms after the last key, with the other parameters
   as they were at that key: a filter chosen meanwhile is lost.                   *)
DocumentFilters ==
    LET typed == [need |-> {"debounce"}, moves |-> {"documents"}, asks |-> {"documents"}]
    IN [type     |-> [off |-> {"chosen"}] @@ Show("debounce"),
        timer    |-> [bar |-> {"chosen"}, off |-> {"debounce"}] @@ typed @@ Tap,
        overrule |-> [need |-> {"debounce", "chosen"}, off |-> {"debounce", "chosen"}] @@ typed @@ Tap,
        choose   |-> [on |-> {"chosen"}, off |-> {"selected"}] @@ Filter("documents"),
        clear    |-> [on |-> {"debounce"}, off |-> {"chosen"}] @@ Filter("documents")]

DocumentsContent ==
    LET row    == [awaits |-> {"documents"}, bar |-> {"failed"}]
        modals == {"preview", "share", "delete", "versions"}
        list   == [toggleUpload |-> [bar |-> {"upload"}] @@ Show("upload"),
                   fold     |-> Hide("upload"),
                   uploaded |-> [need |-> {"upload"}, off |-> {"upload"}] @@ Fetch("documents"),
                   retry    |-> [need |-> {"failed"}] @@ Fetch("documents"),
                   select   |-> row @@ Show("selected"),
                   unselect |-> Hide("selected"),
                   download |-> [need |-> {"selected"}, slot |-> "downloading",
                                 idle |-> {"downloading"}] @@ Call,
                   preview  |-> row @@ Show("preview"),  share |-> row @@ Show("share"),
                   versions |-> row @@ Show("versions"), delete |-> row @@ Show("delete")]
    IN [fails |-> {<<"documents", "failed">>}, timers |-> {"debounce"}, modals |-> modals,
        single |-> {"downloading"},
        ops |-> Covered(modals, DOMAIN list \ {"uploaded"}, list) @@ DocumentFilters @@
                [closePreview |-> Hide("preview"), closeShare |-> Hide("share"),
                 closeVersions |-> Hide("versions"),
                 closeDelete |-> [need |-> {"delete"}, off |-> {"delete"}] @@ Fetch("documents")]]
       @@ Reads({"documents"})

--------------------------------------------------------------------------------
(* campaigns                                                                     *)

(* The cross stays enabled while the campaign is launched, the button does not.  *)
LaunchConfirmationModal ==
    Dialog("launch", [cross  |-> Hide("launch"),
                      cancel |-> [idle |-> {"launching"}] @@ Hide("launch"),
                      launch |-> [slot |-> "launching", idle |-> {"launching"},
                                  writes |-> {"campaign"}, okOff |-> {"launch"}] @@ Call])

(* The search only filters what was fetched.                                     *)
CampaignsContent ==
    [fails |-> {<<"campaigns", "failed">>}, timers |-> {"debounce"},
     ops |-> [type   |-> Show("debounce"), timer |-> Hide("debounce"),
              status |-> [sees |-> {"campaigns"}, bar |-> {"failed"}] @@ Filter("campaigns"),
              size   |-> [sees |-> {"campaigns"}, bar |-> {"failed"}] @@ Filter("campaigns"),
              turn   |-> [sees |-> {"campaigns"}, bar |-> {"failed"}] @@ Filter("campaigns"),
              retry  |-> [need |-> {"failed"}] @@ Fetch("campaigns")]] @@ Reads({"campaigns"})

(* A launched or cancelled campaign is displayed as it was.                      *)
CampaignDetailPage ==
    LET here == [awaits |-> {"campaign"}, bar |-> {"failed", "launch"}]
    IN [queries |-> {"campaign", "analytics", "targets"}, loads |-> {"campaign", "analytics", "targets"},
        latest |-> {"campaign", "analytics", "targets"}, fails |-> {<<"campaign", "failed">>},
        start |-> {"overview"}, modals |-> {"launch"}, single |-> {"cancelling", "launching"},
        fresh |-> {"analytics", "targets"},
        ops |-> LaunchConfirmationModal @@ Within(here, Tabs({"overview", "recipients"}) @@
                    [toLaunch |-> Show("launch"),
                     cancel   |-> [slot |-> "cancelling", idle |-> {"cancelling"},
                                   writes |-> {"campaign"}] @@ Call,
                     clone    |-> Show("gone"),
                     status   |-> [need |-> {"recipients"}] @@ Filter("targets"),
                     turn     |-> [need |-> {"recipients"}, awaits |-> {"targets"}]
                                      @@ Filter("targets")])] @@ Component

--------------------------------------------------------------------------------
(* customers                                                                     *)

CustomerFilters ==
    LET filter == [off |-> {"selected"}] @@ Filter("customers")
    IN [search |-> filter, category |-> filter, status |-> filter, clear |-> filter,
        sort |-> Filter("customers"), turn |-> Filter("customers"), size |-> Filter("customers"),
        tab  |-> Filter("customers")]

CustomerHandlers ==
    [add    |-> [slot |-> "adding", writes |-> {"customers"}, okOff |-> {"add"},
                 okLoads |-> {"customers"}] @@ Call,
     remove |-> [slot |-> "removing", writes |-> {"customers"}, okLoads |-> {"customers"}] @@ Call]

CustomersContent ==
    LET list == CustomerFilters @@
                [toAdd    |-> Show("add"),
                 select   |-> [awaits |-> {"customers"}] @@ Show("selected"),
                 deselect |-> Hide("selected"),
                 remove   |-> [awaits |-> {"customers"}, idle |-> {"removing"}]
                                  @@ CustomerHandlers.remove]
    IN [modals |-> {"add"}, single |-> {"adding", "removing"},
        ops |-> Covered({"add"}, DOMAIN list, list) @@
                [cancel |-> Hide("add"),
                 add    |-> [need |-> {"add"}, idle |-> {"adding"}] @@ CustomerHandlers.add]]
       @@ Reads({"customers"})

(* The privacy shown is a constant, not what the customer has chosen.            *)
CustomerDetailPage ==
    [start |-> {"overview"}, fails |-> {<<"detail", "failed">>},
     ops |-> Within([sees |-> {"detail"}, bar |-> {"failed"}], Tabs({"overview", "timeline", "policy"}))]
    @@ Reads({"detail", "timeline"})

--------------------------------------------------------------------------------
(* auth/invite and auth/login                                                    *)

(* Each way of accepting is a chain of requests under one busy flag; an account or
   a session made by the first is there even if the invitation is refused.        *)
InviteHandlers ==
    LET chain == [slot |-> "accepting", okOff |-> {"login", "register"}, okOn |-> {"success"}]
    IN [direct   |-> [on |-> {"direct"}, noOn |-> {"error"}, writes |-> {"membership"}] @@ chain @@ Call,
        login    |-> [writes |-> {"membership", "session"}, spills |-> {"session"}] @@ chain @@ Call,
        register |-> [writes |-> {"membership", "session"}, spills |-> {"session"}] @@ chain @@ Call]

InviteAcceptPage ==
    LET undecided == [sees |-> {"invitation"},
                      bar |-> {"error", "success", "direct", "login", "register"}]
    IN [queries |-> {"invitation", "membership", "session"}, loads |-> {"invitation"},
        fails |-> {<<"invitation", "error">>}, single |-> {"accepting"}, fresh |-> {"invitation"},
        ops |-> [direct     |-> [bar |-> {"choice", "direct"} \cup undecided.bar, idle |-> {"accepting"}]
                                    @@ undecided @@ InviteHandlers.direct,
                 toLogin    |-> [on |-> {"choice", "login"}] @@ undecided @@ Tap,
                 toRegister |-> [on |-> {"choice", "register"}] @@ undecided @@ Tap,
                 login      |-> [need |-> {"login"}, idle |-> {"accepting"}] @@ InviteHandlers.login,
                 register   |-> [need |-> {"register"}, idle |-> {"accepting"}]
                                    @@ InviteHandlers.register,
                 backLogin  |-> Hide("login"), backRegister |-> Hide("register"),
                 enter      |-> [need |-> {"success"}] @@ Show("gone"),
                 leave      |-> [need |-> {"error"}] @@ Show("gone")]] @@ Component

(* With more than one organization the user has to pick one; the choice is a
   request that nothing guards.                                                   *)
LoginHandlers ==
    [submit |-> [slot |-> "loading", on |-> {"asked"}, okOn |-> {"loggedIn"}] @@ Call,
     pick   |-> [bar |-> {"gone"}, need |-> {"picker"}, okOn |-> {"gone"}, blind |-> TRUE] @@ Call,
     forgot |-> [slot |-> "forgetting", okOn |-> {"forgotSent"}] @@ Call]

LoginPage ==
    [single |-> {"loading", "forgetting"}, requires |-> {<<"pick", "loggedIn">>},
     rests |-> {<<"picker", "loggedIn">>},
     ops |-> [submit   |-> [bar |-> {"forgot", "loggedIn"}, idle |-> {"loading"}] @@ LoginHandlers.submit,
              several  |-> [need |-> {"loggedIn"}] @@ Show("picker"),
              single   |-> [need |-> {"loggedIn"}, bar |-> {"picker"}] @@ Show("gone"),
              pick     |-> LoginHandlers.pick,
              toForgot |-> [bar |-> {"forgot", "loggedIn"}] @@ Show("forgot"),
              forgot   |-> [need |-> {"forgot"}, bar |-> {"forgotSent"}, idle |-> {"forgetting"}]
                               @@ LoginHandlers.forgot,
              back     |-> [need |-> {"forgot"}, off |-> {"forgot", "forgotSent"}] @@ Tap]]
    @@ Component

--------------------------------------------------------------------------------
(* conversations/[id]                                                            *)

(* The text goes away when it is sent, whatever becomes of it.                   *)
MessageComposer ==
    [type    |-> Show("text"),
     attach  |-> Show("attachment"), detach |-> Hide("attachment"),
     emoji   |-> [bar |-> {"emoji"}] @@ Show("emoji"), noEmoji |-> Hide("emoji"),
     insert  |-> [need |-> {"emoji"}, off |-> {"emoji"}] @@ Show("text"),
     sendText |-> [need |-> {"text"}, idle |-> {"sending"}, slot |-> "sending",
                   off |-> {"text", "attachment"}, writes |-> {"conversation"}] @@ Call]

(* A choice disables all of them; the drawer stays mounted when it is closed, and
   the answer closes it even if it was opened again.                              *)
AgentAssignDrawer ==
    LET choice == [need |-> {"assign"}, awaits |-> {"team"}, slot |-> "assigning",
                   idle |-> {"assigning"}, writes |-> {"conversation"}, okOff |-> {"assign"},
                   okLoads |-> {"conversation"}]
    IN [assign     |-> [okOff |-> {"assign", "note"}] @@ choice @@ Call,
        unassign   |-> choice @@ Call,
        note       |-> [need |-> {"assign"}] @@ Show("note"),
        closeDrawer |-> Hide("assign")]

(* Archiving closes its dialog whether it succeeds or fails.                     *)
ConversationHeader ==
    [menu     |-> [bar |-> {"menu"}] @@ Show("menu"), outside |-> Hide("menu"),
     toAssign |-> [need |-> {"menu"}, off |-> {"menu"}] @@ Show("assign"),
     toArchive |-> [need |-> {"menu"}, off |-> {"menu"}] @@ Show("archive"),
     archive  |-> [need |-> {"archive"}, slot |-> "archiving", idle |-> {"archiving"},
                   writes |-> {"conversation"}, okOff |-> {"archive"}, noOff |-> {"archive"},
                   okOn |-> {"gone"}] @@ Call,
     keep     |-> [idle |-> {"archiving"}] @@ Hide("archive")]

(* Nothing loads the conversation after a message was sent.  Earlier messages are
   fetched on every scroll near the top, and put in front when they come.         *)
ConversationDetailContent ==
    LET body == ConversationHeader @@ MessageComposer @@
                [info   |-> [bar |-> {"info"}] @@ Show("info"), noInfo |-> Hide("info"),
                 scroll |-> Fetch("older")]
    IN [queries |-> {"conversation", "older", "team"}, loads |-> {"conversation", "team"},
        latest |-> {"conversation", "team"}, modals |-> {"archive"},
        single |-> {"sending", "assigning", "archiving"}, fresh |-> {"team"},
        ops |-> Within([sees |-> {"conversation"}],
                    Covered({"archive", "assign"}, DOMAIN body \ {"archive", "keep"}, body)
                        @@ AgentAssignDrawer)] @@ Component

--------------------------------------------------------------------------------
(* notifications                                                                 *)

NotificationsContent ==
    [ops |-> [o \in {"search", "filter", "clear", "turn", "size"} |-> Filter("notifications")] @@
             [export |-> [awaits |-> {"notifications"}] @@ Tap]] @@ Reads({"notifications", "stats"})

--------------------------------------------------------------------------------
(* cms                                                                           *)

(* Publishing, archiving and deleting have no busy flag and close whatever menu is
   open when they end.  Nothing drops the answer for an earlier filter.           *)
CMSContentPage ==
    LET act == [need |-> {"menu"}, sees |-> {"content"}, writes |-> {"content"},
                okOff |-> {"menu"}, noOff |-> {"menu"}, okLoads |-> {"content"},
                noOn |-> {"error"}] @@ Call
    IN [queries |-> {"content"}, loads |-> {"content"}, fails |-> {<<"content", "error">>},
        ops |-> [filters |-> [bar |-> {"filters"}] @@ Show("filters"), fold |-> Hide("filters"),
                 choose  |-> [need |-> {"filters"}] @@ Filter("content"),
                 menu    |-> [sees |-> {"content"}, bar |-> {"menu"}] @@ Show("menu"),
                 close   |-> [sees |-> {"content"}] @@ Hide("menu"),
                 edit    |-> [need |-> {"menu"}, sees |-> {"content"}] @@ Show("gone"),
                 publish |-> act, archive |-> act, delete |-> act]] @@ Component

(* Saving and publishing share the busy flag, but typing goes on under it.  A piece
   that was saved and could not be published has been saved all the same.  An editor
   whose piece could not be loaded is not followed further.                      *)
CMSEditorPage ==
    LET form == [sees |-> {"piece"}]
        save == [need |-> {"filled"}, slot |-> "saving", idle |-> {"saving"}, off |-> {"error", "success"},
                 writes |-> {"list"}, okOn |-> {"success"}, noOn |-> {"error"}] @@ Call
    IN [start |-> {"filled"}, queries |-> {"piece", "list"}, loads |-> {"piece"}, fails |-> {<<"piece", "error">>},
        drafts |-> {"filled"}, single |-> {"saving"},
        requires |-> {"save", "publish"} \X {"filled"},
        ops |-> Within(form,
            [type    |-> [bar |-> {"preview"}, off |-> {"error", "success"}] @@ Show("filled"),
             erase   |-> [bar |-> {"preview"}, off |-> {"filled", "error", "success"}, need |-> {"filled"}] @@ Tap,
             preview |-> [bar |-> {"preview"}] @@ Show("preview"), edit |-> Hide("preview"),
             save    |-> save, publish |-> [spills |-> {"list"}] @@ save,
             back    |-> Show("gone")])] @@ Component

(* Several files go up one after the other, and only when all are up is the list
   loaded again; deleting has no busy flag.                                       *)
CMSMediaPage ==
    [queries |-> {"media"}, loads |-> {"media"}, fails |-> {<<"media", "error">>},
     timers |-> {"copied"}, single |-> {"uploading"},
     ops |-> [upload |-> [slot |-> "uploading", idle |-> {"uploading"}, off |-> {"error"},
                          writes |-> {"media"}, spills |-> {"media"}, okLoads |-> {"media"},
                          noOn |-> {"error"}] @@ Call,
              delete |-> [sees |-> {"media"}, writes |-> {"media"}, okLoads |-> {"media"},
                          noOn |-> {"error"}] @@ Call,
              copy   |-> [sees |-> {"media"}] @@ Show("copied"), timer |-> Hide("copied")]]
    @@ Component

--------------------------------------------------------------------------------
(* notifications/compose                                                         *)

(* A change of the fields takes the verdict of the policy back, but a check under
   way brings one for the fields of before.  The timer that saves a draft replaces
   the draft of an earlier visit that still waits to be restored ("old").         *)
ComposeNotificationPage ==
    LET field == [idle |-> {"sending"}, bar |-> {"confirm"}]
    IN [start |-> {"stored", "old"}, timers |-> {"autosave"}, drafts |-> {"filled"}, modals |-> {"confirm"},
        single |-> {"checking", "sending"}, requires |-> {<<"send", "filled">>, <<"send", "confirm">>},
        ops |-> Within(field,
                    [fill    |-> [off |-> {"verdict"}, on |-> {"filled", "autosave"}] @@ Tap,
                     empty   |-> [need |-> {"filled"}, off |-> {"filled", "verdict"}] @@ Tap,
                     check   |-> [slot |-> "checking", idle |-> {"checking"},
                                  okOn |-> {"verdict"}] @@ Call,
                     restore |-> [need |-> {"stored"}, off |-> {"stored", "verdict"}, on |-> {"filled"}]
                                     @@ Tap,
                     discard |-> Hide("stored"),
                     ask     |-> [need |-> {"filled"}] @@ Show("confirm"),
                     leave   |-> Show("gone")]) @@
                [timer |-> [off |-> {"autosave", "old"}, need |-> {"autosave"}] @@ Tap,
                 keep  |-> [idle |-> {"sending"}] @@ Hide("confirm"),
                 send  |-> [need |-> {"confirm", "filled"}, slot |-> "sending", idle |-> {"sending"},
                            okOff |-> {"confirm", "stored"}, noOff |-> {"confirm"}, okOn |-> {"gone"}]
                               @@ Call]] @@ Component

(* The search leaves 300 ms after the last key.                                  *)
CustomerLookup ==
    [queries |-> {"customers"}, latest |-> {"customers"}, fresh |-> {"customers"},
     timers |-> {"debounce"},
     ops |-> [type   |-> [on |-> {"debounce", "open"}] @@ Tap,
              timer  |-> [need |-> {"debounce"}, off |-> {"debounce"}] @@ Filter("customers"),
              select |-> [need |-> {"open"}, sees |-> {"customers"}, off |-> {"open"}] @@ Show("debounce"),
              focus  |-> [bar |-> {"open"}] @@ Show("open"), outside |-> Hide("open")]] @@ Component

--------------------------------------------------------------------------------
(* parts of the customer and document pages                                      *)

(* No control waits for another: a note can be saved twice, and the answer to one
   update closes the edit of another note.                                       *)
CustomerNotesSection ==
    LET change == [writes |-> {"notes"}, okLoads |-> {"notes"}] @@ Call
    IN [ops |-> [form   |-> [bar |-> {"form"}] @@ Show("form"), fold |-> Hide("form"),
                 type   |-> [need |-> {"form"}] @@ Show("typed"),
                 cancel |-> [need |-> {"form"}, off |-> {"form", "typed"}] @@ Tap,
                 add    |-> [need |-> {"form", "typed"}, okOff |-> {"form", "typed"}] @@ change,
                 edit   |-> [sees |-> {"notes"}] @@ Show("editing"),
                 quit   |-> Hide("editing"),
                 update |-> [need |-> {"editing"}, okOff |-> {"editing"}] @@ change,
                 delete |-> [sees |-> {"notes"}] @@ change]] @@ Reads({"notes"})

CustomerTagsSection ==
    LET change == [writes |-> {"tags"}, okLoads |-> {"tags"}] @@ Call
    IN [ops |-> [open   |-> [bar |-> {"menu"}] @@ Show("menu"), close |-> Hide("menu"),
                 add    |-> [need |-> {"menu"}, okOff |-> {"menu"}] @@ change,
                 remove |-> [sees |-> {"tags"}] @@ change]] @@ Reads({"tags"})

(* One request per recipient, under one flag; those before a refusal were shared.  *)
ShareDocumentModal ==
    [start |-> {"share"}, queries |-> {"shares"}, modals |-> {"share"}, single |-> {"share"},
     ops |-> [reopen |-> [bar |-> {"share"}] @@ Show("share")] @@
             Dialog("share", [add    |-> Show("recipients"),
                              remove |-> Hide("recipients"),
                              submit |-> [need |-> {"recipients"}, slot |-> "share", idle |-> {"share"},
                                          writes |-> {"shares"}, spills |-> {"shares"},
                                          okOff |-> {"share"}] @@ Call,
                              close  |-> [off |-> {"share"}] @@ Tap])] @@ Component

(* Files are uploaded side by side, three requests each; the list is loaded again
   when all have ended, well or badly.                                            *)
UploadZone ==
    [ops |-> [drag   |-> [bar |-> {"over"}] @@ Show("over"), away |-> Hide("over"),
              upload |-> [off |-> {"over"}, items |-> {1, 2}, writes |-> {"documents"},
                          spills |-> {"documents"}, okOn |-> {"row"}, noOn |-> {"row"},
                          okLoads |-> {"documents"}, noLoads |-> {"documents"}] @@ Call,
              remove |-> Hide("row")]] @@ Reads({"documents"})

ProviderTable ==
    [deliveryLog |-> DeliveryLog, webhooksContent |-> WebhooksContent,
     callbackDetailExpansion |-> CallbackDetailExpansion,
     agentAssignDropdown |-> AgentAssignDropdown, callbacksContent |-> CallbacksContent,
     createCallbackForm |-> CreateCallbackForm, profileSettingsPage |-> ProfileSettingsPage,
     complianceCards |-> ComplianceCards, auditLogTab |-> AuditLogTab,
     communicationAuditTab |-> CommunicationAuditTab, spamReportsTab |-> SpamReportsTab,
     complianceContent |-> ComplianceContent, analyticsPanels |-> AnalyticsPanels,
     analyticsPageContent |-> AnalyticsPageContent, registerPage |-> RegisterPage,
     aPIKeysTab |-> APIKeysTab, integrationsGridTab |-> IntegrationsGridTab,
     integrationLogsTab |-> IntegrationLogsTab, rateLimitDashboard |-> RateLimitDashboard,
     integrationsContent |-> IntegrationsContent, industryPage |-> IndustryPage,
     conversationsContent |-> ConversationsContent, newCampaignContent |-> NewCampaignContent,
     teamSettingsPage |-> TeamSettingsPage, documentsContent |-> DocumentsContent,
     campaignsContent |-> CampaignsContent, campaignDetailPage |-> CampaignDetailPage,
     customersContent |-> CustomersContent, customerDetailPage |-> CustomerDetailPage,
     inviteAcceptPage |-> InviteAcceptPage, loginPage |-> LoginPage,
     conversationDetailContent |-> ConversationDetailContent,
     notificationsContent |-> NotificationsContent, cMSContentPage |-> CMSContentPage,
     cMSEditorPage |-> CMSEditorPage, cMSMediaPage |-> CMSMediaPage,
     composeNotificationPage |-> ComposeNotificationPage, customerLookup |-> CustomerLookup,
     customerNotesSection |-> CustomerNotesSection, customerTagsSection |-> CustomerTagsSection,
     shareDocumentModal |-> ShareDocumentModal, uploadZone |-> UploadZone]
================================================================================
