----------------------------- MODULE DashViews -----------------------------
(***************************************************************************)
(* The dashboard's controls: buttons, switches, forms and lists whose      *)
(* click calls a server action and shows the outcome.                      *)
(*                                                                         *)
(* They are variations of one handler: mark the control busy, call, show   *)
(* the answer or the error, refresh the page, clear the busy mark.  What   *)
(* differs is recorded per control: what busy locks, whether the view      *)
(* shows the answer, guesses it, or only follows the page's properties,    *)
(* whether a rejected call is caught.  The browser runs server actions and *)
(* page refreshes one after another; calls of the auth client are plain    *)
(* fetches and overlap.  What is typed into a form and not saved is left   *)
(* out.                                                                    *)
(***************************************************************************)
EXTENDS Naturals, Sequences

CONSTANTS
    Unset,         \* no value
    MaxClicks     \* bound on the clicks and polls of a behaviour

ASSUME ViewsAssumption == Unset \notin Nat /\ MaxClicks \in Nat

VARIABLES
    ctl,          \* the control on the page
    db,           \* each row's value on the server
    props,        \* each row's value in the page's last render
    view,         \* each row's value in the component's own state
    busy,         \* the rows the component's pending state names
    calls,        \* calls and refreshes under way, in the order they started
    stuck,        \* a rejected call nobody caught left the control pending
    away,         \* the tab has left the page
    clicks,       \* number of clicks and polls
    clean,        \* history: rows nobody else has written since the last answer
    want          \* history: what the user chose last, Unset once it was refused

viewsVars == <<ctl, db, props, view, busy, calls, stuck, away, clicks, clean, want>>

-----------------------------------------------------------------------------
(* What each method of the API client does to a row: writes with an        *)
(* absolute value or a unique key are "set", others add a row.             *)

FeedApi == [setPostVote |-> "set", setSiteFeedVisibility |-> "set", setSiteFeedMeta |-> "set",
            setSiteCollab |-> "set"]
CommentsApi == [addPostComment |-> "add", setPostFeedMeta |-> "set", setSkillFeedVisibility |-> "set",
                createSite |-> "next", deleteSite |-> "remove", publish |-> "set"]
AccessApi == [setSiteAccess |-> "set", addAllowlistEntry |-> "next", removeAllowlistEntry |-> "remove",
              addDomain |-> "next", getDomainStatus |-> "read", deleteDomain |-> "remove"]
OrgApi == [setAllowExternalSharing |-> "set", setMcpEnabled |-> "set", createApiKey |-> "add",
           revokeApiKey |-> "remove", setApiKeysEnabled |-> "set", authzPassword |-> "read"]
BillingApi == [getBilling |-> "read", createCheckout |-> "read", createPortal |-> "read",
               revokeAccess |-> "set"]
SkillsApi == [deleteSkill |-> "remove", setSkillFolders |-> "set", setSkillCollab |-> "set",
              downloadSkill |-> "read"]
FoldersApi == [createSkillFolder |-> "next", renameSkillFolder |-> "set", deleteSkillFolder |-> "remove",
               addSkillFolderItem |-> "set", removeSkillFolderItem |-> "remove",
               setSkillFolderItemPreset |-> "set"]
ChatsApi == [createChat |-> "add", deleteChat |-> "remove", setChatSite |-> "set", setChatPanel |-> "set",
             setChatCollab |-> "set", setChatSettings |-> "set"]
MemoryApi == [setMemoryEnabled |-> "set", createMemory |-> "next", patchMemory |-> "set",
              deleteMemory |-> "remove"]

(* The server actions: the method called, and whether the answer carries   *)
(* the page rendered again (revalidatePath).  Every other error of the     *)
(* method becomes a refusal with a message.                                *)
Action(effect) == [effect |-> effect, revalidates |-> TRUE, via |-> "queue"]
Plain(effect) == [effect |-> effect, revalidates |-> FALSE, via |-> "queue"]
AuthClient(effect) == [effect |-> effect, revalidates |-> FALSE, via |-> "fetch"]

voteAction == Plain(FeedApi.setPostVote)
setPostMetaAction == Action(CommentsApi.setPostFeedMeta)
addFeedCommentAction == Action(CommentsApi.addPostComment)
createSiteAction == Action(CommentsApi.createSite)
publishVersionAction == Action(CommentsApi.publish)
downloadSiteAction == Plain("read")
addCommentAction == Action(CommentsApi.addPostComment)
setAccessAction == Action(AccessApi.setSiteAccess)
setFeedVisibilityAction == Action(FeedApi.setSiteFeedVisibility)
setFeedMetaAction == Action(FeedApi.setSiteFeedMeta)
addAllowlistAction == Action(AccessApi.addAllowlistEntry)
removeAllowlistAction == Action(AccessApi.removeAllowlistEntry)
setSiteCollabAction == Action(FeedApi.setSiteCollab)
deleteSiteAction == Action(CommentsApi.deleteSite)
addDomainAction == Action(AccessApi.addDomain)
removeDomainAction == Action(AccessApi.deleteDomain)
refreshDomainStatusAction == Plain(AccessApi.getDomainStatus)
setAllowExternalSharingAction == Action(OrgApi.setAllowExternalSharing)
setMcpEnabledAction == Action(OrgApi.setMcpEnabled)
setMemoryEnabledAction == Action(MemoryApi.setMemoryEnabled)
setChatLogsEnabledAction == Action(ChatsApi.setChatSettings)
createApiKeyAction == Action(OrgApi.createApiKey)
revokeApiKeyAction == Action(OrgApi.revokeApiKey)
setApiKeysEnabledAction == Action(OrgApi.setApiKeysEnabled)
createMemoryAction == Action(MemoryApi.createMemory)
patchMemoryAction == Action(MemoryApi.patchMemory)
deleteMemoryAction == Action(MemoryApi.deleteMemory)
createCheckoutAction == Plain(BillingApi.createCheckout)
createPortalAction == Plain(BillingApi.createPortal)
getBillingPlanAction == Plain(BillingApi.getBilling)
createChatAction == Action(ChatsApi.createChat)
deleteChatAction == Action(ChatsApi.deleteChat)
setChatSiteAction == Action(ChatsApi.setChatSite)
setChatPanelAction == Action(ChatsApi.setChatPanel)
setChatCollabAction == Action(ChatsApi.setChatCollab)
submitContactAction == Plain("add")
submitPasswordAction == Plain(OrgApi.authzPassword)
revokeAccessAction == Action(BillingApi.revokeAccess)
removeMemberAction == Plain("remove")
deleteSkillAction == Action(SkillsApi.deleteSkill)
setSkillFeedVisibilityAction == Action(CommentsApi.setSkillFeedVisibility)
setSkillFoldersAction == Action(SkillsApi.setSkillFolders)
downloadSkillAction == Plain(SkillsApi.downloadSkill)
createSkillFolderAction == Action(FoldersApi.createSkillFolder)
renameSkillFolderAction == Action(FoldersApi.renameSkillFolder)
deleteSkillFolderAction == Action(FoldersApi.deleteSkillFolder)
addSkillToFolderAction == Action(FoldersApi.addSkillFolderItem)
removeSkillFromFolderAction == Action(FoldersApi.removeSkillFolderItem)
setPresetFlagAction == Action(FoldersApi.setSkillFolderItemPreset)
setSkillCollabAction == Action(SkillsApi.setSkillCollab)
deleteChatMessageAction == Action("remove")

-----------------------------------------------------------------------------
(* The controls.  A switch: its own pending flag, shows the answer, then   *)
(* refreshes; a rejected call is not caught.                               *)

Switch(act) ==
    [act |-> act, rows |-> 1, slot |-> "own", shows |-> "answer", follows |-> FALSE,
     refreshes |-> "ok", leaves |-> FALSE, catches |-> FALSE, polls |-> "no"]
\* A form: as a switch, but what it shows of the server comes with the page.
Form(act) == [Switch(act) EXCEPT !.shows = "props"]
\* A list: rows that share one busy slot.
List(act) == [Form(act) EXCEPT !.rows = 2, !.slot = "shared"]
\* run of MemoryView and SkillsView: one busy key, a refresh whatever the outcome.
Run(act) == [List(act) EXCEPT !.refreshes = "always"]
\* A success leaves the page.
Leaving(act) == [Form(act) EXCEPT !.leaves = TRUE]
\* A file offered for download; nothing is refreshed.
Download(act) == [Form(act) EXCEPT !.refreshes = "no"]

VoteControl == [Switch(voteAction) EXCEPT !.shows = "optimistic", !.refreshes = "no"]
PostHeader == [Switch(setPostMetaAction) EXCEPT !.refreshes = "no"]
FeedComments == [Switch(addFeedCommentAction) EXCEPT !.refreshes = "no"]
SiteComments == [Switch(addCommentAction) EXCEPT !.refreshes = "no"]
CollabToggle == {Switch(a) : a \in {setSiteCollabAction, setSkillCollabAction, setChatCollabAction}}
ExternalSharingToggle == Switch(setAllowExternalSharingAction)
MemoryAccess == Switch(setMemoryEnabledAction)
ChatLogsAccess == Switch(setChatLogsEnabledAction)
McpAccess == Switch(setMcpEnabledAction)
FeedVisibilityToggle == Switch(setFeedVisibilityAction)
SkillFeedToggle == Switch(setSkillFeedVisibilityAction)
ChatPanelToggle == Switch(setChatPanelAction)
ChatSiteSelect == Form(setChatSiteAction)
FeedMetaForm == Form(setFeedMetaAction)
AccessSettingsForm == Form(setAccessAction)
AllowlistAdd == [Switch(addAllowlistAction) EXCEPT !.follows = TRUE]
AllowlistRemove == [List(removeAllowlistAction) EXCEPT !.shows = "answer", !.follows = TRUE]
DomainsManager == [Switch(addDomainAction) EXCEPT !.follows = TRUE]
DomainCard == [Switch(removeDomainAction) EXCEPT !.rows = 2, !.follows = TRUE, !.polls = "row"]
\* Relies on the answer's render alone.
RollbackDialog == [Form(publishVersionAction) EXCEPT !.refreshes = "no"]
NewSiteDialog == Leaving(createSiteAction)
DeleteSite == [Leaving(deleteSiteAction) EXCEPT !.refreshes = "no", !.catches = TRUE]
DownloadSite == Download(downloadSiteAction)
ApiKeysSwitch == Switch(setApiKeysEnabledAction)
ApiKeysCreate == Switch(createApiKeyAction)
ApiKeysRevoke == [Switch(revokeApiKeyAction) EXCEPT !.rows = 2, !.slot = "all"]
MemoryRow == {Run(a) : a \in {patchMemoryAction, deleteMemoryAction}}
AddMemoryForm == Run(createMemoryAction)
SkillsView == {Run(a) : a \in {deleteSkillAction, downloadSkillAction}}
FolderAdminDialog == {Run(a) : a \in {createSkillFolderAction, deleteSkillFolderAction}}
\* Renames, members and preset flags do not look at the busy key.
FolderItems ==
    {[Run(a) EXCEPT !.slot = "none"] :
        a \in {renameSkillFolderAction, setPresetFlagAction, addSkillToFolderAction,
               removeSkillFromFolderAction}}
SkillDetailActions ==
    {[Leaving(deleteSkillAction) EXCEPT !.slot = "all"],
     [Download(downloadSkillAction) EXCEPT !.slot = "all"]}
SkillEditor == Leaving(setSkillFoldersAction)
TranscriptView == List(deleteChatMessageAction)
ChatImportForm == Leaving(createChatAction)
ChatDeleteButton == Leaving(deleteChatAction)
MemberRole == [List(AuthClient("set")) EXCEPT !.catches = TRUE]
MemberRemove == [List(removeMemberAction) EXCEPT !.slot = "all", !.catches = TRUE]
InviteMemberForm == [Form(AuthClient("next")) EXCEPT !.catches = TRUE]
PendingInvitations == [List(AuthClient("remove")) EXCEPT !.catches = TRUE]
RevokeAccessControl == [Form(revokeAccessAction) EXCEPT !.catches = TRUE]
UpgradeButton == [Leaving(createCheckoutAction) EXCEPT !.refreshes = "no"]
ManageBillingButton == [Leaving(createPortalAction) EXCEPT !.refreshes = "no"]
PasswordGate == [Leaving(submitPasswordAction) EXCEPT !.refreshes = "no"]
ContactForm == [Switch(submitContactAction) EXCEPT !.refreshes = "no", !.catches = TRUE]
AuthForm == [Leaving(AuthClient("read")) EXCEPT !.slot = "all", !.refreshes = "no", !.catches = TRUE]
\* The link is sent by mail and the form stays.
MagicLink == [AuthForm EXCEPT !.leaves = FALSE]
SignOutButton == [Leaving(AuthClient("read")) EXCEPT !.refreshes = "no"]
\* Polls the plan from the start, until it changes or the attempts are used up.
FinalizingState == [Form(getBillingPlanAction) EXCEPT !.polls = "plan", !.leaves = TRUE]

Controls ==
    {VoteControl, PostHeader, FeedComments, SiteComments, ExternalSharingToggle, MemoryAccess,
     ChatLogsAccess, McpAccess, FeedVisibilityToggle, SkillFeedToggle, ChatPanelToggle, ChatSiteSelect,
     FeedMetaForm, AccessSettingsForm, AllowlistAdd, AllowlistRemove, DomainsManager, DomainCard,
     RollbackDialog, NewSiteDialog, DeleteSite, DownloadSite, ApiKeysSwitch, ApiKeysCreate,
     ApiKeysRevoke, AddMemoryForm, SkillEditor, TranscriptView, ChatImportForm, ChatDeleteButton,
     MemberRole, MemberRemove, InviteMemberForm, PendingInvitations, RevokeAccessControl, UpgradeButton,
     ManageBillingButton, PasswordGate, ContactForm, AuthForm, MagicLink, SignOutButton,
     FinalizingState}
    \cup CollabToggle \cup MemoryRow \cup SkillsView \cup FolderAdminDialog \cup FolderItems
    \cup SkillDetailActions

-----------------------------------------------------------------------------
Rows == 1..ctl.rows

Removes(c) == c.act.effect = "remove"

ViewsInit ==
    /\ ctl \in Controls
    /\ db = [r \in Rows |-> IF Removes(ctl) THEN 1 ELSE 0]
    /\ props = db /\ view = db
    /\ busy = IF ctl.polls = "plan" THEN Rows ELSE {}
    /\ calls = <<>> /\ stuck = FALSE /\ away = FALSE /\ clicks = 0
    /\ clean = [r \in Rows |-> TRUE] /\ want = [r \in Rows |-> Unset]

Shown(r) == IF ctl.shows = "props" THEN props[r] ELSE view[r]

\* The values a click on a row that shows v may ask for.
Targets(v) ==
    CASE ctl.act.effect = "set" -> (0..2) \ {v}
      [] ctl.act.effect = "remove" -> IF v = 1 THEN {0} ELSE {}
      [] ctl.act.effect = "read" -> {v}
      [] OTHER -> {v + 1}

Call(kind, r, to, via) ==
    [kind |-> kind, row |-> r, to |-> to, was |-> view[r], via |-> via, res |-> "sent", page |-> Unset]

\* router.refresh
Refresh == [Call("refresh", 1, 0, "queue") EXCEPT !.was = 0]

\* Mutant: the pending flag does not disable the button.
Enabled_Always(r) == TRUE

\* Whether the control can be clicked, and what busy becomes.
Enabled(r) ==
    CASE ctl.slot = "all" -> busy = {}
      [] ctl.slot = "none" -> TRUE
      [] OTHER -> r \notin busy

MarkBusy(r) == IF ctl.slot = "own" THEN busy \cup {r} ELSE {r}
Unmark(r) == IF ctl.slot = "own" THEN busy \ {r} ELSE {}

Click(r) ==
    /\ ~away /\ clicks < MaxClicks /\ ctl.polls # "plan" /\ Enabled(r)
    /\ \E to \in Targets(Shown(r)) :
        /\ calls' = Append(calls, Call("act", r, to, ctl.act.via))
        /\ view' = IF ctl.shows = "optimistic" THEN [view EXCEPT ![r] = to] ELSE view
        /\ want' = [want EXCEPT ![r] = to]
    /\ busy' = MarkBusy(r) /\ clicks' = clicks + 1
    /\ UNCHANGED <<ctl, db, props, stuck, away, clean>>

\* DomainCard's timer asks for the row's status while the card is mounted.
PollRow(r) ==
    /\ ctl.polls = "row" /\ ~away /\ view[r] = 1 /\ clicks < MaxClicks
    /\ calls' = Append(calls, Call("poll", r, 1, "queue"))
    /\ clicks' = clicks + 1
    /\ UNCHANGED <<ctl, db, props, view, busy, stuck, away, clean, want>>

\* FinalizingState's next attempt.
PollPlan ==
    /\ ctl.polls = "plan" /\ busy # {} /\ ~stuck /\ calls = <<>> /\ clicks < MaxClicks
    /\ calls' = <<Call("plan", 1, 0, "queue")>>
    /\ clicks' = clicks + 1
    /\ UNCHANGED <<ctl, db, props, view, busy, stuck, away, clean, want>>

\* Somebody else writes the row, or the payment provider changes the plan.
Elsewhere(r) ==
    /\ ctl.act.effect # "read" \/ ctl.polls = "plan"
    /\ db[r] = props[r] /\ clean[r]
    /\ db' = [db EXCEPT ![r] = IF Removes(ctl) THEN 0 ELSE db[r] + 1]
    /\ clean' = [clean EXCEPT ![r] = FALSE]
    /\ want' = [want EXCEPT ![r] = Unset]
    /\ UNCHANGED <<ctl, props, view, busy, calls, stuck, away, clicks>>

-----------------------------------------------------------------------------
(* A call reaches the server.                                              *)

\* Server actions and refreshes run one at a time, in order.
Ready(i) ==
    /\ calls[i].res = "sent"
    /\ calls[i].via = "queue" => \A j \in 1..(i - 1) : calls[j].via # "queue"

\* What the call leaves in the row.
Effect(c) ==
    IF c.kind # "act" \/ ctl.act.effect = "read" THEN db[c.row]
    ELSE IF ctl.act.effect = "add" THEN db[c.row] + 1
    ELSE c.to

\* A removed row refuses every call, a poll finds it gone, and any error of the
\* API is a refusal.
Refusable(c) == c.kind \in {"act", "plan"} \/ (c.kind = "poll" /\ db[c.row] = 0)

\* The answer carries the page as it is after the call.
Answer(i, res, page) == calls' = [calls EXCEPT ![i] = [@ EXCEPT !.res = res, !.page = page]]

Execute(i) ==
    /\ Ready(i)
    /\ LET c == calls[i]
           after == [db EXCEPT ![c.row] = Effect(c)]
       IN \/ /\ ~(c.kind = "poll" /\ db[c.row] = 0)
             /\ db' = after /\ Answer(i, "ok", after)
             /\ clean' = IF c.kind = "act" /\ ctl.act.effect # "add"
                            THEN [clean EXCEPT ![c.row] = TRUE] ELSE clean
             /\ UNCHANGED want
          \/ /\ Refusable(c)
             /\ Answer(i, "refused", Unset)
             /\ want' = [want EXCEPT ![c.row] = Unset]
             /\ UNCHANGED <<db, clean>>
          \/ /\ c.kind # "refresh"
             /\ db' \in {db, after} /\ Answer(i, "lost", Unset)
             /\ clean' = [clean EXCEPT ![c.row] = FALSE]
             /\ want' = [want EXCEPT ![c.row] = Unset]
    /\ UNCHANGED <<ctl, props, view, busy, stuck, away, clicks>>

-----------------------------------------------------------------------------
(* The answer reaches the component.                                       *)

Rest(i) == SubSeq(calls, 1, i - 1) \o SubSeq(calls, i + 1, Len(calls))

\* The page is rendered again; a list that follows its properties takes them over.
Render(page) == /\ props' = page
                /\ view' = IF ctl.follows THEN page ELSE view

OnRefresh(i) ==
    /\ calls[i].kind = "refresh" /\ calls[i].res = "ok"
    /\ Render(calls[i].page) /\ calls' = Rest(i)
    /\ UNCHANGED <<ctl, db, busy, stuck, away, clicks, clean, want>>

\* What the component shows of the answer itself.
Applied(base, c) ==
    IF ctl.shows = "props" THEN base
    ELSE IF ctl.act.effect = "add" THEN [base EXCEPT ![c.row] = @ + 1]
    ELSE [base EXCEPT ![c.row] = c.page[c.row]]

OnOk(i) ==
    LET c == calls[i]
        page == IF ctl.act.revalidates THEN c.page ELSE props
    IN /\ c.kind = "act" /\ c.res = "ok"
       /\ props' = page
       /\ view' = Applied(IF ctl.follows THEN page ELSE view, c)
       /\ busy' = Unmark(c.row)
       /\ away' = (away \/ ctl.leaves)
       /\ calls' = IF ctl.refreshes = "no" THEN Rest(i)
                      ELSE Append(Rest(i), Refresh)
       /\ UNCHANGED <<ctl, db, stuck, clicks, clean, want>>

\* Mutant: a refused vote keeps the guess.
RollBack_Keeps(c) == view

\* Only VoteControl guessed, and it restores what it showed before.
RollBack(c) == IF ctl.shows = "optimistic" THEN [view EXCEPT ![c.row] = c.was] ELSE view

\* Mutant: the error branch returns before the pending flag is cleared.
OnError_StaysPending(i) ==
    LET c == calls[i]
    IN /\ c.kind = "act"
       /\ c.res = "refused" \/ (c.res = "lost" /\ ctl.catches)
       /\ view' = RollBack(c)
       /\ calls' = Rest(i)
       /\ UNCHANGED <<ctl, db, props, busy, stuck, away, clicks, clean, want>>

\* The refused call, or a rejected one that is caught, ends in a message.
OnError(i) ==
    LET c == calls[i]
    IN /\ c.kind = "act"
       /\ c.res = "refused" \/ (c.res = "lost" /\ ctl.catches)
       /\ view' = RollBack(c)
       /\ busy' = Unmark(c.row)
       /\ calls' = IF ctl.refreshes = "always" THEN Append(Rest(i), Refresh)
                      ELSE Rest(i)
       /\ UNCHANGED <<ctl, db, props, stuck, away, clicks, clean, want>>

\* The rejection ends the handler; the pending flag stays.
OnUncaught(i) ==
    /\ calls[i].kind = "act" /\ calls[i].res = "lost" /\ ~ctl.catches
    /\ stuck' = TRUE /\ calls' = Rest(i)
    /\ UNCHANGED <<ctl, db, props, view, busy, away, clicks, clean, want>>

\* onUpdate puts the row the status answer names back when the list lacks it.
OnPoll(i) ==
    /\ calls[i].kind = "poll" /\ calls[i].res # "sent"
    /\ view' = IF calls[i].res = "ok" THEN [view EXCEPT ![calls[i].row] = 1] ELSE view
    /\ calls' = Rest(i)
    /\ UNCHANGED <<ctl, db, props, busy, stuck, away, clicks, clean, want>>

\* A new plan ends the polling, and so does the last attempt, whatever it
\* answers; a rejected call ends the poll function, and nothing polls again.
OnPlan(i) ==
    LET c == calls[i]
        changed == c.res = "ok" /\ c.page # props
    IN /\ c.kind = "plan" /\ c.res # "sent"
       /\ stuck' = (c.res = "lost")
       /\ busy' = IF changed \/ (c.res # "lost" /\ clicks = MaxClicks) THEN {} ELSE busy
       /\ away' = changed
       /\ calls' = IF changed THEN Append(Rest(i), Refresh) ELSE Rest(i)
       /\ UNCHANGED <<ctl, db, props, view, clicks, clean, want>>

Deliver(i) == OnRefresh(i) \/ OnOk(i) \/ OnError(i) \/ OnUncaught(i) \/ OnPoll(i) \/ OnPlan(i)

Wire(i) == i \in DOMAIN calls /\ (Execute(i) \/ Deliver(i))

ViewsNext ==
    \/ \E r \in Rows : Click(r) \/ PollRow(r) \/ Elsewhere(r)
    \/ PollPlan
    \/ \E i \in DOMAIN calls : Execute(i) \/ Deliver(i)

\* Every call is answered or fails, and the browser runs what is ready; nobody has to click.
ViewsFairness == WF_viewsVars(Wire(1)) /\ WF_viewsVars(PollPlan)

ViewsSafety == ViewsInit /\ [][ViewsNext]_viewsVars

ViewsSpec == ViewsSafety /\ ViewsFairness

-----------------------------------------------------------------------------
(* The type invariant.                                                     *)
ViewsTypeOK ==
    /\ ctl \in Controls
    /\ db \in [Rows -> Nat] /\ props \in [Rows -> Nat] /\ view \in [Rows -> Nat]
    /\ busy \subseteq Rows /\ stuck \in BOOLEAN /\ away \in BOOLEAN
    /\ clicks \in 0..MaxClicks /\ clean \in [Rows -> BOOLEAN] /\ want \in [Rows -> Nat \cup {Unset}]
    /\ \A i \in DOMAIN calls : calls[i].row \in Rows /\ calls[i].page \in [Rows -> Nat] \cup {Unset}

(* Once nothing is under way, a row the user wrote last shows what the     *)
(* server holds: whatever was refused, refreshed or polled in between.     *)
(* Rows somebody else wrote since, and lost calls, are not promised.       *)
ShowsOwnWrite ==
    calls = <<>> /\ ~away => \A r \in Rows : clean[r] => Shown(r) = db[r]

(* Once nothing is under way, the server holds what the user chose last on *)
(* a row, however fast they clicked and whatever the shared busy key let   *)
(* through.  It is not promised where calls of one row overlap: the role   *)
(* menu of MemberList, whose key another row's change takes over.          *)
LastChoiceWins ==
    calls = <<>> /\ (ctl.act.via = "queue" \/ ctl.slot \in {"own", "all"})
        => \A r \in Rows :
            want[r] # Unset /\ (ctl.act.effect = "add" => clean[r]) => db[r] = want[r]

(* A control that went pending becomes usable again, whatever the server   *)
(* answers, if its handler catches a rejected call; where the handler has  *)
(* no catch, unless a call is rejected.                                    *)
ClicksSettle == busy # {} ~> busy = {} \/ (stuck /\ ~ctl.catches)

(* The wait for a new plan ends: "We give up polling after a bounded       *)
(* window [...] we never want to spin forever" (finalizing-state.tsx).     *)
PollingEnds == ctl.polls = "plan" ~> busy = {}
=============================================================================
