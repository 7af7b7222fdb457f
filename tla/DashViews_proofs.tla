--------------------------- MODULE DashViews_proofs ---------------------------
(***************************************************************************)
(* Proofs about DashViews, for every control and any number of clicks:     *)
(* once nothing is under way the rows the user wrote last show what the    *)
(* server holds, and the server holds what the user chose last.            *)
(*                                                                         *)
(* Only facts about the kinds of controls are used (ControlOK), which each *)
(* of the dashboard's controls satisfies.  The invariant says where the    *)
(* value of a row is while calls are under way: at most the first of the   *)
(* browser's queue has been executed (Serial); its answer is the           *)
(* database's (PagesFresh); a page that does not show the value yet has a  *)
(* call or a refresh coming that does (PropsShown, ViewShown); and the     *)
(* last choice is in the database or in the last call not yet executed     *)
(* (Chosen).                                                               *)
(***************************************************************************)
EXTENDS DashViews, SequenceTheorems, TLAPS

USE ViewsAssumption

EffectType == {"set", "add", "next", "remove", "read"}
ControlType ==
    [act : [effect : EffectType, revalidates : BOOLEAN, via : {"queue", "fetch"}],
     rows : {1, 2}, slot : {"own", "shared", "all", "none"},
     shows : {"answer", "props", "optimistic"}, follows : BOOLEAN,
     refreshes : {"ok", "always", "no"}, leaves : BOOLEAN, catches : BOOLEAN,
     polls : {"no", "row", "plan"}]

\* What the controls have in common.
ControlOK(c) ==
    /\ c \in ControlType
    /\ c.act.effect = "add" => c.slot = "own" /\ c.act.via = "queue" /\ ~c.follows
    /\ c.act.effect = "add" /\ c.shows = "props" => c.leaves
    /\ c.follows => c.act.revalidates
    /\ c.act.effect = "read" => c.shows = "props"
    /\ c.act.effect # "read" /\ c.shows = "props" => c.act.revalidates \/ c.refreshes # "no"
    /\ c.act.via = "fetch" => c.shows = "props" /\ ~c.act.revalidates
    /\ c.act.via = "fetch" /\ c.slot = "all" => c.act.effect = "read"
    /\ c.shows = "optimistic" => c.slot = "own" /\ c.act.effect = "set" /\ ~c.follows
    /\ c.polls = "row" => c.act.effect = "remove"
    /\ c.polls = "plan" => c.act.effect = "read"

PageType == [Rows -> Nat]
CallType ==
    [kind : {"act", "poll", "plan", "refresh"}, row : Rows, to : Nat, was : Nat,
     via : {"queue", "fetch"}, res : {"sent", "ok", "refused", "lost"}, page : PageType \cup {Unset}]

CallOK(c) ==
    /\ c \in CallType
    /\ c.via = IF c.kind = "act" THEN ctl.act.via ELSE "queue"
    /\ c.res = "ok" => c.page \in PageType
    /\ c.kind = "act" => ctl.polls # "plan" /\ (Removes(ctl) => c.to = 0)
    /\ c.kind = "plan" => ctl.polls = "plan"
    /\ c.kind = "poll" => ctl.polls = "row" /\ (c.res = "ok" => c.page[c.row] = 1)

ViewsBase ==
    /\ ctl \in Controls
    /\ db \in PageType /\ props \in PageType /\ view \in PageType
    /\ Removes(ctl) => \A r \in Rows : db[r] \in {0, 1}
    /\ busy \subseteq Rows /\ stuck \in BOOLEAN /\ away \in BOOLEAN
    /\ clicks \in 0..MaxClicks /\ clean \in [Rows -> BOOLEAN] /\ want \in [Rows -> Nat \cup {Unset}]
    /\ calls \in Seq(CallType) /\ \A i \in DOMAIN calls : CallOK(calls[i])

\* A click of row r, and how far it is.
ActOn(c, r) == c.kind = "act" /\ c.row = r
SentOn(c, r) == ActOn(c, r) /\ c.res = "sent"
DoneOn(c, r) == ActOn(c, r) /\ c.res = "ok"

\* Of the calls in the browser's queue, only the first may have been executed.
Serial ==
    \A i, j \in DOMAIN calls :
        i < j /\ calls[i].via = "queue" /\ calls[j].via = "queue" => calls[j].res = "sent"

\* A control with its own busy mark has one click of a row under way.
OneClick ==
    ctl.slot = "own" =>
        \A i \in DOMAIN calls : calls[i].kind = "act" =>
            /\ calls[i].row \in busy
            /\ \A j \in DOMAIN calls : ActOn(calls[j], calls[i].row) => j = i

\* What was read in the queue is still so, but for what others wrote since.
PagesFresh ==
    ctl.act.via = "queue" =>
        \A i \in DOMAIN calls : calls[i].res = "ok" =>
            \A r \in Rows : clean[r] => calls[i].page[r] = db[r]

\* A control that only reads shows what was there from the start.
ReadsOnly ==
    ctl.act.effect = "read" => \A r \in Rows :
        /\ clean[r] \/ ctl.polls # "plan" =>
             /\ props[r] = db[r]
             /\ \A i \in DOMAIN calls : calls[i].res = "ok" => calls[i].page[r] = db[r]
        /\ want[r] = Unset \/ (ctl.polls # "plan" /\ want[r] = db[r])

\* The page shows the row, or will: an answer that brings a refresh, or one.
Coming ==
    \E i \in DOMAIN calls : \/ calls[i].kind = "act" /\ calls[i].res = "ok"
                            \/ calls[i].kind = "refresh" /\ calls[i].res = "sent"
Arriving(r) ==
    /\ props[r] = db[r] \/ \E i \in DOMAIN calls : calls[i].kind = "refresh" /\ calls[i].res = "ok"
    /\ \A i \in DOMAIN calls :
         calls[i].kind = "refresh" /\ calls[i].res = "ok" => calls[i].page[r] = db[r]
PropsShown ==
    ctl.shows = "props" /\ ctl.act.effect # "read" =>
        \A r \in Rows : clean[r] => Coming \/ Arriving(r)

\* The component's own state shows the row, or is about to.
RowShown(r) ==
    IF ctl.act.effect = "add"
    THEN db[r] = Shown(r) + (IF \E i \in DOMAIN calls : DoneOn(calls[i], r) THEN 1 ELSE 0)
    ELSE IF ctl.shows = "optimistic"
    THEN /\ (\A i \in DOMAIN calls : ~ActOn(calls[i], r)) => view[r] = db[r]
         /\ \A i \in DOMAIN calls : ActOn(calls[i], r) =>
              calls[i].res # "lost" /\ (calls[i].res # "ok" => calls[i].was = db[r])
    ELSE view[r] = db[r] \/ \E i \in DOMAIN calls : DoneOn(calls[i], r)
ViewShown ==
    ctl.shows # "props" \/ (ctl.act.effect = "add" /\ ~away) => \A r \in Rows : clean[r] => RowShown(r)

\* The last choice is in the database, or the last click not yet executed has it.
NextChoice(r) ==
    \E i \in DOMAIN calls :
        /\ SentOn(calls[i], r) /\ calls[i].to = want[r]
        /\ \A j \in DOMAIN calls : j > i => ~SentOn(calls[j], r)
        /\ ctl.act.effect = "add" => want[r] = db[r] + 1
Chosen ==
    ctl.act.effect # "read" /\ (ctl.act.via = "queue" \/ ctl.slot = "own") =>
        \A r \in Rows : want[r] # Unset /\ (ctl.act.effect = "add" => clean[r]) =>
            NextChoice(r) \/ (db[r] = want[r] /\ \A i \in DOMAIN calls : ~SentOn(calls[i], r))

ViewsInv ==
    /\ ViewsBase /\ Serial /\ OneClick /\ PagesFresh
    /\ ReadsOnly /\ PropsShown /\ ViewShown /\ Chosen

-----------------------------------------------------------------------------
(* The controls.                                                           *)

ActType == [effect : EffectType, revalidates : BOOLEAN, via : {"queue", "fetch"}]

\* A control by its parts.
Parts(c, act, rows, slot, shows, refreshes, leaves) ==
    /\ c \in ControlType
    /\ c.act = act /\ c.rows = rows /\ c.slot = slot /\ c.shows = shows /\ c.refreshes = refreshes
    /\ c.leaves = leaves /\ c.follows = FALSE /\ c.catches = FALSE /\ c.polls = "no"

(* What the builders of the controls give.                                 *)
LEMMA Builders ==
    ASSUME NEW act \in ActType
    PROVE  /\ Parts(Switch(act), act, 1, "own", "answer", "ok", FALSE)
           /\ Parts(Form(act), act, 1, "own", "props", "ok", FALSE)
           /\ Parts(List(act), act, 2, "shared", "props", "ok", FALSE)
           /\ Parts(Run(act), act, 2, "shared", "props", "always", FALSE)
           /\ Parts(Leaving(act), act, 1, "own", "props", "ok", TRUE)
           /\ Parts(Download(act), act, 1, "own", "props", "no", FALSE)
<1>1. Parts(Switch(act), act, 1, "own", "answer", "ok", FALSE)
  BY DEF Switch, Parts, ControlType, ActType
<1>2. Parts(Form(act), act, 1, "own", "props", "ok", FALSE)
  BY <1>1 DEF Form, Parts, ControlType
<1>3. Parts(List(act), act, 2, "shared", "props", "ok", FALSE)
  BY <1>2 DEF List, Parts, ControlType
<1>4. Parts(Run(act), act, 2, "shared", "props", "always", FALSE)
  BY <1>3 DEF Run, Parts, ControlType
<1>5. Parts(Leaving(act), act, 1, "own", "props", "ok", TRUE)
  BY <1>2 DEF Leaving, Parts, ControlType
<1>6. Parts(Download(act), act, 1, "own", "props", "no", FALSE)
  BY <1>2 DEF Download, Parts, ControlType
<1>. QED  BY <1>1, <1>2, <1>3, <1>4, <1>5, <1>6

(* The actions by their parts.                                             *)
LEMMA ActParts ==
    ASSUME NEW e \in EffectType
    PROVE  /\ Action(e) \in ActType /\ Plain(e) \in ActType /\ AuthClient(e) \in ActType
           /\ Action(e).effect = e /\ Plain(e).effect = e /\ AuthClient(e).effect = e
           /\ Action(e).revalidates = TRUE /\ Plain(e).revalidates = FALSE
           /\ AuthClient(e).revalidates = FALSE
           /\ Action(e).via = "queue" /\ Plain(e).via = "queue" /\ AuthClient(e).via = "fetch"
BY DEF ActType, Action, Plain, AuthClient

(* The shapes most controls have are among those ControlOK describes.      *)
LEMMA ShapesOK ==
    ASSUME NEW e \in EffectType, e # "add", e # "read"
    PROVE  /\ ControlOK(Switch(Action(e))) /\ ControlOK([Switch(Action(e)) EXCEPT !.refreshes = "no"])
           /\ ControlOK(Form(Action(e))) /\ ControlOK(Leaving(Action(e)))
           /\ ControlOK(List(Action(e))) /\ ControlOK(Run(Action(e)))
           /\ ControlOK([Run(Action(e)) EXCEPT !.slot = "none"])
<1>1. /\ Action(e) \in ActType /\ Action(e).effect = e /\ Action(e).revalidates = TRUE
      /\ Action(e).via = "queue"
  BY ActParts
<1>. DEFINE a == Action(e)
<1>2. /\ Parts(Switch(a), a, 1, "own", "answer", "ok", FALSE)
      /\ Parts(Form(a), a, 1, "own", "props", "ok", FALSE)
      /\ Parts(List(a), a, 2, "shared", "props", "ok", FALSE)
      /\ Parts(Run(a), a, 2, "shared", "props", "always", FALSE)
      /\ Parts(Leaving(a), a, 1, "own", "props", "ok", TRUE)
  BY <1>1, Builders
<1>. HIDE DEF a
<1>3. a.effect = e /\ a.revalidates = TRUE /\ a.via = "queue"
  BY <1>1 DEF a
<1>4. /\ ControlOK(Switch(a)) /\ ControlOK(Form(a)) /\ ControlOK(Leaving(a))
      /\ ControlOK(List(a)) /\ ControlOK(Run(a))
  BY <1>2, <1>3 DEF Parts, ControlOK
<1>5. ControlOK([Switch(a) EXCEPT !.refreshes = "no"])
  BY <1>2, <1>3 DEF Parts, ControlOK, ControlType
<1>6. ControlOK([Run(a) EXCEPT !.slot = "none"])
  BY <1>2, <1>3 DEF Parts, ControlOK, ControlType
<1>. QED  BY <1>4, <1>5, <1>6 DEF a

(* What the server actions do, by the API method they call.                *)
LEMMA ActionsAre ==
    /\ voteAction = Plain("set")
    /\ setPostMetaAction = Action("set") /\ publishVersionAction = Action("set")
    /\ setAccessAction = Action("set") /\ setFeedVisibilityAction = Action("set")
    /\ setFeedMetaAction = Action("set") /\ setSiteCollabAction = Action("set")
    /\ setAllowExternalSharingAction = Action("set") /\ setMcpEnabledAction = Action("set")
    /\ setMemoryEnabledAction = Action("set") /\ setChatLogsEnabledAction = Action("set")
    /\ setApiKeysEnabledAction = Action("set") /\ patchMemoryAction = Action("set")
    /\ setChatSiteAction = Action("set") /\ setChatPanelAction = Action("set")
    /\ setChatCollabAction = Action("set") /\ revokeAccessAction = Action("set")
    /\ setSkillFeedVisibilityAction = Action("set") /\ setSkillFoldersAction = Action("set")
    /\ renameSkillFolderAction = Action("set") /\ addSkillToFolderAction = Action("set")
    /\ setPresetFlagAction = Action("set") /\ setSkillCollabAction = Action("set")
    /\ addFeedCommentAction = Action("add") /\ addCommentAction = Action("add")
    /\ createApiKeyAction = Action("add") /\ createChatAction = Action("add")
    /\ createSiteAction = Action("next") /\ addAllowlistAction = Action("next")
    /\ addDomainAction = Action("next") /\ createMemoryAction = Action("next")
    /\ createSkillFolderAction = Action("next")
    /\ downloadSiteAction = Plain("read") /\ createCheckoutAction = Plain("read")
    /\ createPortalAction = Plain("read") /\ getBillingPlanAction = Plain("read")
    /\ submitPasswordAction = Plain("read") /\ downloadSkillAction = Plain("read")
    /\ removeAllowlistAction = Action("remove") /\ deleteSiteAction = Action("remove")
    /\ removeDomainAction = Action("remove") /\ revokeApiKeyAction = Action("remove")
    /\ deleteMemoryAction = Action("remove") /\ deleteChatAction = Action("remove")
    /\ deleteSkillAction = Action("remove") /\ deleteSkillFolderAction = Action("remove")
    /\ removeSkillFromFolderAction = Action("remove") /\ deleteChatMessageAction = Action("remove")
    /\ submitContactAction = Plain("add")
    /\ removeMemberAction = Plain("remove")
<1>1. /\ voteAction = Plain("set")
  BY DEF voteAction, FeedApi
<1>2. /\ setPostMetaAction = Action("set") /\ publishVersionAction = Action("set")
      /\ setAccessAction = Action("set") /\ setFeedVisibilityAction = Action("set")
      /\ setFeedMetaAction = Action("set") /\ setSiteCollabAction = Action("set")
      /\ setAllowExternalSharingAction = Action("set") /\ setMcpEnabledAction = Action("set")
  BY DEF setPostMetaAction, publishVersionAction, setAccessAction, setFeedVisibilityAction,
    setFeedMetaAction, setSiteCollabAction, setAllowExternalSharingAction, setMcpEnabledAction,
    AccessApi, CommentsApi, FeedApi, OrgApi
<1>3. /\ setMemoryEnabledAction = Action("set") /\ setChatLogsEnabledAction = Action("set")
      /\ setApiKeysEnabledAction = Action("set") /\ patchMemoryAction = Action("set")
      /\ setChatSiteAction = Action("set") /\ setChatPanelAction = Action("set")
      /\ setChatCollabAction = Action("set") /\ revokeAccessAction = Action("set")
  BY DEF setMemoryEnabledAction, setChatLogsEnabledAction, setApiKeysEnabledAction,
    patchMemoryAction, setChatSiteAction, setChatPanelAction, setChatCollabAction,
    revokeAccessAction, BillingApi, ChatsApi, MemoryApi, OrgApi
<1>4. /\ setSkillFeedVisibilityAction = Action("set") /\ setSkillFoldersAction = Action("set")
      /\ renameSkillFolderAction = Action("set") /\ addSkillToFolderAction = Action("set")
      /\ setPresetFlagAction = Action("set") /\ setSkillCollabAction = Action("set")
  BY DEF setSkillFeedVisibilityAction, setSkillFoldersAction, renameSkillFolderAction,
    addSkillToFolderAction, setPresetFlagAction, setSkillCollabAction, CommentsApi, FoldersApi,
    SkillsApi
<1>5. /\ addFeedCommentAction = Action("add") /\ addCommentAction = Action("add")
      /\ createApiKeyAction = Action("add") /\ createChatAction = Action("add")
  BY DEF addFeedCommentAction, addCommentAction, createApiKeyAction, createChatAction,
    ChatsApi, CommentsApi, OrgApi
<1>6. /\ createSiteAction = Action("next") /\ addAllowlistAction = Action("next")
      /\ addDomainAction = Action("next") /\ createMemoryAction = Action("next")
      /\ createSkillFolderAction = Action("next")
  BY DEF createSiteAction, addAllowlistAction, addDomainAction, createMemoryAction,
    createSkillFolderAction, AccessApi, CommentsApi, FoldersApi, MemoryApi
<1>7. /\ downloadSiteAction = Plain("read") /\ createCheckoutAction = Plain("read")
      /\ createPortalAction = Plain("read") /\ getBillingPlanAction = Plain("read")
      /\ submitPasswordAction = Plain("read") /\ downloadSkillAction = Plain("read")
  BY DEF downloadSiteAction, createCheckoutAction, createPortalAction, getBillingPlanAction,
    submitPasswordAction, downloadSkillAction, BillingApi, OrgApi, SkillsApi
<1>8. /\ removeAllowlistAction = Action("remove") /\ deleteSiteAction = Action("remove")
      /\ removeDomainAction = Action("remove") /\ revokeApiKeyAction = Action("remove")
      /\ deleteMemoryAction = Action("remove") /\ deleteChatAction = Action("remove")
      /\ deleteSkillAction = Action("remove") /\ deleteSkillFolderAction = Action("remove")
  BY DEF removeAllowlistAction, deleteSiteAction, removeDomainAction, revokeApiKeyAction,
    deleteMemoryAction, deleteChatAction, deleteSkillAction, deleteSkillFolderAction,
    AccessApi, ChatsApi, CommentsApi, FoldersApi, MemoryApi, OrgApi, SkillsApi
<1>9. /\ removeSkillFromFolderAction = Action("remove")
      /\ deleteChatMessageAction = Action("remove")
  BY DEF removeSkillFromFolderAction, deleteChatMessageAction, FoldersApi
<1>10. /\ submitContactAction = Plain("add")
  BY DEF submitContactAction
<1>11. /\ removeMemberAction = Plain("remove")
  BY DEF removeMemberAction
<1>. QED  BY <1>1, <1>2, <1>3, <1>4, <1>5, <1>6, <1>7, <1>8, <1>9, <1>10, <1>11

(* Every control of the dashboard satisfies ControlOK.                     *)
LEMMA ControlsOK == \A c \in Controls : ControlOK(c)
<1>0. /\ "set" \in EffectType /\ "add" \in EffectType /\ "next" \in EffectType
      /\ "remove" \in EffectType /\ "read" \in EffectType
  BY DEF EffectType
<1>1. /\ ControlOK(ExternalSharingToggle) /\ ControlOK(MemoryAccess) /\ ControlOK(ChatLogsAccess)
      /\ ControlOK(McpAccess) /\ ControlOK(FeedVisibilityToggle) /\ ControlOK(SkillFeedToggle)
      /\ ControlOK(ChatPanelToggle) /\ ControlOK(ApiKeysSwitch) /\ ControlOK(PostHeader)
  BY <1>0, ShapesOK, ActionsAre DEF ExternalSharingToggle, MemoryAccess, ChatLogsAccess,
    McpAccess, FeedVisibilityToggle, SkillFeedToggle, ChatPanelToggle, ApiKeysSwitch, PostHeader
<1>2. /\ ControlOK(ChatSiteSelect) /\ ControlOK(FeedMetaForm) /\ ControlOK(AccessSettingsForm)
      /\ ControlOK(NewSiteDialog) /\ ControlOK(SkillEditor) /\ ControlOK(ChatDeleteButton)
      /\ ControlOK(AddMemoryForm) /\ ControlOK(TranscriptView)
  BY <1>0, ShapesOK, ActionsAre DEF ChatSiteSelect, FeedMetaForm, AccessSettingsForm,
    NewSiteDialog, SkillEditor, ChatDeleteButton, AddMemoryForm, TranscriptView
<1>3. ControlOK(VoteControl)
  <2>1. /\ Parts(Switch(Plain("set")), Plain("set"), 1, "own", "answer", "ok", FALSE)
        /\ Plain("set").effect = "set" /\ Plain("set").revalidates = FALSE
        /\ Plain("set").via = "queue"
    BY <1>0, ActParts, Builders
  <2>2. VoteControl = [Switch(Plain("set")) EXCEPT !.shows = "optimistic", !.refreshes = "no"]
    BY ActionsAre DEF VoteControl
  <2>. QED  BY <2>1, <2>2 DEF Parts, ControlOK, ControlType
<1>4. ControlOK(FeedComments)
  <2>1. /\ Parts(Switch(Action("add")), Action("add"), 1, "own", "answer", "ok", FALSE)
        /\ Action("add").effect = "add" /\ Action("add").revalidates = TRUE
        /\ Action("add").via = "queue"
    BY <1>0, ActParts, Builders
  <2>2. FeedComments = [Switch(Action("add")) EXCEPT !.refreshes = "no"]
    BY ActionsAre DEF FeedComments
  <2>. QED  BY <2>1, <2>2 DEF Parts, ControlOK, ControlType
<1>5. ControlOK(SiteComments)
  <2>1. /\ Parts(Switch(Action("add")), Action("add"), 1, "own", "answer", "ok", FALSE)
        /\ Action("add").effect = "add" /\ Action("add").revalidates = TRUE
        /\ Action("add").via = "queue"
    BY <1>0, ActParts, Builders
  <2>2. SiteComments = [Switch(Action("add")) EXCEPT !.refreshes = "no"]
    BY ActionsAre DEF SiteComments
  <2>. QED  BY <2>1, <2>2 DEF Parts, ControlOK, ControlType
<1>6. ControlOK(ApiKeysCreate)
  <2>1. /\ Parts(Switch(Action("add")), Action("add"), 1, "own", "answer", "ok", FALSE)
        /\ Action("add").effect = "add" /\ Action("add").revalidates = TRUE
        /\ Action("add").via = "queue"
    BY <1>0, ActParts, Builders
  <2>2. ApiKeysCreate = Switch(Action("add"))
    BY ActionsAre DEF ApiKeysCreate
  <2>. QED  BY <2>1, <2>2 DEF Parts, ControlOK, ControlType
<1>7. ControlOK(ContactForm)
  <2>1. /\ Parts(Switch(Plain("add")), Plain("add"), 1, "own", "answer", "ok", FALSE)
        /\ Plain("add").effect = "add" /\ Plain("add").revalidates = FALSE
        /\ Plain("add").via = "queue"
    BY <1>0, ActParts, Builders
  <2>2. ContactForm = [Switch(Plain("add")) EXCEPT !.refreshes = "no", !.catches = TRUE]
    BY ActionsAre DEF ContactForm
  <2>. QED  BY <2>1, <2>2 DEF Parts, ControlOK, ControlType
<1>8. ControlOK(ChatImportForm)
  <2>1. /\ Parts(Leaving(Action("add")), Action("add"), 1, "own", "props", "ok", TRUE)
        /\ Action("add").effect = "add" /\ Action("add").revalidates = TRUE
        /\ Action("add").via = "queue"
    BY <1>0, ActParts, Builders
  <2>2. ChatImportForm = Leaving(Action("add"))
    BY ActionsAre DEF ChatImportForm
  <2>. QED  BY <2>1, <2>2 DEF Parts, ControlOK, ControlType
<1>9. ControlOK(RollbackDialog)
  <2>1. /\ Parts(Form(Action("set")), Action("set"), 1, "own", "props", "ok", FALSE)
        /\ Action("set").effect = "set" /\ Action("set").revalidates = TRUE
        /\ Action("set").via = "queue"
    BY <1>0, ActParts, Builders
  <2>2. RollbackDialog = [Form(Action("set")) EXCEPT !.refreshes = "no"]
    BY ActionsAre DEF RollbackDialog
  <2>. QED  BY <2>1, <2>2 DEF Parts, ControlOK, ControlType
<1>10. ControlOK(DeleteSite)
  <2>1. /\ Parts(Leaving(Action("remove")), Action("remove"), 1, "own", "props", "ok", TRUE)
        /\ Action("remove").effect = "remove" /\ Action("remove").revalidates = TRUE
        /\ Action("remove").via = "queue"
    BY <1>0, ActParts, Builders
  <2>2. DeleteSite = [Leaving(Action("remove")) EXCEPT !.refreshes = "no", !.catches = TRUE]
    BY ActionsAre DEF DeleteSite
  <2>. QED  BY <2>1, <2>2 DEF Parts, ControlOK, ControlType
<1>11. ControlOK(RevokeAccessControl)
  <2>1. /\ Parts(Form(Action("set")), Action("set"), 1, "own", "props", "ok", FALSE)
        /\ Action("set").effect = "set" /\ Action("set").revalidates = TRUE
        /\ Action("set").via = "queue"
    BY <1>0, ActParts, Builders
  <2>2. RevokeAccessControl = [Form(Action("set")) EXCEPT !.catches = TRUE]
    BY ActionsAre DEF RevokeAccessControl
  <2>. QED  BY <2>1, <2>2 DEF Parts, ControlOK, ControlType
<1>12. ControlOK(AllowlistAdd)
  <2>1. /\ Parts(Switch(Action("next")), Action("next"), 1, "own", "answer", "ok", FALSE)
        /\ Action("next").effect = "next" /\ Action("next").revalidates = TRUE
        /\ Action("next").via = "queue"
    BY <1>0, ActParts, Builders
  <2>2. AllowlistAdd = [Switch(Action("next")) EXCEPT !.follows = TRUE]
    BY ActionsAre DEF AllowlistAdd
  <2>. QED  BY <2>1, <2>2 DEF Parts, ControlOK, ControlType
<1>13. ControlOK(AllowlistRemove)
  <2>1. /\ Parts(List(Action("remove")), Action("remove"), 2, "shared", "props", "ok", FALSE)
        /\ Action("remove").effect = "remove" /\ Action("remove").revalidates = TRUE
        /\ Action("remove").via = "queue"
    BY <1>0, ActParts, Builders
  <2>2. AllowlistRemove = [List(Action("remove")) EXCEPT !.shows = "answer", !.follows = TRUE]
    BY ActionsAre DEF AllowlistRemove
  <2>. QED  BY <2>1, <2>2 DEF Parts, ControlOK, ControlType
<1>14. ControlOK(DomainsManager)
  <2>1. /\ Parts(Switch(Action("next")), Action("next"), 1, "own", "answer", "ok", FALSE)
        /\ Action("next").effect = "next" /\ Action("next").revalidates = TRUE
        /\ Action("next").via = "queue"
    BY <1>0, ActParts, Builders
  <2>2. DomainsManager = [Switch(Action("next")) EXCEPT !.follows = TRUE]
    BY ActionsAre DEF DomainsManager
  <2>. QED  BY <2>1, <2>2 DEF Parts, ControlOK, ControlType
<1>15. ControlOK(DomainCard)
  <2>1. /\ Parts(Switch(Action("remove")), Action("remove"), 1, "own", "answer", "ok", FALSE)
        /\ Action("remove").effect = "remove" /\ Action("remove").revalidates = TRUE
        /\ Action("remove").via = "queue"
    BY <1>0, ActParts, Builders
  <2>2. DomainCard = [Switch(Action("remove")) EXCEPT !.rows = 2, !.follows = TRUE, !.polls = "row"]
    BY ActionsAre DEF DomainCard
  <2>. QED  BY <2>1, <2>2 DEF Parts, ControlOK, ControlType
<1>16. ControlOK(ApiKeysRevoke)
  <2>1. /\ Parts(Switch(Action("remove")), Action("remove"), 1, "own", "answer", "ok", FALSE)
        /\ Action("remove").effect = "remove" /\ Action("remove").revalidates = TRUE
        /\ Action("remove").via = "queue"
    BY <1>0, ActParts, Builders
  <2>2. ApiKeysRevoke = [Switch(Action("remove")) EXCEPT !.rows = 2, !.slot = "all"]
    BY ActionsAre DEF ApiKeysRevoke
  <2>. QED  BY <2>1, <2>2 DEF Parts, ControlOK, ControlType
<1>17. ControlOK(MemberRole)
  <2>1. /\ Parts(List(AuthClient("set")), AuthClient("set"), 2, "shared", "props", "ok", FALSE)
        /\ AuthClient("set").effect = "set" /\ AuthClient("set").revalidates = FALSE
        /\ AuthClient("set").via = "fetch"
    BY <1>0, ActParts, Builders
  <2>2. MemberRole = [List(AuthClient("set")) EXCEPT !.catches = TRUE]
    BY ActionsAre DEF MemberRole
  <2>. QED  BY <2>1, <2>2 DEF Parts, ControlOK, ControlType
<1>18. ControlOK(MemberRemove)
  <2>1. /\ Parts(List(Plain("remove")), Plain("remove"), 2, "shared", "props", "ok", FALSE)
        /\ Plain("remove").effect = "remove" /\ Plain("remove").revalidates = FALSE
        /\ Plain("remove").via = "queue"
    BY <1>0, ActParts, Builders
  <2>2. MemberRemove = [List(Plain("remove")) EXCEPT !.slot = "all", !.catches = TRUE]
    BY ActionsAre DEF MemberRemove
  <2>. QED  BY <2>1, <2>2 DEF Parts, ControlOK, ControlType
<1>19. ControlOK(InviteMemberForm)
  <2>1. /\ Parts(Form(AuthClient("next")), AuthClient("next"), 1, "own", "props", "ok", FALSE)
        /\ AuthClient("next").effect = "next" /\ AuthClient("next").revalidates = FALSE
        /\ AuthClient("next").via = "fetch"
    BY <1>0, ActParts, Builders
  <2>2. InviteMemberForm = [Form(AuthClient("next")) EXCEPT !.catches = TRUE]
    BY ActionsAre DEF InviteMemberForm
  <2>. QED  BY <2>1, <2>2 DEF Parts, ControlOK, ControlType
<1>20. ControlOK(PendingInvitations)
  <2>1. /\ Parts(List(AuthClient("remove")), AuthClient("remove"), 2, "shared", "props", "ok", FALSE)
        /\ AuthClient("remove").effect = "remove" /\ AuthClient("remove").revalidates = FALSE
        /\ AuthClient("remove").via = "fetch"
    BY <1>0, ActParts, Builders
  <2>2. PendingInvitations = [List(AuthClient("remove")) EXCEPT !.catches = TRUE]
    BY ActionsAre DEF PendingInvitations
  <2>. QED  BY <2>1, <2>2 DEF Parts, ControlOK, ControlType
<1>21. ControlOK(DownloadSite)
  <2>1. /\ Parts(Download(Plain("read")), Plain("read"), 1, "own", "props", "no", FALSE)
        /\ Plain("read").effect = "read" /\ Plain("read").revalidates = FALSE
        /\ Plain("read").via = "queue"
    BY <1>0, ActParts, Builders
  <2>2. DownloadSite = Download(Plain("read"))
    BY ActionsAre DEF DownloadSite
  <2>. QED  BY <2>1, <2>2 DEF Parts, ControlOK, ControlType
<1>22. ControlOK(UpgradeButton)
  <2>1. /\ Parts(Leaving(Plain("read")), Plain("read"), 1, "own", "props", "ok", TRUE)
        /\ Plain("read").effect = "read" /\ Plain("read").revalidates = FALSE
        /\ Plain("read").via = "queue"
    BY <1>0, ActParts, Builders
  <2>2. UpgradeButton = [Leaving(Plain("read")) EXCEPT !.refreshes = "no"]
    BY ActionsAre DEF UpgradeButton
  <2>. QED  BY <2>1, <2>2 DEF Parts, ControlOK, ControlType
<1>23. ControlOK(ManageBillingButton)
  <2>1. /\ Parts(Leaving(Plain("read")), Plain("read"), 1, "own", "props", "ok", TRUE)
        /\ Plain("read").effect = "read" /\ Plain("read").revalidates = FALSE
        /\ Plain("read").via = "queue"
    BY <1>0, ActParts, Builders
  <2>2. ManageBillingButton = [Leaving(Plain("read")) EXCEPT !.refreshes = "no"]
    BY ActionsAre DEF ManageBillingButton
  <2>. QED  BY <2>1, <2>2 DEF Parts, ControlOK, ControlType
<1>24. ControlOK(PasswordGate)
  <2>1. /\ Parts(Leaving(Plain("read")), Plain("read"), 1, "own", "props", "ok", TRUE)
        /\ Plain("read").effect = "read" /\ Plain("read").revalidates = FALSE
        /\ Plain("read").via = "queue"
    BY <1>0, ActParts, Builders
  <2>2. PasswordGate = [Leaving(Plain("read")) EXCEPT !.refreshes = "no"]
    BY ActionsAre DEF PasswordGate
  <2>. QED  BY <2>1, <2>2 DEF Parts, ControlOK, ControlType
<1>25. ControlOK(AuthForm)
  <2>1. /\ Parts(Leaving(AuthClient("read")), AuthClient("read"), 1, "own", "props", "ok", TRUE)
        /\ AuthClient("read").effect = "read" /\ AuthClient("read").revalidates = FALSE
        /\ AuthClient("read").via = "fetch"
    BY <1>0, ActParts, Builders
  <2>2. AuthForm =
        [Leaving(AuthClient("read")) EXCEPT !.slot = "all", !.refreshes = "no", !.catches = TRUE]
    BY ActionsAre DEF AuthForm
  <2>. QED  BY <2>1, <2>2 DEF Parts, ControlOK, ControlType
<1>26. ControlOK(MagicLink)
  <2>1. /\ Parts(Leaving(AuthClient("read")), AuthClient("read"), 1, "own", "props", "ok", TRUE)
        /\ AuthClient("read").effect = "read" /\ AuthClient("read").revalidates = FALSE
        /\ AuthClient("read").via = "fetch"
    BY <1>0, ActParts, Builders
  <2>2. MagicLink =
        [[Leaving(AuthClient("read")) EXCEPT !.slot = "all", !.refreshes = "no", !.catches = TRUE] EXCEPT !.leaves = FALSE]
    BY ActionsAre DEF MagicLink, AuthForm
  <2>. QED  BY <2>1, <2>2 DEF Parts, ControlOK, ControlType
<1>27. ControlOK(SignOutButton)
  <2>1. /\ Parts(Leaving(AuthClient("read")), AuthClient("read"), 1, "own", "props", "ok", TRUE)
        /\ AuthClient("read").effect = "read" /\ AuthClient("read").revalidates = FALSE
        /\ AuthClient("read").via = "fetch"
    BY <1>0, ActParts, Builders
  <2>2. SignOutButton = [Leaving(AuthClient("read")) EXCEPT !.refreshes = "no"]
    BY ActionsAre DEF SignOutButton
  <2>. QED  BY <2>1, <2>2 DEF Parts, ControlOK, ControlType
<1>28. ControlOK(FinalizingState)
  <2>1. /\ Parts(Form(Plain("read")), Plain("read"), 1, "own", "props", "ok", FALSE)
        /\ Plain("read").effect = "read" /\ Plain("read").revalidates = FALSE
        /\ Plain("read").via = "queue"
    BY <1>0, ActParts, Builders
  <2>2. FinalizingState = [Form(Plain("read")) EXCEPT !.polls = "plan", !.leaves = TRUE]
    BY ActionsAre DEF FinalizingState
  <2>. QED  BY <2>1, <2>2 DEF Parts, ControlOK, ControlType
<1>29. \A c \in CollabToggle : ControlOK(c)
  BY <1>0, ShapesOK, ActionsAre DEF CollabToggle
<1>30. \A c \in MemoryRow : ControlOK(c)
  BY <1>0, ShapesOK, ActionsAre DEF MemoryRow
<1>31. \A c \in FolderAdminDialog : ControlOK(c)
  BY <1>0, ShapesOK, ActionsAre DEF FolderAdminDialog
<1>32. \A c \in FolderItems : ControlOK(c)
  BY <1>0, ShapesOK, ActionsAre DEF FolderItems
<1>33. \A c \in SkillsView : ControlOK(c)
  <2>1. Parts(Run(Plain("read")), Plain("read"), 2, "shared", "props", "always", FALSE)
    BY <1>0, ActParts, Builders
  <2>2. ControlOK(Run(Plain("read")))
    BY <1>0, <2>1, ActParts DEF Parts, ControlOK
  <2>. QED  BY <1>0, <2>2, ShapesOK, ActionsAre DEF SkillsView
<1>34. \A c \in SkillDetailActions : ControlOK(c)
  <2>1. /\ Parts(Leaving(Action("remove")), Action("remove"), 1, "own", "props", "ok", TRUE)
        /\ Parts(Download(Plain("read")), Plain("read"), 1, "own", "props", "no", FALSE)
        /\ Action("remove").effect = "remove" /\ Action("remove").via = "queue"
        /\ Action("remove").revalidates = TRUE
        /\ Plain("read").effect = "read" /\ Plain("read").via = "queue"
    BY <1>0, ActParts, Builders
  <2>2. ControlOK([Leaving(Action("remove")) EXCEPT !.slot = "all"])
    BY <2>1 DEF Parts, ControlOK, ControlType
  <2>3. ControlOK([Download(Plain("read")) EXCEPT !.slot = "all"])
    BY <2>1 DEF Parts, ControlOK, ControlType
  <2>. QED  BY <2>2, <2>3, ActionsAre DEF SkillDetailActions
<1>. QED  BY <1>1, <1>2, <1>3, <1>4, <1>5, <1>6, <1>7, <1>8, <1>9, <1>10, <1>11, <1>12, <1>13,
          <1>14, <1>15, <1>16, <1>17, <1>18, <1>19, <1>20, <1>21, <1>22, <1>23, <1>24, <1>25,
          <1>26, <1>27, <1>28, <1>29, <1>30, <1>31, <1>32, <1>33, <1>34 DEF Controls

-----------------------------------------------------------------------------
(* How a step changes the calls under way: it adds one at the end, answers *)
(* one, or takes one out and may add a refresh.                            *)

Added(c) ==
    /\ DOMAIN calls' = 1..(Len(calls) + 1) /\ calls'[Len(calls) + 1] = c
    /\ \A k \in DOMAIN calls : calls'[k] = calls[k]

Answered(i, res, page) ==
    /\ DOMAIN calls' = DOMAIN calls
    /\ \A k \in DOMAIN calls : k # i => calls'[k] = calls[k]
    /\ calls'[i].kind = calls[i].kind /\ calls'[i].row = calls[i].row /\ calls'[i].to = calls[i].to
    /\ calls'[i].was = calls[i].was /\ calls'[i].via = calls[i].via
    /\ calls'[i].res = res /\ calls'[i].page = page

\* Where the k-th of the calls that are left was, and where the j-th goes.
Before(i, k) == IF k < i THEN k ELSE k + 1
After(i, j) == IF j < i THEN j ELSE j - 1
IsRefresh(c) == c.kind = "refresh" /\ c.via = "queue" /\ c.res = "sent"
Dropped(i) ==
    /\ \A k \in DOMAIN calls' :
         \/ k \in 1..(Len(calls) - 1) /\ Before(i, k) \in DOMAIN calls \ {i} /\ calls'[k] = calls[Before(i, k)]
         \/ k = Len(calls) /\ IsRefresh(calls'[k])
    /\ \A j \in DOMAIN calls : j # i => After(i, j) \in DOMAIN calls' /\ calls'[After(i, j)] = calls[j]

CallsOK == calls \in Seq(CallType) /\ \A i \in DOMAIN calls : CallOK(calls[i])

(* The control does not change, so neither do the types.                   *)
LEMMA SameControl ==
    ASSUME ctl' = ctl
    PROVE  /\ Rows' = Rows /\ PageType' = PageType /\ CallType' = CallType
           /\ \A c : CallOK(c)' <=> CallOK(c)
           /\ Removes(ctl)' <=> Removes(ctl)
BY DEF Rows, PageType, CallType, CallOK, Removes

(* The facts of the invariant that most steps need.                        *)
LEMMA BaseFacts ==
    ASSUME ViewsBase
    PROVE  /\ ControlOK(ctl) /\ CallsOK
           /\ Len(calls) \in Nat /\ DOMAIN calls = 1..Len(calls)
           /\ \A i \in DOMAIN calls : calls[i] \in CallType /\ CallOK(calls[i])
           /\ 1 \in Rows
<1>1. ControlOK(ctl)
  BY ControlsOK DEF ViewsBase
<1>2. CallsOK
  BY DEF ViewsBase, CallsOK
<1>3. Len(calls) \in Nat /\ DOMAIN calls = 1..Len(calls)
  BY <1>2 DEF CallsOK
<1>4. \A i \in DOMAIN calls : calls[i] \in CallType /\ CallOK(calls[i])
  BY <1>2, <1>3 DEF CallsOK
<1>5. 1 \in Rows
  BY <1>1 DEF Rows, ControlOK, ControlType
<1>. QED  BY <1>1, <1>2, <1>3, <1>4, <1>5

(* A call of the expected form added at the end.                           *)
LEMMA AddCall ==
    ASSUME ViewsBase, ctl' = ctl, NEW c, CallOK(c), calls' = Append(calls, c)
    PROVE  CallsOK' /\ Added(c)
<1>1. calls \in Seq(CallType) /\ Len(calls) \in Nat /\ DOMAIN calls = 1..Len(calls)
  BY BaseFacts DEF CallsOK
<1>2. c \in CallType
  BY DEF CallOK
<1>3. /\ calls' \in Seq(CallType) /\ Len(calls') = Len(calls) + 1
      /\ DOMAIN calls' = 1..(Len(calls) + 1)
      /\ calls'[Len(calls) + 1] = c /\ \A k \in 1..Len(calls) : calls'[k] = calls[k]
  BY <1>1, <1>2
<1>4. \A k \in DOMAIN calls' : CallOK(calls'[k])
  <2>. TAKE k \in DOMAIN calls'
  <2>1. k = Len(calls) + 1 \/ k \in DOMAIN calls
    BY <1>1, <1>3
  <2>. QED  BY <1>1, <1>3, <2>1, BaseFacts
<1>5. CallsOK'
  BY <1>3, <1>4, SameControl DEF CallsOK
<1>. QED  BY <1>1, <1>3, <1>5 DEF Added

(* The refresh a handler starts, field by field.                           *)
LEMMA RefreshParts ==
    ASSUME ViewsBase
    PROVE  IsRefresh(Refresh) /\ CallOK(Refresh)
<1>1. 1 \in Rows
  BY BaseFacts
<1>. QED  BY <1>1 DEF Refresh, Call, IsRefresh, CallOK, CallType

(* Answering a call keeps its other fields.                                *)
LEMMA AnswerCall ==
    ASSUME ViewsBase, ctl' = ctl, NEW i \in DOMAIN calls, NEW res \in {"ok", "refused", "lost"},
           NEW page \in PageType \cup {Unset}, Answer(i, res, page),
           res = "ok" => page \in PageType,
           res = "ok" /\ calls[i].kind = "poll" => page[calls[i].row] = 1
    PROVE  CallsOK' /\ Answered(i, res, page)
<1>1. /\ calls \in Seq(CallType) /\ Len(calls) \in Nat /\ DOMAIN calls = 1..Len(calls)
      /\ calls[i] \in CallType /\ CallOK(calls[i])
  BY BaseFacts DEF CallsOK
<1>. DEFINE d == [calls[i] EXCEPT !.res = res, !.page = page]
<1>2. /\ d.kind = calls[i].kind /\ d.row = calls[i].row /\ d.to = calls[i].to
      /\ d.was = calls[i].was /\ d.via = calls[i].via /\ d.res = res /\ d.page = page
  BY <1>1 DEF CallType
<1>3. d \in CallType
  <2>1. [calls[i] EXCEPT !.res = res] \in CallType
    BY <1>1 DEF CallType
  <2>2. [[calls[i] EXCEPT !.res = res] EXCEPT !.page = page] \in CallType
    BY <2>1 DEF CallType
  <2>. QED  BY <2>2
<1>4. CallOK(d)
  <2>. HIDE DEF d
  <2>. QED  BY <1>1, <1>2, <1>3 DEF CallOK
<1>5. calls' = [calls EXCEPT ![i] = d]
  BY DEF Answer
<1>. HIDE DEF d
<1>6. /\ calls' \in Seq(CallType) /\ DOMAIN calls' = DOMAIN calls /\ calls'[i] = d
      /\ \A k \in DOMAIN calls : k # i => calls'[k] = calls[k]
  BY <1>1, <1>3, <1>5
<1>7. \A k \in DOMAIN calls' : CallOK(calls'[k])
  BY <1>1, <1>4, <1>6, BaseFacts
<1>8. CallsOK'
  BY <1>6, <1>7, SameControl DEF CallsOK
<1>. QED  BY <1>2, <1>6, <1>8 DEF Answered

(* Taking a call out keeps the others in their order.                      *)
LEMMA RestCalls ==
    ASSUME ViewsBase, NEW i \in DOMAIN calls
    PROVE  /\ Rest(i) \in Seq(CallType) /\ Len(Rest(i)) = Len(calls) - 1
           /\ \A k \in 1..(Len(calls) - 1) : Rest(i)[k] = calls[Before(i, k)]
<1>1. calls \in Seq(CallType) /\ Len(calls) \in Nat /\ DOMAIN calls = 1..Len(calls) /\ i \in 1..Len(calls)
  BY BaseFacts DEF CallsOK
<1>. DEFINE p == SubSeq(calls, 1, i - 1)
            s == SubSeq(calls, i + 1, Len(calls))
<1>2. p \in Seq(CallType) /\ Len(p) = i - 1 /\ \A k \in 1..(i - 1) : p[k] = calls[k]
  BY <1>1
<1>3. s \in Seq(CallType) /\ Len(s) = Len(calls) - i /\ \A k \in 1..(Len(calls) - i) : s[k] = calls[i + k]
  BY <1>1
<1>4. Rest(i) = p \o s
  BY DEF Rest
<1>. HIDE DEF p, s
<1>5. Rest(i) \in Seq(CallType) /\ Len(Rest(i)) = Len(calls) - 1
  <2>1. Rest(i) \in Seq(CallType) /\ Len(Rest(i)) = Len(p) + Len(s)
    BY <1>2, <1>3, <1>4, ConcatProperties
  <2>. QED  BY <1>1, <1>2, <1>3, <2>1
<1>6. ASSUME NEW k \in 1..(Len(calls) - 1) PROVE Rest(i)[k] = calls[Before(i, k)]
  <2>1. Rest(i)[k] = IF k <= i - 1 THEN p[k] ELSE s[k - (i - 1)]
    BY <1>1, <1>2, <1>3, <1>4, ConcatProperties
  <2>2. CASE k <= i - 1
    BY <1>1, <1>2, <2>1, <2>2 DEF Before
  <2>3. CASE ~(k <= i - 1)
    <3>1. k - (i - 1) \in 1..(Len(calls) - i) /\ i + (k - (i - 1)) = k + 1
      BY <1>1, <2>3
    <3>. QED  BY <1>1, <1>3, <2>1, <2>3, <3>1 DEF Before
  <2>. QED  BY <2>2, <2>3
<1>. QED  BY <1>5, <1>6

(* A handler that takes its call out, and may start a refresh.             *)
LEMMA DropCall ==
    ASSUME ViewsBase, ctl' = ctl, NEW i \in DOMAIN calls,
           calls' = Rest(i) \/ calls' = Append(Rest(i), Refresh)
    PROVE  CallsOK' /\ Dropped(i)
<1>1. calls \in Seq(CallType) /\ Len(calls) \in Nat /\ DOMAIN calls = 1..Len(calls) /\ i \in 1..Len(calls)
  BY BaseFacts DEF CallsOK
<1>2. /\ Rest(i) \in Seq(CallType) /\ Len(Rest(i)) = Len(calls) - 1
      /\ \A k \in 1..(Len(calls) - 1) : Rest(i)[k] = calls[Before(i, k)]
  BY RestCalls
<1>3. IsRefresh(Refresh) /\ CallOK(Refresh) /\ Refresh \in CallType
  BY RefreshParts DEF CallOK
<1>4. \A k \in 1..(Len(calls) - 1) : Before(i, k) \in DOMAIN calls \ {i}
  BY <1>1 DEF Before
<1>5. \A j \in DOMAIN calls : j # i => After(i, j) \in 1..(Len(calls) - 1) /\ Before(i, After(i, j)) = j
  BY <1>1 DEF Before, After
<1>6. /\ calls' \in Seq(CallType)
      /\ \A k \in 1..(Len(calls) - 1) : k \in DOMAIN calls' /\ calls'[k] = calls[Before(i, k)]
      /\ \A k \in DOMAIN calls' : k \in 1..(Len(calls) - 1) \/ (k = Len(calls) /\ calls'[k] = Refresh)
  <2>1. CASE calls' = Rest(i)
    BY <1>1, <1>2, <2>1
  <2>2. CASE calls' = Append(Rest(i), Refresh)
    BY <1>1, <1>2, <1>3, <2>2
  <2>. QED  BY <2>1, <2>2
<1>7. Dropped(i)
  BY <1>3, <1>4, <1>5, <1>6 DEF Dropped
<1>8. \A k \in DOMAIN calls' : CallOK(calls'[k])
  BY <1>3, <1>4, <1>6, BaseFacts
<1>. QED  BY <1>6, <1>7, <1>8, SameControl DEF CallsOK

-----------------------------------------------------------------------------
(* A call is added: a click or a poll.                                     *)

(* The queue stays in order.                                               *)
LEMMA AddSerial ==
    ASSUME ViewsBase, Serial, NEW c, Added(c), c.res = "sent"
    PROVE  Serial'
<1>1. Len(calls) \in Nat /\ DOMAIN calls = 1..Len(calls)
  BY BaseFacts
<1>. QED  BY <1>1 DEF Serial, Added

(* Every call that was under way still is.                                 *)
LEMMA AddKeeps ==
    ASSUME ViewsBase, NEW c, Added(c)
    PROVE  /\ \A k \in DOMAIN calls : k \in DOMAIN calls' /\ calls'[k] = calls[k]
           /\ Len(calls) + 1 \in DOMAIN calls' /\ calls'[Len(calls) + 1] = c
           /\ \A k \in DOMAIN calls' : k \in DOMAIN calls \/ k = Len(calls) + 1
           /\ \A k \in DOMAIN calls : k < Len(calls) + 1
<1>1. Len(calls) \in Nat /\ DOMAIN calls = 1..Len(calls)
  BY BaseFacts
<1>. QED  BY <1>1 DEF Added

(* What a new call that was not executed leaves as it was.                 *)
LEMMA AddRest ==
    ASSUME ViewsInv, ctl' = ctl, NEW c, Added(c), c.res = "sent", c.kind # "refresh",
           db' = db, props' = props, clean' = clean
    PROVE  PagesFresh' /\ PropsShown'
<1>1. Rows' = Rows
  BY SameControl
<1>2. /\ \A k \in DOMAIN calls : k \in DOMAIN calls' /\ calls'[k] = calls[k]
      /\ calls'[Len(calls) + 1] = c
      /\ \A k \in DOMAIN calls' : k \in DOMAIN calls \/ k = Len(calls) + 1
  BY AddKeeps DEF ViewsInv
<1>3. PagesFresh'
  BY <1>1, <1>2 DEF ViewsInv, PagesFresh
<1>4. PropsShown'
  <2>1. Coming => Coming'
    BY <1>2 DEF Coming
  <2>2. ASSUME NEW r \in Rows, Arriving(r) PROVE Arriving(r)'
    BY <1>2, <2>2 DEF Arriving
  <2>. QED  BY <1>1, <2>1, <2>2 DEF ViewsInv, PropsShown
<1>. QED  BY <1>3, <1>4

(* What the click of a row calls.                                          *)
LEMMA ClickCall ==
    ASSUME ViewsInv, NEW r \in Rows, Click(r)
    PROVE  \E to \in Nat :
             LET c == Call("act", r, to, ctl.act.via)
             IN /\ to \in Targets(Shown(r)) /\ CallOK(c) /\ CallsOK' /\ Added(c)
                /\ c.kind = "act" /\ c.row = r /\ c.to = to /\ c.was = view[r] /\ c.res = "sent"
                /\ view' = IF ctl.shows = "optimistic" THEN [view EXCEPT ![r] = to] ELSE view
                /\ want' = [want EXCEPT ![r] = to]
<1>1. PICK to \in Targets(Shown(r)) :
        /\ calls' = Append(calls, Call("act", r, to, ctl.act.via))
        /\ view' = IF ctl.shows = "optimistic" THEN [view EXCEPT ![r] = to] ELSE view
        /\ want' = [want EXCEPT ![r] = to]
  BY DEF Click
<1>2. ViewsBase /\ ControlOK(ctl) /\ ctl' = ctl /\ ctl.polls # "plan"
  BY BaseFacts DEF ViewsInv, Click
<1>3. view[r] \in Nat /\ props[r] \in Nat /\ Shown(r) \in Nat
  BY <1>2 DEF ViewsBase, PageType, Shown
<1>4. to \in Nat /\ (Removes(ctl) => to = 0)
  BY <1>1, <1>3 DEF Targets, Removes
<1>. DEFINE c == Call("act", r, to, ctl.act.via)
<1>5. /\ c.kind = "act" /\ c.row = r /\ c.to = to /\ c.was = view[r] /\ c.res = "sent"
      /\ c.via = ctl.act.via /\ c.page = Unset
  BY DEF Call
<1>6. ctl.act.via \in {"queue", "fetch"}
  BY <1>2 DEF ControlOK, ControlType
<1>7. CallOK(c)
  BY <1>2, <1>3, <1>4, <1>6 DEF Call, CallOK, CallType
<1>8. CallsOK' /\ Added(c)
  BY <1>1, <1>2, <1>7, AddCall
<1>. QED  BY <1>1, <1>4, <1>5, <1>7, <1>8

(* A click.                                                                *)
LEMMA ClickKeeps ==
    ASSUME ViewsInv, NEW r \in Rows, Click(r)
    PROVE  ViewsInv'
<1>0. /\ ViewsBase /\ Serial /\ OneClick /\ ControlOK(ctl)
      /\ ctl' = ctl /\ db' = db /\ props' = props /\ stuck' = stuck /\ away' = away
      /\ clean' = clean
      /\ busy' = MarkBusy(r) /\ clicks' = clicks + 1 /\ clicks < MaxClicks /\ Enabled(r)
      /\ ctl.polls # "plan" /\ ~away
  BY BaseFacts DEF ViewsInv, Click
<1>1. PICK to \in Nat :
             LET c == Call("act", r, to, ctl.act.via)
             IN /\ to \in Targets(Shown(r)) /\ CallOK(c) /\ CallsOK' /\ Added(c)
                /\ c.kind = "act" /\ c.row = r /\ c.to = to /\ c.was = view[r] /\ c.res = "sent"
                /\ view' = IF ctl.shows = "optimistic" THEN [view EXCEPT ![r] = to] ELSE view
                /\ want' = [want EXCEPT ![r] = to]
  BY ClickCall
<1>. DEFINE c == Call("act", r, to, ctl.act.via)
<1>2. /\ to \in Targets(Shown(r)) /\ CallOK(c) /\ CallsOK' /\ Added(c)
      /\ c.kind = "act" /\ c.row = r /\ c.to = to /\ c.was = view[r] /\ c.res = "sent"
      /\ view' = IF ctl.shows = "optimistic" THEN [view EXCEPT ![r] = to] ELSE view
      /\ want' = [want EXCEPT ![r] = to]
  BY <1>1
<1>. HIDE DEF c
<1>3. /\ Rows' = Rows /\ PageType' = PageType /\ (Removes(ctl)' <=> Removes(ctl))
  BY <1>0, SameControl
<1>4. /\ \A k \in DOMAIN calls : k \in DOMAIN calls' /\ calls'[k] = calls[k]
      /\ Len(calls) + 1 \in DOMAIN calls' /\ calls'[Len(calls) + 1] = c
      /\ \A k \in DOMAIN calls' : k \in DOMAIN calls \/ k = Len(calls) + 1
      /\ \A k \in DOMAIN calls : k < Len(calls) + 1
  BY <1>0, <1>2, AddKeeps
<1>5. ViewsBase'
  <2>1. view' \in PageType
    BY <1>0, <1>2 DEF ViewsBase, PageType
  <2>2. want' \in [Rows -> Nat \cup {Unset}]
    BY <1>0, <1>2 DEF ViewsBase
  <2>3. busy' \subseteq Rows
    BY <1>0 DEF ViewsBase, MarkBusy
  <2>4. clicks' \in 0..MaxClicks
    BY <1>0 DEF ViewsBase
  <2>. QED  BY <1>0, <1>2, <1>3, <2>1, <2>2, <2>3, <2>4 DEF ViewsBase, CallsOK
<1>6. Serial'
  BY <1>0, <1>2, AddSerial
<1>7. OneClick'
  <2>. SUFFICES ASSUME ctl.slot = "own" PROVE OneClick'
    BY <1>0 DEF OneClick
  <2>1. r \notin busy /\ busy' = busy \cup {r}
    BY <1>0 DEF Enabled, MarkBusy
  <2>2. \A i \in DOMAIN calls : calls[i].kind = "act" =>
            /\ calls[i].row \in busy
            /\ \A j \in DOMAIN calls : ActOn(calls[j], calls[i].row) => j = i
    BY <1>0 DEF OneClick
  <2>. QED  BY <1>2, <1>4, <2>1, <2>2 DEF OneClick, ActOn
<1>8. PagesFresh' /\ PropsShown'
  BY <1>0, <1>2, AddRest
<1>9. ReadsOnly'
  <2>. SUFFICES ASSUME ctl.act.effect = "read", NEW q \in Rows
       PROVE  /\ clean[q] \/ ctl.polls # "plan" =>
                   /\ props[q] = db[q]
                   /\ \A i \in DOMAIN calls' : calls'[i].res = "ok" => calls'[i].page[q] = db[q]
              /\ want'[q] = Unset \/ (ctl.polls # "plan" /\ want'[q] = db[q])
    BY <1>0, <1>3 DEF ReadsOnly
  <2>1. /\ clean[q] \/ ctl.polls # "plan" =>
                   /\ props[q] = db[q]
                   /\ \A i \in DOMAIN calls : calls[i].res = "ok" => calls[i].page[q] = db[q]
        /\ want[q] = Unset \/ (ctl.polls # "plan" /\ want[q] = db[q])
    BY DEF ViewsInv, ReadsOnly
  <2>2. to = props[r]
    BY <1>0, <1>2 DEF ControlOK, Shown, Targets
  <2>3. want'[q] = IF q = r THEN to ELSE want[q]
    BY <1>0, <1>2 DEF ViewsBase
  <2>. QED  BY <1>0, <1>2, <1>4, <2>1, <2>2, <2>3
<1>10. ViewShown'
  <2>. SUFFICES ASSUME ctl.shows # "props" \/ (ctl.act.effect = "add" /\ ~away), NEW q \in Rows, clean[q]
       PROVE  RowShown(q)'
    BY <1>0, <1>3 DEF ViewShown
  <2>1. RowShown(q)
    BY DEF ViewsInv, ViewShown
  <2>2. CASE ctl.act.effect = "add"
    <3>1. Shown(q)' = Shown(q)
      BY <1>0, <1>2, <2>2 DEF Shown, ControlOK
    <3>2. (\E i \in DOMAIN calls' : DoneOn(calls'[i], q)) <=> (\E i \in DOMAIN calls : DoneOn(calls[i], q))
      BY <1>2, <1>4 DEF DoneOn
    <3>. QED  BY <1>0, <2>1, <2>2, <3>1, <3>2 DEF RowShown
  <2>3. CASE ctl.act.effect # "add" /\ ctl.shows = "optimistic"
    <3>1. CASE q = r
      <4>1. r \notin busy
        BY <1>0, <2>3 DEF Enabled, ControlOK
      <4>2. \A i \in DOMAIN calls : ~ActOn(calls[i], r)
        BY <1>0, <2>3, <4>1 DEF OneClick, ActOn, ControlOK
      <4>3. view[r] = db[r]
        BY <2>1, <2>3, <3>1, <4>2 DEF RowShown
      <4>. QED  BY <1>0, <1>2, <1>4, <2>3, <3>1, <4>2, <4>3 DEF RowShown, ActOn
    <3>2. CASE q # r
      <4>1. view'[q] = view[q]
        BY <1>0, <1>2, <3>2 DEF ViewsBase, PageType
      <4>2. \A k \in DOMAIN calls' : ActOn(calls'[k], q) => k \in DOMAIN calls /\ calls'[k] = calls[k]
        BY <1>2, <1>4, <3>2 DEF ActOn
      <4>. QED  BY <1>0, <1>4, <2>1, <2>3, <4>1, <4>2 DEF RowShown
    <3>. QED  BY <3>1, <3>2
  <2>4. CASE ctl.act.effect # "add" /\ ctl.shows # "optimistic"
    BY <1>0, <1>2, <1>4, <2>1, <2>4 DEF RowShown
  <2>. QED  BY <2>2, <2>3, <2>4
<1>11. Chosen'
  <2>. SUFFICES ASSUME ctl.act.effect # "read", ctl.act.via = "queue" \/ ctl.slot = "own",
                       NEW q \in Rows, want'[q] # Unset, ctl.act.effect = "add" => clean[q]
       PROVE  \/ NextChoice(q)'
              \/ db[q] = want'[q] /\ \A i \in DOMAIN calls' : ~SentOn(calls'[i], q)
    BY <1>0, <1>3 DEF Chosen
  <2>1. CASE q = r
    <3>1. want'[q] = to
      BY <1>0, <1>2, <2>1 DEF ViewsBase
    <3>2. SentOn(c, q) /\ \A j \in DOMAIN calls' : ~(j > Len(calls) + 1)
      <4>1. Len(calls) \in Nat /\ DOMAIN calls = 1..Len(calls)
        BY <1>0, BaseFacts
      <4>. QED  BY <1>2, <1>4, <2>1, <4>1 DEF SentOn, ActOn, Added
    <3>3. ctl.act.effect = "add" => to = db[r] + 1
      <4>. SUFFICES ASSUME ctl.act.effect = "add" PROVE to = db[r] + 1
        OBVIOUS
      <4>1. ctl.slot = "own"
        BY <1>0 DEF ControlOK
      <4>2. r \notin busy
        BY <1>0, <4>1 DEF Enabled
      <4>3. \A i \in DOMAIN calls : ~DoneOn(calls[i], r)
        BY <1>0, <4>1, <4>2 DEF OneClick, DoneOn, ActOn
      <4>4. RowShown(r)
        BY <1>0, <2>1 DEF ViewsInv, ViewShown
      <4>5. Shown(r) \in Nat
        BY <1>0 DEF ViewsBase, PageType, Shown
      <4>6. db[r] = Shown(r)
        BY <4>3, <4>4, <4>5 DEF RowShown
      <4>. QED  BY <1>2, <4>6 DEF Targets
    <3>. QED  BY <1>0, <1>2, <1>4, <2>1, <3>1, <3>2, <3>3 DEF NextChoice
  <2>2. CASE q # r
    <3>1. want'[q] = want[q]
      BY <1>0, <1>2, <2>2 DEF ViewsBase
    <3>2. ~SentOn(c, q)
      BY <1>2, <2>2 DEF SentOn, ActOn
    <3>3. \/ NextChoice(q)
          \/ db[q] = want[q] /\ \A i \in DOMAIN calls : ~SentOn(calls[i], q)
      BY <3>1 DEF ViewsInv, Chosen
    <3>4. CASE NextChoice(q)
      <4>1. PICK i \in DOMAIN calls :
              /\ SentOn(calls[i], q) /\ calls[i].to = want[q]
              /\ \A j \in DOMAIN calls : j > i => ~SentOn(calls[j], q)
              /\ ctl.act.effect = "add" => want[q] = db[q] + 1
        BY <3>4 DEF NextChoice
      <4>2. \A j \in DOMAIN calls' : j > i => ~SentOn(calls'[j], q)
        BY <1>4, <3>2, <4>1
      <4>. QED  BY <1>0, <1>4, <3>1, <4>1, <4>2 DEF NextChoice
    <3>5. CASE db[q] = want[q] /\ \A i \in DOMAIN calls : ~SentOn(calls[i], q)
      BY <1>4, <3>1, <3>2, <3>5
    <3>. QED  BY <3>3, <3>4, <3>5
  <2>. QED  BY <2>1, <2>2
<1>. QED  BY <1>5, <1>6, <1>7, <1>8, <1>9, <1>10, <1>11 DEF ViewsInv

(* A poll, of a row or of the plan.                                        *)
LEMMA PollKeeps ==
    ASSUME ViewsInv, (\E r \in Rows : PollRow(r)) \/ PollPlan
    PROVE  ViewsInv'
<1>0. /\ ViewsBase /\ Serial /\ OneClick /\ ControlOK(ctl) /\ 1 \in Rows
      /\ ctl' = ctl /\ db' = db /\ props' = props /\ view' = view /\ busy' = busy /\ stuck' = stuck
      /\ away' = away /\ clean' = clean /\ want' = want /\ clicks' = clicks + 1
      /\ clicks < MaxClicks
  BY BaseFacts DEF ViewsInv, PollRow, PollPlan
<1>1. PICK c : CallOK(c) /\ c.kind \in {"poll", "plan"} /\ c.res = "sent" /\ calls' = Append(calls, c)
  <2>1. CASE \E r \in Rows : PollRow(r)
    <3>1. PICK r \in Rows : PollRow(r)
      BY <2>1
    <3>. DEFINE c == Call("poll", r, 1, "queue")
    <3>2. view[r] \in Nat /\ ctl.polls = "row"
      BY <1>0, <3>1 DEF ViewsBase, PageType, PollRow
    <3>3. CallOK(c) /\ c.kind = "poll" /\ c.res = "sent"
      BY <3>2 DEF Call, CallOK, CallType
    <3>. QED  BY <3>1, <3>3 DEF PollRow
  <2>2. CASE PollPlan
    <3>. DEFINE c == Call("plan", 1, 0, "queue")
    <3>1. view[1] \in Nat /\ ctl.polls = "plan"
      BY <1>0, <2>2 DEF ViewsBase, PageType, PollPlan
    <3>2. CallOK(c) /\ c.kind = "plan" /\ c.res = "sent"
      BY <1>0, <3>1 DEF Call, CallOK, CallType
    <3>3. calls' = Append(calls, c)
      BY <2>2 DEF PollPlan
    <3>. QED  BY <3>2, <3>3
  <2>. QED  BY <2>1, <2>2
<1>2. CallsOK' /\ Added(c)
  BY <1>0, <1>1, AddCall
<1>3. /\ Rows' = Rows /\ PageType' = PageType /\ (Removes(ctl)' <=> Removes(ctl))
  BY <1>0, SameControl
<1>4. /\ \A k \in DOMAIN calls : k \in DOMAIN calls' /\ calls'[k] = calls[k]
      /\ calls'[Len(calls) + 1] = c
      /\ \A k \in DOMAIN calls' : k \in DOMAIN calls \/ k = Len(calls) + 1
  BY <1>0, <1>2, AddKeeps
<1>5. ViewsBase'
  <2>1. clicks' \in 0..MaxClicks
    BY <1>0 DEF ViewsBase
  <2>. QED  BY <1>0, <1>2, <1>3, <2>1 DEF ViewsBase, CallsOK
<1>6. Serial'
  BY <1>0, <1>1, <1>2, AddSerial
<1>7. OneClick'
  BY <1>0, <1>1, <1>4 DEF OneClick, ActOn
<1>8. PagesFresh' /\ PropsShown'
  BY <1>0, <1>1, <1>2, AddRest
<1>9. ReadsOnly'
  BY <1>0, <1>1, <1>3, <1>4 DEF ViewsInv, ReadsOnly
<1>10. \A k \in DOMAIN calls' : \A r : ActOn(calls'[k], r) => k \in DOMAIN calls /\ calls'[k] = calls[k]
  BY <1>1, <1>4 DEF ActOn
<1>11. ViewShown'
  <2>1. ASSUME NEW r \in Rows, RowShown(r) PROVE RowShown(r)'
    <3>1. Shown(r)' = Shown(r)
      BY <1>0 DEF Shown
    <3>2. (\E i \in DOMAIN calls' : DoneOn(calls'[i], r)) <=> (\E i \in DOMAIN calls : DoneOn(calls[i], r))
      BY <1>4, <1>10 DEF DoneOn
    <3>. QED  BY <1>0, <1>4, <1>10, <2>1, <3>1, <3>2 DEF RowShown
  <2>. QED  BY <1>0, <1>3, <2>1 DEF ViewsInv, ViewShown
<1>12. Chosen'
  <2>1. ASSUME NEW r \in Rows, NextChoice(r) PROVE NextChoice(r)'
    BY <1>0, <1>4, <1>10, <2>1 DEF NextChoice, SentOn
  <2>2. ASSUME NEW r \in Rows, \A i \in DOMAIN calls : ~SentOn(calls[i], r)
        PROVE  \A i \in DOMAIN calls' : ~SentOn(calls'[i], r)
    BY <1>4, <1>10, <2>2 DEF SentOn
  <2>. QED  BY <1>0, <1>3, <2>1, <2>2 DEF ViewsInv, Chosen
<1>. QED  BY <1>5, <1>6, <1>7, <1>8, <1>9, <1>11, <1>12 DEF ViewsInv

(* Somebody else's write: the row is no longer promised.                   *)
LEMMA ElsewhereKeeps ==
    ASSUME ViewsInv, NEW r \in Rows, Elsewhere(r)
    PROVE  ViewsInv'
<1>0. /\ ViewsBase /\ ControlOK(ctl)
      /\ ctl' = ctl /\ props' = props /\ view' = view /\ busy' = busy /\ stuck' = stuck
      /\ away' = away /\ clicks' = clicks /\ calls' = calls
      /\ ctl.act.effect # "read" \/ ctl.polls = "plan"
      /\ db' = [db EXCEPT ![r] = IF Removes(ctl) THEN 0 ELSE db[r] + 1]
      /\ clean' = [clean EXCEPT ![r] = FALSE] /\ want' = [want EXCEPT ![r] = Unset]
  BY BaseFacts DEF ViewsInv, Elsewhere
<1>1. /\ Rows' = Rows /\ PageType' = PageType /\ CallType' = CallType
      /\ (Removes(ctl)' <=> Removes(ctl)) /\ \A c : CallOK(c)' <=> CallOK(c)
  BY <1>0, SameControl
<1>2. /\ \A q \in Rows : q # r => db'[q] = db[q] /\ clean'[q] = clean[q] /\ want'[q] = want[q]
      /\ ~clean'[r] /\ want'[r] = Unset
  BY <1>0 DEF ViewsBase, PageType
<1>3. ViewsBase'
  <2>1. db[r] \in Nat /\ db' \in PageType
    BY <1>0 DEF ViewsBase, PageType
  <2>2. Removes(ctl) => \A q \in Rows : db'[q] \in {0, 1}
    BY <1>0, <1>2 DEF ViewsBase, PageType
  <2>3. clean' \in [Rows -> BOOLEAN] /\ want' \in [Rows -> Nat \cup {Unset}]
    BY <1>0 DEF ViewsBase
  <2>. QED  BY <1>0, <1>1, <2>1, <2>2, <2>3 DEF ViewsBase
<1>4. Serial' /\ OneClick'
  BY <1>0 DEF ViewsInv, Serial, OneClick
<1>5. PagesFresh'
  BY <1>0, <1>1, <1>2 DEF ViewsInv, PagesFresh
<1>6. ReadsOnly'
  BY <1>0, <1>1, <1>2 DEF ViewsInv, ReadsOnly
<1>7. PropsShown'
  <2>1. Coming' <=> Coming
    BY <1>0 DEF Coming
  <2>2. \A q \in Rows : q # r => (Arriving(q)' <=> Arriving(q))
    BY <1>0, <1>2 DEF Arriving
  <2>. QED  BY <1>0, <1>1, <1>2, <2>1, <2>2 DEF ViewsInv, PropsShown
<1>8. ViewShown'
  <2>1. \A q \in Rows : q # r => (RowShown(q)' <=> RowShown(q))
    BY <1>0, <1>2 DEF RowShown, Shown
  <2>. QED  BY <1>0, <1>1, <1>2, <2>1 DEF ViewsInv, ViewShown
<1>9. Chosen'
  <2>1. \A q \in Rows : q # r => (NextChoice(q)' <=> NextChoice(q))
    BY <1>0, <1>2 DEF NextChoice
  <2>. QED  BY <1>0, <1>1, <1>2, <2>1 DEF ViewsInv, Chosen
<1>. QED  BY <1>3, <1>4, <1>5, <1>6, <1>7, <1>8, <1>9 DEF ViewsInv

-----------------------------------------------------------------------------
(* A call is executed.  Of the browser's queue it is the first, and none   *)
(* of the queue has been executed before it was.                           *)

\* The three outcomes of Execute.
Executed(i) ==
    /\ ~(calls[i].kind = "poll" /\ db[calls[i].row] = 0)
    /\ db' = [db EXCEPT ![calls[i].row] = Effect(calls[i])] /\ Answer(i, "ok", db')
    /\ clean' = IF calls[i].kind = "act" /\ ctl.act.effect # "add"
                   THEN [clean EXCEPT ![calls[i].row] = TRUE] ELSE clean
    /\ want' = want
Refused(i) ==
    /\ calls[i].kind # "refresh" /\ Answer(i, "refused", Unset) /\ db' = db /\ clean' = clean
    /\ want' = [want EXCEPT ![calls[i].row] = Unset]
Lost(i) ==
    /\ calls[i].kind # "refresh" /\ Answer(i, "lost", Unset)
    /\ db' \in {db, [db EXCEPT ![calls[i].row] = Effect(calls[i])]}
    /\ clean' = [clean EXCEPT ![calls[i].row] = FALSE]
    /\ want' = [want EXCEPT ![calls[i].row] = Unset]
ExecuteFrame == UNCHANGED <<ctl, props, view, busy, stuck, away, clicks>>

(* Execute is one of the three.                                            *)
LEMMA Outcomes ==
    ASSUME NEW i, Execute(i)
    PROVE  Ready(i) /\ ExecuteFrame /\ (Executed(i) \/ Refused(i) \/ Lost(i))
BY DEF Execute, ExecuteFrame, Executed, Refused, Refusable, Lost

(* No call of the queue was executed before the one that is.               *)
LEMMA FirstOfQueue ==
    ASSUME ViewsBase, Serial, NEW i \in DOMAIN calls, Ready(i), calls[i].via = "queue"
    PROVE  \A j \in DOMAIN calls : calls[j].via = "queue" => calls[j].res = "sent" /\ ~(j < i)
<1>1. Len(calls) \in Nat /\ DOMAIN calls = 1..Len(calls)
  BY BaseFacts
<1>. QED  BY <1>1 DEF Ready, Serial

(* Where clicks go through the queue, everything does.                     *)
LEMMA QueueControl ==
    ASSUME ViewsBase, ctl.act.via = "queue", NEW j \in DOMAIN calls
    PROVE  calls[j].via = "queue"
BY BaseFacts DEF CallOK

(* What a call leaves in its row.                                          *)
LEMMA EffectFacts ==
    ASSUME ViewsBase, NEW i \in DOMAIN calls
    PROVE  /\ calls[i].row \in Rows /\ Effect(calls[i]) \in Nat
           /\ Removes(ctl) => Effect(calls[i]) \in {0, 1}
           /\ calls[i].kind # "act" \/ ctl.act.effect = "read" => Effect(calls[i]) = db[calls[i].row]
           /\ calls[i].kind = "act" /\ ctl.act.effect = "add" =>
                Effect(calls[i]) = db[calls[i].row] + 1
           /\ calls[i].kind = "act" /\ ctl.act.effect \notin {"read", "add"} =>
                Effect(calls[i]) = calls[i].to
<1>1. /\ calls[i] \in CallType /\ CallOK(calls[i]) /\ calls[i].row \in Rows /\ calls[i].to \in Nat
  BY BaseFacts DEF CallType
<1>2. db[calls[i].row] \in Nat /\ (Removes(ctl) => db[calls[i].row] \in {0, 1})
  BY <1>1 DEF ViewsBase, PageType
<1>3. calls[i].kind = "act" /\ Removes(ctl) => calls[i].to = 0
  BY <1>1 DEF CallOK
<1>. QED  BY <1>1, <1>2, <1>3 DEF Effect, Removes

(* The types, whatever the outcome.                                        *)
LEMMA ExecuteBase ==
    ASSUME ViewsInv, NEW i \in DOMAIN calls, Ready(i), ExecuteFrame,
           Executed(i) \/ Refused(i) \/ Lost(i)
    PROVE  /\ ViewsBase'
           /\ Executed(i) => Answered(i, "ok", db')
           /\ Refused(i) => Answered(i, "refused", Unset)
           /\ Lost(i) => Answered(i, "lost", Unset)
<1>0. /\ ViewsBase /\ ControlOK(ctl) /\ calls[i] \in CallType /\ CallOK(calls[i])
      /\ ctl' = ctl /\ props' = props /\ view' = view /\ busy' = busy /\ stuck' = stuck
      /\ away' = away /\ clicks' = clicks
  BY BaseFacts DEF ViewsInv, ExecuteFrame
<1>1. Rows' = Rows /\ PageType' = PageType /\ (Removes(ctl)' <=> Removes(ctl))
  BY <1>0, SameControl
<1>2. /\ calls[i].row \in Rows /\ Effect(calls[i]) \in Nat
      /\ Removes(ctl) => Effect(calls[i]) \in {0, 1}
  BY <1>0, EffectFacts
<1>3. db' \in PageType /\ (Removes(ctl) => \A r \in Rows : db'[r] \in {0, 1})
  <2>1. db' = db \/ db' = [db EXCEPT ![calls[i].row] = Effect(calls[i])]
    BY DEF Executed, Refused, Lost
  <2>. QED  BY <1>0, <1>2, <2>1, ZenonT(30) DEF ViewsBase, PageType
<1>4. clean' \in [Rows -> BOOLEAN] /\ want' \in [Rows -> Nat \cup {Unset}]
  <2>1. clean' = clean \/ clean' = [clean EXCEPT ![calls[i].row] = TRUE]
          \/ clean' = [clean EXCEPT ![calls[i].row] = FALSE]
    BY DEF Executed, Refused, Lost
  <2>2. want' = want \/ want' = [want EXCEPT ![calls[i].row] = Unset]
    BY DEF Executed, Refused, Lost
  <2>. QED  BY <1>0, <2>1, <2>2 DEF ViewsBase
<1>5. Executed(i) => CallsOK' /\ Answered(i, "ok", db')
  <2>. SUFFICES ASSUME Executed(i) PROVE CallsOK' /\ Answered(i, "ok", db')
    OBVIOUS
  <2>1. calls[i].kind = "poll" => db'[calls[i].row] = 1
    <3>. SUFFICES ASSUME calls[i].kind = "poll" PROVE db'[calls[i].row] = 1
      OBVIOUS
    <3>1. Removes(ctl)
      BY <1>0 DEF CallOK, ControlOK, Removes
    <3>2. db[calls[i].row] = 1
      BY <1>0, <1>2, <3>1 DEF ViewsBase, Executed
    <3>3. Effect(calls[i]) = db[calls[i].row]
      BY <1>0, EffectFacts
    <3>. QED  BY <1>0, <1>2, <3>2, <3>3 DEF Executed, ViewsBase, PageType
  <2>2. Answer(i, "ok", db')
    BY DEF Executed
  <2>. QED  BY <1>0, <1>3, <2>1, <2>2, AnswerCall
<1>6. Refused(i) => CallsOK' /\ Answered(i, "refused", Unset)
  BY <1>0, AnswerCall DEF Refused
<1>7. Lost(i) => CallsOK' /\ Answered(i, "lost", Unset)
  BY <1>0, AnswerCall DEF Lost
<1>. QED  BY <1>0, <1>1, <1>3, <1>4, <1>5, <1>6, <1>7 DEF ViewsBase, CallsOK

(* The order of the queue and the clicks under way, whatever the outcome.  *)
LEMMA ExecuteQueue ==
    ASSUME ViewsInv, NEW i \in DOMAIN calls, Ready(i), ExecuteFrame, NEW res, NEW page,
           Answered(i, res, page)
    PROVE  Serial' /\ OneClick'
<1>0. /\ ViewsBase /\ Serial /\ OneClick /\ ctl' = ctl /\ busy' = busy
      /\ Len(calls) \in Nat /\ DOMAIN calls = 1..Len(calls)
  BY BaseFacts DEF ViewsInv, ExecuteFrame
<1>1. \A k \in DOMAIN calls : /\ calls'[k].kind = calls[k].kind /\ calls'[k].row = calls[k].row
                              /\ calls'[k].via = calls[k].via
  BY DEF Answered
<1>2. DOMAIN calls' = DOMAIN calls /\ \A k \in DOMAIN calls : k # i => calls'[k] = calls[k]
  BY DEF Answered
<1>3. Serial'
  BY <1>0, <1>1, <1>2 DEF Serial, Ready
<1>4. OneClick'
  BY <1>0, <1>1, <1>2 DEF OneClick, ActOn
<1>. QED  BY <1>3, <1>4

(* The call succeeds.                                                      *)
LEMMA ExecutedKeeps ==
    ASSUME ViewsInv, NEW i \in DOMAIN calls, Ready(i), ExecuteFrame, Executed(i)
    PROVE  ViewsInv'
<1>0. /\ ViewsBase /\ Serial /\ OneClick /\ ControlOK(ctl) /\ CallOK(calls[i])
      /\ ctl' = ctl /\ props' = props /\ view' = view /\ busy' = busy /\ stuck' = stuck
      /\ away' = away /\ clicks' = clicks /\ want' = want
      /\ calls[i].res = "sent" /\ calls[i].row \in Rows
  BY BaseFacts, EffectFacts DEF ViewsInv, ExecuteFrame, Executed, Ready
<1>1. ViewsBase' /\ Answered(i, "ok", db')
  BY ExecuteBase
<1>2. Serial' /\ OneClick'
  BY <1>1, ExecuteQueue
<1>3. Rows' = Rows
  BY <1>0, SameControl
<1>4. /\ DOMAIN calls' = DOMAIN calls
      /\ \A k \in DOMAIN calls : k # i => calls'[k] = calls[k]
      /\ calls'[i].kind = calls[i].kind /\ calls'[i].row = calls[i].row
      /\ calls'[i].to = calls[i].to
      /\ calls'[i].was = calls[i].was /\ calls'[i].via = calls[i].via
      /\ calls'[i].res = "ok" /\ calls'[i].page = db'
  BY <1>1 DEF Answered
<1>5. /\ \A r \in Rows : r # calls[i].row => db'[r] = db[r] /\ clean'[r] = clean[r]
      /\ db'[calls[i].row] = Effect(calls[i])
      /\ clean'[calls[i].row] = IF calls[i].kind = "act" /\ ctl.act.effect # "add"
                                   THEN TRUE ELSE clean[calls[i].row]
  BY <1>0 DEF Executed, ViewsBase, PageType
<1>6. calls[i].kind # "act" \/ ctl.act.effect = "read" => \A r \in Rows : db'[r] = db[r]
  BY <1>0, <1>5, EffectFacts
<1>7. calls[i].kind # "act" => \A r \in Rows : clean'[r] = clean[r]
  BY <1>0, <1>5
<1>8. calls[i].via = "queue" =>
        \A j \in DOMAIN calls : calls[j].via = "queue" => calls[j].res = "sent" /\ ~(j < i)
  BY <1>0, FirstOfQueue
<1>9. PagesFresh'
  <2>. SUFFICES ASSUME ctl.act.via = "queue", NEW j \in DOMAIN calls', calls'[j].res = "ok", NEW r \in Rows
       PROVE  calls'[j].page[r] = db'[r]
    BY <1>0, <1>3 DEF PagesFresh
  <2>1. j = i
    BY <1>0, <1>4, <1>8, QueueControl
  <2>. QED  BY <1>4, <2>1
<1>10. ReadsOnly'
  <2>. SUFFICES ASSUME ctl.act.effect = "read", NEW r \in Rows
       PROVE  /\ clean'[r] \/ ctl.polls # "plan" =>
                   /\ props[r] = db'[r]
                   /\ \A k \in DOMAIN calls' : calls'[k].res = "ok" => calls'[k].page[r] = db'[r]
              /\ want[r] = Unset \/ (ctl.polls # "plan" /\ want[r] = db'[r])
    BY <1>0, <1>3 DEF ReadsOnly
  <2>1. db'[r] = db[r] /\ (clean'[r] => clean[r] \/ ctl.polls # "plan")
    BY <1>0, <1>5, <1>6 DEF CallOK
  <2>2. /\ clean[r] \/ ctl.polls # "plan" =>
             /\ props[r] = db[r]
             /\ \A k \in DOMAIN calls : calls[k].res = "ok" => calls[k].page[r] = db[r]
        /\ want[r] = Unset \/ (ctl.polls # "plan" /\ want[r] = db[r])
    BY DEF ViewsInv, ReadsOnly
  <2>. QED  BY <1>4, <2>1, <2>2
<1>11. PropsShown'
  <2>. SUFFICES ASSUME ctl.shows = "props", ctl.act.effect # "read", NEW r \in Rows, clean'[r], ~Coming'
       PROVE  Arriving(r)'
    BY <1>0, <1>3 DEF PropsShown
  <2>1. calls[i].kind # "act"
    BY <1>4 DEF Coming
  <2>2. db'[r] = db[r] /\ clean[r]
    BY <1>6, <1>7, <2>1
  <2>3. Coming \/ Arriving(r)
    BY <2>2 DEF ViewsInv, PropsShown
  <2>4. CASE calls[i].kind = "refresh"
    <3>1. calls[i].via = "queue"
      BY <1>0, <2>4 DEF CallOK
    <3>2. \A j \in DOMAIN calls : j # i /\ calls[j].kind = "refresh" => calls[j].res = "sent"
      BY <1>0, <1>8, <3>1, BaseFacts DEF CallOK
    <3>. QED  BY <1>0, <1>4, <2>4, <3>2 DEF Arriving
  <2>5. CASE calls[i].kind # "refresh"
    <3>1. ~Coming
      BY <1>4, <2>1, <2>5 DEF Coming
    <3>. QED  BY <1>0, <1>4, <2>2, <2>3, <2>5, <3>1 DEF Arriving
  <2>. QED  BY <2>4, <2>5
<1>12. ViewShown'
  <2>. SUFFICES ASSUME ctl.shows # "props" \/ (ctl.act.effect = "add" /\ ~away), NEW r \in Rows, clean'[r]
       PROVE  RowShown(r)'
    BY <1>0, <1>3 DEF ViewShown
  <2>1. clean[r] => RowShown(r)
    BY DEF ViewsInv, ViewShown
  <2>2. Shown(r)' = Shown(r) /\ Shown(r) \in Nat
    BY <1>0 DEF Shown, ViewsBase, PageType
  <2>3. CASE ~ActOn(calls[i], r)
    <3>1. clean[r] /\ db'[r] = db[r]
      BY <1>0, <1>5, <1>6, <2>3 DEF ActOn
    <3>2. \A k \in DOMAIN calls :
            (ActOn(calls'[k], r) <=> ActOn(calls[k], r)) /\ (ActOn(calls[k], r) => calls'[k] = calls[k])
      BY <1>4, <2>3 DEF ActOn
    <3>3. (\E k \in DOMAIN calls' : DoneOn(calls'[k], r)) <=> (\E k \in DOMAIN calls : DoneOn(calls[k], r))
      BY <1>4, <3>2 DEF DoneOn
    <3>. QED  BY <1>0, <1>4, <2>1, <2>2, <3>1, <3>2, <3>3 DEF RowShown
  <2>4. CASE ActOn(calls[i], r)
    <3>1. DoneOn(calls'[i], r)
      BY <1>4, <2>4 DEF DoneOn, ActOn
    <3>2. CASE ctl.act.effect = "add"
      <4>1. clean[r] /\ db'[r] = db[r] + 1
        BY <1>0, <1>5, <2>4, <3>2, EffectFacts DEF ActOn
      <4>2. \A k \in DOMAIN calls : ~DoneOn(calls[k], r)
        BY <1>0, <2>4, <3>2 DEF OneClick, ActOn, DoneOn, ControlOK
      <4>3. db[r] = Shown(r)
        BY <2>1, <2>2, <3>2, <4>1, <4>2 DEF RowShown
      <4>. QED  BY <1>0, <1>4, <2>2, <3>1, <3>2, <4>1, <4>3 DEF RowShown
    <3>3. CASE ctl.act.effect # "add" /\ ctl.shows = "optimistic"
      <4>1. \A k \in DOMAIN calls : ActOn(calls[k], r) => k = i
        BY <1>0, <2>4, <3>3 DEF OneClick, ActOn, ControlOK
      <4>2. \A k \in DOMAIN calls' : ActOn(calls'[k], r) => k = i
        BY <1>4, <4>1 DEF ActOn
      <4>. QED  BY <1>0, <1>4, <3>1, <3>3, <4>2 DEF RowShown, DoneOn
    <3>4. CASE ctl.act.effect # "add" /\ ctl.shows # "optimistic"
      BY <1>0, <1>4, <3>1, <3>4 DEF RowShown
    <3>. QED  BY <3>2, <3>3, <3>4
  <2>. QED  BY <2>3, <2>4
<1>13. Chosen'
  <2>. SUFFICES ASSUME ctl.act.effect # "read", ctl.act.via = "queue" \/ ctl.slot = "own",
                       NEW r \in Rows, want[r] # Unset, ctl.act.effect = "add" => clean'[r]
       PROVE  \/ NextChoice(r)'
              \/ db'[r] = want[r] /\ \A k \in DOMAIN calls' : ~SentOn(calls'[k], r)
    BY <1>0, <1>3 DEF Chosen
  <2>1. ctl.act.effect = "add" => clean[r]
    BY <1>0, <1>5
  <2>2. NextChoice(r) \/ (db[r] = want[r] /\ \A k \in DOMAIN calls : ~SentOn(calls[k], r))
    BY <2>1 DEF ViewsInv, Chosen
  <2>3. \A k \in DOMAIN calls : SentOn(calls'[k], r) <=> SentOn(calls[k], r) /\ k # i
    BY <1>4 DEF SentOn
  <2>4. CASE ~ActOn(calls[i], r)
    <3>1. db'[r] = db[r]
      BY <1>0, <1>5, <1>6, <2>4 DEF ActOn
    <3>2. ~SentOn(calls[i], r)
      BY <2>4 DEF SentOn
    <3>3. NextChoice(r) => NextChoice(r)'
      BY <1>0, <1>4, <2>3, <3>1, <3>2 DEF NextChoice
    <3>. QED  BY <1>4, <2>2, <2>3, <3>1, <3>3
  <2>5. CASE ActOn(calls[i], r)
    <3>1. SentOn(calls[i], r)
      BY <1>0, <2>5 DEF SentOn
    <3>2. PICK m \in DOMAIN calls :
            /\ SentOn(calls[m], r) /\ calls[m].to = want[r]
            /\ \A j \in DOMAIN calls : j > m => ~SentOn(calls[j], r)
            /\ ctl.act.effect = "add" => want[r] = db[r] + 1
      BY <2>2, <3>1 DEF NextChoice
    <3>3. \A k \in DOMAIN calls : SentOn(calls[k], r) => ~(k < i)
      <4>1. CASE ctl.act.via = "queue"
        BY <1>0, <1>8, <4>1, QueueControl
      <4>2. CASE ctl.slot = "own"
        <5>1. \A k \in DOMAIN calls : ActOn(calls[k], r) => k = i
          BY <1>0, <2>5, <4>2 DEF OneClick, ActOn
        <5>2. Len(calls) \in Nat /\ DOMAIN calls = 1..Len(calls)
          BY <1>0, BaseFacts
        <5>. QED  BY <5>1, <5>2 DEF SentOn
      <4>. QED  BY <4>1, <4>2
    <3>4. Len(calls) \in Nat /\ DOMAIN calls = 1..Len(calls)
      BY <1>0, BaseFacts
    <3>5. CASE m = i
      <4>1. \A k \in DOMAIN calls' : ~SentOn(calls'[k], r)
        BY <1>4, <2>3, <3>2, <3>3, <3>4, <3>5
      <4>2. db'[r] = want[r]
        BY <1>0, <1>5, <2>5, <3>2, <3>5, EffectFacts DEF ActOn
      <4>. QED  BY <4>1, <4>2
    <3>6. CASE m # i
      <4>1. SentOn(calls'[m], r) /\ calls'[m] = calls[m] /\ m \in DOMAIN calls'
        BY <1>4, <2>3, <3>2, <3>6
      <4>2. \A j \in DOMAIN calls' : j > m => ~SentOn(calls'[j], r)
        BY <1>4, <2>3, <3>2
      <4>3. ctl.act.effect # "add"
        BY <1>0, <2>5, <3>2, <3>6 DEF OneClick, ControlOK, ActOn, SentOn
      <4>. QED  BY <1>0, <3>2, <4>1, <4>2, <4>3 DEF NextChoice
    <3>. QED  BY <3>5, <3>6
  <2>. QED  BY <2>4, <2>5
<1>. QED  BY <1>1, <1>2, <1>9, <1>10, <1>11, <1>12, <1>13 DEF ViewsInv

(* The call fails: a refusal changes nothing, a lost call leaves its row   *)
(* unpromised; either way the choice is given up.                          *)
LEMMA FailedKeeps ==
    ASSUME ViewsInv, NEW i \in DOMAIN calls, Ready(i), ExecuteFrame, Refused(i) \/ Lost(i)
    PROVE  ViewsInv'
<1>0. /\ ViewsBase /\ Serial /\ OneClick /\ ControlOK(ctl) /\ CallOK(calls[i])
      /\ ctl' = ctl /\ props' = props /\ view' = view /\ busy' = busy /\ stuck' = stuck
      /\ away' = away /\ clicks' = clicks
      /\ calls[i].res = "sent" /\ calls[i].row \in Rows
  BY BaseFacts, EffectFacts DEF ViewsInv, ExecuteFrame, Ready
<1>1. PICK res \in {"refused", "lost"} : ViewsBase' /\ Answered(i, res, Unset) /\ (res = "lost" => Lost(i))
  BY ExecuteBase
<1>2. Serial' /\ OneClick'
  BY <1>1, ExecuteQueue
<1>3. Rows' = Rows
  BY <1>0, SameControl
<1>4. /\ DOMAIN calls' = DOMAIN calls
      /\ \A k \in DOMAIN calls : k # i => calls'[k] = calls[k]
      /\ calls'[i].kind = calls[i].kind /\ calls'[i].row = calls[i].row
      /\ calls'[i].to = calls[i].to
      /\ calls'[i].was = calls[i].was /\ calls'[i].via = calls[i].via
      /\ calls'[i].res = res
  BY <1>1 DEF Answered
<1>5. /\ \A r \in Rows : r # calls[i].row => db'[r] = db[r] /\ clean'[r] = clean[r] /\ want'[r] = want[r]
      /\ want'[calls[i].row] = Unset
      /\ clean'[calls[i].row] => /\ clean[calls[i].row] /\ db'[calls[i].row] = db[calls[i].row]
                                 /\ res # "lost"
      /\ ctl.act.effect = "read" => db'[calls[i].row] = db[calls[i].row]
  <2>1. CASE Refused(i) /\ res # "lost"
    BY <1>0, <2>1 DEF Refused, ViewsBase, PageType
  <2>2. CASE Lost(i)
    <3>1. ctl.act.effect = "read" => Effect(calls[i]) = db[calls[i].row]
      BY <1>0, EffectFacts
    <3>. QED  BY <1>0, <2>2, <3>1 DEF Lost, ViewsBase, PageType
  <2>. QED  BY <1>1, <2>1, <2>2
<1>6. \A r \in Rows : clean'[r] => clean[r] /\ db'[r] = db[r]
  BY <1>5
<1>7. \A k \in DOMAIN calls : calls'[k].res = "ok" <=> calls[k].res = "ok"
  BY <1>0, <1>1, <1>4
<1>8. \A k \in DOMAIN calls : calls'[k].res = "ok" => calls'[k] = calls[k]
  BY <1>0, <1>1, <1>4
<1>9. PagesFresh'
  BY <1>0, <1>3, <1>4, <1>6, <1>7, <1>8 DEF ViewsInv, PagesFresh
<1>10. ReadsOnly'
  <2>. SUFFICES ASSUME ctl.act.effect = "read", NEW r \in Rows
       PROVE  /\ clean'[r] \/ ctl.polls # "plan" =>
                   /\ props[r] = db'[r]
                   /\ \A k \in DOMAIN calls' : calls'[k].res = "ok" => calls'[k].page[r] = db'[r]
              /\ want'[r] = Unset \/ (ctl.polls # "plan" /\ want'[r] = db'[r])
    BY <1>0, <1>3 DEF ReadsOnly
  <2>1. db'[r] = db[r] /\ (want'[r] = want[r] \/ want'[r] = Unset)
    BY <1>5
  <2>2. /\ clean[r] \/ ctl.polls # "plan" =>
             /\ props[r] = db[r]
             /\ \A k \in DOMAIN calls : calls[k].res = "ok" => calls[k].page[r] = db[r]
        /\ want[r] = Unset \/ (ctl.polls # "plan" /\ want[r] = db[r])
    BY DEF ViewsInv, ReadsOnly
  <2>. QED  BY <1>4, <1>6, <1>8, <2>1, <2>2
<1>11. PropsShown'
  <2>1. calls[i].kind # "refresh"
    <3>1. Refused(i) => calls[i].kind # "refresh"
      BY DEF Refused
    <3>. QED  BY <3>1 DEF Lost
  <2>2. Coming => Coming'
    BY <1>0, <1>4, <2>1 DEF Coming
  <2>3. \A r \in Rows : clean'[r] /\ Arriving(r) => Arriving(r)'
    BY <1>0, <1>4, <1>6, <1>7, <1>8, <2>1 DEF Arriving
  <2>. QED  BY <1>0, <1>3, <1>6, <2>2, <2>3 DEF ViewsInv, PropsShown
<1>12. ViewShown'
  <2>1. ASSUME NEW r \in Rows, clean'[r], RowShown(r) PROVE RowShown(r)'
    <3>1. Shown(r)' = Shown(r) /\ db'[r] = db[r]
      BY <1>0, <1>6, <2>1 DEF Shown
    <3>2. \A k \in DOMAIN calls : /\ ActOn(calls'[k], r) <=> ActOn(calls[k], r)
                                  /\ calls'[k].was = calls[k].was
      BY <1>4 DEF ActOn
    <3>3. \A k \in DOMAIN calls : DoneOn(calls'[k], r) <=> DoneOn(calls[k], r)
      BY <1>7, <3>2 DEF DoneOn
    <3>4. \A k \in DOMAIN calls : ActOn(calls'[k], r) /\ calls'[k].res = "lost" =>
            ActOn(calls[k], r) /\ calls[k].res = "lost"
      BY <1>4, <1>5, <2>1, <3>2 DEF ActOn
    <3>. QED  BY <1>0, <1>4, <1>7, <2>1, <3>1, <3>2, <3>3, <3>4 DEF RowShown
  <2>. QED  BY <1>0, <1>3, <1>6, <2>1 DEF ViewsInv, ViewShown
<1>13. Chosen'
  <2>. SUFFICES ASSUME ctl.act.effect # "read", ctl.act.via = "queue" \/ ctl.slot = "own",
                       NEW r \in Rows, want'[r] # Unset, ctl.act.effect = "add" => clean'[r]
       PROVE  \/ NextChoice(r)'
              \/ db'[r] = want'[r] /\ \A k \in DOMAIN calls' : ~SentOn(calls'[k], r)
    BY <1>0, <1>3 DEF Chosen
  <2>1. r # calls[i].row /\ want'[r] = want[r] /\ db'[r] = db[r]
    BY <1>5
  <2>2. \A k \in DOMAIN calls : /\ SentOn(calls'[k], r) <=> SentOn(calls[k], r)
                                /\ SentOn(calls[k], r) => calls'[k] = calls[k]
    BY <1>4, <2>1 DEF SentOn, ActOn
  <2>3. NextChoice(r) \/ (db[r] = want[r] /\ \A k \in DOMAIN calls : ~SentOn(calls[k], r))
    BY <1>6, <2>1 DEF ViewsInv, Chosen
  <2>4. NextChoice(r) => NextChoice(r)'
    BY <1>0, <1>4, <2>1, <2>2 DEF NextChoice
  <2>. QED  BY <1>4, <2>1, <2>2, <2>3, <2>4
<1>. QED  BY <1>1, <1>2, <1>9, <1>10, <1>11, <1>12, <1>13 DEF ViewsInv

-----------------------------------------------------------------------------
(* An answer reaches the component: its call is taken out.                 *)

(* The calls left are the others, in their order, and perhaps a refresh.   *)
LEMMA DropKeeps ==
    ASSUME ViewsBase, NEW i \in DOMAIN calls, Dropped(i)
    PROVE  /\ \A k \in DOMAIN calls' : IsRefresh(calls'[k]) \/ \E j \in DOMAIN calls : j # i /\ calls'[k] = calls[j]
           /\ \A j \in DOMAIN calls : j # i => \E k \in DOMAIN calls' : calls'[k] = calls[j]
BY DEF Dropped

(* The order of the queue.                                                 *)
LEMMA DropSerial ==
    ASSUME ViewsBase, Serial, NEW i \in DOMAIN calls, Dropped(i)
    PROVE  Serial'
<1>1. Len(calls) \in Nat /\ DOMAIN calls = 1..Len(calls)
  BY BaseFacts
<1>. SUFFICES ASSUME NEW a \in DOMAIN calls', NEW b \in DOMAIN calls', a < b,
                     calls'[a].via = "queue", calls'[b].via = "queue"
     PROVE  calls'[b].res = "sent"
  BY DEF Serial
<1>2. CASE b = Len(calls) /\ IsRefresh(calls'[b])
  BY <1>2 DEF IsRefresh
<1>3. CASE b \in 1..(Len(calls) - 1) /\ Before(i, b) \in DOMAIN calls \ {i} /\ calls'[b] = calls[Before(i, b)]
  <2>1. a # Len(calls)
    BY <1>1, <1>3
  <2>2. a \in 1..(Len(calls) - 1) /\ Before(i, a) \in DOMAIN calls \ {i} /\ calls'[a] = calls[Before(i, a)]
    BY <2>1 DEF Dropped
  <2>3. Before(i, a) < Before(i, b)
    BY <1>1, <1>3, <2>2 DEF Before
  <2>. QED  BY <1>3, <2>2, <2>3 DEF Serial
<1>. QED  BY <1>2, <1>3 DEF Dropped

(* The clicks under way, where the row's busy mark is given back or kept.  *)
LEMMA DropOneClick ==
    ASSUME ViewsInv, ctl' = ctl, NEW i \in DOMAIN calls, Dropped(i),
           busy' = busy \/ (calls[i].kind = "act" /\ busy' = Unmark(calls[i].row)) \/ ctl.polls = "plan"
    PROVE  OneClick'
<1>1. /\ ViewsBase /\ OneClick /\ Len(calls) \in Nat /\ DOMAIN calls = 1..Len(calls)
      /\ \A j \in DOMAIN calls : CallOK(calls[j])
  BY BaseFacts DEF ViewsInv
<1>. SUFFICES ASSUME ctl.slot = "own", NEW k \in DOMAIN calls', calls'[k].kind = "act"
     PROVE  /\ calls'[k].row \in busy'
            /\ \A m \in DOMAIN calls' : ActOn(calls'[m], calls'[k].row) => m = k
  BY DEF OneClick
<1>2. \A m \in DOMAIN calls' : calls'[m].kind = "act" =>
        m \in 1..(Len(calls) - 1) /\ Before(i, m) \in DOMAIN calls \ {i} /\ calls'[m] = calls[Before(i, m)]
  BY DEF Dropped, IsRefresh
<1>3. calls'[k].row \in busy /\ (calls[i].kind = "act" => calls'[k].row # calls[i].row)
  BY <1>1, <1>2 DEF OneClick, ActOn
<1>4. calls'[k].row \in busy'
  <2>1. ctl.polls # "plan"
    BY <1>1, <1>2 DEF CallOK
  <2>. QED  BY <1>3, <2>1 DEF Unmark
<1>5. ASSUME NEW m \in DOMAIN calls', ActOn(calls'[m], calls'[k].row) PROVE m = k
  <2>1. Before(i, m) = Before(i, k)
    BY <1>1, <1>2, <1>5 DEF OneClick, ActOn
  <2>2. m \in 1..(Len(calls) - 1) /\ k \in 1..(Len(calls) - 1) /\ i \in 1..Len(calls)
    BY <1>1, <1>2, <1>5 DEF ActOn
  <2>. QED  BY <1>1, <2>1, <2>2 DEF Before
<1>. QED  BY <1>4, <1>5

(* What was read stays fresh, and the last choice stays where it is.       *)
LEMMA DropChosen ==
    ASSUME ViewsInv, ctl' = ctl, NEW i \in DOMAIN calls, Dropped(i), calls[i].res # "sent",
           db' = db, clean' = clean, want' = want
    PROVE  PagesFresh' /\ Chosen'
<1>1. /\ ViewsBase /\ Len(calls) \in Nat /\ DOMAIN calls = 1..Len(calls) /\ i \in 1..Len(calls)
      /\ Rows' = Rows
  BY BaseFacts, SameControl DEF ViewsInv
<1>2. PagesFresh'
  BY <1>1, DropKeeps DEF ViewsInv, PagesFresh, IsRefresh
<1>3. Chosen'
  <2>1. ASSUME NEW r \in Rows, \A j \in DOMAIN calls : ~SentOn(calls[j], r)
        PROVE  \A k \in DOMAIN calls' : ~SentOn(calls'[k], r)
    BY <1>1, <2>1, DropKeeps DEF SentOn, ActOn, IsRefresh
  <2>2. ASSUME NEW r \in Rows, NextChoice(r) PROVE NextChoice(r)'
    <3>1. PICK m \in DOMAIN calls :
            /\ SentOn(calls[m], r) /\ calls[m].to = want[r]
            /\ \A j \in DOMAIN calls : j > m => ~SentOn(calls[j], r)
            /\ ctl.act.effect = "add" => want[r] = db[r] + 1
      BY <2>2 DEF NextChoice
    <3>2. m # i
      BY <3>1 DEF SentOn
    <3>3. After(i, m) \in DOMAIN calls' /\ calls'[After(i, m)] = calls[m]
      BY <3>2 DEF Dropped
    <3>4. ASSUME NEW k \in DOMAIN calls', k > After(i, m) PROVE ~SentOn(calls'[k], r)
      <4>1. CASE k = Len(calls) /\ IsRefresh(calls'[k])
        BY <4>1 DEF IsRefresh, SentOn, ActOn
      <4>2. CASE k \in 1..(Len(calls) - 1) /\ Before(i, k) \in DOMAIN calls \ {i} /\ calls'[k] = calls[Before(i, k)]
        <5>1. Before(i, k) > m
          BY <1>1, <3>2, <3>4, <4>2 DEF Before, After
        <5>. QED  BY <3>1, <4>2, <5>1
      <4>. QED  BY <4>1, <4>2 DEF Dropped
    <3>. QED  BY <3>1, <3>3, <3>4 DEF NextChoice
  <2>. QED  BY <1>1, <2>1, <2>2 DEF ViewsInv, Chosen
<1>. QED  BY <1>2, <1>3

(* What a page refresh or an answer brings to a control that only reads.   *)
LEMMA DropReads ==
    ASSUME ViewsInv, ctl' = ctl, NEW i \in DOMAIN calls, Dropped(i),
           db' = db, clean' = clean, want' = want,
           props' = props \/ (calls[i].res = "ok" /\ props' = calls[i].page)
    PROVE  ReadsOnly'
<1>1. ViewsBase /\ Rows' = Rows
  BY SameControl DEF ViewsInv
<1>2. \A k \in DOMAIN calls' : calls'[k].res = "ok" => \E j \in DOMAIN calls : calls'[k] = calls[j]
  BY <1>1, DropKeeps DEF IsRefresh
<1>. QED  BY <1>1, <1>2 DEF ViewsInv, ReadsOnly

(* The page, where the answer changes nothing on it.                       *)
LEMMA DropProps ==
    ASSUME ViewsInv, ctl' = ctl, NEW i \in DOMAIN calls, Dropped(i),
           db' = db, clean' = clean, props' = props,
           calls[i].kind # "refresh", calls[i].kind = "act" => calls[i].res # "ok"
    PROVE  PropsShown'
<1>1. ViewsBase /\ Rows' = Rows
  BY SameControl DEF ViewsInv
<1>2. Coming => Coming'
  BY <1>1, DropKeeps DEF Coming
<1>3. \A r \in Rows : Arriving(r) => Arriving(r)'
  BY <1>1, DropKeeps DEF Arriving, IsRefresh
<1>. QED  BY <1>1, <1>2, <1>3 DEF ViewsInv, PropsShown

(* A row whose shown value and database value do not change, when the call *)
(* taken out was not its executed click.                                   *)
LEMMA DropRow ==
    ASSUME ViewsInv, ctl' = ctl, NEW i \in DOMAIN calls, Dropped(i), NEW r \in Rows,
           db'[r] = db[r], view'[r] = view[r], Shown(r)' = Shown(r),
           ~DoneOn(calls[i], r), ctl.shows = "optimistic" => ~ActOn(calls[i], r), RowShown(r)
    PROVE  RowShown(r)'
<1>1. ViewsBase
  BY DEF ViewsInv
<1>2. (\E k \in DOMAIN calls' : DoneOn(calls'[k], r)) <=> (\E j \in DOMAIN calls : DoneOn(calls[j], r))
  BY <1>1, DropKeeps DEF DoneOn, ActOn, IsRefresh
<1>3. \A k \in DOMAIN calls' : ActOn(calls'[k], r) => \E j \in DOMAIN calls : calls'[k] = calls[j]
  BY <1>1, DropKeeps DEF ActOn, IsRefresh
<1>4. ctl.shows = "optimistic" => \A j \in DOMAIN calls : ActOn(calls[j], r) => \E k \in DOMAIN calls' : calls'[k] = calls[j]
  BY <1>1, DropKeeps
<1>. QED  BY <1>2, <1>3, <1>4 DEF RowShown

(* What every handler of an answer leaves alone.                           *)
DeliverFrame(i) ==
    /\ ctl' = ctl /\ db' = db /\ clicks' = clicks /\ clean' = clean /\ want' = want
    /\ calls' = Rest(i) \/ calls' = Append(Rest(i), Refresh)

(* The parts of the invariant that only depend on the call going away.     *)
LEMMA DeliverCommon ==
    ASSUME ViewsInv, NEW i \in DOMAIN calls, DeliverFrame(i), calls[i].res # "sent",
           props' \in PageType, view' \in PageType, stuck' \in BOOLEAN, away' \in BOOLEAN,
           \/ busy' = busy
           \/ calls[i].kind = "act" /\ busy' = Unmark(calls[i].row)
           \/ ctl.polls = "plan" /\ busy' = {},
           props' = props \/ (calls[i].res = "ok" /\ props' = calls[i].page)
    PROVE  /\ ViewsBase' /\ Serial' /\ OneClick' /\ PagesFresh' /\ ReadsOnly' /\ Chosen'
           /\ Dropped(i) /\ Rows' = Rows
<1>1. ViewsBase /\ Serial /\ ctl' = ctl /\ db' = db /\ clicks' = clicks /\ clean' = clean /\ want' = want
  BY DEF ViewsInv, DeliverFrame
<1>2. CallsOK' /\ Dropped(i)
  BY <1>1, DropCall DEF DeliverFrame
<1>3. Rows' = Rows /\ PageType' = PageType /\ (Removes(ctl)' <=> Removes(ctl))
  BY <1>1, SameControl
<1>4. busy' \subseteq Rows
  BY <1>1 DEF ViewsBase, Unmark
<1>5. ViewsBase'
  BY <1>1, <1>2, <1>3, <1>4 DEF ViewsBase, CallsOK
<1>6. Serial'
  BY <1>1, <1>2, DropSerial
<1>7. OneClick'
  BY <1>1, <1>2, DropOneClick
<1>8. PagesFresh' /\ Chosen'
  BY <1>1, <1>2, DropChosen
<1>9. ReadsOnly'
  BY <1>1, <1>2, DropReads
<1>. QED  BY <1>2, <1>3, <1>5, <1>6, <1>7, <1>8, <1>9

(* Where clicks go through the queue, one call at most has been executed.  *)
LEMMA OneExecuted ==
    ASSUME ViewsInv, ctl.act.via = "queue", NEW i \in DOMAIN calls, calls[i].res # "sent",
           NEW j \in DOMAIN calls, j # i
    PROVE  calls[j].res = "sent"
<1>1. /\ ViewsBase /\ Serial /\ Len(calls) \in Nat /\ DOMAIN calls = 1..Len(calls)
      /\ calls[i].via = "queue" /\ calls[j].via = "queue"
  BY BaseFacts, QueueControl DEF ViewsInv
<1>2. i < j \/ j < i
  BY <1>1
<1>. QED  BY <1>1, <1>2 DEF Serial

(* A refresh.                                                              *)
LEMMA OnRefreshKeeps ==
    ASSUME ViewsInv, NEW i \in DOMAIN calls, OnRefresh(i)
    PROVE  ViewsInv'
<1>0. /\ ViewsBase /\ ControlOK(ctl) /\ CallOK(calls[i]) /\ calls[i].kind = "refresh"
      /\ calls[i].res = "ok"
      /\ props' = calls[i].page /\ view' = (IF ctl.follows THEN calls[i].page ELSE view)
      /\ busy' = busy /\ stuck' = stuck /\ away' = away /\ DeliverFrame(i)
      /\ ctl' = ctl /\ db' = db /\ clean' = clean
  BY BaseFacts DEF ViewsInv, OnRefresh, Render, DeliverFrame
<1>1. props' \in PageType /\ view' \in PageType /\ stuck' \in BOOLEAN /\ away' \in BOOLEAN
  BY <1>0 DEF CallOK, ViewsBase
<1>2. /\ ViewsBase' /\ Serial' /\ OneClick' /\ PagesFresh' /\ ReadsOnly' /\ Chosen'
      /\ Dropped(i) /\ Rows' = Rows
  BY <1>0, <1>1, DeliverCommon
<1>3. PropsShown'
  <2>1. Coming => Coming'
    BY <1>0, <1>2, DropKeeps DEF Coming
  <2>2. \A r \in Rows : Arriving(r) => Arriving(r)'
    BY <1>0, <1>2, DropKeeps DEF Arriving, IsRefresh
  <2>. QED  BY <1>0, <1>2, <2>1, <2>2 DEF ViewsInv, PropsShown
<1>4. ViewShown'
  <2>. SUFFICES ASSUME ctl.shows # "props" \/ (ctl.act.effect = "add" /\ ~away), NEW r \in Rows, clean[r]
       PROVE  RowShown(r)'
    BY <1>0, <1>2 DEF ViewShown
  <2>1. RowShown(r)
    BY DEF ViewsInv, ViewShown
  <2>2. ctl.act.via = "queue"
    BY <1>0 DEF ControlOK, ControlType
  <2>3. calls[i].page[r] = db[r] /\ db[r] \in Nat
    BY <1>0, <2>2 DEF ViewsInv, PagesFresh, ViewsBase, PageType
  <2>4. CASE ctl.shows = "props"
    <3>1. ctl.act.effect = "add" /\ Shown(r)' = db[r]
      BY <1>0, <2>3, <2>4 DEF Shown
    <3>2. \A k \in DOMAIN calls' : ~DoneOn(calls'[k], r)
      BY <1>0, <1>2, <2>2, DropKeeps, OneExecuted DEF DoneOn, ActOn, IsRefresh
    <3>. QED  BY <1>0, <2>3, <3>1, <3>2 DEF RowShown
  <2>5. CASE ctl.shows # "props" /\ ctl.follows
    <3>1. ctl.act.effect # "add" /\ ctl.shows # "optimistic" /\ view'[r] = db[r]
      BY <1>0, <2>3, <2>5 DEF ControlOK
    <3>. QED  BY <1>0, <3>1 DEF RowShown
  <2>6. CASE ctl.shows # "props" /\ ~ctl.follows
    <3>1. view'[r] = view[r] /\ Shown(r)' = Shown(r) /\ ~ActOn(calls[i], r) /\ db'[r] = db[r]
      BY <1>0, <2>6 DEF Shown, ActOn
    <3>. QED  BY <1>0, <1>2, <2>1, <3>1, DropRow DEF DoneOn
  <2>. QED  BY <2>4, <2>5, <2>6
<1>. QED  BY <1>2, <1>3, <1>4 DEF ViewsInv

(* A successful click.                                                     *)
LEMMA OnOkKeeps ==
    ASSUME ViewsInv, NEW i \in DOMAIN calls, OnOk(i)
    PROVE  ViewsInv'
<1>. DEFINE c == calls[i]
            page == IF ctl.act.revalidates THEN c.page ELSE props
<1>0. /\ ViewsBase /\ OneClick /\ ControlOK(ctl) /\ CallOK(c) /\ c \in CallType
      /\ c.kind = "act" /\ c.res = "ok"
      /\ props' = page /\ view' = Applied(IF ctl.follows THEN page ELSE view, c)
      /\ busy' = Unmark(c.row) /\ stuck' = stuck /\ away' = (away \/ ctl.leaves) /\ DeliverFrame(i)
      /\ calls' = IF ctl.refreshes = "no" THEN Rest(i) ELSE Append(Rest(i), Refresh)
      /\ ctl' = ctl /\ db' = db /\ clean' = clean
  BY BaseFacts DEF ViewsInv, OnOk, DeliverFrame
<1>. HIDE DEF c, page
<1>1. c = calls[i] /\ page = IF ctl.act.revalidates THEN c.page ELSE props
  BY DEF c, page
<1>2. c.row \in Rows /\ c.page \in PageType /\ props' \in PageType /\ page \in PageType
  BY <1>0, <1>1 DEF CallOK, CallType, ViewsBase
<1>3. view' \in PageType
  <2>1. c.page[c.row] \in Nat
    BY <1>2 DEF PageType
  <2>2. \A b \in PageType : Applied(b, c) \in PageType
    BY <1>2, <2>1 DEF Applied, PageType
  <2>. QED  BY <1>0, <1>2, <2>2 DEF ViewsBase
<1>4. stuck' \in BOOLEAN /\ away' \in BOOLEAN
  BY <1>0 DEF ViewsBase, ControlOK, ControlType
<1>5. /\ ViewsBase' /\ Serial' /\ OneClick' /\ PagesFresh' /\ ReadsOnly' /\ Chosen'
      /\ Dropped(i) /\ Rows' = Rows
  BY <1>0, <1>1, <1>2, <1>3, <1>4, DeliverCommon
<1>6. PropsShown'
  <2>. SUFFICES ASSUME ctl.shows = "props", ctl.act.effect # "read", NEW r \in Rows, clean[r]
       PROVE  Coming' \/ Arriving(r)'
    BY <1>0, <1>5 DEF PropsShown
  <2>1. CASE ctl.refreshes # "no"
    <3>1. calls' = Append(Rest(i), Refresh) /\ Rest(i) \in Seq(CallType)
      BY <1>0, <2>1, RestCalls
    <3>2. Len(calls') \in DOMAIN calls' /\ calls'[Len(calls')] = Refresh
      BY <3>1
    <3>3. Coming'
      BY <1>0, <3>2, RefreshParts DEF Coming, IsRefresh
    <3>. QED  BY <3>3
  <2>2. CASE ctl.refreshes = "no"
    <3>1. ctl.act.revalidates /\ ctl.act.via = "queue"
      BY <1>0, <2>2 DEF ControlOK, ControlType
    <3>2. props'[r] = db'[r]
      BY <1>0, <1>1, <3>1 DEF ViewsInv, PagesFresh
    <3>3. \A k \in DOMAIN calls' : calls'[k].res = "ok" => calls'[k].page[r] = db'[r]
      BY <1>0, <1>5, <3>1 DEF PagesFresh
    <3>. QED  BY <3>2, <3>3 DEF Arriving
  <2>. QED  BY <2>1, <2>2
<1>7. ViewShown'
  <2>. SUFFICES ASSUME ctl.shows # "props" \/ (ctl.act.effect = "add" /\ ~away'), NEW r \in Rows, clean[r]
       PROVE  RowShown(r)'
    BY <1>0, <1>5 DEF ViewShown
  <2>1. ctl.shows # "props" /\ ctl.act.via = "queue"
    BY <1>0 DEF ControlOK, ControlType
  <2>2. RowShown(r) /\ Shown(r)' = view'[r] /\ Shown(r) = view[r]
    BY <1>0, <2>1 DEF ViewsInv, ViewShown, Shown
  <2>3. c.page[r] = db[r] /\ db[r] \in Nat /\ view[r] \in Nat
    BY <1>0, <1>1, <2>1 DEF ViewsInv, PagesFresh, ViewsBase, PageType
  <2>4. CASE ctl.follows
    <3>1. ctl.act.revalidates /\ ctl.act.effect # "add" /\ ctl.shows # "optimistic"
      BY <1>0, <2>4 DEF ControlOK
    <3>2. view' = [page EXCEPT ![c.row] = c.page[c.row]] /\ page = c.page
      BY <1>0, <1>1, <2>1, <2>4, <3>1 DEF Applied
    <3>3. view'[r] = db[r]
      BY <1>2, <2>3, <3>2 DEF PageType
    <3>. QED  BY <1>0, <3>1, <3>3 DEF RowShown
  <2>5. CASE ~ctl.follows /\ r # c.row
    <3>1. view'[r] = view[r]
      BY <1>0, <1>2, <2>1, <2>5 DEF Applied, ViewsBase, PageType
    <3>2. ~ActOn(calls[i], r)
      BY <1>1, <2>5 DEF ActOn
    <3>. QED  BY <1>0, <1>5, <2>2, <3>1, <3>2, DropRow DEF DoneOn
  <2>6. CASE ~ctl.follows /\ r = c.row
    <3>1. ctl.slot = "own" => \A k \in DOMAIN calls' : ~ActOn(calls'[k], r)
      BY <1>0, <1>1, <1>5, <2>6, DropKeeps DEF OneClick, ActOn, IsRefresh
    <3>2. CASE ctl.act.effect = "add"
      <4>1. view'[r] = view[r] + 1
        BY <1>0, <1>2, <2>1, <2>6, <3>2 DEF Applied, ViewsBase, PageType
      <4>2. DoneOn(calls[i], r)
        BY <1>0, <1>1, <2>6 DEF DoneOn, ActOn
      <4>3. db[r] = view[r] + 1
        BY <2>2, <3>2, <4>2 DEF RowShown
      <4>4. \A k \in DOMAIN calls' : ~DoneOn(calls'[k], r)
        BY <1>0, <3>1, <3>2 DEF DoneOn, ControlOK
      <4>. QED  BY <1>0, <2>2, <2>3, <3>2, <4>1, <4>3, <4>4 DEF RowShown
    <3>3. CASE ctl.act.effect # "add"
      <4>1. view'[r] = db[r]
        BY <1>0, <1>2, <2>1, <2>3, <2>6, <3>3 DEF Applied, ViewsBase, PageType
      <4>2. ctl.shows = "optimistic" => ctl.slot = "own"
        BY <1>0 DEF ControlOK
      <4>. QED  BY <1>0, <3>1, <3>3, <4>1, <4>2 DEF RowShown
    <3>. QED  BY <3>2, <3>3
  <2>. QED  BY <2>4, <2>5, <2>6
<1>. QED  BY <1>5, <1>6, <1>7 DEF ViewsInv

(* A click that fails, with its message or uncaught.                       *)
LEMMA OnFailureKeeps ==
    ASSUME ViewsInv, NEW i \in DOMAIN calls, OnError(i) \/ OnUncaught(i)
    PROVE  ViewsInv'
<1>0. /\ ViewsBase /\ OneClick /\ ControlOK(ctl) /\ CallOK(calls[i]) /\ calls[i] \in CallType
      /\ calls[i].kind = "act" /\ calls[i].res \in {"refused", "lost"}
      /\ props' = props /\ (view' = RollBack(calls[i]) \/ (view' = view /\ calls[i].res = "lost"))
      /\ busy' \in {busy, Unmark(calls[i].row)} /\ away' = away /\ DeliverFrame(i)
      /\ stuck' \in {stuck, TRUE}
      /\ ctl' = ctl /\ db' = db /\ clean' = clean
  BY BaseFacts DEF ViewsInv, OnError, OnUncaught, DeliverFrame
<1>1. calls[i].row \in Rows /\ calls[i].was \in Nat
  BY <1>0 DEF CallType
<1>2. /\ props' \in PageType /\ view' \in PageType /\ stuck' \in BOOLEAN /\ away' \in BOOLEAN
  BY <1>0, <1>1 DEF ViewsBase, PageType, RollBack
<1>3. /\ ViewsBase' /\ Serial' /\ OneClick' /\ PagesFresh' /\ ReadsOnly' /\ Chosen'
      /\ Dropped(i) /\ Rows' = Rows
  BY <1>0, <1>2, DeliverCommon
<1>4. PropsShown'
  BY <1>0, <1>3, DropProps
<1>5. ViewShown'
  <2>. SUFFICES ASSUME ctl.shows # "props" \/ (ctl.act.effect = "add" /\ ~away), NEW r \in Rows, clean[r]
       PROVE  RowShown(r)'
    BY <1>0, <1>3 DEF ViewShown
  <2>1. RowShown(r) /\ ~DoneOn(calls[i], r)
    BY <1>0 DEF ViewsInv, ViewShown, DoneOn
  <2>2. CASE ctl.shows # "optimistic" \/ ~ActOn(calls[i], r)
    <3>1. view'[r] = view[r]
      BY <1>0, <1>1, <2>2 DEF RollBack, ActOn, ViewsBase, PageType
    <3>2. Shown(r)' = Shown(r)
      BY <1>0, <3>1 DEF Shown
    <3>. QED  BY <1>0, <1>3, <2>1, <2>2, <3>1, <3>2, DropRow
  <2>3. CASE ctl.shows = "optimistic" /\ ActOn(calls[i], r)
    <3>1. ctl.slot = "own" /\ ctl.act.effect # "add"
      BY <1>0, <2>3 DEF ControlOK
    <3>2. calls[i].res # "lost" /\ calls[i].was = db[r]
      BY <1>0, <2>1, <2>3, <3>1 DEF RowShown
    <3>3. view'[r] = db[r]
      BY <1>0, <1>1, <2>3, <3>2 DEF RollBack, ActOn, ViewsBase, PageType
    <3>4. \A k \in DOMAIN calls' : ~ActOn(calls'[k], r)
      BY <1>0, <1>3, <2>3, <3>1, DropKeeps DEF OneClick, ActOn, IsRefresh
    <3>. QED  BY <1>0, <2>3, <3>1, <3>3, <3>4 DEF RowShown
  <2>. QED  BY <2>2, <2>3
<1>. QED  BY <1>3, <1>4, <1>5 DEF ViewsInv

(* A row's poll.                                                           *)
LEMMA OnPollKeeps ==
    ASSUME ViewsInv, NEW i \in DOMAIN calls, OnPoll(i)
    PROVE  ViewsInv'
<1>0. /\ ViewsBase /\ ControlOK(ctl) /\ CallOK(calls[i]) /\ calls[i] \in CallType
      /\ calls[i].kind = "poll" /\ calls[i].res # "sent"
      /\ view' = IF calls[i].res = "ok" THEN [view EXCEPT ![calls[i].row] = 1] ELSE view
      /\ props' = props /\ busy' = busy /\ stuck' = stuck /\ away' = away /\ DeliverFrame(i)
      /\ ctl' = ctl /\ db' = db /\ clean' = clean
  BY BaseFacts DEF ViewsInv, OnPoll, DeliverFrame
<1>1. calls[i].row \in Rows /\ ctl.act.effect = "remove"
  BY <1>0 DEF CallType, CallOK, ControlOK
<1>2. /\ props' \in PageType /\ view' \in PageType /\ stuck' \in BOOLEAN /\ away' \in BOOLEAN
  BY <1>0, <1>1 DEF ViewsBase, PageType
<1>3. /\ ViewsBase' /\ Serial' /\ OneClick' /\ PagesFresh' /\ ReadsOnly' /\ Chosen'
      /\ Dropped(i) /\ Rows' = Rows
  BY <1>0, <1>2, DeliverCommon
<1>4. PropsShown'
  BY <1>0, <1>3, DropProps
<1>5. ViewShown'
  <2>. SUFFICES ASSUME ctl.shows # "props", NEW r \in Rows, clean[r]
       PROVE  RowShown(r)'
    BY <1>0, <1>1, <1>3 DEF ViewShown
  <2>1. RowShown(r) /\ ~ActOn(calls[i], r) /\ ctl.act.via = "queue" /\ ctl.shows # "optimistic"
    BY <1>0, <1>1 DEF ViewsInv, ViewShown, ActOn, ControlOK, ControlType
  <2>2. CASE view'[r] = view[r]
    <3>1. Shown(r)' = Shown(r)
      BY <1>0, <2>2 DEF Shown
    <3>. QED  BY <1>0, <1>3, <2>1, <2>2, <3>1, DropRow DEF DoneOn
  <2>3. CASE view'[r] # view[r]
    <3>1. calls[i].res = "ok" /\ r = calls[i].row /\ view'[r] = 1
      BY <1>0, <1>1, <2>3 DEF ViewsBase, PageType
    <3>2. calls[i].page[r] = 1
      BY <1>0, <3>1 DEF CallOK
    <3>3. db[r] = 1
      BY <2>1, <3>1, <3>2 DEF ViewsInv, PagesFresh
    <3>. QED  BY <1>0, <1>1, <2>1, <3>1, <3>3 DEF RowShown
  <2>. QED  BY <2>2, <2>3
<1>. QED  BY <1>3, <1>4, <1>5 DEF ViewsInv

(* An attempt of FinalizingState.                                          *)
LEMMA OnPlanKeeps ==
    ASSUME ViewsInv, NEW i \in DOMAIN calls, OnPlan(i)
    PROVE  ViewsInv'
<1>0. /\ ViewsBase /\ ControlOK(ctl) /\ CallOK(calls[i])
      /\ calls[i].kind = "plan" /\ calls[i].res # "sent"
      /\ view' = view /\ props' = props /\ (busy' = {} \/ busy' = busy)
      /\ stuck' \in BOOLEAN /\ away' \in BOOLEAN /\ DeliverFrame(i) /\ ctl' = ctl
  BY BaseFacts DEF ViewsInv, OnPlan, DeliverFrame
<1>1. ctl.polls = "plan" /\ ctl.act.effect = "read" /\ ctl.shows = "props"
  BY <1>0 DEF CallOK, ControlOK
<1>2. props' \in PageType /\ view' \in PageType
  BY <1>0 DEF ViewsBase
<1>3. /\ ViewsBase' /\ Serial' /\ OneClick' /\ PagesFresh' /\ ReadsOnly' /\ Chosen'
  BY <1>0, <1>1, <1>2, DeliverCommon
<1>4. PropsShown' /\ ViewShown'
  BY <1>0, <1>1 DEF PropsShown, ViewShown
<1>. QED  BY <1>3, <1>4 DEF ViewsInv

-----------------------------------------------------------------------------
(* The theorems.                                                           *)

(* Every control starts in the invariant.                                  *)
LEMMA ViewsStart == ViewsInit => ViewsInv
<1>. SUFFICES ASSUME ViewsInit PROVE ViewsInv
  OBVIOUS
<1>0. /\ ctl \in Controls /\ ControlOK(ctl) /\ calls = <<>> /\ DOMAIN calls = {}
      /\ props = db /\ view = db
      /\ db \in [Rows -> {0, 1}] /\ want = [r \in Rows |-> Unset] /\ clean = [r \in Rows |-> TRUE]
      /\ busy \subseteq Rows /\ stuck = FALSE /\ away = FALSE /\ clicks = 0
  BY ControlsOK DEF ViewsInit
<1>1. ViewsBase
  <2>1. calls \in Seq(CallType)
    BY <1>0
  <2>2. db \in PageType /\ \A r \in Rows : db[r] \in {0, 1}
    BY <1>0 DEF PageType
  <2>3. clean \in [Rows -> BOOLEAN] /\ want \in [Rows -> Nat \cup {Unset}] /\ clicks \in 0..MaxClicks
    BY <1>0
  <2>. QED  BY <1>0, <2>1, <2>2, <2>3 DEF ViewsBase
<1>2. Serial /\ OneClick /\ PagesFresh
  BY <1>0 DEF Serial, OneClick, PagesFresh
<1>3. ReadsOnly
  BY <1>0 DEF ReadsOnly
<1>4. PropsShown
  BY <1>0 DEF PropsShown, Arriving
<1>5. ViewShown
  <2>1. ASSUME NEW r \in Rows PROVE RowShown(r)
    <3>1. Shown(r) = db[r] /\ db[r] \in Nat
      BY <1>0 DEF Shown
    <3>. QED  BY <1>0, <3>1 DEF RowShown
  <2>. QED  BY <2>1 DEF ViewShown
<1>6. Chosen
  BY <1>0 DEF Chosen
<1>. QED  BY <1>1, <1>2, <1>3, <1>4, <1>5, <1>6 DEF ViewsInv

(* Every step keeps it.                                                    *)
LEMMA ViewsStep == ViewsInv /\ [ViewsNext]_viewsVars => ViewsInv'
<1>. SUFFICES ASSUME ViewsInv, [ViewsNext]_viewsVars PROVE ViewsInv'
  OBVIOUS
<1>1. CASE \E r \in Rows : Click(r)
  BY <1>1, ClickKeeps
<1>2. CASE (\E r \in Rows : PollRow(r)) \/ PollPlan
  BY <1>2, PollKeeps
<1>3. CASE \E r \in Rows : Elsewhere(r)
  BY <1>3, ElsewhereKeeps
<1>4. CASE \E i \in DOMAIN calls : Execute(i)
  BY <1>4, Outcomes, ExecutedKeeps, FailedKeeps
<1>5. CASE \E i \in DOMAIN calls : Deliver(i)
  BY <1>5, OnRefreshKeeps, OnOkKeeps, OnFailureKeeps, OnPollKeeps, OnPlanKeeps DEF Deliver
<1>6. CASE UNCHANGED viewsVars
  <2>1. /\ ctl' = ctl /\ db' = db /\ props' = props /\ view' = view /\ busy' = busy
        /\ calls' = calls
        /\ stuck' = stuck /\ away' = away /\ clicks' = clicks /\ clean' = clean /\ want' = want
    BY <1>6 DEF viewsVars
  <2>2. ViewsBase'
    BY <2>1, SameControl DEF ViewsInv, ViewsBase
  <2>3. Serial' /\ OneClick' /\ PagesFresh' /\ ReadsOnly'
    BY <2>1, SameControl DEF ViewsInv, Serial, OneClick, PagesFresh, ReadsOnly
  <2>4. PropsShown'
    BY <2>1, SameControl DEF ViewsInv, PropsShown, Coming, Arriving
  <2>5. ViewShown'
    BY <2>1, SameControl DEF ViewsInv, ViewShown, RowShown, Shown
  <2>6. Chosen'
    BY <2>1, SameControl DEF ViewsInv, Chosen, NextChoice
  <2>. QED  BY <2>2, <2>3, <2>4, <2>5, <2>6 DEF ViewsInv
<1>. QED  BY <1>1, <1>2, <1>3, <1>4, <1>5, <1>6 DEF ViewsNext

(* Where every row's value is while clicks, polls and refreshes of a       *)
(* control are under way, in every behaviour of every control.             *)
THEOREM ViewsInvariant == ViewsSafety => []ViewsInv
BY ViewsStart, ViewsStep, PTL DEF ViewsSafety

(* The state of the controls has the type the components declare: rows,    *)
(* pages and pending marks are of the rows the control has.                *)
THEOREM ViewsTypeCorrect == ViewsSafety => []ViewsTypeOK
<1>1. ViewsInv => ViewsTypeOK
  <2>. SUFFICES ASSUME ViewsInv PROVE ViewsTypeOK
    OBVIOUS
  <2>1. \A i \in DOMAIN calls : calls[i].row \in Rows /\ calls[i].page \in [Rows -> Nat] \cup {Unset}
    BY BaseFacts DEF ViewsInv, CallType, PageType
  <2>. QED  BY <2>1 DEF ViewsInv, ViewsBase, ViewsTypeOK, PageType
<1>. QED  BY <1>1, ViewsInvariant, PTL

(* Once nothing is under way, every row that nobody else wrote since shows *)
(* what the server holds: no order of answers, refusals, refreshes and     *)
(* polls leaves a control showing what was.                                *)
THEOREM OwnWritesShown == ViewsSafety => []ShowsOwnWrite
<1>1. ViewsInv => ShowsOwnWrite
  <2>. SUFFICES ASSUME ViewsInv, calls = <<>>, ~away, NEW r \in Rows, clean[r] PROVE Shown(r) = db[r]
    BY DEF ShowsOwnWrite
  <2>1. DOMAIN calls = {} /\ ControlOK(ctl) /\ ViewsBase
    BY BaseFacts DEF ViewsInv
  <2>2. CASE ctl.act.effect = "read"
    BY <2>1, <2>2 DEF ViewsInv, ReadsOnly, ControlOK, Shown
  <2>3. CASE ctl.shows = "props" /\ ctl.act.effect # "read"
    BY <2>1, <2>3 DEF ViewsInv, PropsShown, Coming, Arriving, Shown
  <2>4. CASE ctl.shows # "props"
    <3>1. RowShown(r) /\ Shown(r) = view[r] /\ view[r] \in Nat
      BY <2>1, <2>4 DEF ViewsInv, ViewShown, Shown, ViewsBase, PageType
    <3>. QED  BY <2>1, <3>1 DEF RowShown
  <2>. QED  BY <2>2, <2>3, <2>4
<1>. QED  BY <1>1, ViewsInvariant, PTL

(* Once nothing is under way, the server holds what the user chose last on *)
(* a row, unless it was refused, lost or overwritten: the queue and the    *)
(* busy marks never let an earlier choice be executed after a later one.   *)
THEOREM LastChoiceHolds == ViewsSafety => []LastChoiceWins
<1>1. ViewsInv => LastChoiceWins
  <2>. SUFFICES ASSUME ViewsInv, calls = <<>>, ctl.act.via = "queue" \/ ctl.slot \in {"own", "all"},
                       NEW r \in Rows, want[r] # Unset, ctl.act.effect = "add" => clean[r]
       PROVE  db[r] = want[r]
    BY DEF LastChoiceWins
  <2>1. DOMAIN calls = {} /\ ControlOK(ctl)
    BY BaseFacts DEF ViewsInv
  <2>2. CASE ctl.act.effect = "read"
    BY <2>2 DEF ViewsInv, ReadsOnly
  <2>3. CASE ctl.act.effect # "read"
    <3>1. ctl.act.via = "queue" \/ ctl.slot = "own"
      BY <2>1, <2>3 DEF ControlOK, ControlType
    <3>. QED  BY <2>1, <2>3, <3>1 DEF ViewsInv, Chosen, NextChoice
  <2>. QED  BY <2>2, <2>3
<1>. QED  BY <1>1, ViewsInvariant, PTL
=============================================================================
