-------------------------- MODULE Dashboard_proofs --------------------------
(***************************************************************************)
(* Proofs about the dashboard's other parts and about the whole.           *)
(*                                                                         *)
(* The upload components, for every set of folders and names: the type     *)
(* invariant carries the one fact the others need of the data, that the    *)
(* folder of the confirm state is one that was dropped.                    *)
(*                                                                         *)
(* The widening of an OAuth client's redirect allowlist: AllowlistSound is *)
(* not inductive, because an authorize writes back the list it read,       *)
(* perhaps long ago.  The invariant says that every list still to be       *)
(* written back was sound when it was read, and that the URI to be added   *)
(* was decided over that very list.                                        *)
(*                                                                         *)
(* Last, the composition: a behaviour of the dashboard is one of each part *)
(* (DashParts), so that what is proved of the parts holds of it.           *)
(***************************************************************************)
EXTENDS MCDashboard, DashSession_proofs, DashViews_proofs, TLAPS

-----------------------------------------------------------------------------
(* The upload components.                                                  *)

USE DialogsAssumption

\* Whatever the outcome of an upload, the dialog keeps its shape, provided the
\* id it is given is that of a skill or 0.
LEMMA SettledType ==
    ASSUME DialogsTypeOK, NEW id \in 0..Len(skills), NEW ok \in BOOLEAN, NEW warned \in BOOLEAN
    PROVE  Settled(id, ok, warned) \in
               [open : BOOLEAN, files : Skill \cup {None}, name : Name \cup {None},
                created : 0..Len(skills), uploading : BOOLEAN]
<1>1. CASE ok /\ ~warned
  BY <1>1 DEF DialogsTypeOK, Settled, Reset
<1>2. CASE ~(ok /\ ~warned)
  <2> DEFINE kept == IF id = 0 THEN dialog.created ELSE id
  <2>1. kept \in 0..Len(skills)
    BY DEF DialogsTypeOK
  <2>2. Settled(id, ok, warned) = [dialog EXCEPT !.uploading = FALSE, !.created = kept]
    BY <1>2 DEF Settled
  <2> HIDE DEF kept
  <2> QED BY <2>1, <2>2 DEF DialogsTypeOK
<1> QED BY <1>1, <1>2

\* A step of the drop zone preserves the type invariant.
LEMMA ZoneType == DialogsTypeOK /\ ZoneNext => DialogsTypeOK'
<1> SUFFICES ASSUME DialogsTypeOK, ZoneNext PROVE DialogsTypeOK'
  OBVIOUS
<1> USE DEF DialogsTypeOK, skillVars
<1>1. ASSUME NEW d \in Deploy, OnDrop(d) PROVE DialogsTypeOK'
  BY <1>1 DEF OnDrop
<1>2. ASSUME NEW d \in Deploy, StartDeploy(d) PROVE DialogsTypeOK'
  BY <1>2 DEF StartDeploy, Show, RunDeploy
<1>3. ASSUME NEW d \in Deploy, OnProgress(d) PROVE DialogsTypeOK'
  <2>1. zone' = zone
    BY <1>3 DEF OnProgress
  <2> QED BY <2>1, <1>3 DEF OnProgress
<1>4. ASSUME NEW d \in Deploy, DeployEnds(d) PROVE DialogsTypeOK'
  BY <1>4 DEF DeployEnds, Show
<1>5. ASSUME NEW d \in Deploy, DeployThrows(d) PROVE DialogsTypeOK'
  BY <1>5 DEF DeployThrows
<1>6. CASE ConfirmDeploy
  BY <1>6 DEF ConfirmDeploy, RunDeploy, Show
<1>7. CASE Dismiss
  BY <1>7 DEF Dismiss, Show
<1> QED BY <1>1, <1>2, <1>3, <1>4, <1>5, <1>6, <1>7 DEF ZoneNext

\* A step of the skill dialog preserves it: the skill an upload works on, and
\* the one the dialog remembers, exist.
LEMMA SkillType == DialogsTypeOK /\ SkillNext => DialogsTypeOK'
<1> SUFFICES ASSUME DialogsTypeOK, SkillNext PROVE DialogsTypeOK'
  OBVIOUS
<1> USE DEF DialogsTypeOK, zoneVars, NoUpload
<1>1. CASE OpenDialog
  BY <1>1 DEF OpenDialog
<1>2. CASE StartUpload
  BY <1>2 DEF StartUpload
<1>3. CASE CreateSkill
  <2>1. CASE skills' = Append(skills, up.slug) /\ up' = [up EXCEPT !.pc = "files", !.skill = Len(skills) + 1]
               /\ UNCHANGED dialog
    <3>1. up.slug \in Name
      BY <1>3 DEF CreateSkill
    <3>2. skills' \in Seq(Name) /\ Len(skills') = Len(skills) + 1 /\ Len(skills) \in Nat
      BY <2>1, <3>1
    <3>3. Len(skills) + 1 \in 0..Len(skills') /\ up.skill \in 0..Len(skills')
          /\ dialog.created \in 0..Len(skills')
      BY <3>2
    <3>4. dialog' \in [open : BOOLEAN, files : Skill \cup {None}, name : Name \cup {None},
                      created : 0..Len(skills'), uploading : BOOLEAN]
      BY <2>1, <3>3
    <3>5. up' \in [pc : {"none", "create", "files"}, skill : 0..Len(skills'),
                  slug : Name \cup {None}, files : Skill \cup {None}] /\ up'.slug = up.slug
      BY <2>1, <3>3
    <3> QED BY <1>3, <3>1, <3>2, <3>4, <3>5 DEF CreateSkill
  <2>2. ASSUME NEW i \in IdOf(up.slug), up' = [up EXCEPT !.pc = "files", !.skill = i],
               UNCHANGED <<skills, dialog>>
        PROVE  DialogsTypeOK'
    <3>1. i \in 0..Len(skills)
      BY DEF IdOf
    <3>2. up.slug \in Name
      BY <1>3 DEF CreateSkill
    <3> QED BY <1>3, <2>2, <3>1, <3>2 DEF CreateSkill
  <2>3. CASE up' = NoUpload /\ dialog' = Settled(0, FALSE, FALSE) /\ UNCHANGED skills
    <3>1. 0 \in 0..Len(skills)
      OBVIOUS
    <3> QED BY <1>3, <2>3, <3>1, SettledType DEF CreateSkill
  <2> QED BY <1>3, <2>1, <2>2, <2>3 DEF CreateSkill
<1>4. CASE UploadFiles
  <2>1. PICK ok, warned \in BOOLEAN : dialog' = Settled(up.skill, ok, warned)
    BY <1>4 DEF UploadFiles
  <2>2. up.skill \in 0..Len(skills)
    OBVIOUS
  <2> QED BY <1>4, <2>1, <2>2, SettledType DEF UploadFiles
<1>5. CASE UploadThrows
  BY <1>5 DEF UploadThrows
<1>6. CASE CloseDialog
  BY <1>6 DEF CloseDialog, Reset
<1>7. CASE CancelDialog
  BY <1>7 DEF CancelDialog
<1>8. ASSUME NEW n \in Name, TypeName(n) PROVE DialogsTypeOK'
  BY <1>8 DEF TypeName
<1>9. ASSUME NEW n \in Name, NEW f \in Skill \cup {None}, Accept(f, n) PROVE DialogsTypeOK'
  <2> DEFINE name == IF dialog.name = None THEN n ELSE dialog.name
  <2>1. name \in Name \cup {None} /\ 0 \in 0..Len(skills)
    OBVIOUS
  <2>2. dialog' = [dialog EXCEPT !.files = f, !.created = 0, !.name = name]
        /\ UNCHANGED <<zone, drop, up, skills>>
    BY <1>9 DEF Accept
  <2> HIDE DEF name
  <2> QED BY <2>1, <2>2
<1> QED BY <1>1, <1>2, <1>3, <1>4, <1>5, <1>6, <1>7, <1>8, <1>9 DEF SkillNext

\* The states of the drop zone and of the skill dialog keep their types, and
\* every skill id a dialog or an upload holds is one the org has.
THEOREM DialogsTypeCorrect == DialogsSpec => []DialogsTypeOK
<1>1. DialogsInit => DialogsTypeOK
  BY DEF DialogsInit, DialogsTypeOK, Reset, NoUpload
<1>2. DialogsTypeOK /\ [ZoneNext \/ SkillNext]_dialogsVars => DialogsTypeOK'
  <2>1. DialogsTypeOK /\ UNCHANGED dialogsVars => DialogsTypeOK'
    BY DEF DialogsTypeOK, dialogsVars, zoneVars, skillVars
  <2> QED BY <2>1, ZoneType, SkillType
<1> QED BY <1>1, <1>2, PTL DEF DialogsSpec

\* The drop zone shows a deploy as working only while a deploy runs, or after
\* one was rejected: neither a late report of progress nor a second deploy
\* makes it claim work nobody does.
THEOREM WorkingHasDeploy == DialogsSpec => []WorkingIsRunning
<1>1. DialogsInit => WorkingIsRunning
  BY DEF DialogsInit, WorkingIsRunning
<1>2. DialogsTypeOK /\ WorkingIsRunning /\ [ZoneNext \/ SkillNext]_dialogsVars => WorkingIsRunning'
  <2> SUFFICES ASSUME DialogsTypeOK, WorkingIsRunning, [ZoneNext \/ SkillNext]_dialogsVars
               PROVE  WorkingIsRunning'
    OBVIOUS
  <2> USE DEF WorkingIsRunning
  <2>1. ASSUME NEW d \in Deploy, OnDrop(d) PROVE WorkingIsRunning'
    BY <2>1 DEF OnDrop
  <2>2. ASSUME NEW d \in Deploy, StartDeploy(d) PROVE WorkingIsRunning'
    BY <2>2 DEF StartDeploy, Show, RunDeploy, DialogsTypeOK
  <2>3. ASSUME NEW d \in Deploy, OnProgress(d) PROVE WorkingIsRunning'
    BY <2>3 DEF OnProgress, DialogsTypeOK
  <2>4. ASSUME NEW d \in Deploy, DeployEnds(d) PROVE WorkingIsRunning'
    BY <2>4 DEF DeployEnds, Show
  <2>5. ASSUME NEW d \in Deploy, DeployThrows(d) PROVE WorkingIsRunning'
    BY <2>5 DEF DeployThrows, DialogsTypeOK
  <2>6. CASE ConfirmDeploy
    <3>1. zone.folder \in Deploy
      BY <2>6 DEF ConfirmDeploy, DialogsTypeOK
    <3> QED BY <2>6, <3>1 DEF ConfirmDeploy, RunDeploy, Show, DialogsTypeOK
  <2>7. CASE Dismiss
    BY <2>7 DEF Dismiss, Show
  <2>8. CASE SkillNext \/ UNCHANGED dialogsVars
    <3>1. UNCHANGED zoneVars
      BY <2>8 DEF SkillNext, dialogsVars, OpenDialog, StartUpload, CreateSkill, UploadFiles,
                  UploadThrows, CloseDialog, CancelDialog, TypeName, Accept
    <3> QED BY <3>1 DEF zoneVars
  <2> QED BY <2>1, <2>2, <2>3, <2>4, <2>5, <2>6, <2>7, <2>8 DEF ZoneNext
<1> QED BY <1>1, <1>2, DialogsTypeCorrect, PTL DEF DialogsSpec

\* A running skill upload finds its dialog open and busy, however often the
\* dialog was opened, cancelled and reset, and whatever is dropped meanwhile.
THEOREM UploadKeepsDialog == DialogsSpec => []UploadHasItsDialog
<1>1. DialogsInit => UploadHasItsDialog
  BY DEF DialogsInit, UploadHasItsDialog
<1>2. DialogsTypeOK /\ UploadHasItsDialog /\ [ZoneNext \/ SkillNext]_dialogsVars => UploadHasItsDialog'
  <2> SUFFICES ASSUME DialogsTypeOK, UploadHasItsDialog, [ZoneNext \/ SkillNext]_dialogsVars
               PROVE  UploadHasItsDialog'
    OBVIOUS
  <2> USE DEF UploadHasItsDialog, DialogsTypeOK
  <2>1. CASE OpenDialog
    BY <2>1 DEF OpenDialog
  <2>2. CASE StartUpload
    BY <2>2 DEF StartUpload
  <2>3. CASE CreateSkill
    <3>1. up.pc # NoUpload.pc
      BY <2>3 DEF CreateSkill, NoUpload
    <3>2. dialog.open /\ dialog.uploading
      BY <3>1
    <3> QED BY <2>3, <3>2 DEF CreateSkill
  <2>4. CASE UploadFiles
    BY <2>4 DEF UploadFiles
  <2>5. CASE UploadThrows
    BY <2>5 DEF UploadThrows
  <2>6. CASE CloseDialog
    BY <2>6 DEF CloseDialog
  <2>7. CASE CancelDialog
    BY <2>7 DEF CancelDialog
  <2>8. ASSUME NEW n \in Name, TypeName(n) PROVE UploadHasItsDialog'
    BY <2>8 DEF TypeName
  <2>9. ASSUME NEW n \in Name, NEW f \in Skill \cup {None}, Accept(f, n) PROVE UploadHasItsDialog'
    BY <2>9 DEF Accept
  <2>10. CASE ZoneNext \/ UNCHANGED dialogsVars
    <3>1. UNCHANGED skillVars
      BY <2>10 DEF ZoneNext, dialogsVars, OnDrop, StartDeploy, OnProgress, DeployEnds, DeployThrows,
                   ConfirmDeploy, Dismiss
    <3> QED BY <3>1 DEF skillVars, NoUpload
  <2> QED BY <2>1, <2>2, <2>3, <2>4, <2>5, <2>6, <2>7, <2>8, <2>9, <2>10 DEF SkillNext
<1> QED BY <1>1, <1>2, DialogsTypeCorrect, PTL DEF DialogsSpec

-----------------------------------------------------------------------------
(* The redirect allowlist.                                                 *)

USE OAuthAssumption

\* The list holds what was registered, one callback id per host, and vouched
\* URIs only.
Sound(uris) ==
    /\ Expanded(Registered) \subseteq uris
    /\ \A u, v \in uris :
         u.kind = "callback" /\ v.kind = "callback" /\ u.host = v.host
         /\ u.form # "slash" /\ v.form # "slash" => u.id = v.id \/ {u, v} \subseteq Registered
    /\ \A u \in uris : Vouched(u)

\* The lists under way, and what a request still carries.
AllowInv ==
    /\ OAuthTypeOK
    /\ Sound(allow)
    /\ \A a \in Authorize :
        /\ auth[a].pc \in {"askAgain", "write"} => Sound(auth[a].seen) /\ Adds(auth[a].uri, auth[a].seen)
        /\ auth[a].pc \in {"screen", "code"} => Vouched(auth[a].uri)
    /\ \A p \in redeemed :
         Vouched(p[1]) /\ (p[1] = p[2] \/ (p[1].id = p[2].id /\ p[1].path = p[2].path))

\* An authorize that began under a consent reaches its write only with an id
\* its list had.
ConsentInv ==
    \A a \in Authorize :
        /\ auth[a].late => consent
        /\ auth[a].late /\ auth[a].pc = "write" => ~IsNewCallbackId(auth[a].uri, auth[a].seen)

-----------------------------------------------------------------------------
(* The decisions.                                                          *)

\* What registration stores is the registered URIs and stable callbacks.
LEMMA ExpandedParts ==
    /\ Registered \subseteq Expanded(Registered) /\ Expanded(Registered) \subseteq Uri
    /\ \A u \in Expanded(Registered) :
         \/ u \in Registered
         \/ u.kind = "stable" /\ \E r \in Registered : IsChatgpt(r) /\ u.host = r.host
<1> DEFINE Stable(h) == [kind |-> "stable", host |-> h, id |-> "none", path |-> "none", form |-> "canonical"]
<1>1. \A u : u \in Expanded(Registered) <=>
        u \in Registered \/ \E r \in Registered : IsChatgpt(r) /\ u = Stable(r.host)
  BY DEF Expanded
<1>2. \A r \in Registered : r.host \in Text
  <2> SUFFICES ASSUME NEW r \in Registered PROVE r.host \in Text
    OBVIOUS
  <2>1. r \in [kind : {"stable", "callback", "loopback", "other"}, host : Text, id : Text,
               path : Text, form : {"canonical", "slash", "folded"}]
    BY DEF Uri
  <2> QED BY <2>1
<1>3. \A h \in Text : Stable(h) \in Uri /\ Stable(h).kind = "stable" /\ Stable(h).host = h
  BY DEF Uri
<1> HIDE DEF Stable
<1>4. Registered \subseteq Expanded(Registered)
  BY <1>1
<1>5. ASSUME NEW u \in Expanded(Registered)
      PROVE  /\ u \in Uri
             /\ \/ u \in Registered
                \/ u.kind = "stable" /\ \E r \in Registered : IsChatgpt(r) /\ u.host = r.host
  <2>1. CASE u \in Registered
    BY <2>1
  <2>2. CASE \E r \in Registered : IsChatgpt(r) /\ u = Stable(r.host)
    BY <1>2, <1>3, <2>2
  <2> QED BY <1>1, <2>1, <2>2
<1> QED BY <1>4, <1>5

\* What registration stores is sound.
LEMMA ExpandedSound == Sound(Expanded(Registered))
BY ExpandedParts DEF Sound, Vouched

\* A URI with a sibling in a sound list is vouched for by a registered one.
LEMMA SiblingVouched ==
    ASSUME NEW uris, Sound(uris), NEW u, Adds(u, uris)
    PROVE  Vouched(u)
<1>1. CASE RedirectToRegister(u, uris)
  <2>1. PICK r \in uris : IsChatgpt(r) /\ r.host = u.host
    BY <1>1 DEF RedirectToRegister, SameHost
  <2>2. IsChatgpt(u)
    BY <1>1 DEF RedirectToRegister, Acceptable
  <2>3. Vouched(r)
    BY <2>1 DEF Sound
  <2>4. ~IsLoopback(r)
    BY <2>1 DEF IsLoopback, IsChatgpt
  <2>5. \E q \in Registered : IsChatgpt(q) /\ q.host = r.host
    BY <2>1, <2>3, <2>4, ExpandedParts DEF Vouched
  <2> QED BY <2>1, <2>2, <2>5 DEF Vouched
<1>2. CASE LoopbackToRegister(u, uris)
  <2>1. PICK r \in uris : IsLoopback(r) /\ r.path = u.path
    BY <1>2 DEF LoopbackToRegister
  <2>2. IsLoopback(u)
    BY <1>2 DEF LoopbackToRegister
  <2>3. Vouched(r) /\ ~IsChatgpt(r) /\ r.kind # "stable"
    BY <2>1 DEF Sound, IsLoopback, IsChatgpt
  <2>4. \E q \in Registered : IsLoopback(q) /\ q.path = r.path
    BY <2>1, <2>3, ExpandedParts DEF Vouched
  <2> QED BY <2>1, <2>2, <2>4 DEF Vouched
<1> QED BY <1>1, <1>2 DEF Adds

\* Adding what was decided over a sound list keeps it sound.
LEMMA AddingSound ==
    ASSUME NEW uris, Sound(uris), NEW u, Adds(u, uris)
    PROVE  Sound(uris \cup {u})
<1>1. Vouched(u)
  BY SiblingVouched
<1>2. ASSUME NEW v \in uris, u.kind = "callback", v.kind = "callback", u.host = v.host,
             u.form # "slash", v.form # "slash"
      PROVE  u.id = v.id
  <2>1. RedirectToRegister(u, uris)
    BY <1>2 DEF Adds, LoopbackToRegister, IsLoopback
  <2>2. v \in SameHost(u, uris)
    BY <1>2 DEF SameHost, IsChatgpt
  <2>3. v.id \in Ids(u, uris)
    BY <1>2, <2>2 DEF Ids
  <2> QED BY <1>2, <2>1, <2>3 DEF RedirectToRegister
<1>3. \A v, w \in uris \cup {u} :
        v.kind = "callback" /\ w.kind = "callback" /\ v.host = w.host
        /\ v.form # "slash" /\ w.form # "slash" => v.id = w.id \/ {v, w} \subseteq Registered
  BY <1>2 DEF Sound
<1> QED BY <1>1, <1>3 DEF Sound

-----------------------------------------------------------------------------
(* The invariant.                                                          *)

\* Every step keeps the lists sound.
LEMMA StepAllow ==
    ASSUME AllowInv, [OAuthNext]_oauthVars
    PROVE  AllowInv'
<1> DEFINE AuthType == [pc : {"idle", "ask", "again", "askAgain", "write", "match", "screen", "code", "end"},
                        uri : Uris, seen : SUBSET Uri, late : BOOLEAN]
<1>t. /\ allow \subseteq Uri /\ consent \in BOOLEAN /\ redeemed \subseteq Uri \X Uri
      /\ auth \in [Authorize -> AuthType]
  BY DEF AllowInv, OAuthTypeOK
<1>1. ASSUME NEW a \in Authorize, FindClient(a) PROVE AllowInv'
  <2>1. /\ auth' \in [Authorize -> AuthType] /\ UNCHANGED <<allow, consent, redeemed>>
        /\ \A b \in Authorize \ {a} : auth'[b] = auth[b]
        /\ auth'[a].seen = allow /\ auth'[a].uri = auth[a].uri
        /\ auth'[a].pc \in {"askAgain", "write"} => Adds(auth[a].uri, allow)
        /\ auth'[a].pc \notin {"screen", "code"}
    BY <1>1, <1>t DEF FindClient
  <2> QED BY <2>1 DEF AllowInv, OAuthTypeOK
<1>2. ASSUME NEW a \in Authorize, ClientHasConsent(a) PROVE AllowInv'
  <2>1. /\ auth' \in [Authorize -> AuthType] /\ UNCHANGED <<allow, consent, redeemed>>
        /\ \A b \in Authorize \ {a} : auth'[b] = auth[b]
        /\ auth'[a].seen = auth[a].seen /\ auth'[a].uri = auth[a].uri
        /\ auth'[a].pc \in {"askAgain", "write"} => auth[a].pc = "askAgain"
        /\ auth'[a].pc \notin {"screen", "code"}
    BY <1>2, <1>t DEF ClientHasConsent, Goto
  <2> QED BY <2>1 DEF AllowInv, OAuthTypeOK
<1>3. ASSUME NEW a \in Authorize, UpdateRedirects(a) PROVE AllowInv'
  <2>1. /\ auth' \in [Authorize -> AuthType] /\ UNCHANGED <<consent, redeemed>>
        /\ \A b \in Authorize \ {a} : auth'[b] = auth[b]
        /\ auth'[a].pc = "match"
    BY <1>3, <1>t DEF UpdateRedirects, Goto
  <2>2. Sound(auth[a].seen \cup {auth[a].uri})
    BY <1>3, AddingSound DEF UpdateRedirects, AllowInv
  <2>3. auth[a].seen \cup {auth[a].uri} \subseteq Uri
    BY <1>t
  <2>4. Sound(allow') /\ allow' \subseteq Uri
    BY <1>3, <1>t, <2>2, <2>3 DEF UpdateRedirects, AllowInv
  <2> QED BY <2>1, <2>4 DEF AllowInv, OAuthTypeOK
<1>4. ASSUME NEW a \in Authorize, Match(a) PROVE AllowInv'
  <2>1. /\ auth' \in [Authorize -> AuthType] /\ UNCHANGED <<allow, consent, redeemed>>
        /\ \A b \in Authorize \ {a} : auth'[b] = auth[b]
        /\ auth'[a].uri = auth[a].uri
        /\ auth'[a].pc \notin {"askAgain", "write"}
        /\ auth'[a].pc \in {"screen", "code"} => auth[a].uri \in allow
    BY <1>4, <1>t DEF Match, Goto
  <2>2. auth'[a].pc \in {"screen", "code"} => Vouched(auth'[a].uri)
    BY <2>1 DEF AllowInv, Sound
  <2> QED BY <2>1, <2>2 DEF AllowInv, OAuthTypeOK
<1>5. ASSUME NEW a \in Authorize, Decide(a) PROVE AllowInv'
  <2>1. /\ auth' \in [Authorize -> AuthType] /\ UNCHANGED <<allow, redeemed>> /\ consent' \in BOOLEAN
        /\ \A b \in Authorize \ {a} : auth'[b] = auth[b]
        /\ auth'[a].uri = auth[a].uri /\ auth'[a].pc \in {"code", "end"} /\ auth[a].pc = "screen"
    <3>1. /\ UNCHANGED <<allow, redeemed>> /\ consent' \in BOOLEAN /\ auth[a].pc = "screen"
          /\ Goto(a, "code") \/ Goto(a, "end")
      BY <1>5, <1>t DEF Decide
    <3> QED BY <3>1, <1>t DEF Goto
  <2> QED BY <2>1 DEF AllowInv, OAuthTypeOK
<1>6. ASSUME NEW a \in Authorize, NEW u \in Uris, Token(a, u) PROVE AllowInv'
  <2>1. /\ auth' \in [Authorize -> AuthType] /\ UNCHANGED <<allow, consent>>
        /\ \A b \in Authorize \ {a} : auth'[b] = auth[b]
        /\ auth'[a].pc = "end"
    BY <1>6, <1>t DEF Token, Goto
  <2>2. Vouched(auth[a].uri)
    BY <1>6 DEF Token, AllowInv
  <2>3. \/ redeemed' = redeemed
        \/ /\ redeemed' = redeemed \cup {<<auth[a].uri, u>>}
           /\ auth[a].uri = u \/ (auth[a].uri.id = u.id /\ auth[a].uri.path = u.path)
    BY <1>6 DEF Token, Equivalent
  <2>4. auth[a].uri \in Uri /\ u \in Uri
    BY <1>t
  <2>5. redeemed' \subseteq Uri \X Uri
    BY <1>t, <2>3, <2>4
  <2>6. \A p \in redeemed' :
          Vouched(p[1]) /\ (p[1] = p[2] \/ (p[1].id = p[2].id /\ p[1].path = p[2].path))
    BY <2>2, <2>3 DEF AllowInv
  <2> QED BY <2>1, <2>5, <2>6 DEF AllowInv, OAuthTypeOK
<1>7. CASE UNCHANGED oauthVars
  BY <1>7 DEF oauthVars, AllowInv, OAuthTypeOK
<1> QED BY <1>1, <1>2, <1>3, <1>4, <1>5, <1>6, <1>7 DEF OAuthNext

\* The lists under way stay sound.
LEMMA AllowInvariant == OAuthSpec => []AllowInv
<1>1. OAuthInit => AllowInv
  <2> SUFFICES ASSUME OAuthInit PROVE AllowInv
    OBVIOUS
  <2>1. auth \in [Authorize -> {[pc |-> "idle", uri |-> u, seen |-> {}, late |-> FALSE] : u \in Uris}]
    BY DEF OAuthInit
  <2>2. \A a \in Authorize : auth[a].pc = "idle"
    BY <2>1
  <2>3. OAuthTypeOK
    <3>1. \A a \in Authorize :
            auth[a] \in [pc : {"idle", "ask", "again", "askAgain", "write", "match", "screen", "code", "end"},
                        uri : Uris, seen : SUBSET Uri, late : BOOLEAN]
      <4> SUFFICES ASSUME NEW a \in Authorize
                   PROVE  auth[a] \in [pc : {"idle", "ask", "again", "askAgain", "write", "match", "screen", "code", "end"},
                                      uri : Uris, seen : SUBSET Uri, late : BOOLEAN]
        OBVIOUS
      <4>1. PICK u \in Uris : auth[a] = [pc |-> "idle", uri |-> u, seen |-> {}, late |-> FALSE]
        BY <2>1
      <4> QED BY <4>1
    <3>2. auth \in [Authorize -> [pc : {"idle", "ask", "again", "askAgain", "write", "match", "screen", "code", "end"},
                                 uri : Uris, seen : SUBSET Uri, late : BOOLEAN]]
      BY <2>1, <3>1
    <3>3. allow \subseteq Uri /\ consent \in BOOLEAN /\ redeemed \subseteq Uri \X Uri
      BY ExpandedParts DEF OAuthInit
    <3> QED BY <3>2, <3>3 DEF OAuthTypeOK
  <2> QED BY <2>2, <2>3, ExpandedSound DEF OAuthInit, AllowInv
<1> QED BY <1>1, StepAllow, PTL DEF OAuthSpec

\* The state of the before-hook has its type.
THEOREM OAuthTypeCorrect == OAuthSpec => []OAuthTypeOK
<1>1. AllowInv => OAuthTypeOK
  BY DEF AllowInv
<1> QED BY <1>1, AllowInvariant, PTL

\* However many authorizes overlap and overwrite each other's list, a client's
\* allowlist keeps what was registered and gains only vouched siblings.
THEOREM AllowlistStaysSound == OAuthSpec => []AllowlistSound
<1>1. AllowInv => AllowlistSound
  BY DEF AllowInv, Sound, AllowlistSound
<1> QED BY <1>1, AllowInvariant, PTL

-----------------------------------------------------------------------------
(* Consents.                                                               *)

\* Every step keeps the second look at the consents decisive.
LEMMA StepConsent ==
    ASSUME OAuthTypeOK, ConsentInv, [OAuthNext]_oauthVars
    PROVE  ConsentInv'
<1> DEFINE AuthType == [pc : {"idle", "ask", "again", "askAgain", "write", "match", "screen", "code", "end"},
                        uri : Uris, seen : SUBSET Uri, late : BOOLEAN]
<1>t. consent \in BOOLEAN /\ auth \in [Authorize -> AuthType]
  BY DEF OAuthTypeOK
<1>1. ASSUME NEW a \in Authorize, FindClient(a) PROVE ConsentInv'
  <2>1. /\ UNCHANGED consent /\ \A b \in Authorize \ {a} : auth'[b] = auth[b]
        /\ auth'[a].seen = allow /\ auth'[a].uri = auth[a].uri
        /\ auth'[a].late \in {auth[a].late, consent}
        /\ auth'[a].pc = "write" => ~IsNewCallbackId(auth[a].uri, allow)
    BY <1>1, <1>t DEF FindClient
  <2> QED BY <2>1 DEF ConsentInv
<1>2. ASSUME NEW a \in Authorize, ClientHasConsent(a) PROVE ConsentInv'
  <2>1. /\ UNCHANGED consent /\ \A b \in Authorize \ {a} : auth'[b] = auth[b]
        /\ auth'[a].late = auth[a].late
        /\ auth'[a].pc = "write" => ~consent
    BY <1>2, <1>t DEF ClientHasConsent, Goto
  <2> QED BY <2>1 DEF ConsentInv
<1>3. ASSUME NEW a \in Authorize,
             UpdateRedirects(a) \/ Match(a) \/ Decide(a) \/ \E u \in Uris : Token(a, u)
      PROVE  ConsentInv'
  <2>1. /\ (consent => consent') /\ \A b \in Authorize \ {a} : auth'[b] = auth[b]
        /\ auth'[a].late = auth[a].late /\ auth'[a].pc # "write"
    BY <1>3, <1>t DEF UpdateRedirects, Match, Decide, Token, Goto
  <2> QED BY <2>1 DEF ConsentInv
<1>4. CASE UNCHANGED oauthVars
  BY <1>4 DEF oauthVars, ConsentInv
<1> QED BY <1>1, <1>2, <1>3, <1>4 DEF OAuthNext

\* An authorize that began when somebody had consented adds no new callback id,
\* although the consent is looked up before the list is read for the last time.
THEOREM ConsentedStays == OAuthSpec => ConsentedGainsNoCallback
<1>1. OAuthInit => ConsentInv
  <2> SUFFICES ASSUME OAuthInit PROVE ConsentInv
    OBVIOUS
  <2>1. auth \in [Authorize -> {[pc |-> "idle", uri |-> u, seen |-> {}, late |-> FALSE] : u \in Uris}]
    BY DEF OAuthInit
  <2>2. \A a \in Authorize : auth[a].late = FALSE
    BY <2>1
  <2> QED BY <2>2 DEF ConsentInv
<1>2. ASSUME OAuthTypeOK, ConsentInv, [OAuthNext]_oauthVars
      PROVE  [\A a \in Authorize : auth[a].late /\ auth[a].pc = "write" /\ auth'[a].pc # "write"
          => Ids(auth[a].uri, allow') \subseteq Ids(auth[a].uri, allow \cup auth[a].seen)]_oauthVars
  <2> SUFFICES ASSUME OAuthNext, NEW a \in Authorize, auth[a].late, auth[a].pc = "write",
                      auth'[a].pc # "write"
               PROVE  Ids(auth[a].uri, allow') \subseteq Ids(auth[a].uri, allow \cup auth[a].seen)
    BY <1>2
  <2>1. ~IsNewCallbackId(auth[a].uri, auth[a].seen)
    BY <1>2 DEF ConsentInv
  <2>2. allow' \subseteq allow \cup auth[a].seen \cup {auth[a].uri}
    <3>1. auth \in [Authorize -> [pc : {"idle", "ask", "again", "askAgain", "write", "match", "screen", "code", "end"},
                                  uri : Uris, seen : SUBSET Uri, late : BOOLEAN]]
      BY <1>2 DEF OAuthTypeOK
    <3>2. \A b \in Authorize : UpdateRedirects(b) => b = a
      BY <3>1 DEF UpdateRedirects, Goto
    <3>3. UpdateRedirects(a) => allow' = allow \/ allow' = auth[a].seen \cup {auth[a].uri}
      BY DEF UpdateRedirects
    <3> QED BY <3>2, <3>3 DEF OAuthNext, FindClient, ClientHasConsent, Match, Decide, Token
  <2> DEFINE u == auth[a].uri  s == auth[a].seen
  <2> HIDE DEF u, s
  <2>3. allow' \subseteq allow \cup s \cup {u} /\ ~IsNewCallbackId(u, s)
    BY <2>1, <2>2 DEF u, s
  <2>4. Ids(u, allow') \subseteq Ids(u, allow \cup s)
    <3> SUFFICES ASSUME NEW r \in allow', IsChatgpt(r), r.host = u.host, r.kind = "callback"
                 PROVE  r.id \in Ids(u, allow \cup s)
      BY DEF Ids, SameHost
    <3>1. CASE r \in allow \cup s
      BY <3>1 DEF Ids, SameHost
    <3>2. CASE r = u
      BY <2>3, <3>2 DEF IsNewCallbackId, Ids, SameHost
    <3> QED BY <2>3, <3>1, <3>2
  <2> QED BY <2>4 DEF u, s
<1> QED BY <1>1, <1>2, StepConsent, OAuthTypeCorrect, PTL DEF OAuthSpec, ConsentedGainsNoCallback

-----------------------------------------------------------------------------
(* The dashboard.                                                          *)

(* A behaviour of the dashboard is a behaviour of each of its parts: the   *)
(* part that runs takes its steps, the others rest.                        *)
THEOREM DashParts == Spec => DialogsSpec /\ OAuthSpec /\ SessionSpec /\ ViewsSafety
<1>1. Init => DialogsInit /\ OAuthInit /\ SessionInit /\ ViewsInit
  BY DEF Init
<1>2. [Next]_vars => /\ [ZoneNext \/ SkillNext]_dialogsVars /\ [OAuthNext]_oauthVars
                     /\ [SessionNext]_sessionVars /\ [ViewsNext]_viewsVars
  BY DEF Next, vars
<1>. QED  BY <1>1, <1>2, PTL DEF Spec, DialogsSpec, OAuthSpec, SessionSpec, ViewsSafety

(* Whatever part of the dashboard runs, the state of every part keeps its  *)
(* type.                                                                   *)
THEOREM DashTypeCorrect == Spec => []DashTypeOK
<1>1. DialogsTypeOK /\ OAuthTypeOK /\ SessionTypeOK /\ ViewsTypeOK => DashTypeOK
  BY DEF DashTypeOK
<1>. QED  BY <1>1, DashParts, DialogsTypeCorrect, OAuthTypeCorrect, SessionTypeCorrect,
          ViewsTypeCorrect, PTL
=============================================================================
