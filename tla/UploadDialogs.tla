--------------------------- MODULE UploadDialogs ---------------------------
(***************************************************************************)
(* The two dashboard components that upload a folder.                      *)
(*                                                                         *)
(* DeployDropzone shows one of five states and starts deployFolder.  A     *)
(* dropped folder is read asynchronously, so "not working" may be stale    *)
(* when the deploy starts, and the workers of a failed pool go on and      *)
(* report progress after the outcome.  SkillUploadDialog remembers the     *)
(* skill an attempt created so that the next attempt reuses it; a folder   *)
(* can be dropped while an upload runs.                                    *)
(***************************************************************************)
EXTENDS Naturals, Sequences, FiniteSets

CONSTANTS
    Deploy,       \* folders dropped on the site page
    Skill,        \* folders dropped on the skill dialog
    Name,         \* what may be typed as the skill's name
    None,         \* nothing
    MaxUploads    \* bound on the skill uploads

ASSUME DialogsAssumption == None \notin Skill \cup Name /\ MaxUploads \in Nat

VARIABLES
    zone,         \* the state of DeployDropzone
    drop,         \* each folder dropped: where its deploy is
    dialog,       \* the state of SkillUploadDialog
    up,           \* the running uploadSkillFolder
    skills,       \* the slugs of the org's skills, by id
    uploads       \* history: number of uploads started

zoneVars == <<zone, drop>>
skillVars == <<dialog, up, skills, uploads>>
dialogsVars == <<zoneVars, skillVars>>

Reset == [open |-> FALSE, files |-> None, name |-> None, created |-> 0, uploading |-> FALSE]
NoUpload == [pc |-> "none", skill |-> 0, slug |-> None, files |-> None]

DialogsInit ==
    /\ zone = [status |-> "idle", folder |-> None]
    /\ drop = [d \in Deploy |-> "none"]
    /\ dialog = Reset /\ up = NoUpload /\ skills = <<>> /\ uploads = 0

-----------------------------------------------------------------------------
(* DeployDropzone.                                                         *)

\* Mutant: the files of the confirm state stay behind.
Show_KeepsFiles(status) == zone' = [zone EXCEPT !.status = status]

\* setState: only the confirm state carries a folder.
Show(status) == zone' = [status |-> status, folder |-> None]

\* onDrop and openPicker test "working" before the folder is read.
OnDrop(d) ==
    /\ zone.status = "idle" /\ drop[d] = "none"
    /\ drop' = [drop EXCEPT ![d] = "reading"]
    /\ UNCHANGED <<zone, skillVars>>

RunDeploy(d) == Show("working") /\ drop' = [drop EXCEPT ![d] = "running"]

\* What reading a dropped or picked tree gives: its files relative to the one
\* folder dropped, of which one may be the root's index.html, or a rejection.
CollectFiles == {"nothing", "noIndex", "site", "unreadable"}

\* start: no files is an error, no root index.html asks first.  When a dropped
\* tree cannot be read, nothing is shown.
StartDeploy(d) ==
    /\ drop[d] = "reading"
    /\ \E found \in CollectFiles :
         \/ found = "nothing" /\ Show("error") /\ drop' = [drop EXCEPT ![d] = "ended"]
         \/ /\ found = "noIndex"
            /\ zone' = [status |-> "confirm", folder |-> d]
            /\ drop' = [drop EXCEPT ![d] = "asked"]
         \/ found = "site" /\ RunDeploy(d)
         \/ found = "unreadable" /\ drop' = [drop EXCEPT ![d] = "ended"] /\ UNCHANGED zone
    /\ UNCHANGED skillVars

\* "Deploy anyway".
ConfirmDeploy ==
    /\ zone.status = "confirm"
    /\ RunDeploy(zone.folder)
    /\ UNCHANGED skillVars

\* "Deploy again", "Try again", "Cancel".
Dismiss ==
    /\ zone.status \in {"done", "error", "confirm"}
    /\ Show("idle")
    /\ UNCHANGED <<drop, skillVars>>

\* Mutant: progress always shows the deploy as working.
OnProgress_Unguarded(d) ==
    /\ drop[d] \in {"running", "straggling"}
    /\ Show("working")
    /\ UNCHANGED <<drop, skillVars>>

\* onProgress, from a worker that may have outlived its deploy.
OnProgress(d) ==
    /\ drop[d] \in {"running", "straggling"}
    /\ zone' = IF zone.status = "working" THEN [zone EXCEPT !.status = "working"] ELSE zone
    /\ UNCHANGED <<drop, skillVars>>

\* The outcome; after a failed upload other workers may still run.
DeployEnds(d) ==
    /\ drop[d] = "running"
    /\ \/ Show("done") /\ drop' = [drop EXCEPT ![d] = "ended"]
       \/ Show("error") /\ \E s \in {"ended", "straggling"} : drop' = [drop EXCEPT ![d] = s]
    /\ UNCHANGED skillVars

\* deployFolder rejects: hashing meets a file that changed, or a server action
\* cannot be reached.  Nobody catches it, and the zone goes on showing "working".
DeployThrows(d) ==
    /\ drop[d] = "running"
    /\ drop' = [drop EXCEPT ![d] = "threw"]
    /\ UNCHANGED <<zone, skillVars>>

-----------------------------------------------------------------------------
(* SkillUploadDialog and uploadSkillFolder.                                *)

OpenDialog ==
    /\ ~dialog.open
    /\ dialog' = [dialog EXCEPT !.open = TRUE]
    /\ UNCHANGED <<zoneVars, up, skills, uploads>>

\* accept: "A fresh folder means a fresh skill; drop any id from a prior
\* attempt."  The folder's name is the name if none is typed.  None stands for
\* a folder precheckSkillFolder refuses: it cannot be uploaded.
Accept(f, n) ==
    /\ dialog.open
    /\ dialog' = [dialog EXCEPT !.files = f, !.created = 0,
                                !.name = IF @ = None THEN n ELSE @]
    /\ UNCHANGED <<zoneVars, up, skills, uploads>>

TypeName(n) ==
    /\ dialog.open
    /\ dialog' = [dialog EXCEPT !.name = n]
    /\ UNCHANGED <<zoneVars, up, skills, uploads>>

\* start: the id, the name and the files are those of this moment.
StartUpload ==
    /\ dialog.open /\ ~dialog.uploading /\ dialog.files # None /\ dialog.name # None
    /\ uploads < MaxUploads
    /\ uploads' = uploads + 1
    /\ dialog' = [dialog EXCEPT !.uploading = TRUE]
    /\ up' = [pc |-> IF dialog.created = 0 THEN "create" ELSE "files",
              skill |-> dialog.created, slug |-> dialog.name, files |-> dialog.files]
    /\ UNCHANGED <<zoneVars, skills>>

\* The end of start: the id is remembered when there is one; a success
\* without warnings resets and closes the dialog.
Settled(id, ok, warned) ==
    IF ok /\ ~warned THEN Reset
    ELSE [dialog EXCEPT !.uploading = FALSE,
                        !.created = IF id = 0 THEN @ ELSE id]

IdOf(slug) == {i \in DOMAIN skills : skills[i] = slug}

\* createSkillAction; a taken slug resolves to the skill that has it.
CreateSkill ==
    /\ up.pc = "create"
    /\ \/ /\ IdOf(up.slug) = {}
          /\ skills' = Append(skills, up.slug)
          /\ up' = [up EXCEPT !.pc = "files", !.skill = Len(skills) + 1]
          /\ UNCHANGED dialog
       \/ /\ \E i \in IdOf(up.slug) : up' = [up EXCEPT !.pc = "files", !.skill = i]
          /\ UNCHANGED <<skills, dialog>>
       \/ up' = NoUpload /\ dialog' = Settled(0, FALSE, FALSE) /\ UNCHANGED skills
    /\ UNCHANGED <<zoneVars, uploads>>

\* Prepare, the pool of PUTs and finalize; any of them may fail.
UploadFiles ==
    /\ up.pc = "files"
    /\ \E ok, warned \in BOOLEAN : dialog' = Settled(up.skill, ok, warned)
    /\ up' = NoUpload
    /\ UNCHANGED <<zoneVars, skills, uploads>>

\* uploadSkillFolder rejects, for the same reasons; the dialog stays busy.
UploadThrows ==
    /\ up # NoUpload
    /\ up' = NoUpload
    /\ UNCHANGED <<zoneVars, dialog, skills, uploads>>

\* Mutant: Escape closes the dialog during an upload.
CloseDialog_Anytime ==
    /\ dialog.open
    /\ dialog' = Reset
    /\ UNCHANGED <<zoneVars, up, skills, uploads>>

\* Escape, the cross or a click outside: refused while an upload runs.
CloseDialog ==
    /\ dialog.open /\ ~dialog.uploading
    /\ dialog' = Reset
    /\ UNCHANGED <<zoneVars, up, skills, uploads>>

\* The Cancel button closes without reset.
CancelDialog ==
    /\ dialog.open /\ ~dialog.uploading
    /\ dialog' = [dialog EXCEPT !.open = FALSE]
    /\ UNCHANGED <<zoneVars, up, skills, uploads>>

-----------------------------------------------------------------------------

ZoneNext ==
    \/ \E d \in Deploy : OnDrop(d) \/ StartDeploy(d) \/ OnProgress(d) \/ DeployEnds(d)
                    \/ DeployThrows(d)
    \/ ConfirmDeploy \/ Dismiss

SkillNext ==
    \/ OpenDialog \/ StartUpload \/ CreateSkill \/ UploadFiles \/ UploadThrows
    \/ CloseDialog \/ CancelDialog
    \/ \E n \in Name : TypeName(n) \/ \E f \in Skill \cup {None} : Accept(f, n)

DialogsSpec == DialogsInit /\ [][ZoneNext \/ SkillNext]_dialogsVars

-----------------------------------------------------------------------------
(* Properties.                                                             *)

\* The type invariant: State of the drop zone is a union, of which only
\* "confirm" has files.
DialogsTypeOK ==
    /\ zone \in [status : {"idle", "working", "done", "error"}, folder : {None}]
                \cup [status : {"confirm"}, folder : Deploy]
    /\ drop \in [Deploy -> {"none", "reading", "asked", "running", "straggling", "ended", "threw"}]
    /\ dialog \in [open : BOOLEAN, files : Skill \cup {None}, name : Name \cup {None},
                   created : 0..Len(skills), uploading : BOOLEAN]
    /\ up \in [pc : {"none", "create", "files"}, skill : 0..Len(skills),
               slug : Name \cup {None}, files : Skill \cup {None}]
    /\ up.pc # "none" => up.slug \in Name
    /\ skills \in Seq(Name)

(* The drop zone shows a deploy as working only while one runs, or after   *)
(* one was rejected: not after an outcome is overtaken by the progress of  *)
(* a worker that outlived its deploy, and not when two deploys overlap.    *)
(* What a rejected deploy leaves behind is ZoneUnlocks' subject.           *)
WorkingIsRunning ==
    zone.status = "working" => \E d \in Deploy : drop[d] \in {"running", "threw"}

(* Every deploy has an outcome that unlocks the zone: deployFolder "Never  *)
(* throws, a failure resolves to { ok: false, message }" (deploy.ts).      *)
ZoneUnlocks ==
    zone.status = "working" => \E d \in Deploy : drop[d] = "running"

(* A skill upload always has its dialog: it is open and busy until the     *)
(* outcome arrives, so no second upload starts beside the first and no     *)
(* outcome is lost ("don't tear down mid-upload").                         *)
UploadHasItsDialog ==
    up # NoUpload => dialog.open /\ dialog.uploading
=============================================================================
