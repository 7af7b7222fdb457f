------------------------------ MODULE DeployGC ------------------------------
(***************************************************************************)
(* The deploy pipeline of one org and the blob garbage collector that runs *)
(* beside it (services/api/internal/handlers, services/api/internal/store).*)
(*                                                                         *)
(* A deploy is four separate requests - prepare, PUT of the missing blobs, *)
(* finalize, publish - and finalize itself is several steps: verify every  *)
(* blob, the version row and its metering, the manifest object, the        *)
(* preview route.  Skill uploads share the blob namespace and the storage  *)
(* ledger but order their steps differently.  The collector snapshots the  *)
(* versions to keep, reads their manifests, lists the blobs, deletes the   *)
(* orphans one at a time and only then releases their ledger rows.  The    *)
(* preset skill of an org is seeded by its first skills request, charged   *)
(* without the cap.  Every step may be followed by a crash.                *)
(*                                                                         *)
(* A manifest is the non-empty set of blobs it references; that set stands *)
(* for the content hash, so (item, manifest) names a version row.  A blob  *)
(* weighs one byte: dedup, quota and refunds depend on which blobs count.  *)
(***************************************************************************)
EXTENDS Integers, FiniteSets

CONSTANTS
    Site,             \* site ids of the org
    Skill,            \* skill ids of the org
    Blob,             \* content addresses (sha256)
    Content,          \* the manifests that are uploaded, as sets of blobs
    Client,           \* concurrent uploaders
    NoItem,           \* the item of an idle client
    Preset,           \* the ids the rows of the preset skill may get
    PresetContent,    \* the preset's manifest (skillseeds)
    UploadWindow,     \* presignTTL plus the longest PUT it may start
    MinAge,           \* GCPolicy.minAge()
    KeepLastN,        \* GCPolicy.KeepLastN
    Cap               \* storageCap of the org's tier

Item == Site \cup Skill
NoContent == {}       \* NULL current_version_id

(* What the deployment relies on.  UploadWindow <= MinAge is the reason     *)
(* DefaultGCMinAge is the presign TTL plus a margin.                       *)
ASSUME DeployAssumption ==
    /\ IsFiniteSet(Blob)
    /\ Content \subseteq (SUBSET Blob) \ {{}}
    /\ Site \cap Skill = {}
    /\ Preset \subseteq Skill /\ PresetContent \in Content
    /\ NoItem \notin Item
    /\ UploadWindow \in Nat /\ MinAge \in Nat /\ UploadWindow <= MinAge
    /\ KeepLastN \in Nat /\ Cap \in Nat

VARIABLES
    blobs,       \* blob objects present under blobs/<org>/
    age,         \* time since their last-modified, up to MinAge + 1
    manifests,   \* manifest objects present, as <<item, content>>
    ledger,      \* app.org_blobs
    storage,     \* app.org_usage.storage_bytes
    live,        \* rows of app.sites and app.skills
    versionNo,   \* version_no of each version row, 0 when there is none
    current,     \* current_version_id of each item
    preview,     \* site_versions.preview_expires_at against the clock
    seeded,      \* org_meta.skills_seeded
    unborn,      \* the preset ids no row has had yet
    req,         \* one upload in progress per client
    gc,          \* the collector's pass in progress
    served       \* history: the blobs being served when the pass selected

r2Vars == <<blobs, age, manifests>>
meterVars == <<ledger, storage>>
seedVars == <<seeded, unborn>>
rowVars == <<live, versionNo, current, preview, seedVars>>
gcVars == <<gc, served>>
vars == <<r2Vars, meterVars, rowVars, req, gcVars>>

IdleReq == [pc |-> "idle", item |-> NoItem, content |-> {}, uploads |-> {}, age |-> 0]
IdleGC == [pc |-> "idle", retained |-> {}, orphans |-> {}, todo |-> {}]

ReqPC == {"idle", "upload", "verified", "create", "conflict", "manifest", "preview", "publish",
          "seedPut", "seedManifest", "seedPublish"}
PreviewState == {"none", "live", "grace"}
GCPC == {"idle", "selected", "deleting"}

Request == [pc : ReqPC, item : Item \cup {NoItem}, content : SUBSET Blob,
            uploads : SUBSET Blob, age : 0..(UploadWindow + 1)]
Pass == [pc : GCPC,
         retained : SUBSET (Item \X Content),   \* versions whose manifest is yet to be read
         orphans : SUBSET Blob,                 \* older than the cutoff, in no manifest read so far
         todo : SUBSET Blob]                    \* the orphans not yet deleted

R2TypeOK ==
    /\ blobs \subseteq Blob
    /\ age \in [Blob -> 0..(MinAge + 1)]
    /\ manifests \subseteq Item \X Content

MeterTypeOK == ledger \subseteq Blob /\ storage \in Nat

RowTypeOK ==
    /\ live \subseteq Item
    /\ versionNo \in [Item -> [Content -> Nat]]
    /\ current \in [Item -> Content \cup {NoContent}]
    /\ preview \in [Item -> [Content -> PreviewState]]
    /\ seeded \in BOOLEAN /\ unborn \subseteq Preset

RequestTypeOK == req \in [Client -> Request]

PassTypeOK == gc \in Pass /\ served \subseteq Blob

(* The type invariant: the counter, which the release subtracts from, never  *)
(* goes below zero.                                                        *)
TypeOK == R2TypeOK /\ MeterTypeOK /\ RowTypeOK /\ RequestTypeOK /\ PassTypeOK

Init ==
    /\ blobs = {}
    /\ age = [b \in Blob |-> 0]
    /\ manifests = {}
    /\ ledger = {}
    /\ storage = 0
    /\ live = Item \ Preset
    /\ versionNo = [i \in Item |-> [m \in Content |-> 0]]
    /\ current = [i \in Item |-> NoContent]
    /\ preview = [i \in Item |-> [m \in Content |-> "none"]]
    /\ seeded = FALSE
    /\ unborn = Preset
    /\ req = [c \in Client |-> IdleReq]
    /\ gc = IdleGC
    /\ served = {}

-----------------------------------------------------------------------------
(* Storage metering.                                                       *)

Bytes(S) == Cardinality(S)

\* Mutant: the cap is compared with the usage before this deploy.
AllowN_Before(n) == storage <= Cap

\* quota.AllowN for storage_bytes_per_org: current + n <= cap.
AllowN(n) == storage + n <= Cap

\* accountStorage refuses the deploy (402, the transaction rolls back).
OverQuota(m) == Bytes(m \ ledger) > 0 /\ ~AllowN(Bytes(m \ ledger))

\* The ledger inserts (ON CONFLICT DO NOTHING) and the counter update of one
\* transaction; the advisory lock it holds makes them one step.
AccountStorage(m) ==
    /\ ~OverQuota(m)
    /\ ledger' = ledger \cup m
    /\ storage' = storage + Bytes(m \ ledger)

\* meterStorageNoCap: the same transaction without the cap, for the presets.
MeterStorageNoCap(m) ==
    /\ ledger' = ledger \cup m
    /\ storage' = storage + Bytes(m \ ledger)

\* Mutant: every deleted blob is refunded, in the ledger or not, with no floor.
ReleaseStorageForBlobs_Unledgered(S) ==
    /\ ledger' = ledger \ S
    /\ storage' = storage - Bytes(S)

\* Mutant: the counter is refunded and the ledger row stays.
ReleaseStorageForBlobs_RowsStay(S) ==
    /\ storage' = storage - Bytes(ledger \cap S)
    /\ UNCHANGED ledger

\* GREATEST(0, storage_bytes - delta) and the DELETE ... RETURNING of each row.
ReleaseStorageForBlobs(S) ==
    LET freed == Bytes(ledger \cap S) IN
    /\ ledger' = ledger \ S
    /\ storage' = IF storage >= freed THEN storage - freed ELSE 0

-----------------------------------------------------------------------------
(* Uploads.  req[c].pc walks the handler's steps; Abort(c) is the client   *)
(* going away or the handler failing or crashing between two of them.      *)

\* Mutant: prepare presigns a PUT for every blob, stored or not.
MissingBlobs_All(m) == m

\* prepareMissingBlobs: HeadBlob says which blobs the org lacks; only those get
\* a presigned PUT, so a blob that is already there keeps its age.
MissingBlobs(m) == m \ blobs

StartUpload(c, i, m) ==
    /\ req[c].pc = "idle"
    /\ i \in live
    /\ req' = [req EXCEPT ![c] = [pc |-> "upload", item |-> i, content |-> m,
                                  uploads |-> MissingBlobs(m), age |-> 0]]
    /\ UNCHANGED <<r2Vars, meterVars, rowVars, gcVars>>

PrepareDeployment(c) == \E s \in Site, m \in Content : StartUpload(c, s, m)

PrepareSkillUpload(c) == \E k \in Skill, m \in Content : StartUpload(c, k, m)

\* The client PUTs one blob while its presigned URL is good.
PutBlob(c) ==
    /\ req[c].pc = "upload"
    /\ req[c].age <= UploadWindow
    /\ \E b \in req[c].uploads :
        /\ blobs' = blobs \cup {b}
        /\ age' = [age EXCEPT ![b] = 0]
    /\ UNCHANGED <<manifests, meterVars, rowVars, req, gcVars>>

\* verifyBlob: the stored object exists (its bytes then hash to its key).
VerifyBlob(b) == b \in blobs

\* verifyManifest, common to both finalize handlers; a missing blob is a 400
\* that leaves the client where it was.
VerifyManifest(c) ==
    /\ req[c].pc = "upload"
    /\ req[c].item \in live
    /\ \A b \in req[c].content : VerifyBlob(b)
    /\ req' = [req EXCEPT ![c] = [pc |-> "verified", item |-> req[c].item, content |-> req[c].content,
                                  uploads |-> {}, age |-> 0]]
    /\ UNCHANGED <<r2Vars, meterVars, rowVars, gcVars>>

HasVersion(i, m) == versionNo[i][m] # 0

\* CreateSiteVersion, the idempotency read: an existing version of this content
\* is returned as it is, and nothing is metered.
LookupSiteVersion(c) ==
    LET i == req[c].item  m == req[c].content IN
    /\ req[c].pc = "verified"
    /\ i \in Site \cap live
    /\ req' = [req EXCEPT ![c].pc = IF HasVersion(i, m) THEN "manifest" ELSE "create"]
    /\ UNCHANGED <<r2Vars, meterVars, rowVars, gcVars>>

\* COALESCE(MAX(version_no), 0) + 1: rows go only with their whole item, so an
\* item's n rows are numbered 1..n.
NextVersionNo(i) ==
    1 + Cardinality({m \in Content : HasVersion(i, m)})

\* CreateSiteVersion, the rest of the transaction.  The idempotency read was
\* before the advisory lock, so a concurrent finalize of the same content may
\* have inserted the row meanwhile: the unique constraint then fails the insert.
InsertSiteVersion(c) ==
    LET i == req[c].item  m == req[c].content IN
    /\ req[c].pc = "create"
    /\ i \in live
    /\ \/ /\ HasVersion(i, m)
          /\ req' = [req EXCEPT ![c].pc = "conflict"]
          /\ UNCHANGED <<meterVars, versionNo>>
       \/ /\ ~HasVersion(i, m)
          /\ AccountStorage(m)
          /\ versionNo' = [versionNo EXCEPT ![i][m] = NextVersionNo(i)]
          /\ req' = [req EXCEPT ![c].pc = "manifest"]
    /\ UNCHANGED <<r2Vars, live, current, preview, seedVars, gcVars>>

\* Mutant: the pointer flip no longer waits for the manifest object.
CreateSkillVersion_PublishFirst(c) ==
    LET i == req[c].item  m == req[c].content IN
    /\ req[c].pc = "verified"
    /\ i \in Skill \cap live
    /\ AccountStorage(m)
    /\ versionNo' = IF HasVersion(i, m) THEN versionNo
                    ELSE [versionNo EXCEPT ![i][m] = NextVersionNo(i)]
    /\ req' = [req EXCEPT ![c].pc = "publish"]
    /\ UNCHANGED <<r2Vars, live, current, preview, seedVars, gcVars>>

\* CreateSkillVersion meters on every path, also when the version exists, and
\* reads the existing version under the lock accountStorage took.
CreateSkillVersion(c) ==
    LET i == req[c].item  m == req[c].content IN
    /\ req[c].pc = "verified"
    /\ i \in Skill \cap live
    /\ AccountStorage(m)
    /\ versionNo' = IF HasVersion(i, m) THEN versionNo
                    ELSE [versionNo EXCEPT ![i][m] = NextVersionNo(i)]
    /\ req' = [req EXCEPT ![c].pc = "manifest"]
    /\ UNCHANGED <<r2Vars, live, current, preview, seedVars, gcVars>>

\* FinalizeDeployment writes the manifest object after the row committed.
PutManifest(c) ==
    /\ req[c].pc = "manifest"
    /\ req[c].item \in Site
    /\ manifests' = manifests \cup {<<req[c].item, req[c].content>>}
    /\ req' = [req EXCEPT ![c].pc = "preview"]
    /\ UNCHANGED <<blobs, age, meterVars, rowVars, gcVars>>

\* FinalizeSkillUpload writes it before the pointer flip.
PutSkillManifest(c) ==
    /\ req[c].pc = "manifest"
    /\ req[c].item \in Skill
    /\ manifests' = manifests \cup {<<req[c].item, req[c].content>>}
    /\ req' = [req EXCEPT ![c].pc = "publish"]
    /\ UNCHANGED <<blobs, age, meterVars, rowVars, gcVars>>

\* CreatePreviewRoute, as far as it concerns the version row.
SetPreview(s, m) ==
    /\ s \in live /\ HasVersion(s, m)
    /\ preview' = [preview EXCEPT ![s][m] = "live"]
    /\ UNCHANGED <<r2Vars, meterVars, live, versionNo, current, seedVars, gcVars>>

\* The last step of FinalizeDeployment; best effort, so Abort is its failure.
RegisterPreview(c) ==
    /\ req[c].pc = "preview"
    /\ SetPreview(req[c].item, req[c].content)
    /\ req' = [req EXCEPT ![c] = IdleReq]

\* PublishSkillVersion, the last step of FinalizeSkillUpload.
PublishSkillVersion(c) ==
    LET i == req[c].item  m == req[c].content IN
    /\ req[c].pc = "publish"
    /\ i \in live
    /\ HasVersion(i, m)
    /\ current' = [current EXCEPT ![i] = m]
    /\ req' = [req EXCEPT ![c] = IdleReq]
    /\ UNCHANGED <<r2Vars, meterVars, live, versionNo, preview, seedVars, gcVars>>

Abort(c) ==
    /\ req[c].pc # "idle"
    /\ req' = [req EXCEPT ![c] = IdleReq]
    /\ UNCHANGED <<r2Vars, meterVars, rowVars, gcVars>>

-----------------------------------------------------------------------------
(* Preset seeding: ensureSkillsSeeded, at the start of a skills request.   *)
(* One preset stands for them all: they are staged in one transaction and  *)
(* published in another.  A failure anywhere is Abort(c), and a later      *)
(* request starts over.                                                    *)

\* SkillsSeeded says the org is not seeded yet.
SeedBegin(c) ==
    /\ req[c].pc = "idle"
    /\ Preset # {} /\ ~seeded
    /\ req' = [req EXCEPT ![c] = [pc |-> "seedPut", item |-> NoItem, content |-> PresetContent,
                                  uploads |-> PresetContent, age |-> 0]]
    /\ UNCHANGED <<r2Vars, meterVars, rowVars, gcVars>>

\* The API PUTs the preset's blobs itself, whether they are stored or not.
SeedPutBlob(c) ==
    /\ req[c].pc = "seedPut"
    /\ \E b \in req[c].uploads :
        /\ blobs' = blobs \cup {b}
        /\ age' = [age EXCEPT ![b] = 0]
        /\ req' = [req EXCEPT ![c].uploads = @ \ {b}]
    /\ UNCHANGED <<manifests, meterVars, rowVars, gcVars>>

\* CreateSeedSkill inserts a row or, when the seed's own row is there, reuses it.
SeedRows == IF Preset \cap live # {} THEN Preset \cap live ELSE unborn

\* SeedOrgSkillsStage, one transaction: the skill and its version, metered but
\* not capped, not live yet.
SeedStage(c) ==
    /\ req[c].pc = "seedPut" /\ req[c].uploads = {}
    /\ ~seeded
    /\ \E p \in SeedRows :
        /\ live' = live \cup {p}
        /\ unborn' = unborn \ {p}
        /\ versionNo' = IF HasVersion(p, PresetContent) THEN versionNo
                        ELSE [versionNo EXCEPT ![p][PresetContent] = 1]
        /\ req' = [req EXCEPT ![c].pc = "seedManifest", ![c].item = p]
    /\ MeterStorageNoCap(PresetContent)
    /\ UNCHANGED <<r2Vars, current, preview, seeded, gcVars>>

\* The same transaction when a user's skill has the preset's slug (nothing is
\* staged), or when the org was seeded meanwhile (nothing is left to do).
SeedStageSkips(c) ==
    /\ req[c].pc = "seedPut" /\ req[c].uploads = {}
    /\ \/ seeded /\ req' = [req EXCEPT ![c] = IdleReq]
       \/ /\ ~seeded
          /\ Preset \cap live = {} /\ (Skill \ Preset) \cap live # {}
          /\ req' = [req EXCEPT ![c].pc = "seedPublish"]
    /\ UNCHANGED <<r2Vars, meterVars, rowVars, gcVars>>

\* PutSkillManifest of the staged version.
SeedPutManifest(c) ==
    /\ req[c].pc = "seedManifest"
    /\ manifests' = manifests \cup {<<req[c].item, req[c].content>>}
    /\ req' = [req EXCEPT ![c].pc = "seedPublish"]
    /\ UNCHANGED <<blobs, age, meterVars, rowVars, gcVars>>

\* SeedOrgSkillsPublish: a no-op when another request has published; a preset
\* deleted since it was staged has no row to update.
SeedPublish(c) ==
    LET p == req[c].item IN
    /\ req[c].pc = "seedPublish"
    /\ current' = IF ~seeded /\ p \in live THEN [current EXCEPT ![p] = req[c].content] ELSE current
    /\ seeded' = TRUE
    /\ req' = [req EXCEPT ![c] = IdleReq]
    /\ UNCHANGED <<r2Vars, meterVars, live, versionNo, preview, unborn, gcVars>>

-----------------------------------------------------------------------------
(* Single-transaction requests on existing versions.                       *)

\* Publish and rollback: any version row of the site may become the live one.
Publish(s, m) ==
    /\ s \in live /\ HasVersion(s, m)
    /\ current' = [current EXCEPT ![s] = m]
    /\ preview' = [preview EXCEPT ![s][m] = "none"]
    /\ UNCHANGED <<r2Vars, meterVars, live, versionNo, seedVars, req, gcVars>>

CreatePreview(s, m) ==
    /\ SetPreview(s, m)
    /\ UNCHANGED req

DeletePreview(s, m) ==
    /\ s \in live /\ HasVersion(s, m)
    /\ preview' = [preview EXCEPT ![s][m] = "none"]
    /\ UNCHANGED <<r2Vars, meterVars, live, versionNo, current, seedVars, req, gcVars>>

\* The rows cascade; blobs, manifests, ledger rows and the counter stay.
DeleteItem(i) ==
    /\ i \in live
    /\ live' = live \ {i}
    /\ versionNo' = [versionNo EXCEPT ![i] = [m \in Content |-> 0]]
    /\ current' = [current EXCEPT ![i] = NoContent]
    /\ preview' = [preview EXCEPT ![i] = [m \in Content |-> "none"]]
    /\ UNCHANGED <<r2Vars, meterVars, seedVars, req, gcVars>>

DeleteSite == \E s \in Site : DeleteItem(s)

DeleteSkill == \E k \in Skill : DeleteItem(k)

-----------------------------------------------------------------------------
(* The collector.                                                          *)

Newest(s, m) ==
    Cardinality({n \in Content : versionNo[s][n] > versionNo[s][m]}) < KeepLastN

\* previewBlobsRetained.
PreviewBlobsRetained(s, m) ==
    preview[s][m] \in {"live", "grace"}

\* Mutant: keep-last-N drops the draft a preview host is serving.
SelectRetained_NoPreviewPass ==
    {v \in Site \X Content :
        HasVersion(v[1], v[2]) /\ (current[v[1]] = v[2] \/ Newest(v[1], v[2]))}

\* selectRetained over ListVersionsForGC.
SelectRetained ==
    {v \in Site \X Content :
        /\ HasVersion(v[1], v[2])
        /\ \/ current[v[1]] = v[2]
           \/ Newest(v[1], v[2])
           \/ PreviewBlobsRetained(v[1], v[2])}

\* ListCurrentSkillVersionsForGC.
SkillRetained == {v \in Skill \X Content : current[v[1]] = v[2]}

\* What a visitor may read now: the live version of an item and a site's
\* versions whose preview deadline has not passed (a superseded preview keeps
\* its deadline although its host is gone, so this errs on the large side).
Serving(i, m) ==
    HasVersion(i, m) /\ (current[i] = m \/ preview[i][m] = "live")

\* The age guard: only a blob last modified before now - minAge may go.
OldEnough(b) == age[b] > MinAge

\* GCOrg step 1, one transaction, and the time gcCollectAndDelete is called with:
\* the cutoff is fixed here, before the manifests are read.  A blob the cutoff
\* lets go is a candidate orphan until a manifest that references it is read.
GCSelect ==
    /\ gc.pc = "idle"
    /\ gc' = [IdleGC EXCEPT !.pc = "selected",
                            !.retained = SelectRetained \cup SkillRetained,
                            !.orphans = {b \in blobs : OldEnough(b)}]
    /\ served' = UNION {v[2] : v \in {w \in manifests : Serving(w[1], w[2])}}
    /\ UNCHANGED <<r2Vars, meterVars, rowVars, req>>

\* One GetManifest; a version without a manifest object (its finalize stopped,
\* or has not got there yet) references nothing.
GCReadManifest ==
    /\ gc.pc = "selected"
    /\ \E v \in gc.retained :
        gc' = [gc EXCEPT !.retained = @ \ {v},
                         !.orphans = IF v \in manifests THEN @ \ v[2] ELSE @]
    /\ UNCHANGED <<r2Vars, meterVars, rowVars, req, served>>

\* ListBlobInfos: what is listed, unreferenced and not written since the cutoff.
GCCollect ==
    /\ gc.pc = "selected" /\ gc.retained = {}
    /\ LET orphans == {b \in blobs \cap gc.orphans : OldEnough(b)} IN
       gc' = [gc EXCEPT !.pc = "deleting", !.orphans = orphans, !.todo = orphans]
    /\ UNCHANGED <<r2Vars, meterVars, rowVars, req, served>>

GCDeleteBlob ==
    /\ gc.pc = "deleting"
    /\ \E b \in gc.todo :
        /\ blobs' = blobs \ {b}
        /\ age' = [age EXCEPT ![b] = 0]
        /\ gc' = [gc EXCEPT !.todo = gc.todo \ {b}]
    /\ UNCHANGED <<manifests, meterVars, rowVars, req, served>>

\* GCOrg step 5, then the pass is over.
GCRelease ==
    /\ gc.pc = "deleting" /\ gc.todo = {}
    /\ ReleaseStorageForBlobs(gc.orphans)
    /\ gc' = IdleGC
    /\ served' = {}
    /\ UNCHANGED <<r2Vars, rowVars, req>>

\* An error or a crash ends the pass anywhere; nothing is undone.  A dry run
\* ends like this before its first delete.
GCAbort ==
    /\ gc.pc # "idle"
    /\ gc' = IdleGC
    /\ served' = {}
    /\ UNCHANGED <<r2Vars, meterVars, rowVars, req>>

\* The preview deadline passes, then PreviewBlobRetention after it: from then
\* on the column protects nothing and reads like NULL.
PreviewLapses(s, m) ==
    /\ preview[s][m] # "none"
    /\ preview' = [preview EXCEPT ![s][m] = IF @ = "live" THEN "grace" ELSE "none"]
    /\ UNCHANGED <<r2Vars, meterVars, live, versionNo, current, seedVars, req, gcVars>>

Older(n, bound) == IF n < bound THEN n + 1 ELSE n

\* Time passes.  An age past the bound it is compared with stays there, so the
\* clock itself is not bounded.
Tick ==
    /\ age' = [b \in Blob |-> IF b \in blobs THEN Older(age[b], MinAge + 1) ELSE 0]
    /\ req' = [c \in Client |->
                 IF req[c].pc = "upload" /\ req[c].uploads # {}
                 THEN [req[c] EXCEPT !.age = Older(@, UploadWindow + 1)] ELSE req[c]]
    /\ UNCHANGED <<blobs, manifests, meterVars, rowVars, gcVars>>

-----------------------------------------------------------------------------
ClientNext(c) ==
    \/ PrepareDeployment(c) \/ PrepareSkillUpload(c)
    \/ PutBlob(c)
    \/ VerifyManifest(c)
    \/ LookupSiteVersion(c) \/ InsertSiteVersion(c) \/ CreateSkillVersion(c)
    \/ PutManifest(c) \/ PutSkillManifest(c)
    \/ RegisterPreview(c) \/ PublishSkillVersion(c)
    \/ Abort(c)

SeedNext(c) ==
    \/ SeedBegin(c) \/ SeedPutBlob(c)
    \/ SeedStage(c) \/ SeedStageSkips(c)
    \/ SeedPutManifest(c) \/ SeedPublish(c)

OwnerNext ==
    \/ \E s \in Site, m \in Content : Publish(s, m) \/ CreatePreview(s, m) \/ DeletePreview(s, m)
    \/ DeleteSite
    \/ DeleteSkill

GCNext ==
    GCSelect \/ GCReadManifest \/ GCCollect \/ GCDeleteBlob \/ GCRelease \/ GCAbort

TimeNext == Tick \/ \E s \in Site, m \in Content : PreviewLapses(s, m)

Next == (\E c \in Client : ClientNext(c) \/ SeedNext(c)) \/ OwnerNext \/ GCNext \/ TimeNext

Spec == Init /\ [][Next]_vars

-----------------------------------------------------------------------------
(* Properties.                                                             *)

\* The running total org_usage.storage_bytes, which the cap is checked against,
\* equals the sum of the org_blobs ledger in every state, whatever deploys,
\* skill uploads and collector passes interleave or crash: dedup never charges
\* twice, a release never refunds what was not charged, and the floor at zero
\* in SubOrgStorage never acts.
CounterMatchesLedger == storage = Bytes(ledger)

\* The counter passes the cap by no more than the bytes of the presets, which
\* meterStorageNoCap charges without looking at it: finalizes of several clients
\* that race for the last bytes, a seeding that fills them and a collector that
\* refunds and may crash never let a deploy or an upload add another byte past
\* it, because the check and the charge are one transaction under the lock.
WithinQuota == storage <= Cap + Bytes(ledger \cap PresetContent)

\* A blob leaves the store only when its last upload is older than the age
\* guard at the moment of the delete, although the guard was evaluated when the
\* blobs were listed: nobody can hold a presigned PUT for a listed orphan.  The
\* presets' blobs are not claimed: seeding writes them itself, and its retry may
\* write one that a pass has already listed as an orphan.
SparesFreshUploads ==
    [][\A b \in (blobs \ blobs') \ PresetContent : OldEnough(b)]_vars

\* What a visitor is being served - the live version of a site or skill, or a
\* preview before its deadline - when a collector pass selects, with its
\* manifest written, keeps every blob through that pass, whatever is
\* published, rolled back or expires before the deletes are done.
ServedContentSurvives ==
    [][served \cap (blobs \ blobs') = {}]_vars

\* A skill never points at a version whose manifest object is missing, in every
\* interleaving of two uploads with crashes: FinalizeSkillUpload flips the
\* pointer only after the manifest is written ("so the GC never sees a current
\* version whose blobs look unreferenced").
LiveSkillHasManifest ==
    \A k \in Skill : current[k] # NoContent => <<k, current[k]>> \in manifests

\* gc.go: "The CURRENT (live) version's blobs are NEVER deleted - it is always
\* retained".  Refuted even when the version's manifest is written and no upload
\* is in progress at the delete: published before its finalize wrote the
\* manifest, the version was retained but referenced nothing.  (A rollback
\* between the selection and the deletes has the same effect.)
LiveBlobsNeverDeleted ==
    [][\A i \in Item : <<i, current[i]>> \in manifests /\ (\A c \in Client : req[c].pc = "idle")
                       => current[i] \cap (blobs \ blobs') = {}]_vars

\* gc.go, of the release that follows the deletes: "the safe direction (never
\* under-counts a tenant)".  Refuted: with no pass in progress, a finalize that
\* has written its manifest has blobs stored but in no ledger row: the pass
\* deleted a blob, the deploy uploaded and charged it again, and the pass then
\* released the ledger row by its hash.
\* (An idempotent re-deploy of collected content has the same effect: the
\* version exists, so CreateSiteVersion meters nothing.)
FinalizedDeployIsMetered ==
    gc.pc = "idle" => \A c \in Client : req[c].pc = "preview"
                       => req[c].content \cap blobs \subseteq ledger
=============================================================================
