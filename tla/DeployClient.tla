---------------------------- MODULE DeployClient ----------------------------
(***************************************************************************)
(* The clients that deploy a folder, and the API they call.                *)
(*                                                                         *)
(* Two programs drive the same protocol: the SDK's Sites.deploy and the    *)
(* dashboard's deployFolder.  Both hash the folder, ask which blobs are    *)
(* missing, upload those with a pool of workers over a shared cursor,      *)
(* finalize the version and publish it.  They differ in what they retry:   *)
(* the SDK's fetchWithRetry repeats a PUT and a finalize after a timeout,  *)
(* a lost answer or a 5xx, and its caller may abort; the dashboard retries *)
(* nothing.  A request the client gave up on goes on at the server.        *)
(***************************************************************************)
EXTENDS Naturals, Sequences, FiniteSets

CONSTANTS
    Client,       \* deploys under way
    Sdk,          \* those the SDK drives; the dashboard drives the others
    Folder,       \* the blobs of the folder each client deploys
    Limit,        \* workers of a pool
    MaxRetries    \* retries of an idempotent request

ASSUME ClientAssumption ==
    /\ Sdk \subseteq Client
    /\ \A c \in Client : Folder[c] # {} /\ IsFiniteSet(Folder[c])
    /\ Limit \in Nat \ {0} /\ MaxRetries \in Nat

Blob == UNION {Folder[c] : c \in Client}

VARIABLES
    cl,           \* the clients
    fin,          \* fin[c][n]: finalize number n of client c, at the server
    pub,          \* pub[c]: the publish of client c, at the server
    blobs,        \* objects the store holds
    rows,         \* site_versions of the site, by version_no: their contents
    manifests,    \* versions whose manifest object is written
    live          \* current_version_id, 0 before the first publish

clientVars == <<cl, fin, pub, blobs, rows, manifests, live>>

IdleClient == [pc |-> "idle", queue |-> {}, flight |-> {}, free |-> 0, tries |-> [b \in Blob |-> 0],
         attempt |-> 0, version |-> 0]
NoRequest == [pc |-> "none", seen |-> 0, answer |-> "none"]

ClientInit ==
    /\ cl = [c \in Client |-> IdleClient]
    /\ fin = [c \in Client |-> [n \in 0..MaxRetries |-> NoRequest]]
    /\ pub = [c \in Client |-> NoRequest]
    /\ blobs = {} /\ rows = <<>> /\ manifests = {} /\ live = 0

-----------------------------------------------------------------------------
(* The requests.                                                           *)

\* fetchWithRetry repeats what the caller marked idempotent, MaxRetries times;
\* prepare and publish are POSTs and are sent once.
MayRetry(c, call, attempt) ==
    c \in Sdk /\ call \in {"put", "finalize"} /\ attempt < MaxRetries

Failed(c) == [cl EXCEPT ![c].pc = "failed"]

\* buildManifest: the hashes of the folder's files, each once.
BuildManifest(c) == Folder[c]

\* Prepare answers with the blobs the store lacks now, or fails; so does the
\* hashing before it.  The pool starts with a worker per item, at most Limit.
Prepare(c) ==
    LET missing == BuildManifest(c) \ blobs
        workers == IF Cardinality(missing) < Limit THEN Cardinality(missing) ELSE Limit IN
    /\ cl[c].pc = "idle"
    /\ \/ cl' = [cl EXCEPT ![c].pc = "upload", ![c].queue = missing, ![c].free = workers]
       \/ cl' = Failed(c)
    /\ UNCHANGED <<fin, pub, blobs, rows, manifests, live>>

-----------------------------------------------------------------------------
(* The pool: runPool of the dashboard, uploadAll of the SDK.               *)

\* A free worker takes the next item.  It does so after another worker's
\* failure too, when the deploy has already ended.
TakeItem(c) ==
    /\ cl[c].pc \in {"upload", "failed"} /\ cl[c].free > 0
    /\ \E b \in cl[c].queue :
         cl' = [cl EXCEPT ![c].queue = @ \ {b}, ![c].flight = @ \cup {b}, ![c].free = @ - 1]
    /\ UNCHANGED <<fin, pub, blobs, rows, manifests, live>>

\* Mutant: a worker swallows its failure and goes on.
PutBlob_Swallows(c, b, stored, answered) ==
    /\ b \in cl[c].flight /\ (answered => stored)
    /\ blobs' = IF stored THEN blobs \cup {b} ELSE blobs
    /\ cl' = IF ~answered /\ MayRetry(c, "put", cl[c].tries[b])
             THEN [cl EXCEPT ![c].tries[b] = @ + 1]
             ELSE [cl EXCEPT ![c].flight = @ \ {b}, ![c].free = @ + 1]
    /\ UNCHANGED <<fin, pub, rows, manifests, live>>

\* Mutant: a failed item goes back on the queue.
PutBlob_Requeues(c, b, stored, answered) ==
    /\ b \in cl[c].flight /\ (answered => stored)
    /\ blobs' = IF stored THEN blobs \cup {b} ELSE blobs
    /\ cl' = [cl EXCEPT ![c].flight = @ \ {b}, ![c].free = @ + 1,
                        ![c].queue = IF answered THEN @ ELSE @ \cup {b}]
    /\ UNCHANGED <<fin, pub, rows, manifests, live>>

\* A PUT.  The object may be stored although the answer is lost.  A failure
\* is retried, or ends this worker and rejects the pool.
PutBlob(c, b, stored, answered) ==
    /\ b \in cl[c].flight /\ (answered => stored)
    /\ blobs' = IF stored THEN blobs \cup {b} ELSE blobs
    /\ cl' = IF answered THEN [cl EXCEPT ![c].flight = @ \ {b}, ![c].free = @ + 1]
             ELSE IF MayRetry(c, "put", cl[c].tries[b]) THEN [cl EXCEPT ![c].tries[b] = @ + 1]
             ELSE [cl EXCEPT ![c].flight = @ \ {b}, ![c].pc = "failed"]
    /\ UNCHANGED <<fin, pub, rows, manifests, live>>

\* Every worker returned: the finalize is sent.
PoolDone(c) ==
    /\ cl[c].pc = "upload" /\ cl[c].queue = {} /\ cl[c].flight = {}
    /\ cl' = [cl EXCEPT ![c].pc = "finalize"]
    /\ fin' = [fin EXCEPT ![c][0].pc = "verify"]
    /\ UNCHANGED <<pub, blobs, rows, manifests, live>>

-----------------------------------------------------------------------------
(* The server's finalize, request n of client c.                           *)

Existing(content) == {i \in DOMAIN rows : rows[i] = content}
Answer(c, n, a) == [fin EXCEPT ![c][n].pc = "answered", ![c][n].answer = a]

\* Whether the client's digest can be the server's.  Both hash the files in the
\* order of their paths: bytes for the SDK and the server, UTF-16 units for the
\* dashboard, whose order may differ when a path has an astral character.
DigestAgrees(c) == IF c \in Sdk THEN {TRUE} ELSE BOOLEAN

\* FinalizeDeployment compares the digests and reads every blob back; then
\* CreateSiteVersion looks for a version of this content.
VerifyManifest(c, n) ==
    /\ fin[c][n].pc = "verify"
    /\ \E agrees \in DigestAgrees(c) :
       fin' = IF ~agrees \/ ~(Folder[c] \subseteq blobs) THEN Answer(c, n, "refused")
                 ELSE IF Existing(Folder[c]) = {} THEN [fin EXCEPT ![c][n].pc = "insert"]
                 ELSE [fin EXCEPT ![c][n].pc = "manifest", ![c][n].seen = CHOOSE i \in Existing(Folder[c]) : TRUE]
    /\ UNCHANGED <<cl, pub, blobs, rows, manifests, live>>

\* Mutant: no unique key on (site, content hash).
CreateSiteVersion_NoKey(c, n) ==
    /\ fin[c][n].pc = "insert"
    /\ rows' = Append(rows, Folder[c])
    /\ fin' = [fin EXCEPT ![c][n].pc = "manifest", ![c][n].seen = Len(rows) + 1]
    /\ UNCHANGED <<cl, pub, blobs, manifests, live>>

\* The rest of CreateSiteVersion: the insert, which the unique key on (site,
\* content hash) refuses when an overlapping request was faster.
CreateSiteVersion(c, n) ==
    /\ fin[c][n].pc = "insert"
    /\ IF Existing(Folder[c]) = {}
       THEN /\ rows' = Append(rows, Folder[c])
            /\ fin' = [fin EXCEPT ![c][n].pc = "manifest", ![c][n].seen = Len(rows) + 1]
       ELSE /\ fin' = Answer(c, n, "error")
            /\ UNCHANGED rows
    /\ UNCHANGED <<cl, pub, blobs, manifests, live>>

\* Mutant: the answer of a known version skips its manifest.
PutManifest_Skips(c, n) ==
    /\ fin[c][n].pc = "manifest"
    /\ \/ manifests' = manifests \cup {fin[c][n].seen}
       \/ UNCHANGED manifests
    /\ fin' = Answer(c, n, "ok")
    /\ UNCHANGED <<cl, pub, blobs, rows, live>>

\* PutManifest and the answer; a known version's manifest is written again.
PutManifest(c, n) ==
    /\ fin[c][n].pc = "manifest"
    /\ manifests' = manifests \cup {fin[c][n].seen}
    /\ fin' = Answer(c, n, "ok")
    /\ UNCHANGED <<cl, pub, blobs, rows, live>>

\* The handler fails, or dies with its client's connection or its process.
FinalizeFails(c, n) ==
    /\ fin[c][n].pc \in {"verify", "insert", "manifest"}
    /\ fin' = Answer(c, n, "error")
    /\ UNCHANGED <<cl, pub, blobs, rows, manifests, live>>

-----------------------------------------------------------------------------
(* The client's side of finalize and publish.                              *)

\* The answer arrives.  A 5xx is retried, a 4xx is not.
Finalized(c) ==
    LET n == cl[c].attempt  r == fin[c][n] IN
    /\ cl[c].pc = "finalize" /\ r.pc = "answered"
    /\ \/ /\ r.answer = "ok"
          /\ cl' = [cl EXCEPT ![c].pc = "publish", ![c].version = r.seen]
          /\ pub' = [pub EXCEPT ![c].pc = "sent", ![c].seen = r.seen]
          /\ UNCHANGED fin
       \/ /\ r.answer = "ok" /\ c \in Sdk      \* publish: false
          /\ cl' = [cl EXCEPT ![c].pc = "done", ![c].version = r.seen]
          /\ UNCHANGED <<fin, pub>>
       \/ /\ r.answer = "error" /\ MayRetry(c, "finalize", n)
          /\ cl' = [cl EXCEPT ![c].attempt = n + 1]
          /\ fin' = [fin EXCEPT ![c][n + 1].pc = "verify"]
          /\ UNCHANGED pub
       \/ /\ r.answer = "refused" \/ (r.answer = "error" /\ ~MayRetry(c, "finalize", n))
          /\ cl' = Failed(c)
          /\ UNCHANGED <<fin, pub>>
    /\ UNCHANGED <<blobs, rows, manifests, live>>

\* The answer does not arrive: the timer of the SDK, a broken connection of
\* the dashboard.  The request is not recalled.
FinalizeLost(c) ==
    LET n == cl[c].attempt IN
    /\ cl[c].pc = "finalize"
    /\ IF MayRetry(c, "finalize", n)
       THEN /\ cl' = [cl EXCEPT ![c].attempt = n + 1]
            /\ fin' = [fin EXCEPT ![c][n + 1].pc = "verify"]
       ELSE /\ cl' = Failed(c)
            /\ UNCHANGED fin
    /\ UNCHANGED <<pub, blobs, rows, manifests, live>>

\* Publish flips the pointer to a version of the site: any, whether or not its
\* manifest is written.
SetCurrentVersion(i) == i \in DOMAIN rows /\ live' = i /\ UNCHANGED <<cl, fin, blobs, rows, manifests>>

\* The publish of a deploy, perhaps after its client left.
PublishSite(c) ==
    /\ pub[c].pc = "sent" /\ SetCurrentVersion(pub[c].seen)
    /\ pub' = [pub EXCEPT ![c].pc = "answered"]

\* Any other caller's: a rollback, or a version read from the site's list.
PublishAny == \E i \in DOMAIN rows : SetCurrentVersion(i) /\ UNCHANGED pub

\* The client learns of it, or reports a failure without knowing.
Published(c) ==
    /\ cl[c].pc = "publish"
    /\ \/ pub[c].pc = "answered" /\ cl' = [cl EXCEPT ![c].pc = "done"]
       \/ cl' = Failed(c)
    /\ UNCHANGED <<fin, pub, blobs, rows, manifests, live>>

\* The caller's signal: every request of this client rejects, no worker
\* takes another item.  A PUT may have been stored all the same.
AbortDeploy(c) ==
    /\ c \in Sdk /\ cl[c].pc \in {"upload", "finalize", "publish"}
    /\ cl' = [cl EXCEPT ![c].pc = "failed", ![c].queue = {}, ![c].flight = {}]
    /\ \E stored \in SUBSET cl[c].flight : blobs' = blobs \cup stored
    /\ UNCHANGED <<fin, pub, rows, manifests, live>>

-----------------------------------------------------------------------------

Transfer(c) == \E b \in Folder[c], s, a \in BOOLEAN : PutBlob(c, b, s, a)
Upload(c) == TakeItem(c) \/ Transfer(c)
Handle(c) ==
    \/ \E n \in 0..MaxRetries :
         VerifyManifest(c, n) \/ CreateSiteVersion(c, n) \/ PutManifest(c, n) \/ FinalizeFails(c, n)
    \/ PublishSite(c)
Learn(c) == Finalized(c) \/ FinalizeLost(c) \/ Published(c)
Proceed(c) == Prepare(c) \/ PoolDone(c) \/ Learn(c)

ClientNext ==
    \/ \E c \in Client : Upload(c) \/ Handle(c) \/ Proceed(c) \/ AbortDeploy(c)
    \/ PublishAny

(* A client takes its own steps.  A request of the SDK settles, by its      *)
(* answer or by the timer fetchWithRetry arms over headers and body.  The   *)
(* dashboard's fetches have no timer and may hang; so may any handler.      *)
Own(c) == TakeItem(c) \/ PoolDone(c)
Settle(c) == Transfer(c) \/ Learn(c)
ClientFairness ==
    /\ \A c \in Client : WF_clientVars(Own(c))
    /\ \A c \in Sdk : WF_clientVars(Settle(c))

ClientSafety == ClientInit /\ [][ClientNext]_clientVars
ClientSpec == ClientSafety /\ ClientFairness

-----------------------------------------------------------------------------
(* Properties.                                                             *)

Request == [pc : {"none", "verify", "insert", "manifest", "sent", "answered"}, seen : Nat,
            answer : {"none", "ok", "refused", "error"}]

\* The type invariant.
ClientTypeOK ==
    /\ cl \in [Client -> [pc : {"idle", "upload", "finalize", "publish", "done", "failed"},
                 queue : SUBSET Blob, flight : SUBSET Blob, free : 0..Limit,
                 tries : [Blob -> 0..MaxRetries], attempt : 0..MaxRetries, version : Nat]]
    /\ fin \in [Client -> [0..MaxRetries -> Request]] /\ pub \in [Client -> Request]
    /\ blobs \subseteq Blob /\ rows \in Seq(SUBSET Blob)
    /\ manifests \subseteq Nat /\ live \in 0..Len(rows)

(* "finalize - idempotent by content hash, so it is safe to retry": however *)
(* retries, late attempts and other clients' deploys of the same folder     *)
(* overlap, one content has one version.                                    *)
RetriesMakeOneVersion ==
    \A i, j \in DOMAIN rows : rows[i] = rows[j] => i = j

(* A version a deploy was answered with, and so the one it publishes, can  *)
(* be served: its manifest object is written and all its blobs are stored, *)
(* although row and manifest are two writes of a handler that can fail     *)
(* between them, and a retry may meet a half-made version of its own or of *)
(* another client.  A row nobody was answered with has no such promise,    *)
(* and Publish accepts it.                                                 *)
AnsweredIsServable ==
    \A c \in Client : \A v \in {cl[c].version, pub[c].seen} \ {0} :
        v \in manifests /\ rows[v] \subseteq blobs

(* A deploy that succeeded made a version of exactly the folder it was     *)
(* given, and a deploy whose pool lost a file never sent a finalize.       *)
SuccessIsOwnFolder ==
    \A c \in Client :
        /\ cl[c].version # 0 => rows[cl[c].version] = Folder[c]
        /\ fin[c][0].pc # "none" => cl[c].flight = {} /\ cl[c].queue = {} /\ Folder[c] \subseteq blobs

(* Every deploy the SDK began ends, with a version or with an error,        *)
(* however the network and the API behave; one of the dashboard, if its     *)
(* requests do not hang: there is always a later moment when none is out.   *)
Waiting(c) == cl[c].flight # {} \/ cl[c].pc \in {"finalize", "publish"}
Ends(c) == cl[c].pc # "idle" ~> cl[c].pc \in {"done", "failed"}
DeploysEnd ==
    /\ \A c \in Sdk : Ends(c)
    /\ \A c \in Client \ Sdk : []<>~Waiting(c) => Ends(c)
=============================================================================
