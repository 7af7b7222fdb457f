------------------------- MODULE DeployClient_proofs -------------------------
(***************************************************************************)
(* Proofs about the clients that deploy a folder: one content has one      *)
(* version, what is answered can be served, and a success is a version of  *)
(* the client's own folder, for any number of clients, files, workers and      *)
(* retries.                                                                *)
(*                                                                         *)
(* The invariant follows a blob from the folder to the version: what is    *)
(* neither queued nor in flight is stored; a finalize past its check has   *)
(* its whole folder stored; one past its insert names a row of that        *)
(* folder; an answered one names a manifest, and so does a publish.        *)
(*                                                                         *)
(* Last, the composition: a behaviour of MCDelivery is one of each part    *)
(* (DeliveryParts).                                                        *)
(***************************************************************************)
EXTENDS MCDelivery, RouteProjection_proofs, FiniteSetTheorems, TLAPS

USE ClientAssumption

Cl == [pc : {"idle", "upload", "finalize", "publish", "done", "failed"},
       queue : SUBSET Blob, flight : SUBSET Blob, free : Nat,
       tries : [Blob -> 0..MaxRetries], attempt : 0..MaxRetries, version : Nat]

BaseType ==
    /\ cl \in [Client -> Cl]
    /\ fin \in [Client -> [0..MaxRetries -> Request]] /\ pub \in [Client -> Request]
    /\ blobs \subseteq Blob /\ rows \in Seq(SUBSET Blob)
    /\ manifests \subseteq Nat /\ live \in Nat

\* The pool has at most Limit workers, each free or with one PUT.
PoolInv ==
    \A c \in Client :
        /\ cl[c].queue \subseteq Folder[c] /\ cl[c].flight \subseteq Folder[c]
        /\ cl[c].pc = "idle" => cl[c].queue = {} /\ cl[c].flight = {}
        /\ cl[c].free + Cardinality(cl[c].flight) <= Limit

\* What is neither queued nor in flight is stored, and a finalize follows a
\* whole upload; the attempts after the current one are not sent.
UploadInv ==
    \A c \in Client :
        /\ cl[c].pc = "upload" => Folder[c] \ (cl[c].queue \cup cl[c].flight) \subseteq blobs
        /\ fin[c][0].pc # "none" =>
             /\ cl[c].pc \notin {"idle", "upload"}
             /\ cl[c].queue = {} /\ cl[c].flight = {} /\ Folder[c] \subseteq blobs
        /\ \A n \in 0..MaxRetries : n > cl[c].attempt => fin[c][n].pc = "none"

\* The version a request names is one of this client's folder.
Named(rs, i, c) == i \in DOMAIN rs /\ rs[i] = Folder[c]

\* Versions are of stored blobs and one per content; what requests and clients
\* carry of them.
VersionInv ==
    /\ \A i \in DOMAIN rows : rows[i] \subseteq blobs
    /\ RetriesMakeOneVersion
    /\ manifests \subseteq DOMAIN rows
    /\ \A c \in Client, n \in 0..MaxRetries :
        /\ fin[c][n].answer # "none" => fin[c][n].pc = "answered"
        /\ fin[c][n].pc = "insert" => Folder[c] \subseteq blobs
        /\ fin[c][n].pc = "manifest" => Named(rows, fin[c][n].seen, c)
        /\ fin[c][n].answer = "ok" => Named(rows, fin[c][n].seen, c) /\ fin[c][n].seen \in manifests
    /\ \A c \in Client :
        /\ cl[c].version # 0 => Named(rows, cl[c].version, c) /\ cl[c].version \in manifests
        /\ pub[c].pc # "none" \/ pub[c].seen # 0 => pub[c].seen \in manifests
    /\ live # 0 => live \in DOMAIN rows

-----------------------------------------------------------------------------
(* What each action does to the records.                                   *)

\* A folder's blobs are blobs, finitely many.
LEMMA FolderBlobs ==
    \A c \in Client : Folder[c] \subseteq Blob /\ IsFiniteSet(Folder[c])
BY DEF Blob

\* Only the record of client c changes.
Only(c) == \A d \in Client : d # c => cl'[d] = cl[d]
\* Only request n of client c changes.
OnlyFin(c, n) ==
    \A d \in Client, m \in 0..MaxRetries : d # c \/ m # n => fin'[d][m] = fin[d][m]

\* Prepare.
LEMMA PrepareParts ==
    ASSUME BaseType, NEW c \in Client, Prepare(c)
    PROVE  /\ cl' \in [Client -> Cl] /\ Only(c) /\ cl[c].pc = "idle"
           /\ UNCHANGED <<fin, pub, blobs, rows, manifests, live>>
           /\ cl'[c].flight = cl[c].flight
           /\ cl'[c].attempt = cl[c].attempt /\ cl'[c].version = cl[c].version
           /\ \/ cl'[c].pc = "failed" /\ cl'[c].queue = cl[c].queue /\ cl'[c].free = cl[c].free
              \/ cl'[c].pc = "upload" /\ cl'[c].queue = Folder[c] \ blobs /\ cl'[c].free <= Limit
<1> DEFINE missing == BuildManifest(c) \ blobs
           workers == IF Cardinality(missing) < Limit THEN Cardinality(missing) ELSE Limit
<1>1. missing = Folder[c] \ blobs /\ missing \in SUBSET Blob /\ IsFiniteSet(missing)
  BY FolderBlobs, FS_Subset DEF BuildManifest
<1>2. Cardinality(missing) \in Nat
  BY <1>1, FS_CardinalityType
<1>3. workers \in Nat /\ workers <= Limit
  BY <1>2
<1>4. cl \in [Client -> Cl]
  BY DEF BaseType
<1>5. /\ cl[c].pc = "idle" /\ UNCHANGED <<fin, pub, blobs, rows, manifests, live>>
      /\ \/ cl' = [cl EXCEPT ![c].pc = "upload", ![c].queue = missing, ![c].free = workers]
         \/ cl' = [cl EXCEPT ![c].pc = "failed"]
  BY DEF Prepare, Failed
<1> HIDE DEF missing, workers
<1>6. CASE cl' = [cl EXCEPT ![c].pc = "failed"]
  BY <1>4, <1>5, <1>6 DEF Cl, Only
<1>7. CASE cl' = [cl EXCEPT ![c].pc = "upload", ![c].queue = missing, ![c].free = workers]
  <2>1. cl' = [cl EXCEPT ![c] = [cl[c] EXCEPT !.pc = "upload", !.queue = missing, !.free = workers]]
    BY <1>7
  <2>2. cl'[c] = [cl[c] EXCEPT !.pc = "upload", !.queue = missing, !.free = workers] /\ Only(c)
    BY <1>4, <2>1 DEF Only
  <2>3. [cl[c] EXCEPT !.pc = "upload", !.queue = missing, !.free = workers] \in Cl
    BY <1>1, <1>3, <1>4 DEF Cl
  <2>4. cl' \in [Client -> Cl]
    BY <1>4, <2>1, <2>3
  <2>5. /\ cl'[c].flight = cl[c].flight /\ cl'[c].attempt = cl[c].attempt
        /\ cl'[c].version = cl[c].version /\ cl'[c].pc = "upload"
        /\ cl'[c].queue = missing /\ cl'[c].free = workers
    BY <1>4, <2>2 DEF Cl
  <2> QED BY <1>1, <1>3, <1>5, <2>2, <2>4, <2>5
<1> QED BY <1>5, <1>6, <1>7

\* TakeItem.
LEMMA TakeParts ==
    ASSUME BaseType, NEW c \in Client, TakeItem(c)
    PROVE  /\ cl' \in [Client -> Cl] /\ Only(c) /\ cl[c].pc \in {"upload", "failed"} /\ cl[c].free > 0
           /\ UNCHANGED <<fin, pub, blobs, rows, manifests, live>>
           /\ cl'[c].attempt = cl[c].attempt /\ cl'[c].version = cl[c].version
           /\ cl'[c].pc = cl[c].pc /\ cl'[c].free = cl[c].free - 1
           /\ \E b \in cl[c].queue :
                cl'[c].queue = cl[c].queue \ {b} /\ cl'[c].flight = cl[c].flight \cup {b}
<1>1. cl \in [Client -> Cl]
  BY DEF BaseType
<1>2. PICK b \in cl[c].queue :
        cl' = [cl EXCEPT ![c].queue = @ \ {b}, ![c].flight = @ \cup {b}, ![c].free = @ - 1]
  BY DEF TakeItem
<1>3. /\ cl[c].pc \in {"upload", "failed"} /\ cl[c].free > 0
      /\ UNCHANGED <<fin, pub, blobs, rows, manifests, live>>
  BY DEF TakeItem
<1>4. cl[c].free - 1 \in Nat /\ b \in Blob
  BY <1>1, <1>2, <1>3 DEF Cl
<1> QED BY <1>1, <1>2, <1>3, <1>4 DEF Cl, Only

\* PutBlob.
LEMMA PutParts ==
    ASSUME BaseType, NEW c \in Client, NEW b \in Folder[c], NEW s \in BOOLEAN, NEW a \in BOOLEAN,
           PutBlob(c, b, s, a)
    PROVE  /\ cl' \in [Client -> Cl] /\ Only(c) /\ b \in cl[c].flight
           /\ blobs' = (IF s THEN blobs \cup {b} ELSE blobs)
           /\ UNCHANGED <<fin, pub, rows, manifests, live>>
           /\ cl'[c].attempt = cl[c].attempt /\ cl'[c].version = cl[c].version
           /\ cl'[c].queue = cl[c].queue
           /\ \/ /\ cl'[c].pc = cl[c].pc /\ cl'[c].flight = cl[c].flight \ {b}
                 /\ cl'[c].free = cl[c].free + 1 /\ s
              \/ cl'[c].pc = cl[c].pc /\ cl'[c].flight = cl[c].flight /\ cl'[c].free = cl[c].free
              \/ cl'[c].pc = "failed" /\ cl'[c].flight = cl[c].flight \ {b} /\ cl'[c].free = cl[c].free
<1>1. cl \in [Client -> Cl]
  BY DEF BaseType
<1>2. b \in Blob
  BY FolderBlobs
<1>3. /\ b \in cl[c].flight /\ (a => s) /\ UNCHANGED <<fin, pub, rows, manifests, live>>
      /\ blobs' = (IF s THEN blobs \cup {b} ELSE blobs)
  BY DEF PutBlob
<1>4. CASE a /\ cl' = [cl EXCEPT ![c].flight = @ \ {b}, ![c].free = @ + 1]
  BY <1>1, <1>2, <1>3, <1>4 DEF Cl, Only
<1>5. CASE /\ cl[c].tries[b] < MaxRetries
           /\ cl' = [cl EXCEPT ![c].tries[b] = @ + 1]
  <2>1. cl[c].tries[b] + 1 \in 0..MaxRetries
    BY <1>1, <1>2, <1>5 DEF Cl
  <2>2. [cl[c].tries EXCEPT ![b] = cl[c].tries[b] + 1] \in [Blob -> 0..MaxRetries]
    BY <1>1, <2>1 DEF Cl
  <2>3. cl' = [cl EXCEPT ![c] = [cl[c] EXCEPT !.tries = [cl[c].tries EXCEPT ![b] = cl[c].tries[b] + 1]]]
    BY <1>5
  <2> QED BY <1>1, <1>3, <2>2, <2>3, ZenonT(30) DEF Cl, Only
<1>6. CASE cl' = [cl EXCEPT ![c].flight = @ \ {b}, ![c].pc = "failed"]
  BY <1>1, <1>2, <1>3, <1>6, ZenonT(30) DEF Cl, Only
<1> QED BY <1>4, <1>5, <1>6 DEF PutBlob, MayRetry

\* A handler's step on request n of client c.
LEMMA FinStep ==
    ASSUME BaseType, NEW c \in Client, NEW n \in 0..MaxRetries, NEW r \in Request,
           fin' = [fin EXCEPT ![c] = [fin[c] EXCEPT ![n] = r]]
    PROVE  fin' \in [Client -> [0..MaxRetries -> Request]] /\ OnlyFin(c, n) /\ fin'[c][n] = r
BY DEF BaseType, OnlyFin

\* The server's first look at a finalize.
LEMMA VerifyParts ==
    ASSUME BaseType, NEW c \in Client, NEW n \in 0..MaxRetries, VerifyManifest(c, n)
    PROVE  /\ fin' \in [Client -> [0..MaxRetries -> Request]] /\ OnlyFin(c, n)
           /\ fin[c][n].pc = "verify" /\ UNCHANGED <<cl, pub, blobs, rows, manifests, live>>
           /\ \/ fin'[c][n].pc = "answered" /\ fin'[c][n].answer = "refused"
              \/ fin'[c][n].pc = "insert" /\ fin'[c][n].answer = fin[c][n].answer /\ Folder[c] \subseteq blobs
              \/ fin'[c][n].pc = "manifest" /\ fin'[c][n].answer = fin[c][n].answer
                 /\ Named(rows, fin'[c][n].seen, c)
<1>1. fin[c][n] \in Request
  BY DEF BaseType
<1>2. fin[c][n].pc = "verify" /\ UNCHANGED <<cl, pub, blobs, rows, manifests, live>>
  BY DEF VerifyManifest
<1>3. CASE fin' = Answer(c, n, "refused")
  <2> DEFINE q == [fin[c][n] EXCEPT !.pc = "answered", !.answer = "refused"]
  <2>1. fin' = [fin EXCEPT ![c] = [fin[c] EXCEPT ![n] = q]]
    BY <1>3 DEF Answer, BaseType
  <2>2. q \in Request /\ q.pc = "answered" /\ q.answer = "refused"
    BY <1>1 DEF Request
  <2> HIDE DEF q
  <2> QED BY <1>2, <2>1, <2>2, FinStep, ZenonT(30)
<1>4. CASE Folder[c] \subseteq blobs /\ fin' = [fin EXCEPT ![c][n].pc = "insert"]
  <2> DEFINE q == [fin[c][n] EXCEPT !.pc = "insert"]
  <2>1. fin' = [fin EXCEPT ![c] = [fin[c] EXCEPT ![n] = q]]
    BY <1>4 DEF BaseType
  <2>2. q \in Request /\ q.pc = "insert" /\ q.answer = fin[c][n].answer
    BY <1>1 DEF Request
  <2> HIDE DEF q
  <2>3. fin'[c][n] = q /\ fin' \in [Client -> [0..MaxRetries -> Request]] /\ OnlyFin(c, n)
    BY <2>1, <2>2, FinStep
  <2> QED BY <1>2, <1>4, <2>2, <2>3
<1>5. CASE /\ Existing(Folder[c]) # {}
           /\ fin' = [fin EXCEPT ![c][n].pc = "manifest", ![c][n].seen = CHOOSE i \in Existing(Folder[c]) : TRUE]
  <2> DEFINE k == CHOOSE i \in Existing(Folder[c]) : TRUE
             q == [fin[c][n] EXCEPT !.pc = "manifest", !.seen = k]
  <2>1. fin' = [fin EXCEPT ![c] = [fin[c] EXCEPT ![n] = q]]
    BY <1>5 DEF BaseType
  <2>2. k \in Existing(Folder[c])
    BY <1>5
  <2> HIDE DEF k
  <2>3. Named(rows, k, c) /\ k \in Nat
    BY <2>2 DEF Existing, Named, BaseType
  <2>4. q \in Request /\ q.pc = "manifest" /\ q.answer = fin[c][n].answer /\ q.seen = k
    BY <1>1, <2>3 DEF Request
  <2> HIDE DEF q
  <2>5. fin'[c][n] = q /\ fin' \in [Client -> [0..MaxRetries -> Request]] /\ OnlyFin(c, n)
    BY <2>1, <2>4, FinStep
  <2> QED BY <1>2, <2>3, <2>4, <2>5
<1> QED BY <1>3, <1>4, <1>5 DEF VerifyManifest

\* The insert.
LEMMA CreateParts ==
    ASSUME BaseType, NEW c \in Client, NEW n \in 0..MaxRetries, CreateSiteVersion(c, n)
    PROVE  /\ fin' \in [Client -> [0..MaxRetries -> Request]] /\ OnlyFin(c, n)
           /\ fin[c][n].pc = "insert" /\ UNCHANGED <<cl, pub, blobs, manifests, live>>
           /\ \/ fin'[c][n].pc = "answered" /\ fin'[c][n].answer = "error" /\ UNCHANGED rows
              \/ /\ fin'[c][n].pc = "manifest" /\ fin'[c][n].answer = fin[c][n].answer
                 /\ fin'[c][n].seen = Len(rows) + 1
                 /\ rows' = Append(rows, Folder[c]) /\ Existing(Folder[c]) = {}
<1>1. fin[c][n] \in Request /\ Len(rows) \in Nat
  BY DEF BaseType
<1>2. fin[c][n].pc = "insert" /\ UNCHANGED <<cl, pub, blobs, manifests, live>>
  BY DEF CreateSiteVersion
<1>3. CASE fin' = Answer(c, n, "error") /\ UNCHANGED rows
  <2> DEFINE q == [fin[c][n] EXCEPT !.pc = "answered", !.answer = "error"]
  <2>1. fin' = [fin EXCEPT ![c] = [fin[c] EXCEPT ![n] = q]]
    BY <1>3 DEF Answer, BaseType
  <2>2. q \in Request /\ q.pc = "answered" /\ q.answer = "error"
    BY <1>1 DEF Request
  <2> HIDE DEF q
  <2> QED BY <1>2, <1>3, <2>1, <2>2, FinStep
<1>4. CASE /\ Existing(Folder[c]) = {} /\ rows' = Append(rows, Folder[c])
           /\ fin' = [fin EXCEPT ![c][n].pc = "manifest", ![c][n].seen = Len(rows) + 1]
  <2> DEFINE q == [fin[c][n] EXCEPT !.pc = "manifest", !.seen = Len(rows) + 1]
  <2>1. fin' = [fin EXCEPT ![c] = [fin[c] EXCEPT ![n] = q]]
    BY <1>4 DEF BaseType
  <2>2. Len(rows) + 1 \in Nat
    BY <1>1
  <2>3. q \in Request /\ q.pc = "manifest" /\ q.answer = fin[c][n].answer /\ q.seen = Len(rows) + 1
    BY <1>1, <2>2 DEF Request
  <2> HIDE DEF q
  <2>4. fin'[c][n] = q /\ fin' \in [Client -> [0..MaxRetries -> Request]] /\ OnlyFin(c, n)
    BY <2>1, <2>3, FinStep, ZenonT(30)
  <2> QED BY <1>2, <1>4, <2>3, <2>4
<1> QED BY <1>3, <1>4 DEF CreateSiteVersion

\* The manifest object, or a failure anywhere in the handler.
LEMMA EndParts ==
    ASSUME BaseType, NEW c \in Client, NEW n \in 0..MaxRetries, PutManifest(c, n) \/ FinalizeFails(c, n)
    PROVE  /\ fin' \in [Client -> [0..MaxRetries -> Request]] /\ OnlyFin(c, n)
           /\ fin[c][n].pc \in {"verify", "insert", "manifest"} /\ UNCHANGED <<cl, pub, blobs, rows, live>>
           /\ fin'[c][n].pc = "answered" /\ fin'[c][n].seen = fin[c][n].seen
           /\ \/ fin'[c][n].answer = "error" /\ UNCHANGED manifests
              \/ /\ fin'[c][n].answer = "ok" /\ fin[c][n].pc = "manifest"
                 /\ manifests' = manifests \cup {fin[c][n].seen}
<1>1. fin[c][n] \in Request
  BY DEF BaseType
<1>2. PICK a \in {"ok", "error"} :
        /\ fin' = Answer(c, n, a)
        /\ a = "ok" => fin[c][n].pc = "manifest" /\ manifests' = manifests \cup {fin[c][n].seen}
        /\ a = "error" => UNCHANGED manifests
  BY DEF PutManifest, FinalizeFails
<1>3. fin[c][n].pc \in {"verify", "insert", "manifest"} /\ UNCHANGED <<cl, pub, blobs, rows, live>>
  BY DEF PutManifest, FinalizeFails
<1> DEFINE q == [fin[c][n] EXCEPT !.pc = "answered", !.answer = a]
<1>4. fin' = [fin EXCEPT ![c] = [fin[c] EXCEPT ![n] = q]]
  BY <1>2 DEF Answer, BaseType
<1>5. q \in Request /\ q.pc = "answered" /\ q.answer = a /\ q.seen = fin[c][n].seen
  BY <1>1 DEF Request
<1> HIDE DEF q
<1>6. fin'[c][n] = q /\ fin' \in [Client -> [0..MaxRetries -> Request]] /\ OnlyFin(c, n)
  BY <1>4, <1>5, FinStep
<1> QED BY <1>2, <1>3, <1>5, <1>6

\* A request is sent: the first finalize of a client, or a retry.
LEMMA SendParts ==
    ASSUME BaseType, NEW c \in Client, NEW n \in 0..MaxRetries, fin' = [fin EXCEPT ![c][n].pc = "verify"]
    PROVE  /\ fin' \in [Client -> [0..MaxRetries -> Request]] /\ OnlyFin(c, n)
           /\ fin'[c][n].pc = "verify" /\ fin'[c][n].answer = fin[c][n].answer
<1>1. fin[c][n] \in Request
  BY DEF BaseType
<1> DEFINE q == [fin[c][n] EXCEPT !.pc = "verify"]
<1>2. fin' = [fin EXCEPT ![c] = [fin[c] EXCEPT ![n] = q]]
  BY DEF BaseType
<1>3. q \in Request /\ q.pc = "verify" /\ q.answer = fin[c][n].answer
  BY <1>1 DEF Request
<1> HIDE DEF q
<1>4. q \in Request
  BY <1>3
<1>5. fin'[c][n] = q /\ fin' \in [Client -> [0..MaxRetries -> Request]] /\ OnlyFin(c, n)
  BY <1>2, <1>4, FinStep, Zenon
<1> QED BY <1>3, <1>5

\* The pool is over: the finalize is sent.
LEMMA PoolDoneParts ==
    ASSUME BaseType, NEW c \in Client, PoolDone(c)
    PROVE  /\ cl' \in [Client -> Cl] /\ Only(c) /\ cl[c].pc = "upload"
           /\ cl[c].queue = {} /\ cl[c].flight = {} /\ cl'[c].pc = "finalize"
           /\ cl'[c].queue = cl[c].queue /\ cl'[c].flight = cl[c].flight /\ cl'[c].free = cl[c].free
           /\ cl'[c].attempt = cl[c].attempt /\ cl'[c].version = cl[c].version
           /\ fin' = [fin EXCEPT ![c][0].pc = "verify"]
           /\ UNCHANGED <<pub, blobs, rows, manifests, live>>
<1>1. cl \in [Client -> Cl]
  BY DEF BaseType
<1> QED BY <1>1 DEF PoolDone, Cl, Only

\* The client's side of a finalize: it goes on, gives up, or tries again.
LEMMA FinalizedParts ==
    ASSUME BaseType, NEW c \in Client, Finalized(c) \/ FinalizeLost(c)
    PROVE  LET n == cl[c].attempt IN
           /\ cl' \in [Client -> Cl] /\ Only(c) /\ cl[c].pc = "finalize"
           /\ cl'[c].pc \notin {"idle", "upload"}
           /\ cl'[c].queue = cl[c].queue /\ cl'[c].flight = cl[c].flight /\ cl'[c].free = cl[c].free
           /\ UNCHANGED <<blobs, rows, manifests, live>>
           /\ \/ /\ n + 1 \in 0..MaxRetries /\ cl'[c].attempt = n + 1 /\ cl'[c].version = cl[c].version
                 /\ fin' = [fin EXCEPT ![c][n + 1].pc = "verify"] /\ UNCHANGED pub
              \/ /\ cl'[c].attempt = n /\ UNCHANGED fin
                 /\ \/ cl'[c].version = cl[c].version /\ UNCHANGED pub
                    \/ /\ fin[c][n].answer = "ok" /\ cl'[c].version = fin[c][n].seen
                       /\ pub' \in [Client -> Request] /\ \A d \in Client : d # c => pub'[d] = pub[d]
                       /\ pub'[c] = pub[c] \/ pub'[c].seen = fin[c][n].seen
<1> DEFINE n == cl[c].attempt
<1>1. cl \in [Client -> Cl] /\ n \in 0..MaxRetries /\ MaxRetries \in Nat
  BY DEF BaseType, Cl
<1>2. fin[c][n] \in Request /\ fin[c][n].seen \in Nat /\ pub \in [Client -> Request] /\ pub[c] \in Request
  BY <1>1 DEF BaseType, Request
<1>3. cl[c].pc = "finalize" /\ UNCHANGED <<blobs, rows, manifests, live>>
  BY DEF Finalized, FinalizeLost
<1> DEFINE s == fin[c][n].seen
<1>4. \/ fin[c][n].answer = "ok" /\ UNCHANGED fin
         /\ cl' = [cl EXCEPT ![c].pc = "publish", ![c].version = s]
         /\ pub' = [pub EXCEPT ![c].pc = "sent", ![c].seen = s]
      \/ fin[c][n].answer = "ok" /\ UNCHANGED <<fin, pub>>
         /\ cl' = [cl EXCEPT ![c].pc = "done", ![c].version = s]
      \/ n < MaxRetries /\ UNCHANGED pub
         /\ cl' = [cl EXCEPT ![c].attempt = n + 1] /\ fin' = [fin EXCEPT ![c][n + 1].pc = "verify"]
      \/ UNCHANGED <<fin, pub>> /\ cl' = [cl EXCEPT ![c].pc = "failed"]
  BY DEF Finalized, FinalizeLost, Failed, MayRetry
<1> HIDE DEF n, s
<1>5. CASE fin[c][n].answer = "ok" /\ UNCHANGED fin
           /\ cl' = [cl EXCEPT ![c].pc = "publish", ![c].version = s]
           /\ pub' = [pub EXCEPT ![c].pc = "sent", ![c].seen = s]
  <2>1. /\ cl' \in [Client -> Cl] /\ Only(c) /\ cl'[c].pc = "publish" /\ cl'[c].version = s
        /\ cl'[c].queue = cl[c].queue /\ cl'[c].flight = cl[c].flight /\ cl'[c].free = cl[c].free
        /\ cl'[c].attempt = cl[c].attempt
    BY <1>1, <1>2, <1>5, ZenonT(30) DEF Cl, Only, s
  <2>2. pub' = [pub EXCEPT ![c] = [pub[c] EXCEPT !.pc = "sent", !.seen = s]]
    BY <1>2, <1>5
  <2>3. [pub[c] EXCEPT !.pc = "sent", !.seen = s] \in Request
        /\ [pub[c] EXCEPT !.pc = "sent", !.seen = s].seen = s
    BY <1>2 DEF Request, s
  <2>4. pub' \in [Client -> Request] /\ pub'[c].seen = s /\ \A d \in Client : d # c => pub'[d] = pub[d]
    BY <1>2, <2>2, <2>3
  <2> QED BY <1>3, <1>5, <2>1, <2>4 DEF n, s
<1>6. CASE fin[c][n].answer = "ok" /\ UNCHANGED <<fin, pub>>
           /\ cl' = [cl EXCEPT ![c].pc = "done", ![c].version = s]
  <2>1. /\ cl' \in [Client -> Cl] /\ Only(c) /\ cl'[c].pc = "done" /\ cl'[c].version = s
        /\ cl'[c].queue = cl[c].queue /\ cl'[c].flight = cl[c].flight /\ cl'[c].free = cl[c].free
        /\ cl'[c].attempt = cl[c].attempt
    BY <1>1, <1>2, <1>6, ZenonT(30) DEF Cl, Only, s
  <2> QED BY <1>2, <1>3, <1>6, <2>1 DEF n, s
<1>7. CASE n < MaxRetries /\ UNCHANGED pub
           /\ cl' = [cl EXCEPT ![c].attempt = n + 1] /\ fin' = [fin EXCEPT ![c][n + 1].pc = "verify"]
  <2>1. n + 1 \in 0..MaxRetries
    BY <1>1, <1>7
  <2>2. /\ cl' \in [Client -> Cl] /\ Only(c) /\ cl'[c].pc = cl[c].pc /\ cl'[c].version = cl[c].version
        /\ cl'[c].queue = cl[c].queue /\ cl'[c].flight = cl[c].flight /\ cl'[c].free = cl[c].free
        /\ cl'[c].attempt = n + 1
    BY <1>1, <1>7, <2>1 DEF Cl, Only
  <2> QED BY <1>3, <1>7, <2>1, <2>2 DEF n
<1>8. CASE UNCHANGED <<fin, pub>> /\ cl' = [cl EXCEPT ![c].pc = "failed"]
  <2>1. /\ cl' \in [Client -> Cl] /\ Only(c) /\ cl'[c].pc = "failed" /\ cl'[c].version = cl[c].version
        /\ cl'[c].queue = cl[c].queue /\ cl'[c].flight = cl[c].flight /\ cl'[c].free = cl[c].free
        /\ cl'[c].attempt = cl[c].attempt
    BY <1>1, <1>8 DEF Cl, Only
  <2> QED BY <1>3, <1>8, <2>1 DEF n
<1> QED BY <1>4, <1>5, <1>6, <1>7, <1>8

\* The publish at the server.
LEMMA PublishParts ==
    ASSUME BaseType, NEW c \in Client, PublishSite(c)
    PROVE  /\ pub' \in [Client -> Request] /\ \A d \in Client : d # c => pub'[d] = pub[d]
           /\ pub[c].pc = "sent" /\ pub'[c].seen = pub[c].seen /\ live' = pub[c].seen /\ live' \in Nat
           /\ UNCHANGED <<cl, fin, blobs, rows, manifests>>
BY DEF PublishSite, SetCurrentVersion, BaseType, Request

\* The client's last step, and an abort.
LEMMA LastParts ==
    ASSUME BaseType, NEW c \in Client, Published(c) \/ AbortDeploy(c)
    PROVE  /\ cl' \in [Client -> Cl] /\ Only(c) /\ cl[c].pc # "idle" /\ cl'[c].pc \in {"done", "failed"}
           /\ cl'[c].attempt = cl[c].attempt /\ cl'[c].version = cl[c].version /\ cl'[c].free = cl[c].free
           /\ \/ cl'[c].queue = cl[c].queue /\ cl'[c].flight = cl[c].flight
              \/ cl'[c].queue = {} /\ cl'[c].flight = {}
           /\ blobs \subseteq blobs' /\ blobs' \subseteq blobs \cup cl[c].flight
           /\ UNCHANGED <<fin, pub, rows, manifests, live>>
<1>1. cl \in [Client -> Cl]
  BY DEF BaseType
<1>2. CASE Published(c)
  <2>1. PICK e \in {"done", "failed"} : cl' = [cl EXCEPT ![c].pc = e]
    BY <1>2 DEF Published, Failed
  <2>2. cl[c].pc = "publish" /\ UNCHANGED <<fin, pub, blobs, rows, manifests, live>>
    BY <1>2 DEF Published
  <2>3. cl' \in [Client -> Cl] /\ Only(c) /\ cl'[c] = [cl[c] EXCEPT !.pc = e]
    BY <1>1, <2>1, ZenonT(30) DEF Cl, Only
  <2>4. /\ cl'[c].pc = e /\ cl'[c].queue = cl[c].queue /\ cl'[c].flight = cl[c].flight
        /\ cl'[c].attempt = cl[c].attempt /\ cl'[c].version = cl[c].version /\ cl'[c].free = cl[c].free
    BY <1>1, <2>3 DEF Cl
  <2> QED BY <2>2, <2>3, <2>4
<1>3. CASE AbortDeploy(c)
  <2>1. cl' = [cl EXCEPT ![c] = [cl[c] EXCEPT !.pc = "failed", !.queue = {}, !.flight = {}]]
    BY <1>1, <1>3 DEF AbortDeploy
  <2>2. [cl[c] EXCEPT !.pc = "failed", !.queue = {}, !.flight = {}] \in Cl
    BY <1>1 DEF Cl
  <2>3. cl' \in [Client -> Cl] /\ Only(c) /\ cl'[c] = [cl[c] EXCEPT !.pc = "failed", !.queue = {}, !.flight = {}]
    BY <1>1, <2>1, <2>2 DEF Only
  <2>4. /\ cl'[c].pc = "failed" /\ cl'[c].queue = {} /\ cl'[c].flight = {}
        /\ cl'[c].attempt = cl[c].attempt /\ cl'[c].version = cl[c].version /\ cl'[c].free = cl[c].free
    BY <1>1, <2>3 DEF Cl
  <2>5. /\ cl[c].pc # "idle" /\ UNCHANGED <<fin, pub, rows, manifests, live>>
        /\ blobs \subseteq blobs' /\ blobs' \subseteq blobs \cup cl[c].flight
    BY <1>3 DEF AbortDeploy
  <2> QED BY <2>3, <2>4, <2>5
<1> QED BY <1>2, <1>3

-----------------------------------------------------------------------------
(* The invariant.                                                          *)

ClientInv == BaseType /\ PoolInv /\ UploadInv /\ VersionInv

\* What a client does alone leaves the versions as they are.
LEMMA VersionStays ==
    ASSUME VersionInv, blobs \subseteq blobs', UNCHANGED <<fin, pub, rows, manifests, live>>,
           \A d \in Client : cl'[d].version = cl[d].version
    PROVE  VersionInv'
BY DEF VersionInv, Named, RetriesMakeOneVersion

\* What a handler does leaves the uploads as they are.
LEMMA UploadStays ==
    ASSUME BaseType, UploadInv, UNCHANGED <<cl, blobs>>, NEW c \in Client, NEW n \in 0..MaxRetries,
           OnlyFin(c, n), fin[c][n].pc # "none"
    PROVE  UploadInv'
BY DEF UploadInv, OnlyFin

\* A handler's step keeps the versions when it inserts none.
LEMMA VersionAnswered ==
    ASSUME BaseType, VersionInv, UNCHANGED <<cl, pub, blobs, rows, live>>,
           manifests \subseteq manifests', manifests' \subseteq DOMAIN rows,
           NEW c \in Client, NEW n \in 0..MaxRetries, OnlyFin(c, n),
           fin'[c][n].answer # "none" => fin'[c][n].pc = "answered",
           fin'[c][n].pc = "insert" => Folder[c] \subseteq blobs,
           fin'[c][n].pc = "manifest" => Named(rows, fin'[c][n].seen, c),
           fin'[c][n].answer = "ok" => Named(rows, fin'[c][n].seen, c) /\ fin'[c][n].seen \in manifests'
    PROVE  VersionInv'
<1>1. \A d \in Client, m \in 0..MaxRetries : d # c \/ m # n => fin'[d][m] = fin[d][m]
  BY DEF OnlyFin
<1>2. \A d \in Client, m \in 0..MaxRetries :
        /\ fin'[d][m].answer # "none" => fin'[d][m].pc = "answered"
        /\ fin'[d][m].pc = "insert" => Folder[d] \subseteq blobs'
        /\ fin'[d][m].pc = "manifest" => Named(rows, fin'[d][m].seen, d)
        /\ fin'[d][m].answer = "ok" => Named(rows, fin'[d][m].seen, d) /\ fin'[d][m].seen \in manifests'
  BY <1>1 DEF VersionInv
<1> QED BY <1>2 DEF VersionInv, Named, RetriesMakeOneVersion

\* The pool of a client, with the number of its PUTs.
LEMMA FlightFinite ==
    ASSUME BaseType, PoolInv, NEW c \in Client
    PROVE  IsFiniteSet(cl[c].flight) /\ Cardinality(cl[c].flight) \in Nat /\ cl[c].free \in Nat
<1>1. cl[c].flight \subseteq Folder[c] /\ IsFiniteSet(Folder[c])
  BY FolderBlobs DEF PoolInv
<1>2. IsFiniteSet(cl[c].flight)
  BY <1>1, FS_Subset
<1>3. cl[c].free \in Nat
  BY DEF BaseType, Cl
<1> QED BY <1>2, <1>3, FS_CardinalityType

\* The client's steps up to the finalize.
LEMMA StepUpload ==
    ASSUME ClientInv, NEW c \in Client,
           Prepare(c) \/ TakeItem(c) \/ (\E b \in Folder[c], s, a \in BOOLEAN : PutBlob(c, b, s, a))
    PROVE  ClientInv'
<1>i. BaseType /\ PoolInv /\ UploadInv /\ VersionInv
  BY DEF ClientInv
<1>f. IsFiniteSet(cl[c].flight) /\ Cardinality(cl[c].flight) \in Nat /\ cl[c].free \in Nat /\ Limit \in Nat
      /\ cl[c].free + Cardinality(cl[c].flight) <= Limit
  BY <1>i, FlightFinite DEF PoolInv
<1>1. CASE Prepare(c)
  <2>1. /\ cl' \in [Client -> Cl] /\ Only(c) /\ cl[c].pc = "idle"
        /\ UNCHANGED <<fin, pub, blobs, rows, manifests, live>>
        /\ cl'[c].flight = cl[c].flight
        /\ cl'[c].attempt = cl[c].attempt /\ cl'[c].version = cl[c].version
        /\ \/ cl'[c].pc = "failed" /\ cl'[c].queue = cl[c].queue /\ cl'[c].free = cl[c].free
           \/ cl'[c].pc = "upload" /\ cl'[c].queue = Folder[c] \ blobs /\ cl'[c].free <= Limit
    BY <1>1, <1>i, PrepareParts
  <2>2. cl[c].flight = {} /\ cl[c].queue = {}
    BY <1>i, <2>1 DEF PoolInv
  <2>3. cl'[c].free \in Nat /\ Cardinality({}) = 0
    BY <2>1, FS_EmptySet DEF Cl
  <2>4. cl'[c].free + Cardinality(cl'[c].flight) <= Limit
    BY <1>f, <2>1, <2>2, <2>3
  <2>5. PoolInv'
    BY <1>i, <2>1, <2>2, <2>4 DEF PoolInv, Only
  <2>6. fin[c][0].pc = "none"
    BY <1>i, <2>1 DEF UploadInv
  <2>7. UploadInv'
    BY <1>i, <2>1, <2>2, <2>6 DEF UploadInv, Only
  <2>8. VersionInv'
    <3>1. \A d \in Client : cl'[d].version = cl[d].version
      BY <2>1 DEF Only
    <3> QED BY <1>i, <2>1, <3>1, VersionStays
  <2>9. BaseType'
    BY <1>i, <2>1 DEF BaseType
  <2> QED BY <2>5, <2>7, <2>8, <2>9 DEF ClientInv
<1>2. CASE TakeItem(c)
  <2>1. /\ cl' \in [Client -> Cl] /\ Only(c) /\ cl[c].pc \in {"upload", "failed"} /\ cl[c].free > 0
        /\ UNCHANGED <<fin, pub, blobs, rows, manifests, live>>
        /\ cl'[c].attempt = cl[c].attempt /\ cl'[c].version = cl[c].version
        /\ cl'[c].pc = cl[c].pc /\ cl'[c].free = cl[c].free - 1
    BY <1>2, <1>i, TakeParts
  <2>2. PICK b \in cl[c].queue :
          cl'[c].queue = cl[c].queue \ {b} /\ cl'[c].flight = cl[c].flight \cup {b}
    BY <1>2, <1>i, TakeParts
  <2>3. Cardinality(cl'[c].flight) <= Cardinality(cl[c].flight) + 1 /\ Cardinality(cl'[c].flight) \in Nat
    <3> DEFINE F == cl[c].flight
    <3>1. IsFiniteSet(F) /\ Cardinality(F) \in Nat /\ cl'[c].flight = F \cup {b}
      BY <1>f, <2>2
    <3> HIDE DEF F
    <3>2. Cardinality(F \cup {b}) = IF b \in F THEN Cardinality(F) ELSE Cardinality(F) + 1
      BY <3>1, FS_AddElement
    <3>3. Cardinality(F \cup {b}) <= Cardinality(F) + 1 /\ Cardinality(F \cup {b}) \in Nat
      BY <3>1, <3>2
    <3> QED BY <3>1, <3>3 DEF F
  <2>4. cl'[c].free + Cardinality(cl'[c].flight) <= Limit
    BY <1>f, <2>1, <2>3
  <2>5. PoolInv'
    <3>1. cl'[c].pc # "idle" /\ cl'[c].queue \subseteq Folder[c] /\ cl'[c].flight \subseteq Folder[c]
      BY <1>i, <2>1, <2>2 DEF PoolInv
    <3> QED BY <1>i, <2>1, <2>4, <3>1 DEF PoolInv, Only
  <2>6. fin[c][0].pc = "none"
    BY <1>i, <2>2 DEF UploadInv
  <2>7. UploadInv'
    <3>1. cl'[c].queue \cup cl'[c].flight = cl[c].queue \cup cl[c].flight
      BY <2>2
    <3> QED BY <1>i, <2>1, <2>6, <3>1 DEF UploadInv, Only
  <2>8. VersionInv'
    <3>1. \A d \in Client : cl'[d].version = cl[d].version
      BY <2>1 DEF Only
    <3> QED BY <1>i, <2>1, <3>1, VersionStays
  <2>9. BaseType'
    BY <1>i, <2>1 DEF BaseType
  <2> QED BY <2>5, <2>7, <2>8, <2>9 DEF ClientInv
<1>3. ASSUME NEW b \in Folder[c], NEW s \in BOOLEAN, NEW a \in BOOLEAN, PutBlob(c, b, s, a)
      PROVE  ClientInv'
  <2>1. /\ cl' \in [Client -> Cl] /\ Only(c) /\ b \in cl[c].flight
        /\ blobs' = (IF s THEN blobs \cup {b} ELSE blobs)
        /\ UNCHANGED <<fin, pub, rows, manifests, live>>
        /\ cl'[c].attempt = cl[c].attempt /\ cl'[c].version = cl[c].version
        /\ cl'[c].queue = cl[c].queue
    BY <1>3, <1>i, PutParts
  <2>2. \/ /\ cl'[c].pc = cl[c].pc /\ cl'[c].flight = cl[c].flight \ {b}
           /\ cl'[c].free = cl[c].free + 1 /\ s
        \/ cl'[c].pc = cl[c].pc /\ cl'[c].flight = cl[c].flight /\ cl'[c].free = cl[c].free
        \/ cl'[c].pc = "failed" /\ cl'[c].flight = cl[c].flight \ {b} /\ cl'[c].free = cl[c].free
    BY <1>3, <1>i, PutParts
  <2>3. Cardinality(cl[c].flight \ {b}) = Cardinality(cl[c].flight) - 1
    BY <1>f, <2>1, FS_RemoveElement
  <2>4. cl'[c].free + Cardinality(cl'[c].flight) <= Limit
    <3> DEFINE k == Cardinality(cl[c].flight)  f == cl[c].free
    <3>1. k \in Nat /\ f \in Nat /\ Limit \in Nat /\ f + k <= Limit
      BY <1>f
    <3>2. \/ cl'[c].free = f + 1 /\ Cardinality(cl'[c].flight) = k - 1
          \/ cl'[c].free = f /\ Cardinality(cl'[c].flight) = k
          \/ cl'[c].free = f /\ Cardinality(cl'[c].flight) = k - 1
      BY <2>2, <2>3
    <3> HIDE DEF k, f
    <3> QED BY <3>1, <3>2
  <2>5. PoolInv'
    <3>1. cl[c].pc # "idle"
      BY <1>i, <2>1 DEF PoolInv
    <3>2. cl'[c].pc # "idle" /\ cl'[c].queue \subseteq Folder[c] /\ cl'[c].flight \subseteq Folder[c]
      BY <1>i, <2>1, <2>2, <3>1 DEF PoolInv
    <3> QED BY <1>i, <2>1, <2>4, <3>2 DEF PoolInv, Only
  <2>6. fin[c][0].pc = "none"
    BY <1>i, <2>1 DEF UploadInv
  <2>7. blobs \subseteq blobs' /\ (s => b \in blobs') /\ blobs' \subseteq Blob
    <3>1. blobs \subseteq Blob /\ b \in Blob
      BY <1>i, FolderBlobs DEF BaseType
    <3> QED BY <2>1, <3>1
  <2>8. UploadInv'
    <3>1. ASSUME cl'[c].pc = "upload"
          PROVE  Folder[c] \ (cl'[c].queue \cup cl'[c].flight) \subseteq blobs'
      BY <1>i, <2>1, <2>2, <2>7, <3>1 DEF UploadInv
    <3>2. ASSUME NEW d \in Client, d # c
          PROVE  /\ cl'[d].pc = "upload" => Folder[d] \ (cl'[d].queue \cup cl'[d].flight) \subseteq blobs'
                 /\ fin'[d][0].pc # "none" =>
                      /\ cl'[d].pc \notin {"idle", "upload"}
                      /\ cl'[d].queue = {} /\ cl'[d].flight = {} /\ Folder[d] \subseteq blobs'
                 /\ \A n \in 0..MaxRetries : n > cl'[d].attempt => fin'[d][n].pc = "none"
      BY <1>i, <2>1, <2>7, <3>2 DEF UploadInv, Only
    <3> QED BY <1>i, <2>1, <2>6, <3>1, <3>2 DEF UploadInv
  <2>9. VersionInv'
    <3>1. \A d \in Client : cl'[d].version = cl[d].version
      BY <2>1 DEF Only
    <3> QED BY <1>i, <2>1, <2>7, <3>1, VersionStays
  <2>10. BaseType'
    BY <1>i, <2>1, <2>7 DEF BaseType
  <2> QED BY <2>5, <2>8, <2>9, <2>10 DEF ClientInv
<1> QED BY <1>1, <1>2, <1>3

\* The server's steps.
LEMMA StepHandle ==
    ASSUME ClientInv, NEW c \in Client, Handle(c)
    PROVE  ClientInv'
<1>i. BaseType /\ PoolInv /\ UploadInv /\ VersionInv
  BY DEF ClientInv
<1>r. rows \in Seq(SUBSET Blob) /\ manifests \subseteq DOMAIN rows
  BY <1>i DEF BaseType, VersionInv
<1>1. ASSUME NEW n \in 0..MaxRetries, VerifyManifest(c, n) PROVE ClientInv'
  <2>1. /\ fin' \in [Client -> [0..MaxRetries -> Request]] /\ OnlyFin(c, n)
        /\ fin[c][n].pc = "verify" /\ UNCHANGED <<cl, pub, blobs, rows, manifests, live>>
    BY <1>1, <1>i, VerifyParts
  <2>2. \/ fin'[c][n].pc = "answered" /\ fin'[c][n].answer = "refused"
        \/ fin'[c][n].pc = "insert" /\ fin'[c][n].answer = fin[c][n].answer /\ Folder[c] \subseteq blobs
        \/ fin'[c][n].pc = "manifest" /\ fin'[c][n].answer = fin[c][n].answer
           /\ Named(rows, fin'[c][n].seen, c)
    BY <1>1, <1>i, VerifyParts
  <2>3. fin[c][n].answer = "none"
    BY <1>i, <2>1 DEF VersionInv
  <2>4. VersionInv'
    BY <1>i, <1>r, <2>1, <2>2, <2>3, VersionAnswered
  <2>5. UploadInv'
    BY <1>i, <2>1, UploadStays
  <2>6. PoolInv' /\ BaseType'
    BY <1>i, <2>1 DEF PoolInv, BaseType
  <2> QED BY <2>4, <2>5, <2>6 DEF ClientInv
<1>2. ASSUME NEW n \in 0..MaxRetries, CreateSiteVersion(c, n) PROVE ClientInv'
  <2>1. /\ fin' \in [Client -> [0..MaxRetries -> Request]] /\ OnlyFin(c, n)
        /\ fin[c][n].pc = "insert" /\ UNCHANGED <<cl, pub, blobs, manifests, live>>
    BY <1>2, <1>i, CreateParts
  <2>2. fin[c][n].answer = "none" /\ Folder[c] \subseteq blobs
    BY <1>i, <2>1 DEF VersionInv
  <2>3. UploadInv'
    BY <1>i, <2>1, UploadStays
  <2>4. PoolInv'
    BY <1>i, <2>1 DEF PoolInv
  <2>5. CASE fin'[c][n].pc = "answered" /\ fin'[c][n].answer = "error" /\ UNCHANGED rows
    <3>1. VersionInv'
      BY <1>i, <1>r, <2>1, <2>5, VersionAnswered
    <3>2. BaseType'
      BY <1>i, <2>1, <2>5 DEF BaseType
    <3> QED BY <2>3, <2>4, <3>1, <3>2 DEF ClientInv
  <2>6. CASE /\ fin'[c][n].pc = "manifest" /\ fin'[c][n].answer = fin[c][n].answer
             /\ fin'[c][n].seen = Len(rows) + 1
             /\ rows' = Append(rows, Folder[c]) /\ Existing(Folder[c]) = {}
    <3> DEFINE k == Len(rows) + 1
    <3>1. Folder[c] \in SUBSET Blob
      BY FolderBlobs
    <3>2. /\ rows' \in Seq(SUBSET Blob) /\ k \in Nat \ {0}
          /\ DOMAIN rows' = DOMAIN rows \cup {k} /\ k \notin DOMAIN rows
          /\ rows'[k] = Folder[c] /\ \A i \in DOMAIN rows : rows'[i] = rows[i]
      BY <1>r, <2>6, <3>1
    <3> HIDE DEF k
    <3>3. \A i \in DOMAIN rows : rows[i] # Folder[c]
      BY <2>6 DEF Existing
    <3>4. \A i \in DOMAIN rows' : rows'[i] \subseteq blobs'
      BY <1>i, <2>1, <2>2, <3>2 DEF VersionInv
    <3>5. RetriesMakeOneVersion'
      BY <1>i, <3>2, <3>3 DEF VersionInv, RetriesMakeOneVersion
    <3>6. \A i, d : Named(rows, i, d) => Named(rows', i, d)
      BY <3>2 DEF Named
    <3>7. Named(rows', k, c)
      BY <3>2 DEF Named
    <3>8. \A d \in Client, m \in 0..MaxRetries :
            /\ fin'[d][m].answer # "none" => fin'[d][m].pc = "answered"
            /\ fin'[d][m].pc = "insert" => Folder[d] \subseteq blobs'
            /\ fin'[d][m].pc = "manifest" => Named(rows', fin'[d][m].seen, d)
            /\ fin'[d][m].answer = "ok" => Named(rows', fin'[d][m].seen, d) /\ fin'[d][m].seen \in manifests'
      <4> SUFFICES ASSUME NEW d \in Client, NEW m \in 0..MaxRetries
                   PROVE  /\ fin'[d][m].answer # "none" => fin'[d][m].pc = "answered"
                          /\ fin'[d][m].pc = "insert" => Folder[d] \subseteq blobs'
                          /\ fin'[d][m].pc = "manifest" => Named(rows', fin'[d][m].seen, d)
                          /\ fin'[d][m].answer = "ok" =>
                               Named(rows', fin'[d][m].seen, d) /\ fin'[d][m].seen \in manifests'
        OBVIOUS
      <4>1. CASE d = c /\ m = n
        BY <2>2, <2>6, <3>7, <4>1 DEF k
      <4>2. CASE d # c \/ m # n
        <5>1. fin'[d][m] = fin[d][m]
          BY <2>1, <4>2 DEF OnlyFin
        <5> QED BY <1>i, <2>1, <3>6, <5>1 DEF VersionInv
      <4> QED BY <4>1, <4>2
    <3>9. manifests' \subseteq DOMAIN rows'
      BY <1>r, <2>1, <3>2
    <3>10. \A d \in Client :
             /\ cl'[d].version # 0 => Named(rows', cl'[d].version, d) /\ cl'[d].version \in manifests'
             /\ pub'[d].pc # "none" \/ pub'[d].seen # 0 => pub'[d].seen \in manifests'
      BY <1>i, <2>1, <3>6 DEF VersionInv
    <3>11. live' # 0 => live' \in DOMAIN rows'
      BY <1>i, <2>1, <3>2 DEF VersionInv
    <3>12. VersionInv'
      BY <3>4, <3>5, <3>8, <3>9, <3>10, <3>11 DEF VersionInv
    <3>13. BaseType'
      BY <1>i, <2>1, <3>2 DEF BaseType
    <3> QED BY <2>3, <2>4, <3>12, <3>13 DEF ClientInv
  <2> QED BY <1>2, <1>i, <2>5, <2>6, CreateParts
<1>3. ASSUME NEW n \in 0..MaxRetries, PutManifest(c, n) \/ FinalizeFails(c, n) PROVE ClientInv'
  <2>1. /\ fin' \in [Client -> [0..MaxRetries -> Request]] /\ OnlyFin(c, n)
        /\ fin[c][n].pc \in {"verify", "insert", "manifest"} /\ UNCHANGED <<cl, pub, blobs, rows, live>>
        /\ fin'[c][n].pc = "answered" /\ fin'[c][n].seen = fin[c][n].seen
    BY <1>3, <1>i, EndParts
  <2>2. \/ fin'[c][n].answer = "error" /\ UNCHANGED manifests
        \/ /\ fin'[c][n].answer = "ok" /\ fin[c][n].pc = "manifest"
           /\ manifests' = manifests \cup {fin[c][n].seen}
    BY <1>3, <1>i, EndParts
  <2>3. fin[c][n].pc = "manifest" => Named(rows, fin[c][n].seen, c)
    BY <1>i DEF VersionInv
  <2>4. manifests \subseteq manifests' /\ manifests' \subseteq DOMAIN rows
    BY <1>r, <2>2, <2>3 DEF Named
  <2>5. fin'[c][n].answer = "ok" => Named(rows, fin'[c][n].seen, c) /\ fin'[c][n].seen \in manifests'
    BY <2>1, <2>2, <2>3
  <2>6. VersionInv'
    BY <1>i, <2>1, <2>4, <2>5, VersionAnswered
  <2>7. UploadInv'
    BY <1>i, <2>1, UploadStays
  <2>8. PoolInv' /\ BaseType'
    <3>1. DOMAIN rows \subseteq Nat
      BY <1>r
    <3>2. manifests' \subseteq Nat
      BY <2>4, <3>1
    <3> QED BY <1>i, <2>1, <3>2 DEF PoolInv, BaseType
  <2> QED BY <2>6, <2>7, <2>8 DEF ClientInv
<1>4. CASE PublishSite(c)
  <2>1. /\ pub' \in [Client -> Request] /\ \A d \in Client : d # c => pub'[d] = pub[d]
        /\ pub[c].pc = "sent" /\ pub'[c].seen = pub[c].seen /\ live' = pub[c].seen /\ live' \in Nat
        /\ UNCHANGED <<cl, fin, blobs, rows, manifests>>
    BY <1>4, <1>i, PublishParts
  <2>2. pub[c].seen \in manifests
    BY <1>i, <2>1 DEF VersionInv
  <2>3. VersionInv'
    BY <1>i, <2>1, <2>2 DEF VersionInv, Named, RetriesMakeOneVersion
  <2>4. BaseType' /\ PoolInv' /\ UploadInv'
    BY <1>i, <2>1 DEF BaseType, PoolInv, UploadInv
  <2> QED BY <2>3, <2>4 DEF ClientInv
<1> QED BY <1>1, <1>2, <1>3, <1>4 DEF Handle

\* Another caller's publish.
LEMMA StepPublishAny ==
    ASSUME ClientInv, PublishAny
    PROVE  ClientInv'
<1>1. BaseType /\ PoolInv /\ UploadInv /\ VersionInv
  BY DEF ClientInv
<1>2. UNCHANGED <<cl, fin, pub, blobs, rows, manifests>> /\ live' \in DOMAIN rows
  BY DEF PublishAny, SetCurrentVersion
<1>3. VersionInv' /\ BaseType'
  BY <1>1, <1>2 DEF VersionInv, Named, RetriesMakeOneVersion, BaseType
<1>4. PoolInv' /\ UploadInv'
  BY <1>1, <1>2 DEF PoolInv, UploadInv
<1> QED BY <1>3, <1>4 DEF ClientInv

\* The client's steps from the finalize on.
LEMMA StepProceed ==
    ASSUME ClientInv, NEW c \in Client,
           PoolDone(c) \/ Finalized(c) \/ FinalizeLost(c) \/ Published(c) \/ AbortDeploy(c)
    PROVE  ClientInv'
<1>i. BaseType /\ PoolInv /\ UploadInv /\ VersionInv
  BY DEF ClientInv
<1>0. 0 \in 0..MaxRetries /\ Cardinality({}) = 0
  BY FS_EmptySet
<1>1. CASE PoolDone(c)
  <2>1. /\ cl' \in [Client -> Cl] /\ Only(c) /\ cl[c].pc = "upload"
        /\ cl[c].queue = {} /\ cl[c].flight = {} /\ cl'[c].pc = "finalize"
        /\ cl'[c].queue = cl[c].queue /\ cl'[c].flight = cl[c].flight /\ cl'[c].free = cl[c].free
        /\ cl'[c].attempt = cl[c].attempt /\ cl'[c].version = cl[c].version
        /\ fin' = [fin EXCEPT ![c][0].pc = "verify"]
        /\ UNCHANGED <<pub, blobs, rows, manifests, live>>
    BY <1>1, <1>i, PoolDoneParts
  <2>2. /\ fin' \in [Client -> [0..MaxRetries -> Request]] /\ OnlyFin(c, 0)
        /\ fin'[c][0].pc = "verify" /\ fin'[c][0].answer = fin[c][0].answer
    <3>1. fin' = [fin EXCEPT ![c][0].pc = "verify"]
      BY <2>1
    <3>2. 0 \in 0..MaxRetries /\ BaseType
      BY <1>0, <1>i
    <3> QED BY <3>1, <3>2, SendParts, Zenon
  <2>3. fin[c][0].pc = "none" /\ Folder[c] \subseteq blobs
    BY <1>i, <2>1 DEF UploadInv
  <2>4. fin[c][0].answer = "none"
    BY <1>0, <1>i, <2>3 DEF VersionInv
  <2>5. PoolInv'
    BY <1>i, <2>1 DEF PoolInv, Only
  <2>6. UploadInv'
    <3>1. \A n \in 0..MaxRetries : n > cl[c].attempt => n # 0
      BY <1>i DEF BaseType, Cl
    <3>2. \A d \in Client, m \in 0..MaxRetries : d # c \/ m # 0 => fin'[d][m] = fin[d][m]
      BY <2>2 DEF OnlyFin
    <3>3. \A n \in 0..MaxRetries : n > cl'[c].attempt => fin'[c][n].pc = "none"
      BY <1>i, <2>1, <3>1, <3>2 DEF UploadInv
    <3>4. ASSUME NEW d \in Client, d # c
          PROVE  /\ cl'[d] = cl[d] /\ \A n \in 0..MaxRetries : fin'[d][n] = fin[d][n]
      BY <2>1, <3>2, <3>4 DEF Only
    <3> QED BY <1>0, <1>i, <2>1, <2>3, <3>3, <3>4 DEF UploadInv
  <2>7. VersionInv'
    <3>1. \A d \in Client : cl'[d].version = cl[d].version
      BY <2>1 DEF Only
    <3>2. \A d \in Client, m \in 0..MaxRetries : d # c \/ m # 0 => fin'[d][m] = fin[d][m]
      BY <2>2 DEF OnlyFin
    <3> QED BY <1>i, <2>1, <2>2, <2>4, <3>1, <3>2 DEF VersionInv, Named, RetriesMakeOneVersion
  <2>8. BaseType'
    BY <1>i, <2>1, <2>2 DEF BaseType
  <2> QED BY <2>5, <2>6, <2>7, <2>8 DEF ClientInv
<1>2. CASE Finalized(c) \/ FinalizeLost(c)
  <2> DEFINE n == cl[c].attempt
  <2>n. n \in 0..MaxRetries /\ n \in Nat
    BY <1>i DEF BaseType, Cl
  <2>1. /\ cl' \in [Client -> Cl] /\ Only(c) /\ cl[c].pc = "finalize"
        /\ cl'[c].pc \notin {"idle", "upload"}
        /\ cl'[c].queue = cl[c].queue /\ cl'[c].flight = cl[c].flight /\ cl'[c].free = cl[c].free
        /\ UNCHANGED <<blobs, rows, manifests, live>>
    BY <1>2, <1>i, FinalizedParts
  <2>2. \/ /\ n + 1 \in 0..MaxRetries /\ cl'[c].attempt = n + 1 /\ cl'[c].version = cl[c].version
           /\ fin' = [fin EXCEPT ![c][n + 1].pc = "verify"] /\ UNCHANGED pub
        \/ /\ cl'[c].attempt = n /\ UNCHANGED fin
           /\ \/ cl'[c].version = cl[c].version /\ UNCHANGED pub
              \/ /\ fin[c][n].answer = "ok" /\ cl'[c].version = fin[c][n].seen
                 /\ pub' \in [Client -> Request] /\ \A d \in Client : d # c => pub'[d] = pub[d]
                 /\ pub'[c] = pub[c] \/ pub'[c].seen = fin[c][n].seen
    BY <1>2, <1>i, FinalizedParts
  <2>3. PoolInv'
    BY <1>i, <2>1 DEF PoolInv, Only
  <2> HIDE DEF n
  <2>4. CASE /\ n + 1 \in 0..MaxRetries /\ cl'[c].attempt = n + 1 /\ cl'[c].version = cl[c].version
             /\ fin' = [fin EXCEPT ![c][n + 1].pc = "verify"] /\ UNCHANGED pub
    <3>1. /\ fin' \in [Client -> [0..MaxRetries -> Request]] /\ OnlyFin(c, n + 1)
          /\ fin'[c][n + 1].pc = "verify" /\ fin'[c][n + 1].answer = fin[c][n + 1].answer
      BY <1>i, <2>4, SendParts
    <3>2. fin[c][n + 1].pc = "none"
      <4>1. n + 1 > cl[c].attempt
        BY <2>n DEF n
      <4> QED BY <1>i, <2>4, <4>1 DEF UploadInv
    <3>3. fin[c][n + 1].answer = "none"
      BY <1>i, <2>4, <3>2 DEF VersionInv
    <3>4. \A d \in Client, m \in 0..MaxRetries : d # c \/ m # n + 1 => fin'[d][m] = fin[d][m]
      BY <3>1 DEF OnlyFin
    <3>5. UploadInv'
      <4>1. fin'[c][0] = fin[c][0]
        BY <1>0, <2>n, <3>4
      <4>2. ASSUME NEW m \in 0..MaxRetries, m > cl'[c].attempt PROVE fin'[c][m].pc = "none"
        <5>1. m > cl[c].attempt /\ m # n + 1
          BY <2>4, <2>n, <4>2 DEF n
        <5> QED BY <1>i, <3>4, <5>1 DEF UploadInv
      <4>3. ASSUME NEW d \in Client, d # c
            PROVE  /\ cl'[d] = cl[d] /\ \A m \in 0..MaxRetries : fin'[d][m] = fin[d][m]
        BY <2>1, <3>4, <4>3 DEF Only
      <4> QED BY <1>0, <1>i, <2>1, <4>1, <4>2, <4>3 DEF UploadInv
    <3>6. VersionInv'
      <4>1. \A d \in Client : cl'[d].version = cl[d].version
        BY <2>1, <2>4 DEF Only
      <4>2. fin'[c][n + 1].answer = "none" /\ fin'[c][n + 1].pc = "verify"
        BY <3>1, <3>3
      <4>3. ASSUME NEW d \in Client, NEW m \in 0..MaxRetries
            PROVE  /\ fin'[d][m].answer # "none" => fin'[d][m].pc = "answered"
                   /\ fin'[d][m].pc = "insert" => Folder[d] \subseteq blobs
                   /\ fin'[d][m].pc = "manifest" => Named(rows, fin'[d][m].seen, d)
                   /\ fin'[d][m].answer = "ok" =>
                        Named(rows, fin'[d][m].seen, d) /\ fin'[d][m].seen \in manifests
        <5>1. CASE d = c /\ m = n + 1
          BY <4>2, <5>1
        <5>2. CASE d # c \/ m # n + 1
          <6>1. fin'[d][m] = fin[d][m]
            BY <3>4, <5>2
          <6> QED BY <1>i, <6>1 DEF VersionInv
        <5> QED BY <5>1, <5>2
      <4>4. UNCHANGED <<blobs, rows, manifests, live, pub>>
        BY <2>1, <2>4
      <4> QED BY <1>i, <4>1, <4>3, <4>4 DEF VersionInv, RetriesMakeOneVersion
    <3>7. BaseType'
      BY <1>i, <2>1, <2>4, <3>1 DEF BaseType
    <3> QED BY <2>3, <3>5, <3>6, <3>7 DEF ClientInv
  <2>5. CASE /\ cl'[c].attempt = n /\ UNCHANGED fin
             /\ \/ cl'[c].version = cl[c].version /\ UNCHANGED pub
                \/ /\ fin[c][n].answer = "ok" /\ cl'[c].version = fin[c][n].seen
                   /\ pub' \in [Client -> Request] /\ \A d \in Client : d # c => pub'[d] = pub[d]
                   /\ pub'[c] = pub[c] \/ pub'[c].seen = fin[c][n].seen
    <3>1. UploadInv'
      BY <1>i, <2>1, <2>5 DEF UploadInv, Only, n
    <3>2. fin[c][n].answer = "ok" => Named(rows, fin[c][n].seen, c) /\ fin[c][n].seen \in manifests
      BY <1>i, <2>n DEF VersionInv
    <3>3. /\ cl'[c].version # 0 => Named(rows, cl'[c].version, c) /\ cl'[c].version \in manifests
          /\ \A d \in Client : pub'[d].pc # "none" \/ pub'[d].seen # 0 => pub'[d].seen \in manifests
      BY <1>i, <2>5, <3>2 DEF VersionInv
    <3>4. \A d \in Client :
            cl'[d].version # 0 => Named(rows, cl'[d].version, d) /\ cl'[d].version \in manifests
      BY <1>i, <2>1, <3>3 DEF VersionInv, Only
    <3>5. VersionInv'
      BY <1>i, <2>1, <2>5, <3>3, <3>4 DEF VersionInv, Named, RetriesMakeOneVersion
    <3>6. BaseType'
      BY <1>i, <2>1, <2>5 DEF BaseType
    <3> QED BY <2>3, <3>1, <3>5, <3>6 DEF ClientInv
  <2> QED BY <2>2, <2>4, <2>5
<1>3. CASE Published(c) \/ AbortDeploy(c)
  <2>1. /\ cl' \in [Client -> Cl] /\ Only(c) /\ cl[c].pc # "idle" /\ cl'[c].pc \in {"done", "failed"}
        /\ cl'[c].attempt = cl[c].attempt /\ cl'[c].version = cl[c].version /\ cl'[c].free = cl[c].free
        /\ blobs \subseteq blobs' /\ blobs' \subseteq blobs \cup cl[c].flight
        /\ UNCHANGED <<fin, pub, rows, manifests, live>>
    BY <1>3, <1>i, LastParts
  <2>2. \/ cl'[c].queue = cl[c].queue /\ cl'[c].flight = cl[c].flight
        \/ cl'[c].queue = {} /\ cl'[c].flight = {}
    BY <1>3, <1>i, LastParts
  <2>3. PoolInv'
    <3>1. /\ Cardinality(cl[c].flight) \in Nat /\ cl[c].free \in Nat /\ Limit \in Nat
          /\ cl[c].free + Cardinality(cl[c].flight) <= Limit
      BY <1>i, FlightFinite DEF PoolInv
    <3>2. cl'[c].free + Cardinality(cl'[c].flight) <= Limit
      <4>1. CASE cl'[c].flight = cl[c].flight
        BY <2>1, <3>1, <4>1
      <4>2. CASE cl'[c].flight = {}
        <5>1. cl[c].free <= Limit
          BY <3>1
        <5> QED BY <1>0, <2>1, <3>1, <4>2, <5>1
      <4> QED BY <2>2, <4>1, <4>2
    <3>3. cl'[c].pc # "idle" /\ cl'[c].queue \subseteq Folder[c] /\ cl'[c].flight \subseteq Folder[c]
      BY <1>i, <2>1, <2>2 DEF PoolInv
    <3> QED BY <1>i, <2>1, <3>2, <3>3 DEF PoolInv, Only
  <2>4. UploadInv'
    <3>1. ASSUME NEW d \in Client, d # c
          PROVE  /\ cl'[d].pc = "upload" => Folder[d] \ (cl'[d].queue \cup cl'[d].flight) \subseteq blobs'
                 /\ fin'[d][0].pc # "none" =>
                      /\ cl'[d].pc \notin {"idle", "upload"}
                      /\ cl'[d].queue = {} /\ cl'[d].flight = {} /\ Folder[d] \subseteq blobs'
                 /\ \A n \in 0..MaxRetries : n > cl'[d].attempt => fin'[d][n].pc = "none"
      BY <1>i, <2>1, <3>1 DEF UploadInv, Only
    <3>2. fin[c][0].pc # "none" =>
            cl'[c].queue = {} /\ cl'[c].flight = {} /\ Folder[c] \subseteq blobs'
      BY <1>i, <2>1, <2>2 DEF UploadInv
    <3> QED BY <1>i, <2>1, <3>1, <3>2 DEF UploadInv
  <2>5. VersionInv'
    <3>1. \A d \in Client : cl'[d].version = cl[d].version
      BY <2>1 DEF Only
    <3> QED BY <1>i, <2>1, <3>1, VersionStays
  <2>6. BaseType'
    <3>1. cl[c].flight \subseteq Blob /\ blobs \subseteq Blob
      BY <1>i DEF BaseType, Cl
    <3>2. blobs' \subseteq Blob
      BY <2>1, <3>1
    <3> QED BY <1>i, <2>1, <3>2 DEF BaseType
  <2> QED BY <2>3, <2>4, <2>5, <2>6 DEF ClientInv
<1> QED BY <1>1, <1>2, <1>3

\* The invariant holds.
LEMMA ClientInvariant == ClientSafety => []ClientInv
<1>1. ClientInit => ClientInv
  <2> SUFFICES ASSUME ClientInit PROVE ClientInv
    OBVIOUS
  <2>0. 0 \in 0..MaxRetries /\ Cardinality({}) = 0
    BY FS_EmptySet
  <2>1. IdleClient \in Cl /\ NoRequest \in Request
    BY <2>0 DEF IdleClient, NoRequest, Cl, Request
  <2>2. /\ IdleClient.pc = "idle" /\ IdleClient.queue = {} /\ IdleClient.flight = {}
        /\ IdleClient.free = 0 /\ IdleClient.version = 0
        /\ NoRequest.pc = "none" /\ NoRequest.answer = "none" /\ NoRequest.seen = 0
    BY DEF IdleClient, NoRequest
  <2>3. rows = << >> /\ DOMAIN rows = {} /\ rows \in Seq(SUBSET Blob)
    BY DEF ClientInit
  <2>4. BaseType
    BY <2>1, <2>3 DEF ClientInit, BaseType
  <2>5. PoolInv
    <3>1. \A c \in Client : cl[c] = IdleClient
      BY DEF ClientInit
    <3>2. 0 + Cardinality({}) <= Limit
      BY <2>0
    <3> QED BY <2>2, <3>1, <3>2 DEF PoolInv
  <2>6. UploadInv
    BY <2>0, <2>2 DEF ClientInit, UploadInv
  <2>7. VersionInv
    BY <2>2, <2>3 DEF ClientInit, VersionInv, RetriesMakeOneVersion
  <2> QED BY <2>4, <2>5, <2>6, <2>7 DEF ClientInv
<1>2. ClientInv /\ [ClientNext]_clientVars => ClientInv'
  <2>1. CASE UNCHANGED clientVars
    BY <2>1 DEF clientVars, ClientInv, BaseType, PoolInv, UploadInv, VersionInv, Named, RetriesMakeOneVersion
  <2> QED BY <2>1, StepUpload, StepHandle, StepProceed, StepPublishAny
          DEF ClientNext, Upload, Transfer, Proceed, Learn
<1> QED BY <1>1, <1>2, PTL DEF ClientSafety

-----------------------------------------------------------------------------
(* The theorems.                                                           *)

\* The state of clients and API has its type; no pool has more than Limit
\* workers.
THEOREM ClientTypeCorrect == ClientSafety => []ClientTypeOK
<1>1. ClientInv => ClientTypeOK
  <2> SUFFICES ASSUME ClientInv PROVE ClientTypeOK
    OBVIOUS
  <2>1. BaseType /\ PoolInv /\ VersionInv
    BY DEF ClientInv
  <2>2. \A c \in Client : cl[c].free \in 0..Limit
    <3> SUFFICES ASSUME NEW c \in Client PROVE cl[c].free \in 0..Limit
      OBVIOUS
    <3>1. Cardinality(cl[c].flight) \in Nat /\ cl[c].free \in Nat
      BY <2>1, FlightFinite
    <3>2. cl[c].free + Cardinality(cl[c].flight) <= Limit
      BY <2>1 DEF PoolInv
    <3> QED BY <3>1, <3>2
  <2>3. cl \in [Client -> [pc : {"idle", "upload", "finalize", "publish", "done", "failed"},
                 queue : SUBSET Blob, flight : SUBSET Blob, free : 0..Limit,
                 tries : [Blob -> 0..MaxRetries], attempt : 0..MaxRetries, version : Nat]]
    BY <2>1, <2>2 DEF BaseType, Cl
  <2>4. live \in 0..Len(rows)
    BY <2>1 DEF BaseType, VersionInv
  <2> QED BY <2>1, <2>3, <2>4 DEF ClientTypeOK, BaseType
<1> QED BY <1>1, ClientInvariant, PTL

\* Retries, late attempts and other clients' deploys of the same folder make
\* one version.
THEOREM OneVersionPerContent == ClientSafety => []RetriesMakeOneVersion
<1>1. ClientInv => RetriesMakeOneVersion
  BY DEF ClientInv, VersionInv
<1> QED BY <1>1, ClientInvariant, PTL

\* A version a client was answered with has its manifest and its blobs, and
\* stays so whatever is published.
THEOREM AnsweredServable == ClientSafety => []AnsweredIsServable
<1>1. ClientInv => AnsweredIsServable
  BY DEF ClientInv, VersionInv, AnsweredIsServable
<1> QED BY <1>1, ClientInvariant, PTL

\* A success is a version of the client's own folder, and a finalize is sent
\* only after a whole upload.
THEOREM SuccessOwn == ClientSafety => []SuccessIsOwnFolder
<1>1. ClientInv => SuccessIsOwnFolder
  BY DEF ClientInv, VersionInv, UploadInv, Named, SuccessIsOwnFolder
<1> QED BY <1>1, ClientInvariant, PTL

-----------------------------------------------------------------------------
(* Clients and routes together.                                            *)

\* A behaviour of the two parts is a behaviour of each: a step of one leaves
\* the variables of the other alone.
THEOREM DeliveryParts == Spec => ClientSafety /\ ProjectionSafety
<1>1. Init => ClientInit /\ ProjectionInit
  BY DEF Init
<1>2. [Next]_vars => [ClientNext]_clientVars /\ [ProjectionNext]_projectionVars
  BY DEF Next, vars
<1> QED BY <1>1, <1>2, PTL DEF Spec, ClientSafety, ProjectionSafety

(* Clients, API and routes keep their types when they are run together     *)
(* (MCDelivery).                                                           *)
THEOREM DeliveryTypeCorrect == Spec => []DeliveryTypeOK
<1>1. ClientTypeOK /\ ProjectionTypeOK => DeliveryTypeOK
  BY DEF DeliveryTypeOK
<1> QED BY <1>1, DeliveryParts, ClientTypeCorrect, ProjectionTypeCorrect, PTL
=============================================================================
