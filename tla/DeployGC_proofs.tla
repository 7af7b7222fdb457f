--------------------------- MODULE DeployGC_proofs ---------------------------
(***************************************************************************)
(* Proofs about the deploy pipeline and the blob collector: the metering   *)
(* invariants, and what a collector pass may never delete, for any number  *)
(* of sites, skills, blobs and uploaders.                                  *)
(***************************************************************************)
EXTENDS DeployGC, FiniteSetTheorems, TLAPS

(* An upload in progress names an item and a manifest, and is on the path  *)
(* of its own handler.                                                     *)
ReqWellFormed ==
    \A c \in Client :
        /\ req[c].pc # "idle" => /\ req[c].content \in Content
                                 /\ req[c].item \in Item \/ req[c].pc \in {"seedPut", "seedPublish"}
        /\ req[c].pc \in {"create", "conflict", "preview"} => req[c].item \in Site
        /\ req[c].pc = "publish" => /\ req[c].item \in Skill
                                    /\ <<req[c].item, req[c].content>> \in manifests
        /\ req[c].pc = "seedPut" => req[c].item = NoItem /\ req[c].uploads \subseteq PresetContent
        /\ req[c].pc = "seedPublish" => \/ req[c].item = NoItem
                                        \/ <<req[c].item, req[c].content>> \in manifests

TypeInv == TypeOK /\ ReqWellFormed

-----------------------------------------------------------------------------
(* Bytes is a size: what is charged and refunded adds up.                  *)
LEMMA BytesType == ASSUME NEW S, S \subseteq Blob PROVE Bytes(S) \in Nat
  <1>1. IsFiniteSet(S)
    BY DeployAssumption, FS_Subset
  <1> QED BY <1>1, FS_CardinalityType DEF Bytes

(* Charging the blobs of T that are not in S yet.                          *)
LEMMA BytesUnion ==
  ASSUME NEW S, NEW T, S \subseteq Blob, T \subseteq Blob
  PROVE  Bytes(S \cup T) = Bytes(S) + Bytes(T \ S)
  <1> DEFINE B == T \ S
  <1>1. IsFiniteSet(S) /\ IsFiniteSet(B)
    BY DeployAssumption, FS_Subset
  <1>2. S \cup T = S \cup B /\ S \cap B = {}
    OBVIOUS
  <1>3. Cardinality(S \cup B) = Cardinality(S) + Cardinality(B) - Cardinality(S \cap B)
    BY <1>1, FS_Union
  <1>4. Cardinality(S \cap B) = 0
    BY <1>2, FS_EmptySet
  <1>5. Cardinality(S) \in Nat /\ Cardinality(B) \in Nat
    BY <1>1, FS_CardinalityType
  <1>6. Bytes(S \cup T) = Cardinality(S \cup B)
    BY <1>2 DEF Bytes
  <1>7. Bytes(S) = Cardinality(S) /\ Bytes(T \ S) = Cardinality(B)
    BY DEF Bytes
  <1> HIDE DEF B
  <1> QED BY <1>3, <1>4, <1>5, <1>6, <1>7

(* Refunding the blobs of S that are in T.                                 *)
LEMMA BytesDifference ==
  ASSUME NEW S, NEW T, S \subseteq Blob
  PROVE  Bytes(S \ T) = Bytes(S) - Bytes(S \cap T) /\ Bytes(S) >= Bytes(S \cap T)
  <1> DEFINE A == S \cap T
             B == S \ T
  <1>1. A \cup B = S /\ B \ A = B
    OBVIOUS
  <1>2. Bytes(A \cup B) = Bytes(A) + Bytes(B \ A)
    BY BytesUnion
  <1>3. Bytes(A) \in Nat /\ Bytes(B) \in Nat
    BY BytesType
  <1> SUFFICES Bytes(B) = Bytes(S) - Bytes(A) /\ Bytes(S) >= Bytes(A)
    OBVIOUS
  <1> HIDE DEF A, B
  <1>4. Bytes(S) = Bytes(A) + Bytes(B)
    BY <1>1, <1>2, Zenon
  <1> QED BY <1>3, <1>4

(* A new version row gets a number, so it is a row.                        *)
LEMMA NextVersionNoType ==
  ASSUME NEW i PROVE NextVersionNo(i) \in Nat /\ NextVersionNo(i) # 0
  <1>1. IsFiniteSet(SUBSET Blob)
    BY DeployAssumption, FS_SUBSET
  <1>2. IsFiniteSet({m \in Content : HasVersion(i, m)})
    BY <1>1, DeployAssumption, FS_Subset
  <1> QED BY <1>2, FS_CardinalityType DEF NextVersionNo

\* The version number of a new row has its type.
LEMMA VersionRowType ==
  ASSUME RowTypeOK, NEW i \in Item, NEW m \in Content
  PROVE  [versionNo EXCEPT ![i][m] = NextVersionNo(i)] \in [Item -> [Content -> Nat]]
  <1>1. NextVersionNo(i) \in Nat
    BY NextVersionNoType
  <1>2. versionNo \in [Item -> [Content -> Nat]] /\ versionNo[i] \in [Content -> Nat]
    BY DEF RowTypeOK
  <1>3. [versionNo[i] EXCEPT ![m] = NextVersionNo(i)] \in [Content -> Nat]
    BY <1>1, <1>2
  <1> QED BY <1>2, <1>3

-----------------------------------------------------------------------------
(* Type correctness.  The handlers' paths are needed with it: a client off *)
(* the idle state names an existing kind of item and a manifest.           *)
LEMMA InitTypeInv == ASSUME Init PROVE TypeInv
  <1>1. R2TypeOK
    BY DeployAssumption DEF Init, R2TypeOK
  <1>2. MeterTypeOK
    BY DEF Init, MeterTypeOK
  <1>3. RowTypeOK
    BY DEF Init, RowTypeOK, PreviewState
  <1>4. RequestTypeOK
    BY DeployAssumption DEF Init, RequestTypeOK, Request, IdleReq, ReqPC
  <1>5. PassTypeOK
    BY DEF Init, PassTypeOK, Pass, IdleGC, GCPC
  <1>6. ReqWellFormed
    BY DEF Init, ReqWellFormed, IdleReq
  <1> QED BY <1>1, <1>2, <1>3, <1>4, <1>5, <1>6 DEF TypeInv, TypeOK

(* A step of one client's handler: its next request record decides.        *)
LEMMA RequestStep ==
  ASSUME TypeInv, NEW c \in Client, NEW r \in Request,
         req' = [req EXCEPT ![c] = r], manifests \subseteq manifests',
         r.pc # "idle" => r.content \in Content /\ (r.item \in Item \/ r.pc \in {"seedPut", "seedPublish"}),
         r.pc \in {"create", "conflict", "preview"} => r.item \in Site,
         r.pc = "publish" => r.item \in Skill /\ <<r.item, r.content>> \in manifests',
         r.pc = "seedPut" => r.item = NoItem /\ r.uploads \subseteq PresetContent,
         r.pc = "seedPublish" => r.item = NoItem \/ <<r.item, r.content>> \in manifests'
  PROVE  RequestTypeOK' /\ ReqWellFormed'
  <1>1. RequestTypeOK'
    BY DEF TypeInv, TypeOK, RequestTypeOK
  <1>2. \A d \in Client : req'[d] = IF d = c THEN r ELSE req[d]
    BY DEF TypeInv, TypeOK, RequestTypeOK
  <1>3. ReqWellFormed'
    BY <1>2 DEF TypeInv, ReqWellFormed
  <1> QED BY <1>1, <1>3

(* accountStorage and releaseStorageForBlobs keep the ledger a set of blobs *)
(* and the counter a natural number.                                       *)
LEMMA MeterTypes ==
  ASSUME MeterTypeOK, NEW S \in SUBSET Blob,
         AccountStorage(S) \/ MeterStorageNoCap(S) \/ ReleaseStorageForBlobs(S)
  PROVE  MeterTypeOK'
  <1>1. Bytes(S \ ledger) \in Nat /\ Bytes(ledger \cap S) \in Nat
    BY BytesType DEF MeterTypeOK
  <1>2. CASE AccountStorage(S) \/ MeterStorageNoCap(S)
    BY <1>1, <1>2 DEF MeterTypeOK, AccountStorage, MeterStorageNoCap
  <1>3. CASE ReleaseStorageForBlobs(S)
    BY <1>1, <1>3 DEF MeterTypeOK, ReleaseStorageForBlobs
  <1> QED BY <1>2, <1>3

(* Every step of an upload, one by one.                                    *)
LEMMA ClientTypeInv ==
  ASSUME TypeInv, NEW c \in Client, ClientNext(c) PROVE TypeInv'
  <1>r. /\ req \in [Client -> Request]
        /\ req[c] = [pc |-> req[c].pc, item |-> req[c].item, content |-> req[c].content,
                     uploads |-> req[c].uploads, age |-> req[c].age]
        /\ req[c].pc \in ReqPC /\ req[c].item \in Item \cup {NoItem} /\ req[c].content \in SUBSET Blob
        /\ req[c].uploads \in SUBSET Blob /\ req[c].age \in 0..(UploadWindow + 1)
    BY DEF TypeInv, TypeOK, RequestTypeOK, Request
  <1>w. /\ req[c].pc # "idle" => /\ req[c].content \in Content
                                 /\ req[c].item \in Item \/ req[c].pc \in {"seedPut", "seedPublish"}
        /\ req[c].pc \in {"create", "conflict", "preview"} => req[c].item \in Site
        /\ req[c].pc = "publish" => /\ req[c].item \in Skill
                                    /\ <<req[c].item, req[c].content>> \in manifests
        /\ req[c].pc = "seedPut" => req[c].item = NoItem /\ req[c].uploads \subseteq PresetContent
        /\ req[c].pc = "seedPublish" => \/ req[c].item = NoItem
                                        \/ <<req[c].item, req[c].content>> \in manifests
    BY DEF TypeInv, ReqWellFormed
  <1>i. IdleReq \in Request /\ IdleReq.pc = "idle"
    BY DeployAssumption DEF IdleReq, Request, ReqPC
  <1>a. R2TypeOK /\ MeterTypeOK /\ RowTypeOK /\ RequestTypeOK /\ PassTypeOK
    BY DEF TypeInv, TypeOK
  <1>1. ASSUME NEW i \in Item, NEW m \in Content, StartUpload(c, i, m) PROVE TypeInv'
    <2> DEFINE r == [pc |-> "upload", item |-> i, content |-> m, uploads |-> MissingBlobs(m), age |-> 0]
    <2>1. r \in Request /\ r.pc = "upload" /\ r.item = i /\ r.content = m
      BY DeployAssumption DEF Request, ReqPC, MissingBlobs
    <2>2. req' = [req EXCEPT ![c] = r] /\ UNCHANGED <<r2Vars, meterVars, rowVars, gcVars>>
      BY <1>1 DEF StartUpload
    <2> HIDE DEF r
    <2>3. RequestTypeOK' /\ ReqWellFormed'
      BY <2>1, <2>2, RequestStep DEF r2Vars
    <2> QED BY <1>a, <2>2, <2>3 DEF TypeInv, TypeOK, R2TypeOK, MeterTypeOK, RowTypeOK, PassTypeOK,
                                    r2Vars, meterVars, rowVars, seedVars, gcVars
  <1>2. CASE PutBlob(c)
    <2>1. PICK b \in req[c].uploads : blobs' = blobs \cup {b} /\ age' = [age EXCEPT ![b] = 0]
      BY <1>2 DEF PutBlob
    <2>2. R2TypeOK'
      BY <1>2, <1>a, <1>r, <2>1, DeployAssumption DEF PutBlob, R2TypeOK
    <2>3. ReqWellFormed'
      BY <1>2 DEF PutBlob, TypeInv, ReqWellFormed
    <2> QED BY <1>2, <1>a, <2>2, <2>3 DEF PutBlob, TypeInv, TypeOK, MeterTypeOK, RowTypeOK, RequestTypeOK,
                                      PassTypeOK, meterVars, rowVars, seedVars, gcVars
  <1>3. CASE VerifyManifest(c)
    <2> DEFINE r == [pc |-> "verified", item |-> req[c].item, content |-> req[c].content,
                     uploads |-> {}, age |-> 0]
    <2>1. r \in Request /\ r.pc = "verified" /\ r.item = req[c].item /\ r.content = req[c].content
      BY <1>r, DeployAssumption DEF Request, ReqPC
    <2>2. req' = [req EXCEPT ![c] = r] /\ UNCHANGED <<r2Vars, meterVars, rowVars, gcVars>>
      BY <1>3, <1>r DEF VerifyManifest
    <2>3. req[c].item \in Item /\ req[c].content \in Content
      BY <1>3, <1>w DEF VerifyManifest
    <2> HIDE DEF r
    <2>4. RequestTypeOK' /\ ReqWellFormed'
      BY <2>1, <2>2, <2>3, RequestStep DEF r2Vars, Item
    <2> QED BY <1>a, <2>2, <2>4 DEF TypeInv, TypeOK, R2TypeOK, MeterTypeOK, RowTypeOK, PassTypeOK,
                                    r2Vars, meterVars, rowVars, seedVars, gcVars
  <1>4. CASE LookupSiteVersion(c)
    <2> DEFINE r == [req[c] EXCEPT !.pc = IF HasVersion(req[c].item, req[c].content)
                                          THEN "manifest" ELSE "create"]
    <2>1. r \in Request /\ r.pc \in {"manifest", "create"} /\ r.item = req[c].item /\ r.content = req[c].content
      BY <1>r DEF Request, ReqPC
    <2>2. req' = [req EXCEPT ![c] = r] /\ UNCHANGED <<r2Vars, meterVars, rowVars, gcVars>>
      BY <1>4, <1>r DEF LookupSiteVersion
    <2>3. req[c].item \in Site /\ req[c].content \in Content
      BY <1>4, <1>w DEF LookupSiteVersion
    <2> HIDE DEF r
    <2>4. RequestTypeOK' /\ ReqWellFormed'
      BY <2>1, <2>2, <2>3, RequestStep DEF r2Vars, Item
    <2> QED BY <1>a, <2>2, <2>4 DEF TypeInv, TypeOK, R2TypeOK, MeterTypeOK, RowTypeOK, PassTypeOK,
                                    r2Vars, meterVars, rowVars, seedVars, gcVars
  <1>5. CASE InsertSiteVersion(c)
    <2> DEFINE i == req[c].item
               m == req[c].content
               r(p) == [req[c] EXCEPT !.pc = p]
    <2>1. i \in Site /\ m \in Content /\ req[c].pc = "create"
      BY <1>5, <1>w DEF InsertSiteVersion
    <2>2. PICK p \in {"conflict", "manifest"} :
            /\ req' = [req EXCEPT ![c] = r(p)]
            /\ UNCHANGED meterVars \/ AccountStorage(m)
            /\ versionNo' \in {versionNo, [versionNo EXCEPT ![i][m] = NextVersionNo(i)]}
      BY <1>5, <1>r DEF InsertSiteVersion
    <2>3. r(p) \in Request /\ r(p).pc = p /\ r(p).item = i /\ r(p).content = m
      BY <1>r, <2>2 DEF Request, ReqPC
    <2>4. UNCHANGED <<r2Vars, live, current, preview, seedVars, gcVars>>
      BY <1>5 DEF InsertSiteVersion
    <2> HIDE DEF r
    <2>5. RequestTypeOK' /\ ReqWellFormed'
      BY <2>1, <2>2, <2>3, <2>4, RequestStep DEF r2Vars, Item
    <2>6. MeterTypeOK'
      BY <1>a, <1>r, <2>2, MeterTypes DEF MeterTypeOK, meterVars
    <2>7. versionNo' \in [Item -> [Content -> Nat]]
      <3>1. i \in Item
        BY <2>1 DEF Item
      <3>2. [versionNo EXCEPT ![i][m] = NextVersionNo(i)] \in [Item -> [Content -> Nat]]
        BY <1>a, <2>1, <3>1, VersionRowType
      <3>3. versionNo \in [Item -> [Content -> Nat]]
        BY <1>a DEF RowTypeOK
      <3> QED BY <2>2, <3>2, <3>3
    <2> QED BY <1>a, <2>4, <2>5, <2>6, <2>7 DEF TypeInv, TypeOK, R2TypeOK, RowTypeOK, PassTypeOK,
                                             r2Vars, seedVars, gcVars
  <1>6. CASE CreateSkillVersion(c)
    <2> DEFINE i == req[c].item
               m == req[c].content
               r == [req[c] EXCEPT !.pc = "manifest"]
    <2>1. r \in Request /\ r.pc = "manifest" /\ r.item = i /\ r.content = m
      BY <1>r DEF Request, ReqPC
    <2>2. /\ req' = [req EXCEPT ![c] = r]
          /\ AccountStorage(m)
          /\ versionNo' \in {versionNo, [versionNo EXCEPT ![i][m] = NextVersionNo(i)]}
          /\ UNCHANGED <<r2Vars, live, current, preview, seedVars, gcVars>>
      BY <1>6, <1>r DEF CreateSkillVersion
    <2>3. i \in Item /\ m \in Content
      BY <1>6, <1>w DEF CreateSkillVersion
    <2> HIDE DEF r
    <2>4. RequestTypeOK' /\ ReqWellFormed'
      BY <2>1, <2>2, <2>3, RequestStep DEF r2Vars
    <2>5. MeterTypeOK'
      BY <1>a, <1>r, <2>2, MeterTypes
    <2>6. versionNo' \in [Item -> [Content -> Nat]]
      <3>1. [versionNo EXCEPT ![i][m] = NextVersionNo(i)] \in [Item -> [Content -> Nat]]
        BY <1>a, <2>3, VersionRowType
      <3> QED BY <1>a, <2>2, <3>1 DEF RowTypeOK
    <2> QED BY <1>a, <2>2, <2>4, <2>5, <2>6 DEF TypeInv, TypeOK, R2TypeOK, RowTypeOK, PassTypeOK,
                                             r2Vars, seedVars, gcVars
  <1>7. ASSUME PutManifest(c) \/ PutSkillManifest(c) PROVE TypeInv'
    <2> DEFINE p == IF req[c].item \in Site THEN "preview" ELSE "publish"
               r == [req[c] EXCEPT !.pc = p]
    <2>1. r \in Request /\ r.pc = p /\ r.item = req[c].item /\ r.content = req[c].content
      BY <1>r DEF Request, ReqPC
    <2>2. /\ req[c].pc = "manifest"
          /\ manifests' = manifests \cup {<<req[c].item, req[c].content>>}
          /\ UNCHANGED <<blobs, age, meterVars, rowVars, gcVars>>
      BY <1>7 DEF PutManifest, PutSkillManifest
    <2>3. req' = [req EXCEPT ![c] = r]
      BY <1>7, <1>r, DeployAssumption DEF PutManifest, PutSkillManifest
    <2>4. req[c].item \in Item /\ req[c].content \in Content
      BY <1>w, <2>2
    <2> HIDE DEF r
    <2>5. RequestTypeOK' /\ ReqWellFormed'
      BY <2>1, <2>2, <2>3, <2>4, RequestStep DEF Item
    <2>6. R2TypeOK'
      BY <1>a, <2>2, <2>4 DEF R2TypeOK
    <2> QED BY <1>a, <2>2, <2>5, <2>6 DEF TypeInv, TypeOK, MeterTypeOK, RowTypeOK, PassTypeOK,
                                       meterVars, rowVars, seedVars, gcVars
  <1>8. CASE RegisterPreview(c)
    <2>1. req' = [req EXCEPT ![c] = IdleReq] /\ UNCHANGED <<r2Vars, meterVars, live, versionNo, current, seedVars, gcVars>>
      BY <1>8 DEF RegisterPreview, SetPreview
    <2>2. RequestTypeOK' /\ ReqWellFormed'
      BY <1>i, <2>1, RequestStep DEF r2Vars
    <2>3. preview' \in [Item -> [Content -> PreviewState]]
      BY <1>8, <1>a DEF RegisterPreview, SetPreview, RowTypeOK, PreviewState
    <2> QED BY <1>a, <2>1, <2>2, <2>3 DEF TypeInv, TypeOK, R2TypeOK, MeterTypeOK, RowTypeOK, PassTypeOK,
                                       r2Vars, meterVars, seedVars, gcVars
  <1>9. CASE PublishSkillVersion(c)
    <2>1. req' = [req EXCEPT ![c] = IdleReq] /\ UNCHANGED <<r2Vars, meterVars, live, versionNo, preview, seedVars, gcVars>>
      BY <1>9 DEF PublishSkillVersion
    <2>2. RequestTypeOK' /\ ReqWellFormed'
      BY <1>i, <2>1, RequestStep DEF r2Vars
    <2>3. current' \in [Item -> Content \cup {NoContent}]
      BY <1>9, <1>a, <1>w DEF PublishSkillVersion, RowTypeOK
    <2> QED BY <1>a, <2>1, <2>2, <2>3 DEF TypeInv, TypeOK, R2TypeOK, MeterTypeOK, RowTypeOK, PassTypeOK,
                                       r2Vars, meterVars, seedVars, gcVars
  <1>10. CASE Abort(c)
    <2>1. req' = [req EXCEPT ![c] = IdleReq] /\ UNCHANGED <<r2Vars, meterVars, rowVars, gcVars>>
      BY <1>10 DEF Abort
    <2>2. RequestTypeOK' /\ ReqWellFormed'
      BY <1>i, <2>1, RequestStep DEF r2Vars
    <2> QED BY <1>a, <2>1, <2>2 DEF TypeInv, TypeOK, R2TypeOK, MeterTypeOK, RowTypeOK, PassTypeOK,
                                    r2Vars, meterVars, rowVars, seedVars, gcVars
  <1> QED BY <1>1, <1>2, <1>3, <1>4, <1>5, <1>6, <1>7, <1>8, <1>9, <1>10
          DEF ClientNext, PrepareDeployment, PrepareSkillUpload, Item

(* Every step of a preset seeding.                                         *)
LEMMA SeedTypeInv ==
  ASSUME TypeInv, NEW c \in Client, SeedNext(c) PROVE TypeInv'
  <1>r. /\ req \in [Client -> Request]
        /\ req[c] = [pc |-> req[c].pc, item |-> req[c].item, content |-> req[c].content,
                     uploads |-> req[c].uploads, age |-> req[c].age]
        /\ req[c].item \in Item \cup {NoItem} /\ req[c].content \in SUBSET Blob
        /\ req[c].uploads \in SUBSET Blob /\ req[c].age \in 0..(UploadWindow + 1)
    BY DEF TypeInv, TypeOK, RequestTypeOK, Request
  <1>w. /\ req[c].pc # "idle" => req[c].content \in Content
        /\ req[c].pc = "seedManifest" => req[c].item \in Item
        /\ req[c].pc = "seedPut" => req[c].item = NoItem /\ req[c].uploads \subseteq PresetContent
    BY DEF TypeInv, ReqWellFormed
  <1>i. IdleReq \in Request /\ IdleReq.pc = "idle"
    BY DeployAssumption DEF IdleReq, Request, ReqPC
  <1>p. PresetContent \in Content /\ PresetContent \in SUBSET Blob /\ Preset \subseteq Item
    BY DeployAssumption DEF Item
  <1>a. R2TypeOK /\ MeterTypeOK /\ RowTypeOK /\ RequestTypeOK /\ PassTypeOK
    BY DEF TypeInv, TypeOK
  <1>1. CASE SeedBegin(c)
    <2> DEFINE r == [pc |-> "seedPut", item |-> NoItem, content |-> PresetContent,
                     uploads |-> PresetContent, age |-> 0]
    <2>1. /\ r \in Request /\ r.pc = "seedPut" /\ r.item = NoItem /\ r.content = PresetContent
          /\ r.uploads = PresetContent
      BY <1>p, DeployAssumption DEF Request, ReqPC
    <2>2. req' = [req EXCEPT ![c] = r] /\ UNCHANGED <<r2Vars, meterVars, rowVars, gcVars>>
      BY <1>1 DEF SeedBegin
    <2> HIDE DEF r
    <2>3. RequestTypeOK' /\ ReqWellFormed'
      BY <1>p, <2>1, <2>2, RequestStep DEF r2Vars
    <2> QED BY <1>a, <2>2, <2>3 DEF TypeInv, TypeOK, R2TypeOK, MeterTypeOK, RowTypeOK, PassTypeOK,
                                    r2Vars, meterVars, rowVars, seedVars, gcVars
  <1>2. CASE SeedPutBlob(c)
    <2>1. PICK b \in req[c].uploads : /\ blobs' = blobs \cup {b} /\ age' = [age EXCEPT ![b] = 0]
                                      /\ req' = [req EXCEPT ![c].uploads = @ \ {b}]
      BY <1>2 DEF SeedPutBlob
    <2> DEFINE r == [req[c] EXCEPT !.uploads = req[c].uploads \ {b}]
    <2>2. /\ r \in Request /\ r.pc = "seedPut" /\ r.item = NoItem /\ r.content = req[c].content
          /\ r.uploads \subseteq PresetContent
      BY <1>2, <1>r, <1>w DEF SeedPutBlob, Request, ReqPC
    <2>3. req' = [req EXCEPT ![c] = r] /\ UNCHANGED <<manifests, meterVars, rowVars, gcVars>>
      BY <1>2, <1>r, <2>1 DEF SeedPutBlob
    <2>4. req[c].content \in Content
      BY <1>2, <1>w DEF SeedPutBlob
    <2> HIDE DEF r
    <2>5. RequestTypeOK' /\ ReqWellFormed'
      BY <2>2, <2>3, <2>4, RequestStep
    <2>6. R2TypeOK'
      BY <1>a, <1>r, <2>1, <2>3, DeployAssumption DEF R2TypeOK
    <2> QED BY <1>a, <2>3, <2>5, <2>6 DEF TypeInv, TypeOK, MeterTypeOK, RowTypeOK, PassTypeOK,
                                       meterVars, rowVars, seedVars, gcVars
  <1>3. CASE SeedStage(c)
    <2>1. PICK p \in SeedRows :
            /\ live' = live \cup {p} /\ unborn' = unborn \ {p}
            /\ versionNo' \in {versionNo, [versionNo EXCEPT ![p][PresetContent] = 1]}
            /\ req' = [req EXCEPT ![c].pc = "seedManifest", ![c].item = p]
      BY <1>3 DEF SeedStage
    <2>2. p \in Item
      BY <1>a, <1>p DEF SeedRows, RowTypeOK
    <2> DEFINE r == [req[c] EXCEPT !.pc = "seedManifest", !.item = p]
    <2>3. r \in Request /\ r.pc = "seedManifest" /\ r.item = p /\ r.content = req[c].content
      BY <1>r, <2>2 DEF Request, ReqPC
    <2>4. req' = [req EXCEPT ![c] = r] /\ UNCHANGED <<r2Vars, current, preview, seeded, gcVars>>
      BY <1>3, <1>r, <2>1 DEF SeedStage
    <2>5. req[c].content \in Content
      BY <1>3, <1>w DEF SeedStage
    <2> HIDE DEF r
    <2>6. RequestTypeOK' /\ ReqWellFormed'
      BY <2>2, <2>3, <2>4, <2>5, RequestStep DEF r2Vars
    <2>7. MeterTypeOK'
      BY <1>3, <1>a, <1>p, MeterTypes DEF SeedStage
    <2>8. [versionNo EXCEPT ![p][PresetContent] = 1] \in [Item -> [Content -> Nat]]
      <3>1. versionNo \in [Item -> [Content -> Nat]] /\ versionNo[p] \in [Content -> Nat]
        BY <1>a, <2>2 DEF RowTypeOK
      <3>2. [versionNo[p] EXCEPT ![PresetContent] = 1] \in [Content -> Nat]
        BY <1>p, <3>1
      <3> QED BY <3>1, <3>2
    <2>9. RowTypeOK'
      BY <1>a, <2>1, <2>2, <2>4, <2>8 DEF RowTypeOK
    <2> QED BY <1>a, <2>4, <2>6, <2>7, <2>9 DEF TypeInv, TypeOK, R2TypeOK, PassTypeOK, r2Vars, gcVars
  <1>4. CASE SeedStageSkips(c)
    <2> DEFINE s == [req[c] EXCEPT !.pc = "seedPublish"]
    <2>1. s \in Request /\ s.pc = "seedPublish" /\ s.item = NoItem /\ s.content = req[c].content
      BY <1>4, <1>r, <1>w DEF SeedStageSkips, Request, ReqPC
    <2>2. req[c].content \in Content
      BY <1>4, <1>w DEF SeedStageSkips
    <2>3. /\ req' = [req EXCEPT ![c] = IdleReq] \/ req' = [req EXCEPT ![c] = s]
          /\ UNCHANGED <<r2Vars, meterVars, rowVars, gcVars>>
      BY <1>4, <1>r DEF SeedStageSkips
    <2> HIDE DEF s
    <2>4. RequestTypeOK' /\ ReqWellFormed'
      BY <1>i, <2>1, <2>2, <2>3, RequestStep DEF r2Vars
    <2> QED BY <1>a, <2>3, <2>4 DEF TypeInv, TypeOK, R2TypeOK, MeterTypeOK, RowTypeOK, PassTypeOK,
                                    r2Vars, meterVars, rowVars, seedVars, gcVars
  <1>5. CASE SeedPutManifest(c)
    <2> DEFINE r == [req[c] EXCEPT !.pc = "seedPublish"]
    <2>1. r \in Request /\ r.pc = "seedPublish" /\ r.item = req[c].item /\ r.content = req[c].content
      BY <1>r DEF Request, ReqPC
    <2>2. /\ manifests' = manifests \cup {<<req[c].item, req[c].content>>}
          /\ req' = [req EXCEPT ![c] = r] /\ UNCHANGED <<blobs, age, meterVars, rowVars, gcVars>>
      BY <1>5, <1>r DEF SeedPutManifest
    <2>3. req[c].item \in Item /\ req[c].content \in Content
      BY <1>5, <1>w DEF SeedPutManifest
    <2> HIDE DEF r
    <2>4. RequestTypeOK' /\ ReqWellFormed'
      BY <2>1, <2>2, <2>3, RequestStep
    <2>5. R2TypeOK'
      BY <1>a, <2>2, <2>3 DEF R2TypeOK
    <2> QED BY <1>a, <2>2, <2>4, <2>5 DEF TypeInv, TypeOK, MeterTypeOK, RowTypeOK, PassTypeOK,
                                       meterVars, rowVars, seedVars, gcVars
  <1>6. CASE SeedPublish(c)
    <2>1. /\ req' = [req EXCEPT ![c] = IdleReq] /\ seeded' = TRUE
          /\ UNCHANGED <<r2Vars, meterVars, live, versionNo, preview, unborn, gcVars>>
      BY <1>6 DEF SeedPublish
    <2>2. RequestTypeOK' /\ ReqWellFormed'
      BY <1>i, <2>1, RequestStep DEF r2Vars
    <2>3. req[c].content \in Content
      BY <1>6, <1>w DEF SeedPublish
    <2>4. current' \in [Item -> Content \cup {NoContent}]
      BY <1>6, <1>a, <2>3 DEF SeedPublish, RowTypeOK
    <2> QED BY <1>a, <2>1, <2>2, <2>4 DEF TypeInv, TypeOK, R2TypeOK, MeterTypeOK, RowTypeOK, PassTypeOK,
                                       r2Vars, meterVars, seedVars, gcVars
  <1> QED BY <1>1, <1>2, <1>3, <1>4, <1>5, <1>6 DEF SeedNext

(* The single-transaction requests only touch rows.                        *)
LEMMA OwnerTypeInv ==
  ASSUME TypeInv, OwnerNext PROVE TypeInv'
  <1>a. R2TypeOK /\ MeterTypeOK /\ RowTypeOK /\ RequestTypeOK /\ PassTypeOK /\ ReqWellFormed
    BY DEF TypeInv, TypeOK
  <1>1. UNCHANGED <<r2Vars, meterVars, req, gcVars>>
    BY DEF OwnerNext, Publish, CreatePreview, SetPreview, DeletePreview, DeleteSite, DeleteSkill, DeleteItem
  <1>2. ASSUME NEW s \in Site, NEW m \in Content,
               Publish(s, m) \/ CreatePreview(s, m) \/ DeletePreview(s, m)
        PROVE  RowTypeOK'
    <2>1. CASE Publish(s, m)
      BY <1>a, <2>1 DEF Publish, RowTypeOK, PreviewState, seedVars, Item
    <2>2. CASE CreatePreview(s, m)
      BY <1>a, <2>2 DEF CreatePreview, SetPreview, RowTypeOK, PreviewState, seedVars
    <2>3. CASE DeletePreview(s, m)
      BY <1>a, <2>3 DEF DeletePreview, RowTypeOK, PreviewState, seedVars
    <2> QED BY <1>2, <2>1, <2>2, <2>3
  <1>3. ASSUME NEW i \in Item, DeleteItem(i) PROVE RowTypeOK'
    <2>1. live' \subseteq Item /\ current' \in [Item -> Content \cup {NoContent}]
      BY <1>a, <1>3 DEF DeleteItem, RowTypeOK
    <2>2. versionNo' \in [Item -> [Content -> Nat]]
      BY <1>a, <1>3 DEF DeleteItem, RowTypeOK
    <2>3. preview' \in [Item -> [Content -> PreviewState]]
      BY <1>a, <1>3 DEF DeleteItem, RowTypeOK, PreviewState
    <2> QED BY <1>a, <1>3, <2>1, <2>2, <2>3 DEF DeleteItem, RowTypeOK, seedVars
  <1>4. RowTypeOK'
    BY <1>2, <1>3 DEF OwnerNext, DeleteSite, DeleteSkill, Item
  <1> QED BY <1>a, <1>1, <1>4 DEF TypeInv, TypeOK, R2TypeOK, MeterTypeOK, RequestTypeOK, PassTypeOK,
                                  ReqWellFormed, r2Vars, meterVars, gcVars

(* The collector's steps.                                                  *)
LEMMA GCTypeInv ==
  ASSUME TypeInv, GCNext PROVE TypeInv'
  <1>a. R2TypeOK /\ MeterTypeOK /\ RowTypeOK /\ RequestTypeOK /\ PassTypeOK /\ ReqWellFormed
    BY DEF TypeInv, TypeOK
  <1>g. /\ gc = [pc |-> gc.pc, retained |-> gc.retained, orphans |-> gc.orphans, todo |-> gc.todo]
        /\ gc.pc \in GCPC /\ gc.retained \in SUBSET (Item \X Content)
        /\ gc.orphans \in SUBSET Blob /\ gc.todo \in SUBSET Blob /\ served \in SUBSET Blob
    BY <1>a DEF PassTypeOK, Pass
  <1>i. IdleGC \in Pass
    BY DEF IdleGC, Pass, GCPC
  <1>0. UNCHANGED <<manifests, rowVars, req>>
    BY DEF GCNext, GCSelect, GCReadManifest, GCCollect, GCDeleteBlob, GCRelease, GCAbort, r2Vars
  <1>1. CASE GCSelect
    <2>1. UNCHANGED <<r2Vars, meterVars>>
      BY <1>1 DEF GCSelect
    <2>2. SelectRetained \cup SkillRetained \in SUBSET (Item \X Content)
      BY DEF SelectRetained, SkillRetained, Item
    <2>3. gc' \in Pass
      BY <1>1, <1>a, <2>2 DEF GCSelect, Pass, IdleGC, GCPC, R2TypeOK
    <2>4. served' \subseteq Blob
      BY <1>1, <1>a, DeployAssumption DEF GCSelect, R2TypeOK
    <2> QED BY <1>a, <1>0, <2>1, <2>3, <2>4 DEF TypeInv, TypeOK, R2TypeOK, MeterTypeOK, RowTypeOK,
              RequestTypeOK, PassTypeOK, ReqWellFormed, r2Vars, meterVars, rowVars, seedVars
  <1>2. CASE GCReadManifest
    <2>1. UNCHANGED <<r2Vars, meterVars, served>>
      BY <1>2 DEF GCReadManifest
    <2>2. gc' \in Pass
      BY <1>2, <1>g DEF GCReadManifest, Pass
    <2> QED BY <1>a, <1>0, <2>1, <2>2 DEF TypeInv, TypeOK, R2TypeOK, MeterTypeOK, RowTypeOK,
              RequestTypeOK, PassTypeOK, ReqWellFormed, r2Vars, meterVars, rowVars, seedVars
  <1>3. CASE GCCollect
    <2>1. UNCHANGED <<r2Vars, meterVars, served>>
      BY <1>3 DEF GCCollect
    <2>2. gc' \in Pass
      BY <1>3, <1>g, <1>a DEF GCCollect, Pass, GCPC
    <2> QED BY <1>a, <1>0, <2>1, <2>2 DEF TypeInv, TypeOK, R2TypeOK, MeterTypeOK, RowTypeOK,
              RequestTypeOK, PassTypeOK, ReqWellFormed, r2Vars, meterVars, rowVars, seedVars
  <1>4. CASE GCDeleteBlob
    <2>1. UNCHANGED <<meterVars, served>>
      BY <1>4 DEF GCDeleteBlob
    <2>2. PICK b \in gc.todo : /\ blobs' = blobs \ {b} /\ age' = [age EXCEPT ![b] = 0]
                               /\ gc' = [gc EXCEPT !.todo = gc.todo \ {b}]
      BY <1>4 DEF GCDeleteBlob
    <2>3. gc' \in Pass
      BY <1>g, <2>2 DEF Pass
    <2>4. R2TypeOK'
      <3>1. 0 \in 0..(MinAge + 1)
        BY DeployAssumption
      <3>2. age' \in [Blob -> 0..(MinAge + 1)]
        BY <1>a, <2>2, <3>1 DEF R2TypeOK
      <3> QED BY <1>a, <1>0, <2>2, <3>2 DEF R2TypeOK
    <2> QED BY <1>a, <1>0, <2>1, <2>3, <2>4 DEF TypeInv, TypeOK, MeterTypeOK, RowTypeOK,
              RequestTypeOK, PassTypeOK, ReqWellFormed, meterVars, rowVars, seedVars
  <1>5. CASE GCRelease
    <2>1. UNCHANGED r2Vars /\ gc' = IdleGC /\ served' = {}
      BY <1>5 DEF GCRelease
    <2>2. MeterTypeOK'
      BY <1>5, <1>a, <1>g, MeterTypes DEF GCRelease
    <2> QED BY <1>a, <1>i, <1>0, <2>1, <2>2 DEF TypeInv, TypeOK, R2TypeOK, RowTypeOK,
              RequestTypeOK, PassTypeOK, ReqWellFormed, r2Vars, rowVars, seedVars
  <1>6. CASE GCAbort
    <2>1. UNCHANGED <<r2Vars, meterVars>> /\ gc' = IdleGC /\ served' = {}
      BY <1>6 DEF GCAbort
    <2> QED BY <1>a, <1>i, <1>0, <2>1 DEF TypeInv, TypeOK, R2TypeOK, MeterTypeOK, RowTypeOK,
              RequestTypeOK, PassTypeOK, ReqWellFormed, r2Vars, meterVars, rowVars, seedVars
  <1> QED BY <1>1, <1>2, <1>3, <1>4, <1>5, <1>6 DEF GCNext

(* Time passing, and a preview's deadline passing.                         *)
LEMMA TimeTypeInv ==
  ASSUME TypeInv, TimeNext PROVE TypeInv'
  <1>a. R2TypeOK /\ MeterTypeOK /\ RowTypeOK /\ RequestTypeOK /\ PassTypeOK /\ ReqWellFormed
    BY DEF TypeInv, TypeOK
  <1>1. CASE Tick
    <2>1. R2TypeOK'
      BY <1>1, <1>a, DeployAssumption DEF Tick, R2TypeOK, Older
    <2>2. \A c \in Client : /\ req'[c] \in Request
                            /\ req'[c].pc = req[c].pc /\ req'[c].item = req[c].item
                            /\ req'[c].content = req[c].content
      <3> SUFFICES ASSUME NEW c \in Client
                   PROVE  /\ req'[c] \in Request
                          /\ req'[c].pc = req[c].pc /\ req'[c].item = req[c].item
                          /\ req'[c].content = req[c].content
        OBVIOUS
      <3> DEFINE n == Older(req[c].age, UploadWindow + 1)
      <3>1. req[c] \in Request
        BY <1>a DEF RequestTypeOK
      <3>2. n \in 0..(UploadWindow + 1)
        BY <3>1, DeployAssumption DEF Older, Request
      <3>3. req'[c] = IF req[c].pc = "upload" /\ req[c].uploads # {} THEN [req[c] EXCEPT !.age = n] ELSE req[c]
        BY <1>1 DEF Tick
      <3> HIDE DEF n
      <3> QED BY <3>1, <3>2, <3>3 DEF Request
    <2>3. RequestTypeOK'
      BY <1>1, <2>2 DEF Tick, RequestTypeOK
    <2>4. ReqWellFormed'
      BY <1>1, <1>a, <2>2 DEF Tick, ReqWellFormed
    <2> QED BY <1>1, <1>a, <2>1, <2>3, <2>4 DEF Tick, TypeInv, TypeOK, MeterTypeOK, RowTypeOK, PassTypeOK,
                                             meterVars, rowVars, seedVars, gcVars
  <1>2. ASSUME NEW s \in Site, NEW m \in Content, PreviewLapses(s, m) PROVE TypeInv'
    <2>1. preview' \in [Item -> [Content -> PreviewState]]
      BY <1>2, <1>a DEF PreviewLapses, RowTypeOK, PreviewState, Item
    <2> QED BY <1>2, <1>a, <2>1 DEF PreviewLapses, TypeInv, TypeOK, R2TypeOK, MeterTypeOK, RowTypeOK,
              RequestTypeOK, PassTypeOK, ReqWellFormed, r2Vars, meterVars, seedVars, gcVars
  <1> QED BY <1>1, <1>2 DEF TimeNext

\* Every step keeps the type invariant.
LEMMA NextTypeInv ==
  ASSUME TypeInv, [Next]_vars PROVE TypeInv'
  <1>1. CASE UNCHANGED vars
    BY <1>1 DEF vars, r2Vars, meterVars, rowVars, seedVars, gcVars, TypeInv, TypeOK, R2TypeOK, MeterTypeOK,
                RowTypeOK, RequestTypeOK, PassTypeOK, ReqWellFormed
  <1> QED BY <1>1, ClientTypeInv, SeedTypeInv, OwnerTypeInv, GCTypeInv, TimeTypeInv DEF Next

(* Every variable keeps its type: in particular the storage counter, which *)
(* releaseStorageForBlobs subtracts from, is never negative.               *)
THEOREM TypeCorrect == Spec => []TypeOK
  <1>1. Init => TypeInv
    BY InitTypeInv
  <1>2. TypeInv /\ [Next]_vars => TypeInv'
    BY NextTypeInv
  <1>3. TypeInv => TypeOK
    BY DEF TypeInv
  <1> QED BY <1>1, <1>2, <1>3, PTL DEF Spec

-----------------------------------------------------------------------------
(* Metering.  Which steps touch the ledger and the counter.                *)
LEMMA MeterStep ==
  ASSUME TypeInv, [Next]_vars
  PROVE  \/ UNCHANGED meterVars
         \/ MeterStorageNoCap(PresetContent)
         \/ \E S \in SUBSET Blob : AccountStorage(S) \/ ReleaseStorageForBlobs(S)
  <1>1. CASE UNCHANGED vars
    BY <1>1 DEF vars
  <1>2. ASSUME NEW c \in Client, ClientNext(c)
        PROVE  UNCHANGED meterVars \/ AccountStorage(req[c].content)
    BY <1>2 DEF ClientNext, PrepareDeployment, PrepareSkillUpload, StartUpload, PutBlob, VerifyManifest,
       LookupSiteVersion, InsertSiteVersion, CreateSkillVersion, PutManifest, PutSkillManifest,
       RegisterPreview, SetPreview, PublishSkillVersion, Abort
  <1>s. ASSUME NEW c \in Client, SeedNext(c)
        PROVE  UNCHANGED meterVars \/ MeterStorageNoCap(PresetContent)
    BY <1>s DEF SeedNext, SeedBegin, SeedPutBlob, SeedStage, SeedStageSkips, SeedPutManifest, SeedPublish
  <1>3. \A c \in Client : req[c].content \in SUBSET Blob
    BY DEF TypeInv, TypeOK, RequestTypeOK, Request
  <1>4. CASE OwnerNext
    BY <1>4 DEF OwnerNext, Publish, CreatePreview, SetPreview, DeletePreview, DeleteSite, DeleteSkill, DeleteItem
  <1>5. CASE GCNext
    <2>1. UNCHANGED meterVars \/ ReleaseStorageForBlobs(gc.orphans)
      BY <1>5 DEF GCNext, GCSelect, GCReadManifest, GCCollect, GCDeleteBlob, GCRelease, GCAbort
    <2>2. gc.orphans \in SUBSET Blob
      BY DEF TypeInv, TypeOK, PassTypeOK, Pass
    <2> QED BY <2>1, <2>2
  <1>6. CASE TimeNext
    BY <1>6 DEF TimeNext, Tick, PreviewLapses
  <1> QED BY <1>1, <1>2, <1>s, <1>3, <1>4, <1>5, <1>6 DEF Next

(* With the counter equal to the ledger, the quota bounds what the ledger  *)
(* holds besides the presets; that is what every charge and refund keeps.  *)
MeterInv == CounterMatchesLedger /\ WithinQuota

LEMMA QuotaOfLedger ==
  ASSUME NEW L, L \subseteq Blob
  PROVE  Bytes(L) <= Cap + Bytes(L \cap PresetContent) <=> Bytes(L \ PresetContent) <= Cap
  <1>1. Bytes(L \ PresetContent) = Bytes(L) - Bytes(L \cap PresetContent)
    BY BytesDifference
  <1>2. Bytes(L) \in Nat /\ Bytes(L \cap PresetContent) \in Nat /\ Cap \in Nat
    BY BytesType, DeployAssumption
  <1> QED BY <1>1, <1>2

\* A part weighs no more than the whole.
LEMMA BytesOfPart ==
  ASSUME NEW S, NEW T, T \subseteq Blob, S \subseteq T PROVE Bytes(S) <= Bytes(T)
  <1>1. Bytes(T) >= Bytes(T \cap S)
    BY BytesDifference
  <1>2. T \cap S = S
    OBVIOUS
  <1>3. Bytes(S) \in Nat /\ Bytes(T) \in Nat
    BY BytesType
  <1>4. Bytes(T) >= Bytes(S)
    BY <1>1, <1>2, Zenon
  <1> QED BY <1>3, <1>4

\* Every step keeps counter and ledger together.
LEMMA NextMeterInv ==
  ASSUME TypeInv, MeterInv, [Next]_vars PROVE MeterInv'
  <1> DEFINE Within(L) == Bytes(L \ PresetContent) <= Cap
  <1>1. CASE UNCHANGED meterVars
    BY <1>1 DEF meterVars, MeterInv, CounterMatchesLedger, WithinQuota, Bytes
  <1>2. ledger \subseteq Blob /\ storage \in Nat /\ Cap \in Nat /\ storage = Bytes(ledger)
    BY DeployAssumption DEF TypeInv, TypeOK, MeterTypeOK, MeterInv, CounterMatchesLedger
  <1>3. Within(ledger)
    BY <1>2, QuotaOfLedger DEF MeterInv, WithinQuota
  <1>q. ASSUME ledger' \subseteq Blob, storage' = Bytes(ledger'), Within(ledger') PROVE MeterInv'
    <2>1. CounterMatchesLedger'
      BY <1>q DEF CounterMatchesLedger, Bytes
    <2>2. storage' <= Cap + Bytes(ledger' \cap PresetContent)
      BY <1>q, QuotaOfLedger
    <2> QED BY <2>1, <2>2 DEF MeterInv, WithinQuota, Bytes
  <1>4. ASSUME NEW S \in SUBSET Blob, AccountStorage(S) \/ MeterStorageNoCap(S)
        PROVE  ledger' = ledger \cup S /\ ledger' \subseteq Blob /\ storage' = Bytes(ledger')
    <2>1. Bytes(ledger \cup S) = Bytes(ledger) + Bytes(S \ ledger)
      BY <1>2, BytesUnion
    <2>2. ledger' = ledger \cup S /\ storage' = storage + Bytes(S \ ledger)
      BY <1>4 DEF AccountStorage, MeterStorageNoCap
    <2> QED BY <1>2, <2>1, <2>2
  <1>5. ASSUME NEW S \in SUBSET Blob, AccountStorage(S) PROVE MeterInv'
    <2>1. ledger' = ledger \cup S /\ ledger' \subseteq Blob /\ storage' = Bytes(ledger')
      BY <1>4, <1>5
    <2>2. Bytes(S \ ledger) \in Nat /\ Bytes(ledger') \in Nat
      BY <2>1, BytesType
    <2>3. CASE Bytes(S \ ledger) = 0
      <3>1. IsFiniteSet(S \ ledger)
        BY DeployAssumption, FS_Subset
      <3>2. S \ ledger = {}
        BY <2>3, <3>1, FS_EmptySet DEF Bytes
      <3>3. ledger' = ledger
        BY <2>1, <3>2
      <3> QED BY <1>3, <1>q, <2>1, <3>3
    <2>4. CASE Bytes(S \ ledger) > 0
      <3>1. storage' <= Cap
        BY <1>2, <1>5, <2>2, <2>4 DEF AccountStorage, OverQuota, AllowN
      <3>2. Bytes(ledger' \ PresetContent) <= Bytes(ledger') /\ Bytes(ledger' \ PresetContent) \in Nat
        BY <2>1, BytesOfPart, BytesType
      <3>3. Within(ledger')
        BY <1>2, <2>1, <2>2, <3>1, <3>2
      <3> QED BY <1>q, <2>1, <3>3
    <2> QED BY <2>2, <2>3, <2>4
  <1>6. CASE MeterStorageNoCap(PresetContent)
    <2>1. PresetContent \in SUBSET Blob
      BY DeployAssumption
    <2>2. ledger' = ledger \cup PresetContent /\ ledger' \subseteq Blob /\ storage' = Bytes(ledger')
      BY <1>4, <1>6, <2>1
    <2>3. ledger' \ PresetContent = ledger \ PresetContent
      BY <2>2
    <2> QED BY <1>3, <1>q, <2>2, <2>3
  <1>7. ASSUME NEW S \in SUBSET Blob, ReleaseStorageForBlobs(S) PROVE MeterInv'
    <2> DEFINE freed == Bytes(ledger \cap S)
    <2>1. Bytes(ledger \ S) = Bytes(ledger) - freed /\ Bytes(ledger) >= freed
      BY <1>2, BytesDifference
    <2>2. freed \in Nat /\ Bytes(ledger) \in Nat
      BY <1>2, BytesType
    <2>3. /\ ledger' = ledger \ S
          /\ storage' = IF storage >= freed THEN storage - freed ELSE 0
      BY <1>7 DEF ReleaseStorageForBlobs
    <2>4. storage' = Bytes(ledger')
      BY <1>2, <2>1, <2>2, <2>3
    <2>5. ledger \ PresetContent \subseteq Blob /\ ledger' \ PresetContent \subseteq ledger \ PresetContent
      BY <1>2, <2>3
    <2>6. Bytes(ledger' \ PresetContent) <= Bytes(ledger \ PresetContent)
      BY <2>5, BytesOfPart
    <2>7. Bytes(ledger' \ PresetContent) \in Nat /\ Bytes(ledger \ PresetContent) \in Nat
      BY <2>5, BytesType
    <2>8. Within(ledger')
      BY <1>2, <1>3, <2>6, <2>7
    <2> QED BY <1>2, <1>q, <2>3, <2>4, <2>8
  <1> QED BY <1>1, <1>5, <1>6, <1>7, MeterStep

\* Counter and ledger agree at the start.
LEMMA InitMeterInv == ASSUME Init PROVE MeterInv
  <1>1. Cardinality({}) = 0
    BY FS_EmptySet
  <1>2. ledger = {} /\ ledger \cap PresetContent = {} /\ storage = 0
    BY DEF Init
  <1> QED BY <1>1, <1>2, DeployAssumption DEF MeterInv, CounterMatchesLedger, WithinQuota, Bytes

(* The storage counter equals the ledger whatever uploads and collector    *)
(* passes interleave or crash.                                             *)
THEOREM CounterCorrect == Spec => []CounterMatchesLedger
  <1>1. Init => TypeInv /\ MeterInv
    BY InitTypeInv, InitMeterInv
  <1>2. TypeInv /\ MeterInv /\ [Next]_vars => TypeInv' /\ MeterInv'
    BY NextTypeInv, NextMeterInv
  <1>3. MeterInv => CounterMatchesLedger
    BY DEF MeterInv
  <1> QED BY <1>1, <1>2, <1>3, PTL DEF Spec

(* No interleaving of finalizes, skill uploads, seedings and collector     *)
(* passes charges the org past its cap by more than the presets' bytes.    *)
THEOREM QuotaHolds == Spec => []WithinQuota
  <1>1. Init => TypeInv /\ MeterInv
    BY InitTypeInv, InitMeterInv
  <1>2. TypeInv /\ MeterInv /\ [Next]_vars => TypeInv' /\ MeterInv'
    BY NextTypeInv, NextMeterInv
  <1>3. MeterInv => WithinQuota
    BY DEF MeterInv
  <1> QED BY <1>1, <1>2, <1>3, PTL DEF Spec

-----------------------------------------------------------------------------
(* What a pass may delete.  A presigned PUT that is still good is for a    *)
(* blob that was absent when it was signed, so whoever wrote that blob did *)
(* so later: it is younger than the PUT, hence younger than the age guard. *)
SignedPutsAreForNewBlobs ==
    \A c \in Client : req[c].pc = "upload" =>
        \A b \in req[c].uploads :
            req[c].age <= UploadWindow /\ b \in blobs => age[b] <= req[c].age

(* The blobs a pass has yet to delete are there, and still old, except for *)
(* a preset's, which a seeding may have written again.                     *)
OrphansAreOld ==
    /\ gc.pc # "deleting" => gc.todo = {}
    /\ \A b \in gc.todo : b \in blobs /\ (OldEnough(b) \/ b \in PresetContent)

AgeInv == SignedPutsAreForNewBlobs /\ OrphansAreOld

(* Blob ages: what a presigned PUT may refer to, step by step.             *)
LEMMA NextSignedPuts ==
  ASSUME TypeInv, AgeInv, [Next]_vars PROVE SignedPutsAreForNewBlobs'
  <1>t. /\ req \in [Client -> Request]
        /\ age \in [Blob -> 0..(MinAge + 1)]
        /\ \A c \in Client : req[c].uploads \in SUBSET Blob /\ req[c].age \in 0..(UploadWindow + 1)
    BY DEF TypeInv, TypeOK, R2TypeOK, RequestTypeOK, Request
  <1>n. UploadWindow \in Nat /\ MinAge \in Nat
    BY DeployAssumption
  <1>1. CASE /\ UNCHANGED <<blobs, age>>
             /\ \A c \in Client : \/ req'[c] = req[c]
                                  \/ req'[c].pc # "upload"
                                  \/ req'[c].uploads \cap blobs = {}
    BY <1>1 DEF AgeInv, SignedPutsAreForNewBlobs
  <1>2. ASSUME NEW c \in Client, PutBlob(c) PROVE SignedPutsAreForNewBlobs'
    <2>1. PICK b \in req[c].uploads : blobs' = blobs \cup {b} /\ age' = [age EXCEPT ![b] = 0]
      BY <1>2 DEF PutBlob
    <2>2. UNCHANGED req
      BY <1>2 DEF PutBlob
    <2>3. \A d \in Client : req[d].age >= 0
      BY <1>t, <1>n
    <2> QED BY <1>t, <2>1, <2>2, <2>3 DEF AgeInv, SignedPutsAreForNewBlobs
  <1>3. ASSUME NEW c \in Client, ClientNext(c), ~PutBlob(c) PROVE SignedPutsAreForNewBlobs'
    <2>1. UNCHANGED <<blobs, age>>
      BY <1>3 DEF ClientNext, PrepareDeployment, PrepareSkillUpload, StartUpload, VerifyManifest,
         LookupSiteVersion, InsertSiteVersion, CreateSkillVersion, PutManifest, PutSkillManifest,
         RegisterPreview, SetPreview, PublishSkillVersion, Abort, r2Vars
    <2>2. \A d \in Client \ {c} : req'[d] = req[d]
      BY <1>3, <1>t DEF ClientNext, PrepareDeployment, PrepareSkillUpload, StartUpload, VerifyManifest,
         LookupSiteVersion, InsertSiteVersion, CreateSkillVersion, PutManifest, PutSkillManifest,
         RegisterPreview, SetPreview, PublishSkillVersion, Abort
    <2>3. CASE PrepareDeployment(c) \/ PrepareSkillUpload(c)
      <3>1. req'[c].uploads \cap blobs = {}
        BY <2>3, <1>t DEF PrepareDeployment, PrepareSkillUpload, StartUpload, MissingBlobs
      <3> QED BY <1>1, <2>1, <2>2, <3>1
    <2>4. CASE VerifyManifest(c) \/ RegisterPreview(c) \/ PublishSkillVersion(c) \/ Abort(c)
      <3>1. req'[c].pc # "upload"
        BY <2>4, <1>t DEF VerifyManifest, RegisterPreview, PublishSkillVersion, Abort, IdleReq
      <3> QED BY <1>1, <2>1, <2>2, <3>1
    <2>5. CASE \/ LookupSiteVersion(c) \/ InsertSiteVersion(c) \/ CreateSkillVersion(c)
               \/ PutManifest(c) \/ PutSkillManifest(c)
      <3>1. req'[c].pc # "upload"
        BY <2>5, <1>t DEF LookupSiteVersion, InsertSiteVersion, CreateSkillVersion, PutManifest,
                          PutSkillManifest, Request
      <3> QED BY <1>1, <2>1, <2>2, <3>1
    <2> QED BY <1>3, <2>3, <2>4, <2>5 DEF ClientNext
  <1>s. ASSUME NEW c \in Client, SeedNext(c) PROVE SignedPutsAreForNewBlobs'
    <2>1. \A d \in Client \ {c} : req'[d] = req[d]
      BY <1>s, <1>t DEF SeedNext, SeedBegin, SeedPutBlob, SeedStage, SeedStageSkips, SeedPutManifest, SeedPublish
    <2>2. req'[c].pc # "upload"
      <3>1. CASE SeedBegin(c) \/ SeedPublish(c)
        BY <1>t, <3>1 DEF SeedBegin, SeedPublish, IdleReq
      <3>2. CASE SeedPutBlob(c)
        BY <1>t, <3>2 DEF SeedPutBlob, Request
      <3>3. CASE SeedStage(c) \/ SeedStageSkips(c) \/ SeedPutManifest(c)
        BY <1>t, <3>3 DEF SeedStage, SeedStageSkips, SeedPutManifest, IdleReq, Request
      <3> QED BY <1>s, <3>1, <3>2, <3>3 DEF SeedNext
    <2>3. CASE SeedPutBlob(c)
      <3>1. PICK b \in req[c].uploads : blobs' = blobs \cup {b} /\ age' = [age EXCEPT ![b] = 0]
        BY <2>3 DEF SeedPutBlob
      <3>2. \A d \in Client : req[d].age >= 0
        BY <1>t, <1>n
      <3> QED BY <1>t, <2>1, <2>2, <3>1, <3>2 DEF AgeInv, SignedPutsAreForNewBlobs
    <2>4. CASE ~SeedPutBlob(c)
      <3>1. UNCHANGED <<blobs, age>>
        BY <1>s, <2>4 DEF SeedNext, SeedBegin, SeedStage, SeedStageSkips, SeedPutManifest, SeedPublish, r2Vars
      <3> QED BY <1>1, <2>1, <2>2, <3>1
    <2> QED BY <2>3, <2>4
  <1>4. CASE OwnerNext
    <2>1. UNCHANGED <<blobs, age, req>>
      BY <1>4 DEF OwnerNext, Publish, CreatePreview, SetPreview, DeletePreview, DeleteSite, DeleteSkill,
                  DeleteItem, r2Vars
    <2> QED BY <1>1, <2>1
  <1>5. CASE GCNext
    <2>1. CASE GCDeleteBlob
      <3>1. PICK b \in gc.todo : blobs' = blobs \ {b} /\ age' = [age EXCEPT ![b] = 0] /\ UNCHANGED req
        BY <2>1 DEF GCDeleteBlob
      <3> QED BY <1>t, <3>1 DEF AgeInv, SignedPutsAreForNewBlobs
    <2>2. CASE ~GCDeleteBlob
      <3>1. UNCHANGED <<blobs, age, req>>
        BY <1>5, <2>2 DEF GCNext, GCSelect, GCReadManifest, GCCollect, GCRelease, GCAbort, r2Vars
      <3> QED BY <1>1, <3>1
    <2> QED BY <2>1, <2>2
  <1>6. CASE Tick
    <2> SUFFICES ASSUME NEW c \in Client, req'[c].pc = "upload", NEW b \in req'[c].uploads,
                        req'[c].age <= UploadWindow, b \in blobs'
                 PROVE  age'[b] <= req'[c].age
      BY DEF SignedPutsAreForNewBlobs
    <2>1. req'[c].uploads = req[c].uploads /\ req[c].pc = "upload"
      BY <1>6, <1>t DEF Tick, Request
    <2>2. req[c].uploads # {} /\ b \in req[c].uploads /\ b \in Blob /\ b \in blobs
      BY <1>6, <1>t, <2>1 DEF Tick
    <2>3. req'[c].age = Older(req[c].age, UploadWindow + 1)
      BY <1>6, <1>t, <2>2 DEF Tick, Request
    <2>4. age'[b] = Older(age[b], MinAge + 1)
      BY <1>6, <2>2 DEF Tick
    <2>5. req[c].age \in Nat /\ age[b] \in Nat
      BY <1>t, <1>n, <2>2
    <2>6. req[c].age <= UploadWindow /\ req'[c].age = req[c].age + 1
      BY <1>n, <2>3, <2>5 DEF Older
    <2>7. age[b] <= req[c].age
      BY <2>1, <2>2, <2>6 DEF AgeInv, SignedPutsAreForNewBlobs
    <2> QED BY <1>n, <2>4, <2>5, <2>6, <2>7 DEF Older
  <1>7. ASSUME NEW s \in Site, NEW m \in Content, PreviewLapses(s, m) PROVE SignedPutsAreForNewBlobs'
    <2>1. UNCHANGED <<blobs, age, req>>
      BY <1>7 DEF PreviewLapses, r2Vars
    <2> QED BY <1>1, <2>1
  <1>8. CASE UNCHANGED vars
    <2>1. UNCHANGED <<blobs, age, req>>
      BY <1>8 DEF vars, r2Vars
    <2> QED BY <1>1, <2>1
  <1> QED BY <1>2, <1>3, <1>s, <1>4, <1>5, <1>6, <1>7, <1>8 DEF Next, TimeNext

\* Every step keeps what a collector pass deletes old.
LEMMA NextOrphans ==
  ASSUME TypeInv, AgeInv, [Next]_vars PROVE OrphansAreOld'
  <1>t. /\ age \in [Blob -> 0..(MinAge + 1)] /\ blobs \subseteq Blob
        /\ \A c \in Client : req[c].uploads \in SUBSET Blob /\ req[c].age \in 0..(UploadWindow + 1)
        /\ gc \in Pass
    BY DEF TypeInv, TypeOK, R2TypeOK, RequestTypeOK, PassTypeOK, Request
  <1>n. UploadWindow \in Nat /\ MinAge \in Nat /\ UploadWindow <= MinAge
    BY DeployAssumption
  <1>1. CASE UNCHANGED <<blobs, age, gc>>
    BY <1>1 DEF AgeInv, OrphansAreOld, OldEnough
  <1>2. ASSUME NEW c \in Client, PutBlob(c) PROVE OrphansAreOld'
    <2>1. PICK b \in req[c].uploads : blobs' = blobs \cup {b} /\ age' = [age EXCEPT ![b] = 0]
      BY <1>2 DEF PutBlob
    <2>2. req[c].pc = "upload" /\ req[c].age <= UploadWindow /\ UNCHANGED gc
      BY <1>2 DEF PutBlob, gcVars
    <2>3. b \notin gc.todo \/ b \in PresetContent
      <3> SUFFICES ASSUME b \in gc.todo, b \notin PresetContent PROVE FALSE
        OBVIOUS
      <3>1. b \in blobs /\ age[b] > MinAge
        BY DEF AgeInv, OrphansAreOld, OldEnough
      <3>2. age[b] <= req[c].age
        BY <2>2, <3>1 DEF AgeInv, SignedPutsAreForNewBlobs
      <3>3. age[b] \in Nat /\ req[c].age \in Nat
        BY <1>t, <1>n, <3>1
      <3> QED BY <1>n, <2>2, <3>1, <3>2, <3>3
    <2> QED BY <1>t, <2>1, <2>2, <2>3 DEF AgeInv, OrphansAreOld, OldEnough
  <1>3. ASSUME NEW c \in Client, ClientNext(c), ~PutBlob(c) PROVE OrphansAreOld'
    <2>1. UNCHANGED <<blobs, age, gc>>
      BY <1>3 DEF ClientNext, PrepareDeployment, PrepareSkillUpload, StartUpload, VerifyManifest,
         LookupSiteVersion, InsertSiteVersion, CreateSkillVersion, PutManifest, PutSkillManifest,
         RegisterPreview, SetPreview, PublishSkillVersion, Abort, r2Vars, gcVars
    <2> QED BY <1>1, <2>1
  <1>s. ASSUME NEW c \in Client, SeedNext(c) PROVE OrphansAreOld'
    <2>1. UNCHANGED gc
      BY <1>s DEF SeedNext, SeedBegin, SeedPutBlob, SeedStage, SeedStageSkips, SeedPutManifest, SeedPublish, gcVars
    <2>2. CASE SeedPutBlob(c)
      <3>1. PICK b \in req[c].uploads : blobs' = blobs \cup {b} /\ age' = [age EXCEPT ![b] = 0]
        BY <2>2 DEF SeedPutBlob
      <3>2. b \in PresetContent
        BY <2>2 DEF SeedPutBlob, TypeInv, ReqWellFormed
      <3> QED BY <1>t, <2>1, <3>1, <3>2 DEF AgeInv, OrphansAreOld, OldEnough
    <2>3. CASE ~SeedPutBlob(c)
      <3>1. UNCHANGED <<blobs, age>>
        BY <1>s, <2>3 DEF SeedNext, SeedBegin, SeedStage, SeedStageSkips, SeedPutManifest, SeedPublish, r2Vars
      <3> QED BY <1>1, <2>1, <3>1
    <2> QED BY <2>2, <2>3
  <1>4. CASE OwnerNext
    <2>1. UNCHANGED <<blobs, age, gc>>
      BY <1>4 DEF OwnerNext, Publish, CreatePreview, SetPreview, DeletePreview, DeleteSite, DeleteSkill,
                  DeleteItem, r2Vars, gcVars
    <2> QED BY <1>1, <2>1
  <1>5. CASE GCNext
    <2>1. CASE GCSelect \/ GCReadManifest
      <3>1. UNCHANGED <<blobs, age>> /\ gc'.pc = "selected" /\ gc'.todo = {}
        BY <2>1, <1>t DEF GCSelect, GCReadManifest, r2Vars, IdleGC, Pass, AgeInv, OrphansAreOld
      <3> QED BY <3>1 DEF OrphansAreOld
    <2>2. CASE GCCollect
      <3>1. /\ UNCHANGED <<blobs, age>> /\ gc'.pc = "deleting"
            /\ gc'.todo = {b \in blobs \cap gc.orphans : OldEnough(b)}
        BY <2>2, <1>t DEF GCCollect, r2Vars, Pass
      <3> QED BY <3>1 DEF OrphansAreOld, OldEnough
    <2>3. CASE GCDeleteBlob
      <3>1. PICK b \in gc.todo : /\ blobs' = blobs \ {b} /\ age' = [age EXCEPT ![b] = 0]
                                 /\ gc' = [gc EXCEPT !.todo = gc.todo \ {b}]
        BY <2>3 DEF GCDeleteBlob
      <3>2. gc'.pc = "deleting" /\ gc'.todo = gc.todo \ {b}
        BY <1>t, <2>3, <3>1 DEF GCDeleteBlob, Pass
      <3>3. \A d \in gc.todo \ {b} : d \in blobs' /\ age'[d] = age[d]
        BY <1>t, <3>1 DEF AgeInv, OrphansAreOld
      <3> QED BY <3>2, <3>3 DEF AgeInv, OrphansAreOld, OldEnough
    <2>4. CASE GCRelease \/ GCAbort
      <3>1. gc'.pc = "idle" /\ gc'.todo = {}
        BY <2>4 DEF GCRelease, GCAbort, IdleGC
      <3> QED BY <3>1 DEF OrphansAreOld
    <2> QED BY <1>5, <2>1, <2>2, <2>3, <2>4 DEF GCNext
  <1>6. CASE Tick
    <2>1. UNCHANGED <<blobs, gc>>
      BY <1>6 DEF Tick, gcVars
    <2>2. \A b \in gc.todo : age'[b] = Older(age[b], MinAge + 1) /\ age[b] \in Nat
      BY <1>6, <1>t, <1>n DEF Tick, AgeInv, OrphansAreOld
    <2> QED BY <1>n, <2>1, <2>2 DEF AgeInv, OrphansAreOld, OldEnough, Older
  <1>7. ASSUME NEW s \in Site, NEW m \in Content, PreviewLapses(s, m) PROVE OrphansAreOld'
    <2>1. UNCHANGED <<blobs, age, gc>>
      BY <1>7 DEF PreviewLapses, r2Vars, gcVars
    <2> QED BY <1>1, <2>1
  <1>8. CASE UNCHANGED vars
    <2>1. UNCHANGED <<blobs, age, gc>>
      BY <1>8 DEF vars, r2Vars, gcVars
    <2> QED BY <1>1, <2>1
  <1> QED BY <1>2, <1>3, <1>s, <1>4, <1>5, <1>6, <1>7, <1>8 DEF Next, TimeNext

\* The ages hold at the start, where nothing is signed or collected.
LEMMA InitAgeInv == ASSUME Init PROVE AgeInv
  BY DEF Init, AgeInv, SignedPutsAreForNewBlobs, OrphansAreOld, IdleReq, IdleGC

(* The only step that removes a blob is the collector's delete.            *)
LEMMA OnlyTheCollectorDeletes ==
  ASSUME [Next]_vars, NEW b \in blobs \ blobs'
  PROVE  gc.pc = "deleting" /\ b \in gc.todo
  <1>1. CASE UNCHANGED vars
    BY <1>1 DEF vars, r2Vars
  <1>2. ASSUME NEW c \in Client, ClientNext(c) PROVE blobs \subseteq blobs'
    BY <1>2 DEF ClientNext, PrepareDeployment, PrepareSkillUpload, StartUpload, PutBlob, VerifyManifest,
       LookupSiteVersion, InsertSiteVersion, CreateSkillVersion, PutManifest, PutSkillManifest,
       RegisterPreview, SetPreview, PublishSkillVersion, Abort, r2Vars
  <1>s. ASSUME NEW c \in Client, SeedNext(c) PROVE blobs \subseteq blobs'
    BY <1>s DEF SeedNext, SeedBegin, SeedPutBlob, SeedStage, SeedStageSkips, SeedPutManifest, SeedPublish, r2Vars
  <1>3. ASSUME OwnerNext \/ TimeNext PROVE UNCHANGED blobs
    BY <1>3 DEF OwnerNext, Publish, CreatePreview, SetPreview, DeletePreview, DeleteSite, DeleteSkill,
                DeleteItem, TimeNext, Tick, PreviewLapses, r2Vars
  <1>4. CASE GCNext
    BY <1>4 DEF GCNext, GCSelect, GCReadManifest, GCCollect, GCDeleteBlob, GCRelease, GCAbort, r2Vars
  <1> QED BY <1>1, <1>2, <1>s, <1>3, <1>4 DEF Next

(* The age guard, evaluated when the blobs are listed, still holds at each *)
(* delete: no upload can have refreshed a listed orphan meanwhile, only    *)
(* the seeding of a preset.                                                *)
THEOREM FreshUploadsSpared == Spec => SparesFreshUploads
  <1> DEFINE I == TypeInv /\ AgeInv
  <1>1. Init => I
    BY InitTypeInv, InitAgeInv
  <1>2. I /\ [Next]_vars => I'
    BY NextTypeInv, NextSignedPuts, NextOrphans DEF AgeInv
  <1>3. I /\ [Next]_vars => [\A b \in (blobs \ blobs') \ PresetContent : OldEnough(b)]_vars
    BY OnlyTheCollectorDeletes DEF AgeInv, OrphansAreOld
  <1> QED BY <1>1, <1>2, <1>3, PTL DEF Spec, SparesFreshUploads

-----------------------------------------------------------------------------
(* What is served survives.  Skills have no previews, so the two queries   *)
(* of GCOrg's first step between them cover whatever is served; a served   *)
(* candidate then stays covered by a manifest still to be read, and no     *)
(* manifest is ever removed.                                               *)
SkillsHaveNoPreview == \A k \in Skill, m \in Content : preview[k][m] = "none"

ServedIsReferenced ==
    /\ gc.pc = "idle" => served = {}
    /\ gc.pc = "selected" =>
         \A b \in served \cap gc.orphans : \E v \in gc.retained \cap manifests : b \in v[2]
    /\ gc.pc = "deleting" => served \cap gc.todo = {}

ServedInv == SkillsHaveNoPreview /\ ServedIsReferenced

\* Every step keeps skills without preview.
LEMMA NextNoPreview ==
  ASSUME TypeInv, SkillsHaveNoPreview, [Next]_vars PROVE SkillsHaveNoPreview'
  <1>t. preview \in [Item -> [Content -> PreviewState]] /\ Site \cap Skill = {}
    BY DeployAssumption DEF TypeInv, TypeOK, RowTypeOK
  <1>1. CASE UNCHANGED preview
    BY <1>1 DEF SkillsHaveNoPreview
  <1>2. ASSUME NEW s \in Site, NEW m \in Content, NEW p, preview' = [preview EXCEPT ![s][m] = p]
        PROVE  SkillsHaveNoPreview'
    <2>1. \A k \in Skill : preview'[k] = preview[k]
      BY <1>t, <1>2 DEF Item
    <2> QED BY <2>1 DEF SkillsHaveNoPreview
  <1>3. ASSUME NEW i \in Item, DeleteItem(i) PROVE SkillsHaveNoPreview'
    <2>1. \A k \in Skill : preview'[k] = IF k = i THEN [m \in Content |-> "none"] ELSE preview[k]
      BY <1>t, <1>3 DEF DeleteItem, Item
    <2> QED BY <2>1 DEF SkillsHaveNoPreview
  <1>4. ASSUME NEW c \in Client, ClientNext(c) PROVE SkillsHaveNoPreview'
    <2>1. CASE RegisterPreview(c)
      <3>1. req[c].item \in Site /\ req[c].content \in Content
        BY <2>1 DEF RegisterPreview, TypeInv, ReqWellFormed
      <3> QED BY <1>2, <2>1, <3>1 DEF RegisterPreview, SetPreview
    <2>2. CASE ~RegisterPreview(c)
      <3>1. UNCHANGED preview
        BY <1>4, <2>2 DEF ClientNext, PrepareDeployment, PrepareSkillUpload, StartUpload, PutBlob,
           VerifyManifest, LookupSiteVersion, InsertSiteVersion, CreateSkillVersion, PutManifest,
           PutSkillManifest, PublishSkillVersion, Abort, rowVars, seedVars
      <3> QED BY <1>1, <3>1
    <2> QED BY <2>1, <2>2
  <1>s. ASSUME NEW c \in Client, SeedNext(c) PROVE SkillsHaveNoPreview'
    <2>1. UNCHANGED preview
      BY <1>s DEF SeedNext, SeedBegin, SeedPutBlob, SeedStage, SeedStageSkips, SeedPutManifest, SeedPublish, rowVars
    <2> QED BY <1>1, <2>1
  <1>5. CASE OwnerNext
    BY <1>2, <1>3, <1>5 DEF OwnerNext, Publish, CreatePreview, SetPreview, DeletePreview, DeleteSite,
                            DeleteSkill, Item
  <1>6. CASE GCNext \/ Tick \/ UNCHANGED vars
    <2>1. UNCHANGED preview
      BY <1>6 DEF GCNext, GCSelect, GCReadManifest, GCCollect, GCDeleteBlob, GCRelease, GCAbort, Tick,
                  vars, rowVars, seedVars
    <2> QED BY <1>1, <2>1
  <1>7. ASSUME NEW s \in Site, NEW m \in Content, PreviewLapses(s, m) PROVE SkillsHaveNoPreview'
    <2>1. preview' = [preview EXCEPT ![s][m] = IF preview[s][m] = "live" THEN "grace" ELSE "none"]
      BY <1>7 DEF PreviewLapses
    <2> QED BY <1>2, <2>1
  <1> QED BY <1>4, <1>s, <1>5, <1>6, <1>7 DEF Next, TimeNext

(* Manifest objects are never removed.                                     *)
LEMMA ManifestsGrow == ASSUME [Next]_vars PROVE manifests \subseteq manifests'
  <1>1. ASSUME NEW c \in Client, ClientNext(c) PROVE manifests \subseteq manifests'
    BY <1>1 DEF ClientNext, PrepareDeployment, PrepareSkillUpload, StartUpload, PutBlob, VerifyManifest,
       LookupSiteVersion, InsertSiteVersion, CreateSkillVersion, PutManifest, PutSkillManifest,
       RegisterPreview, SetPreview, PublishSkillVersion, Abort, r2Vars
  <1>s. ASSUME NEW c \in Client, SeedNext(c) PROVE manifests \subseteq manifests'
    BY <1>s DEF SeedNext, SeedBegin, SeedPutBlob, SeedStage, SeedStageSkips, SeedPutManifest, SeedPublish, r2Vars
  <1>2. ASSUME OwnerNext \/ TimeNext \/ GCNext PROVE UNCHANGED manifests
    BY <1>2 DEF OwnerNext, Publish, CreatePreview, SetPreview, DeletePreview, DeleteSite, DeleteSkill,
       DeleteItem, TimeNext, Tick, PreviewLapses, GCNext, GCSelect, GCReadManifest, GCCollect,
       GCDeleteBlob, GCRelease, GCAbort, r2Vars
  <1> QED BY <1>1, <1>s, <1>2 DEF Next, vars, r2Vars

(* Everything served is retained by the selection.                         *)
LEMMA ServingIsRetained ==
  ASSUME TypeInv, SkillsHaveNoPreview, NEW v \in manifests, Serving(v[1], v[2])
  PROVE  v \in SelectRetained \cup SkillRetained
  <1>1. v \in Item \X Content /\ v[1] \in Item /\ v[2] \in Content /\ v = <<v[1], v[2]>>
    BY DEF TypeInv, TypeOK, R2TypeOK
  <1>2. CASE v[1] \in Site
    BY <1>1, <1>2 DEF Serving, SelectRetained, PreviewBlobsRetained
  <1>3. CASE v[1] \in Skill
    BY <1>1, <1>3 DEF Serving, SkillRetained, SkillsHaveNoPreview
  <1> QED BY <1>1, <1>2, <1>3 DEF Item

\* Every step keeps what is served.
LEMMA NextServed ==
  ASSUME TypeInv, ServedInv, [Next]_vars PROVE ServedIsReferenced'
  <1>t. gc \in Pass
    BY DEF TypeInv, TypeOK, PassTypeOK
  <1>m. manifests \subseteq manifests'
    BY ManifestsGrow
  <1>1. CASE UNCHANGED <<gc, served>>
    BY <1>1, <1>m DEF ServedInv, ServedIsReferenced
  <1>2. ASSUME NEW c \in Client, ClientNext(c) PROVE UNCHANGED <<gc, served>>
    BY <1>2 DEF ClientNext, PrepareDeployment, PrepareSkillUpload, StartUpload, PutBlob, VerifyManifest,
       LookupSiteVersion, InsertSiteVersion, CreateSkillVersion, PutManifest, PutSkillManifest,
       RegisterPreview, SetPreview, PublishSkillVersion, Abort, gcVars
  <1>s. ASSUME NEW c \in Client, SeedNext(c) PROVE UNCHANGED <<gc, served>>
    BY <1>s DEF SeedNext, SeedBegin, SeedPutBlob, SeedStage, SeedStageSkips, SeedPutManifest, SeedPublish, gcVars
  <1>3. ASSUME OwnerNext \/ TimeNext \/ UNCHANGED vars PROVE UNCHANGED <<gc, served>>
    BY <1>3 DEF OwnerNext, Publish, CreatePreview, SetPreview, DeletePreview, DeleteSite, DeleteSkill,
                DeleteItem, TimeNext, Tick, PreviewLapses, vars, gcVars
  <1>4. CASE GCSelect
    <2>1. /\ gc'.pc = "selected" /\ gc'.retained = SelectRetained \cup SkillRetained
          /\ served' = UNION {v[2] : v \in {w \in manifests : Serving(w[1], w[2])}}
      BY <1>4 DEF GCSelect, IdleGC
    <2>2. \A b \in served' : \E v \in manifests : b \in v[2] /\ Serving(v[1], v[2])
      BY <2>1
    <2>3. \A b \in served' : \E v \in gc'.retained \cap manifests' : b \in v[2]
      BY <1>m, <2>1, <2>2, ServingIsRetained DEF ServedInv
    <2> QED BY <2>1, <2>3 DEF ServedIsReferenced
  <1>5. CASE GCReadManifest
    <2>1. PICK v \in gc.retained :
            gc' = [gc EXCEPT !.retained = @ \ {v}, !.orphans = IF v \in manifests THEN @ \ v[2] ELSE @]
      BY <1>5 DEF GCReadManifest
    <2>2. /\ gc.pc = "selected" /\ gc'.pc = "selected" /\ gc'.retained = gc.retained \ {v}
          /\ gc'.orphans = IF v \in manifests THEN gc.orphans \ v[2] ELSE gc.orphans
      BY <1>5, <1>t, <2>1 DEF GCReadManifest, Pass
    <2>3. UNCHANGED served
      BY <1>5 DEF GCReadManifest
    <2>4. ASSUME NEW b \in served \cap gc'.orphans
          PROVE  \E w \in gc'.retained \cap manifests' : b \in w[2]
      <3>1. PICK w \in gc.retained \cap manifests : b \in w[2]
        BY <2>2 DEF ServedInv, ServedIsReferenced
      <3>2. w # v
        BY <2>2, <3>1
      <3> QED BY <1>m, <2>2, <3>1, <3>2
    <2> QED BY <2>2, <2>3, <2>4 DEF ServedIsReferenced
  <1>6. CASE GCCollect
    <2>1. /\ gc.pc = "selected" /\ gc.retained = {} /\ gc'.pc = "deleting"
          /\ gc'.todo \subseteq gc.orphans /\ UNCHANGED served
      BY <1>6, <1>t DEF GCCollect, Pass
    <2>2. served \cap gc.orphans = {}
      BY <2>1 DEF ServedInv, ServedIsReferenced
    <2> QED BY <2>1, <2>2 DEF ServedIsReferenced
  <1>7. CASE GCDeleteBlob
    <2>1. /\ gc.pc = "deleting" /\ gc'.pc = "deleting"
          /\ gc'.todo \subseteq gc.todo /\ UNCHANGED served
      BY <1>7, <1>t DEF GCDeleteBlob, Pass
    <2> QED BY <2>1 DEF ServedInv, ServedIsReferenced
  <1>8. CASE GCRelease \/ GCAbort
    <2>1. gc'.pc = "idle" /\ served' = {}
      BY <1>8 DEF GCRelease, GCAbort, IdleGC
    <2> QED BY <2>1 DEF ServedIsReferenced
  <1> QED BY <1>1, <1>2, <1>s, <1>3, <1>4, <1>5, <1>6, <1>7, <1>8 DEF Next, GCNext

\* Nothing is served at the start.
LEMMA InitServedInv == ASSUME Init PROVE ServedInv
  BY DEF Init, ServedInv, SkillsHaveNoPreview, ServedIsReferenced, IdleGC, Item

(* A pass deletes no blob of what was being served when it selected.       *)
THEOREM ServedSurvives == Spec => ServedContentSurvives
  <1> DEFINE I == TypeInv /\ ServedInv
  <1>1. Init => I
    BY InitTypeInv, InitServedInv
  <1>2. I /\ [Next]_vars => I'
    BY NextTypeInv, NextNoPreview, NextServed DEF ServedInv
  <1>3. I /\ [Next]_vars => [served \cap (blobs \ blobs') = {}]_vars
    BY OnlyTheCollectorDeletes DEF ServedInv, ServedIsReferenced
  <1> QED BY <1>1, <1>2, <1>3, PTL DEF Spec, ServedContentSurvives

-----------------------------------------------------------------------------
(* The pointer flip of a skill upload, and of a seeding, comes after its   *)
(* manifest, and manifests are never removed.                              *)
THEOREM SkillManifestFirst == Spec => []LiveSkillHasManifest
  <1>1. Init => TypeInv /\ LiveSkillHasManifest
    BY InitTypeInv DEF Init, LiveSkillHasManifest, Item
  <1>2. TypeInv /\ LiveSkillHasManifest /\ [Next]_vars => TypeInv' /\ LiveSkillHasManifest'
    <2> SUFFICES ASSUME TypeInv, LiveSkillHasManifest, [Next]_vars PROVE LiveSkillHasManifest'
      BY NextTypeInv
    <2>t. current \in [Item -> Content \cup {NoContent}] /\ Site \cap Skill = {}
      BY DeployAssumption DEF TypeInv, TypeOK, RowTypeOK
    <2>m. manifests \subseteq manifests'
      BY ManifestsGrow
    <2>1. CASE \A k \in Skill : current'[k] \in {current[k], NoContent}
      BY <2>m, <2>1 DEF LiveSkillHasManifest
    <2>2. ASSUME NEW c \in Client, ClientNext(c) PROVE LiveSkillHasManifest'
      <3>1. CASE PublishSkillVersion(c)
        <4>1. <<req[c].item, req[c].content>> \in manifests
          BY <3>1 DEF PublishSkillVersion, TypeInv, ReqWellFormed
        <4>2. \A k \in Skill : current'[k] = IF k = req[c].item THEN req[c].content ELSE current[k]
          BY <2>t, <3>1 DEF PublishSkillVersion, Item
        <4> QED BY <2>m, <4>1, <4>2 DEF LiveSkillHasManifest
      <3>2. CASE ~PublishSkillVersion(c)
        <4>1. UNCHANGED current
          BY <2>2, <3>2 DEF ClientNext, PrepareDeployment, PrepareSkillUpload, StartUpload, PutBlob,
             VerifyManifest, LookupSiteVersion, InsertSiteVersion, CreateSkillVersion, PutManifest,
             PutSkillManifest, RegisterPreview, SetPreview, Abort, rowVars, seedVars
        <4> QED BY <2>1, <4>1
      <3> QED BY <3>1, <3>2
    <2>s. ASSUME NEW c \in Client, SeedNext(c) PROVE LiveSkillHasManifest'
      <3>1. CASE SeedPublish(c) /\ ~seeded /\ req[c].item \in live
        <4>1. req[c].item \in Item /\ NoItem \notin Item
          BY <3>1, DeployAssumption DEF TypeInv, TypeOK, RowTypeOK
        <4>2. <<req[c].item, req[c].content>> \in manifests
          BY <3>1, <4>1 DEF SeedPublish, TypeInv, ReqWellFormed
        <4>3. \A k \in Skill : current'[k] = IF k = req[c].item THEN req[c].content ELSE current[k]
          BY <2>t, <3>1 DEF SeedPublish, Item
        <4> QED BY <2>m, <4>2, <4>3 DEF LiveSkillHasManifest
      <3>2. CASE ~(SeedPublish(c) /\ ~seeded /\ req[c].item \in live)
        <4>1. UNCHANGED current
          BY <2>s, <3>2 DEF SeedNext, SeedBegin, SeedPutBlob, SeedStage, SeedStageSkips, SeedPutManifest,
                            SeedPublish, rowVars
        <4> QED BY <2>1, <4>1
      <3> QED BY <3>1, <3>2
    <2>3. ASSUME NEW s \in Site, NEW m \in Content, Publish(s, m) PROVE LiveSkillHasManifest'
      <3>1. \A k \in Skill : current'[k] = current[k]
        BY <2>t, <2>3 DEF Publish, Item
      <3> QED BY <2>1, <3>1
    <2>4. ASSUME NEW i \in Item, DeleteItem(i) PROVE LiveSkillHasManifest'
      <3>1. \A k \in Skill : current'[k] \in {current[k], NoContent}
        BY <2>t, <2>4 DEF DeleteItem, Item
      <3> QED BY <2>1, <3>1
    <2>5. ASSUME \/ \E s \in Site, m \in Content : CreatePreview(s, m) \/ DeletePreview(s, m)
                 \/ GCNext \/ TimeNext \/ UNCHANGED vars
          PROVE  LiveSkillHasManifest'
      <3>1. UNCHANGED current
        BY <2>5 DEF CreatePreview, SetPreview, DeletePreview, GCNext, GCSelect, GCReadManifest, GCCollect,
           GCDeleteBlob, GCRelease, GCAbort, TimeNext, Tick, PreviewLapses, vars, rowVars, seedVars
      <3> QED BY <2>1, <3>1
    <2> QED BY <2>2, <2>s, <2>3, <2>4, <2>5 DEF Next, OwnerNext, DeleteSite, DeleteSkill, Item
  <1> QED BY <1>1, <1>2, PTL DEF Spec
=============================================================================
