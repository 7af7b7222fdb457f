--------------------------- MODULE EdgeServe_proofs ---------------------------
(***************************************************************************)
(* Proofs about the serving Worker.                                        *)
(*                                                                         *)
(* EdgeCaches, for any number of overlapping verifications and requests:   *)
(* the type invariant, how long a retired signing key can verify, and that *)
(* the limiter never refuses below its limit.                              *)
(*                                                                         *)
(* EdgeServe, for any number of overlapping requests, any routes,          *)
(* manifests and inputs.  The inductive invariant says of each request     *)
(* what the steps behind it have established (Progress), of each answer    *)
(* what the properties ask (Outcome), and of each cache entry that some    *)
(* request of its key was shown exactly that page (EntryOK).               *)
(***************************************************************************)
EXTENDS EdgeServe, EdgeCaches, FiniteSetTheorems, SequenceTheorems, TLAPS

-----------------------------------------------------------------------------
(* The key cache and the limiter (EdgeCaches).                             *)

USE CachesAssumption

VerType == [pc : {"idle", "fetch", "import", "done"}, now : Time, kid : Kid,
            cached : Entry, doc : SUBSET Kid, verdict : {"none", "valid", "refused"}]
HitType == [pc : {"idle", "get", "put", "done"}, now : Time, prev : Nat,
            verdict : {"none", "allowed", "refused"}]

\* A verdict has its type, and a valid one its key in the set used.
LEMMA VerdictType ==
    ASSUME NEW r \in VerType, NEW keys
    PROVE  /\ Verdict(r, keys) \in VerType
           /\ Verdict(r, keys).now = r.now /\ Verdict(r, keys).kid = r.kid
           /\ Verdict(r, keys).pc = "done"
           /\ Verdict(r, keys).verdict = "valid" => r.kid \in keys
  BY DEF Verdict, VerType

\* Every step keeps the type invariant.
LEMMA StepCachesType ==
    ASSUME CachesTypeOK, [CachesNext]_cachesVars
    PROVE  CachesTypeOK'
<1> USE DEF CachesTypeOK, keyVars, limitVars
<1>0. ver \in [Verification -> VerType] /\ hit \in [Hit -> HitType]
  BY DEF VerType, HitType
<1>v. \A v \in Verification : ver[v] \in VerType
  BY <1>0
<1>h. \A h \in Hit : hit[h] \in HitType
  BY <1>0
<1>t. time \in Time /\ published \subseteq Kid /\ jwks \in Entry
  OBVIOUS
<1>a. SUFFICES /\ time' \in Time /\ published' \subseteq Kid /\ lastServed' \in [Kid -> Time]
               /\ jwks' \in Entry /\ ver' \in [Verification -> VerType]
               /\ counter' \in [Time -> Nat] /\ hit' \in [Hit -> HitType]
  BY DEF VerType, HitType
<1>1. CASE Tick
  BY <1>0, <1>1 DEF Tick, Time
<1>2. ASSUME NEW keys \in SUBSET Kid, Rotate(keys) PROVE CachesTypeOK'
  BY <1>2 DEF Rotate
<1>3. ASSUME NEW v \in Verification, LoadKeys(v) PROVE CachesTypeOK'
  <2> DEFINE r == [ver[v] EXCEPT !.pc = "fetch", !.now = time, !.cached = jwks]
  <2> HIDE DEF CachesTypeOK
  <2>1. r \in VerType
    BY <1>v, <1>t DEF VerType
  <2>2. ver' = [ver EXCEPT ![v] = Verdict(r, jwks.keys)] \/ ver' = [ver EXCEPT ![v] = r]
    BY <1>3 DEF LoadKeys
  <2> HIDE DEF r
  <2>3. ver' \in [Verification -> VerType]
    BY <1>0, <2>1, <2>2, VerdictType
  <2> QED BY <1>3, <2>3 DEF LoadKeys, VerType, CachesTypeOK
<1>4. ASSUME NEW v \in Verification, Fetch(v) PROVE CachesTypeOK'
  <2>1. PICK doc \in {published, {}} : ver' = [ver EXCEPT ![v].pc = "import", ![v].doc = doc]
    BY <1>4 DEF Fetch
  <2>2. doc \in SUBSET Kid
    OBVIOUS
  <2> HIDE DEF CachesTypeOK
  <2>3. [ver[v] EXCEPT !.pc = "import", !.doc = doc] \in VerType
    BY <1>v, <2>2 DEF VerType
  <2>4. ver' = [ver EXCEPT ![v] = [ver[v] EXCEPT !.pc = "import", !.doc = doc]]
    BY <2>1
  <2>5. ver' \in [Verification -> VerType]
    BY <1>0, <2>3, <2>4
  <2> QED BY <1>4, <2>5 DEF Fetch, VerType, CachesTypeOK
<1>5. ASSUME NEW v \in Verification, ImportKeys(v) PROVE CachesTypeOK'
  <2>1. ver[v] \in VerType /\ ver[v].now \in Nat /\ ver[v].doc \in SUBSET Kid
    BY <1>0 DEF VerType, Time
  <2>2. \E keys : ver' = [ver EXCEPT ![v] = Verdict(ver[v], keys)]
    BY <1>5 DEF ImportKeys
  <2>3. ver' \in [Verification -> VerType]
    BY <1>0, <2>1, <2>2, VerdictType
  <2>4. jwks' \in Entry
    BY <1>5, <2>1 DEF ImportKeys, Entry
  <2> QED BY <1>5, <2>3, <2>4 DEF ImportKeys, VerType
<1>6. ASSUME NEW h \in Hit, Count(h) PROVE CachesTypeOK'
  <2>1. hit' \in [Hit -> HitType]
    BY <1>0, <1>6, ZenonT(30) DEF Count, HitType
  <2> QED BY <1>6, <2>1 DEF Count, HitType
<1>7. ASSUME NEW h \in Hit, ReadCounter(h) PROVE CachesTypeOK'
  <2>a. PICK n \in 0..counter[WindowKey(hit[h].now)] :
           hit' = [hit EXCEPT ![h].pc = "put", ![h].prev = n]
    BY <1>7 DEF ReadCounter
  <2>b. n \in Nat
    OBVIOUS
  <2>c. [hit[h] EXCEPT !.pc = "put", !.prev = n] \in HitType
    BY <1>h, <2>b DEF HitType
  <2>1. hit' \in [Hit -> HitType]
    BY <1>0, <2>a, <2>c
  <2> QED BY <1>7, <2>1 DEF ReadCounter, HitType
<1>8. ASSUME NEW h \in Hit, ReadFails(h) PROVE CachesTypeOK'
  <2>1. hit' \in [Hit -> HitType]
    BY <1>0, <1>8, ZenonT(30) DEF ReadFails, HitType
  <2> QED BY <1>8, <2>1 DEF ReadFails, HitType
<1>9. ASSUME NEW h \in Hit, WriteCounter(h) PROVE CachesTypeOK'
  <2>1. hit[h].prev + 1 \in Nat
    BY <1>0 DEF HitType
  <2> DEFINE verdict == IF hit[h].prev + 1 > Limit THEN "refused" ELSE "allowed"
  <2>a. hit' = [hit EXCEPT ![h].pc = "done", ![h].verdict = verdict]
    BY <1>9 DEF WriteCounter
  <2>b. verdict \in {"none", "allowed", "refused"}
    OBVIOUS
  <2> HIDE DEF verdict
  <2>c. [hit[h] EXCEPT !.pc = "done", !.verdict = verdict] \in HitType
    BY <1>h, <2>b DEF HitType
  <2>2. hit' \in [Hit -> HitType]
    BY <1>0, <2>a, <2>c
  <2>3. counter' \in [Time -> Nat]
    BY <1>9, <2>1 DEF WriteCounter
  <2> QED BY <1>9, <2>2, <2>3 DEF WriteCounter, HitType
<1>10. CASE UNCHANGED cachesVars
  BY <1>0, <1>10 DEF cachesVars
<1> QED BY <1>1, <1>2, <1>3, <1>4, <1>5, <1>6, <1>7, <1>8, <1>9, <1>10
        DEF CachesNext, KeysNext, LimitNext, VerType, HitType

\* The key cache, the verifications and the limiter keep their types.
THEOREM CachesTypeCorrect == CachesSpec => []CachesTypeOK
<1>1. CachesInit => CachesTypeOK
  BY DEF CachesInit, CachesTypeOK, NoKeys, Entry, Time
<1> QED BY <1>1, StepCachesType, PTL DEF CachesSpec

-----------------------------------------------------------------------------
(* The signing keys.                                                       *)

\* No key outlives its last publication by more than the cache's TTL, in the
\* cache and in what a verification took from it; a fetched document is not
\* older than the verification that fetched it.
KeyAges ==
    /\ \A k \in Kid : lastServed[k] <= time
    /\ \A k \in published : lastServed[k] = time
    /\ \A k \in jwks.keys : jwks.expires <= lastServed[k] + Ttl
    /\ \A v \in Verification :
        /\ ver[v].now <= time
        /\ ver[v].pc \in {"fetch", "import"} =>
             \A k \in ver[v].cached.keys : ver[v].cached.expires <= lastServed[k] + Ttl
        /\ ver[v].pc = "import" => \A k \in ver[v].doc : ver[v].now <= lastServed[k]
        /\ ver[v].pc # "done" => ver[v].verdict = "none"

\* Publication times only grow, and that is all the invariant needs of a step
\* that touches neither the cache nor a verification.
LEMMA AgesGrow ==
    ASSUME CachesTypeOK, KeyAges, RetiredKeysRefused, CachesTypeOK',
           UNCHANGED <<jwks, ver>>, time <= time',
           \A k \in Kid : lastServed[k] <= lastServed'[k] /\ lastServed'[k] <= time',
           \A k \in published' : lastServed'[k] = time'
    PROVE  KeyAges' /\ RetiredKeysRefused'
<1>1. \A k \in Kid : lastServed[k] \in Nat /\ lastServed'[k] \in Nat
  BY DEF CachesTypeOK, Time
<1>2. time \in Nat /\ time' \in Nat /\ jwks.expires \in Nat /\ jwks.keys \subseteq Kid
      /\ \A v \in Verification : /\ ver[v].now \in Nat /\ ver[v].kid \in Kid
                                 /\ ver[v].cached.expires \in Nat
                                 /\ ver[v].cached.keys \subseteq Kid /\ ver[v].doc \subseteq Kid
  <2>1. time \in Nat /\ time' \in Nat /\ jwks.expires \in Nat /\ jwks.keys \subseteq Kid
    BY DEF CachesTypeOK, Time, Entry
  <2>2. \A v \in Verification : ver[v] \in VerType
    BY DEF CachesTypeOK, VerType
  <2> QED BY <2>1, <2>2 DEF VerType, Time, Entry
<1>3. \A k \in jwks.keys : jwks.expires <= lastServed'[k] + Ttl
  BY <1>1, <1>2 DEF KeyAges
<1>4. \A v \in Verification :
        /\ ver[v].now <= time'
        /\ ver[v].pc \in {"fetch", "import"} =>
             \A k \in ver[v].cached.keys : ver[v].cached.expires <= lastServed'[k] + Ttl
        /\ ver[v].pc = "import" => \A k \in ver[v].doc : ver[v].now <= lastServed'[k]
        /\ ver[v].pc # "done" => ver[v].verdict = "none"
        /\ ver[v].verdict = "valid" => ver[v].now <= lastServed'[ver[v].kid] + Ttl + Grace
  BY <1>1, <1>2 DEF KeyAges, RetiredKeysRefused
<1> QED BY <1>3, <1>4 DEF KeyAges, RetiredKeysRefused

\* Every step keeps the ages of the key sets.
LEMMA StepKeys ==
    ASSUME CachesTypeOK, KeyAges, RetiredKeysRefused, [CachesNext]_cachesVars
    PROVE  KeyAges' /\ RetiredKeysRefused'
<1>0. CachesTypeOK'
  BY StepCachesType
<1>t. /\ time \in Nat /\ jwks.expires \in Nat /\ jwks.keys \subseteq Kid /\ published \subseteq Kid
      /\ \A k \in Kid : lastServed[k] \in Nat
      /\ ver \in [Verification -> VerType]
      /\ \A v \in Verification : /\ ver[v].now \in Nat /\ ver[v].kid \in Kid
                                 /\ ver[v].cached.expires \in Nat
                                 /\ ver[v].cached.keys \subseteq Kid /\ ver[v].doc \subseteq Kid
  BY DEF CachesTypeOK, Time, Entry, VerType
<1>1. CASE Tick
  <2>1. time' = time + 1 /\ UNCHANGED <<published, jwks, ver>>
        /\ \A k \in Kid : lastServed'[k] = IF k \in published THEN time + 1 ELSE lastServed[k]
    BY <1>1 DEF Tick
  <2>2. \A k \in Kid : lastServed[k] <= lastServed'[k] /\ lastServed'[k] <= time'
    BY <1>t, <2>1 DEF KeyAges
  <2>3. \A k \in published' : lastServed'[k] = time'
    BY <1>t, <2>1
  <2> QED BY <1>0, <1>t, <2>1, <2>2, <2>3, AgesGrow
<1>2. ASSUME NEW keys \in SUBSET Kid, Rotate(keys) PROVE KeyAges' /\ RetiredKeysRefused'
  <2>1. UNCHANGED <<time, jwks, ver>> /\ published' = keys
        /\ \A k \in Kid : lastServed'[k] = IF k \in keys THEN time ELSE lastServed[k]
    BY <1>2 DEF Rotate
  <2>2. \A k \in Kid : lastServed[k] <= lastServed'[k] /\ lastServed'[k] <= time'
    BY <1>t, <2>1 DEF KeyAges
  <2> QED BY <1>0, <1>t, <2>1, <2>2, AgesGrow
<1>3. ASSUME NEW v \in Verification, LoadKeys(v) PROVE KeyAges' /\ RetiredKeysRefused'
  <2> DEFINE r == [ver[v] EXCEPT !.pc = "fetch", !.now = time, !.cached = jwks]
  <2>1. UNCHANGED <<time, published, lastServed, jwks>> /\ ver[v].pc = "idle"
        /\ ver' = [ver EXCEPT ![v] = IF time < jwks.expires THEN Verdict(r, jwks.keys) ELSE r]
    BY <1>3 DEF LoadKeys
  <2>2. r \in VerType /\ r.pc = "fetch" /\ r.now = time /\ r.cached = jwks /\ r.kid = ver[v].kid
        /\ r.verdict = "none"
    BY <1>t, <2>1, ZenonT(30) DEF VerType, CachesTypeOK, KeyAges
  <2> HIDE DEF r
  <2>3. \A w \in Verification : w # v => ver'[w] = ver[w]
    BY <1>t, <2>1
  <2>4. CASE time < jwks.expires
    <3>1. ver'[v] = Verdict(r, jwks.keys)
      BY <1>t, <2>1, <2>4
    <3>2. ver'[v].pc = "done" /\ ver'[v].now = time
          /\ (ver'[v].verdict = "valid" => ver'[v].kid \in jwks.keys)
      BY <2>2, <3>1, VerdictType
    <3>3. ver'[v].verdict = "valid" => ver'[v].now <= lastServed[ver'[v].kid] + Ttl + Grace
      BY <1>t, <2>4, <3>2 DEF KeyAges
    <3> QED BY <1>t, <2>1, <2>3, <3>2, <3>3 DEF KeyAges, RetiredKeysRefused
  <2>5. CASE ~(time < jwks.expires)
    <3>1. ver'[v] = r
      BY <1>t, <2>1, <2>5
    <3> QED BY <1>t, <2>1, <2>2, <2>3, <3>1 DEF KeyAges, RetiredKeysRefused
  <2> QED BY <2>4, <2>5
<1>4. ASSUME NEW v \in Verification, Fetch(v) PROVE KeyAges' /\ RetiredKeysRefused'
  <2>1. PICK doc \in {published, {}} : ver' = [ver EXCEPT ![v].pc = "import", ![v].doc = doc]
    BY <1>4 DEF Fetch
  <2>2. UNCHANGED <<time, published, lastServed, jwks>> /\ ver[v].pc = "fetch"
    BY <1>4 DEF Fetch
  <2>3. ver'[v].pc = "import" /\ ver'[v].doc = doc /\ ver'[v].now = ver[v].now
        /\ ver'[v].cached = ver[v].cached /\ ver'[v].verdict = ver[v].verdict
        /\ \A w \in Verification : w # v => ver'[w] = ver[w]
    BY <1>t, <2>1 DEF VerType
  <2>4. \A k \in doc : ver[v].now <= lastServed[k]
    BY <1>t DEF KeyAges
  <2> QED BY <1>t, <2>2, <2>3, <2>4 DEF KeyAges, RetiredKeysRefused
<1>5. ASSUME NEW v \in Verification, ImportKeys(v) PROVE KeyAges' /\ RetiredKeysRefused'
  <2>1. UNCHANGED <<time, published, lastServed>> /\ ver[v].pc = "import"
    BY <1>5 DEF ImportKeys
  <2> DEFINE keys == IF ver[v].doc # {} THEN ver[v].doc
                     ELSE IF ver[v].now < ver[v].cached.expires + Grace THEN ver[v].cached.keys ELSE {}
  <2>2. ver' = [ver EXCEPT ![v] = Verdict(ver[v], keys)]
        /\ jwks' = IF ver[v].doc # {} THEN [keys |-> ver[v].doc, expires |-> ver[v].now + Ttl] ELSE jwks
    BY <1>5 DEF ImportKeys
  <2>3. \A k \in keys : ver[v].now <= lastServed[k] + Ttl + Grace
    BY <1>t, <2>1 DEF KeyAges
  <2>4. \A k \in jwks'.keys : jwks'.expires <= lastServed[k] + Ttl
    BY <1>t, <2>1, <2>2 DEF KeyAges
  <2> HIDE DEF keys
  <2>5. ver'[v] = Verdict(ver[v], keys) /\ \A w \in Verification : w # v => ver'[w] = ver[w]
    BY <1>t, <2>2
  <2>6. ver'[v].pc = "done" /\ ver'[v].now = ver[v].now /\ ver'[v].kid = ver[v].kid
        /\ (ver'[v].verdict = "valid" => ver'[v].kid \in keys)
    BY <1>t, <2>5, VerdictType
  <2> QED BY <1>t, <2>1, <2>3, <2>4, <2>5, <2>6 DEF KeyAges, RetiredKeysRefused
<1>6. CASE LimitNext \/ UNCHANGED cachesVars
  <2>1. UNCHANGED <<time, published, lastServed, jwks, ver>>
    BY <1>6 DEF LimitNext, Count, ReadCounter, ReadFails, WriteCounter, keyVars, cachesVars
  <2> QED BY <2>1 DEF KeyAges, RetiredKeysRefused
<1> QED BY <1>1, <1>2, <1>3, <1>4, <1>5, <1>6 DEF CachesNext, KeysNext

\* A retired key stops verifying TTL + grace after it was last published, for
\* any number of overlapping verifications and any outage of the endpoint.
THEOREM RetiredKeysBounded == CachesSpec => []RetiredKeysRefused
<1>1. CachesInit => KeyAges /\ RetiredKeysRefused
  BY DEF CachesInit, KeyAges, RetiredKeysRefused, NoKeys
<1> QED BY <1>1, StepKeys, CachesTypeCorrect, PTL DEF CachesSpec

-----------------------------------------------------------------------------
(* The limiter.                                                            *)

\* The requests of a window that have been decided.
Spent(H, w) == {h \in Hit : H[h].pc = "done" /\ WindowKey(H[h].now) = w}

\* Begun, of the requests H.
BegunIn(H, t) == {h \in Hit : H[h].pc # "idle" /\ H[h].now \div Window = t \div Window}

\* A counter, and what a request read of it, is at most the number of requests
\* of its window already decided: none of them is counted twice.
CountedIn(H, n) ==
    /\ \A w \in Time : n[w] <= Cardinality(Spent(H, w))
    /\ \A h \in Hit : H[h].pc = "put" => H[h].prev <= Cardinality(Spent(H, WindowKey(H[h].now)))
    /\ \A h \in Hit : H[h].pc # "done" => H[h].verdict = "none"
Counted == CountedIn(hit, counter)

\* The property, of the requests H.
RefusedIn(H) ==
    \A h \in Hit : H[h].verdict = "refused" => Cardinality(BegunIn(H, H[h].now)) > Limit

\* The property, of the requests of this state and of the next.
LEMMA RefusedState ==
    /\ RefusedOnlyOverLimit <=> RefusedIn(hit)
    /\ RefusedOnlyOverLimit' <=> RefusedIn(hit')
  BY DEF RefusedOnlyOverLimit, RefusedIn, Begun, BegunIn

\* A window key is the time its window began.
LEMMA WindowKeyTime ==
    ASSUME NEW t \in Time
    PROVE  WindowKey(t) \in Time
  BY DEF WindowKey, Time

\* When the decided requests grow, and with them those begun, the bounds stay.
LEMMA SpentGrows ==
    ASSUME NEW w, Spent(hit, w) \subseteq Spent(hit', w)
    PROVE  /\ Cardinality(Spent(hit, w)) \in Nat /\ Cardinality(Spent(hit', w)) \in Nat
           /\ Cardinality(Spent(hit, w)) <= Cardinality(Spent(hit', w))
<1>1. Spent(hit, w) \subseteq Hit /\ Spent(hit', w) \subseteq Hit
  BY DEF Spent
<1>2. IsFiniteSet(Spent(hit, w)) /\ IsFiniteSet(Spent(hit', w))
  BY <1>1, FS_Subset
<1> QED BY <1>2, FS_Subset, FS_CardinalityType

\* A limit once exceeded stays so while the requests grow.
LEMMA BegunGrows ==
    ASSUME NEW t, BegunIn(hit, t) \subseteq BegunIn(hit', t), Cardinality(BegunIn(hit, t)) > Limit
    PROVE  Cardinality(BegunIn(hit', t)) > Limit
<1>1. BegunIn(hit, t) \subseteq Hit /\ BegunIn(hit', t) \subseteq Hit
  BY DEF BegunIn
<1>2. IsFiniteSet(BegunIn(hit, t)) /\ IsFiniteSet(BegunIn(hit', t))
  BY <1>1, FS_Subset
<1>3. Cardinality(BegunIn(hit, t)) \in Nat /\ Cardinality(BegunIn(hit', t)) \in Nat
      /\ Cardinality(BegunIn(hit, t)) <= Cardinality(BegunIn(hit', t))
  BY <1>2, FS_Subset, FS_CardinalityType
<1> QED BY <1>3

\* A step in which a request moves on, in its window, adds to both sets.
LEMMA HitMoves ==
    ASSUME CachesTypeOK, NEW h \in Hit,
           \A g \in Hit : g # h => hit'[g] = hit[g],
           hit[h].pc # "done", hit'[h].pc # "idle",
           hit[h].pc # "idle" => hit'[h].now = hit[h].now
    PROVE  /\ \A w : Spent(hit, w) \subseteq Spent(hit', w)
           /\ \A t : BegunIn(hit, t) \subseteq BegunIn(hit', t)
  BY DEF Spent, BegunIn

\* Every step keeps counters below the requests that began.
LEMMA StepLimit ==
    ASSUME CachesTypeOK, CountedIn(hit, counter), RefusedIn(hit), [CachesNext]_cachesVars
    PROVE  CountedIn(hit', counter') /\ RefusedIn(hit')
<1>0. hit \in [Hit -> HitType] /\ \A h \in Hit : hit[h] \in HitType
  BY DEF CachesTypeOK, HitType
<1>t. \A h \in Hit : hit[h].now \in Time /\ WindowKey(hit[h].now) \in Time /\ hit[h].prev \in Nat
  BY <1>0, WindowKeyTime DEF HitType
<1>c. \A w \in Time : counter[w] \in Nat
  BY DEF CachesTypeOK
<1>1. ASSUME NEW h \in Hit, Count(h) PROVE CountedIn(hit', counter') /\ RefusedIn(hit')
  <2>1. hit[h].pc = "idle" /\ UNCHANGED counter /\ hit'[h].pc = "get" /\ hit'[h].verdict = hit[h].verdict
        /\ \A g \in Hit : g # h => hit'[g] = hit[g]
    BY <1>0, <1>1 DEF Count, HitType
  <2>2. /\ \A w : Spent(hit, w) \subseteq Spent(hit', w)
        /\ \A t : BegunIn(hit, t) \subseteq BegunIn(hit', t)
    BY <2>1, HitMoves
  <2>3. \A w : /\ Cardinality(Spent(hit, w)) \in Nat /\ Cardinality(Spent(hit', w)) \in Nat
               /\ Cardinality(Spent(hit, w)) <= Cardinality(Spent(hit', w))
    BY <2>2, SpentGrows
  <2>4. CountedIn(hit', counter')
    <3>1. \A w \in Time : counter'[w] <= Cardinality(Spent(hit', w))
      BY <1>c, <2>1, <2>3 DEF CountedIn
    <3>2. \A g \in Hit : hit'[g].pc = "put" => hit'[g].prev <= Cardinality(Spent(hit', WindowKey(hit'[g].now)))
      BY <1>t, <2>1, <2>3 DEF CountedIn
    <3> QED BY <2>1, <3>1, <3>2 DEF CountedIn
  <2>5. RefusedIn(hit')
    BY <2>1, <2>2, BegunGrows DEF CountedIn, RefusedIn
  <2> QED BY <2>4, <2>5
<1>2. ASSUME NEW h \in Hit, ReadCounter(h) PROVE CountedIn(hit', counter') /\ RefusedIn(hit')
  <2> DEFINE k == WindowKey(hit[h].now)
  <2>a. PICK n \in 0..counter[k] : hit' = [hit EXCEPT ![h].pc = "put", ![h].prev = n]
    BY <1>2 DEF ReadCounter
  <2>1. hit[h].pc = "get" /\ UNCHANGED counter /\ hit'[h].pc = "put" /\ hit'[h].verdict = hit[h].verdict
        /\ hit'[h].now = hit[h].now /\ hit'[h].prev = n /\ \A g \in Hit : g # h => hit'[g] = hit[g]
    BY <1>0, <1>2, <2>a DEF ReadCounter, HitType
  <2>2. /\ \A w : Spent(hit, w) \subseteq Spent(hit', w)
        /\ \A t : BegunIn(hit, t) \subseteq BegunIn(hit', t)
    BY <2>1, HitMoves
  <2>3. \A w : /\ Cardinality(Spent(hit, w)) \in Nat /\ Cardinality(Spent(hit', w)) \in Nat
               /\ Cardinality(Spent(hit, w)) <= Cardinality(Spent(hit', w))
    BY <2>2, SpentGrows
  <2>4. CountedIn(hit', counter')
    <3>1. \A w \in Time : counter'[w] <= Cardinality(Spent(hit', w))
      BY <1>c, <2>1, <2>3 DEF CountedIn
    <3>2. k \in Time /\ counter[k] \in Nat /\ counter[k] <= Cardinality(Spent(hit, k))
      BY <1>c, <1>t DEF CountedIn
    <3>3. n <= Cardinality(Spent(hit', k))
      BY <2>3, <3>2
    <3>4. \A g \in Hit : hit'[g].pc = "put" => hit'[g].prev <= Cardinality(Spent(hit', WindowKey(hit'[g].now)))
      BY <1>t, <2>1, <2>3, <3>3 DEF CountedIn
    <3> QED BY <2>1, <3>1, <3>4 DEF CountedIn
  <2>5. RefusedIn(hit')
    BY <2>1, <2>2, BegunGrows DEF CountedIn, RefusedIn
  <2> QED BY <2>4, <2>5
<1>3. ASSUME NEW h \in Hit, ReadFails(h) PROVE CountedIn(hit', counter') /\ RefusedIn(hit')
  <2>1. hit[h].pc = "get" /\ UNCHANGED counter /\ hit'[h].pc = "done" /\ hit'[h].verdict = "allowed"
        /\ hit'[h].now = hit[h].now /\ \A g \in Hit : g # h => hit'[g] = hit[g]
    BY <1>0, <1>3 DEF ReadFails, HitType
  <2>2. /\ \A w : Spent(hit, w) \subseteq Spent(hit', w)
        /\ \A t : BegunIn(hit, t) \subseteq BegunIn(hit', t)
    BY <2>1, HitMoves
  <2>3. \A w : /\ Cardinality(Spent(hit, w)) \in Nat /\ Cardinality(Spent(hit', w)) \in Nat
               /\ Cardinality(Spent(hit, w)) <= Cardinality(Spent(hit', w))
    BY <2>2, SpentGrows
  <2>4. CountedIn(hit', counter')
    <3>1. \A w \in Time : counter'[w] <= Cardinality(Spent(hit', w))
      BY <1>c, <2>1, <2>3 DEF CountedIn
    <3>2. \A g \in Hit : hit'[g].pc = "put" => hit'[g].prev <= Cardinality(Spent(hit', WindowKey(hit'[g].now)))
      BY <1>t, <2>1, <2>3 DEF CountedIn
    <3> QED BY <2>1, <3>1, <3>2 DEF CountedIn
  <2>5. RefusedIn(hit')
    BY <2>1, <2>2, BegunGrows DEF CountedIn, RefusedIn
  <2> QED BY <2>4, <2>5
<1>4. ASSUME NEW h \in Hit, WriteCounter(h) PROVE CountedIn(hit', counter') /\ RefusedIn(hit')
  <2> DEFINE n == hit[h].prev + 1
             k == WindowKey(hit[h].now)
  <2>1. hit[h].pc = "put" /\ (UNCHANGED counter \/ counter' = [counter EXCEPT ![k] = n])
        /\ hit' = [hit EXCEPT ![h].pc = "done", ![h].verdict = IF n > Limit THEN "refused" ELSE "allowed"]
    BY <1>4 DEF WriteCounter
  <2>2. hit'[h].pc = "done" /\ hit'[h].now = hit[h].now /\ \A g \in Hit : g # h => hit'[g] = hit[g]
    BY <1>0, <2>1 DEF HitType
  <2>3. hit'[h].verdict = "refused" => n > Limit
    BY <1>0, <2>1 DEF HitType
  <2>4. /\ \A w : Spent(hit, w) \subseteq Spent(hit', w)
        /\ \A t : BegunIn(hit, t) \subseteq BegunIn(hit', t)
    BY <2>1, <2>2, HitMoves
  <2>5. \A w : /\ Cardinality(Spent(hit, w)) \in Nat /\ Cardinality(Spent(hit', w)) \in Nat
               /\ Cardinality(Spent(hit, w)) <= Cardinality(Spent(hit', w))
    BY <2>4, SpentGrows
  <2>6. n <= Cardinality(Spent(hit', k))
    <3>1. Spent(hit', k) = Spent(hit, k) \cup {h} /\ h \notin Spent(hit, k)
      BY <2>1, <2>2 DEF Spent
    <3>2. IsFiniteSet(Spent(hit, k))
      BY FS_Subset DEF Spent
    <3>3. Cardinality(Spent(hit', k)) = Cardinality(Spent(hit, k)) + 1
      BY <3>1, <3>2, FS_AddElement
    <3>4. hit[h].prev <= Cardinality(Spent(hit, k))
      BY <2>1 DEF CountedIn
    <3> QED BY <1>t, <2>5, <3>3, <3>4
  <2>7. CountedIn(hit', counter')
    <3>1. \A w \in Time : counter'[w] <= Cardinality(Spent(hit', w))
      <4>1. SUFFICES ASSUME NEW w \in Time PROVE counter'[w] <= Cardinality(Spent(hit', w))
        OBVIOUS
      <4>2. counter'[w] = counter[w] \/ (w = k /\ counter'[w] = n)
        BY <2>1 DEF CachesTypeOK
      <4> HIDE DEF k, n
      <4>3. counter[w] <= Cardinality(Spent(hit, w))
        BY DEF CountedIn
      <4> QED BY <1>c, <2>5, <2>6, <4>2, <4>3
    <3>2. \A g \in Hit : hit'[g].pc = "put" => hit'[g].prev <= Cardinality(Spent(hit', WindowKey(hit'[g].now)))
      BY <1>t, <2>2, <2>5 DEF CountedIn
    <3> QED BY <2>2, <3>1, <3>2 DEF CountedIn
  <2>8. n > Limit => Cardinality(BegunIn(hit', hit[h].now)) > Limit
    <3>1. Spent(hit', k) \subseteq BegunIn(hit', hit[h].now) /\ BegunIn(hit', hit[h].now) \subseteq Hit
      BY DEF Spent, BegunIn, WindowKey
    <3>2. IsFiniteSet(BegunIn(hit', hit[h].now))
      BY <3>1, FS_Subset
    <3>3. Cardinality(Spent(hit', k)) <= Cardinality(BegunIn(hit', hit[h].now)) /\ Cardinality(BegunIn(hit', hit[h].now)) \in Nat
      BY <3>1, <3>2, FS_Subset, FS_CardinalityType
    <3> QED BY <1>t, <2>5, <2>6, <3>3
  <2>9. RefusedIn(hit')
    <3>1. \A g \in Hit : g # h /\ hit'[g].verdict = "refused" => Cardinality(BegunIn(hit', hit'[g].now)) > Limit
      BY <2>2, <2>4, BegunGrows DEF RefusedIn
    <3>2. hit'[h].verdict = "refused" => Cardinality(BegunIn(hit', hit'[h].now)) > Limit
      BY <2>2, <2>3, <2>8
    <3> QED BY <3>1, <3>2 DEF RefusedIn
  <2> QED BY <2>7, <2>9
<1>5. CASE Tick \/ KeysNext \/ UNCHANGED cachesVars
  <2>1. UNCHANGED <<counter, hit>>
    BY <1>5 DEF Tick, KeysNext, Rotate, LoadKeys, Fetch, ImportKeys, limitVars, cachesVars
  <2> QED BY <2>1 DEF CountedIn, RefusedIn, Spent, BegunIn
<1> QED BY <1>1, <1>2, <1>3, <1>4, <1>5 DEF CachesNext, LimitNext

\* The limiter refuses a request only in a window with more than Limit of them,
\* for any number of overlapping requests, lost updates and stale reads.
THEOREM LimiterNeverTight == CachesSpec => []RefusedOnlyOverLimit
<1>1. CachesInit => Counted /\ RefusedOnlyOverLimit
  <2> SUFFICES ASSUME CachesInit PROVE Counted /\ RefusedOnlyOverLimit
    OBVIOUS
  <2>1. \A w : Cardinality(Spent(hit, w)) \in Nat
    BY FS_Subset, FS_CardinalityType DEF Spent
  <2> QED BY <2>1 DEF CachesInit, Counted, CountedIn, RefusedOnlyOverLimit
<1>2. CachesTypeOK /\ Counted /\ RefusedOnlyOverLimit /\ [CachesNext]_cachesVars
      => Counted' /\ RefusedOnlyOverLimit'
  BY StepLimit, RefusedState DEF Counted
<1> QED BY <1>1, <1>2, CachesTypeCorrect, PTL DEF CachesSpec

-----------------------------------------------------------------------------
(* One request through the Worker (EdgeServe).                             *)

USE ServeAssumption, PendingAssumption

Rq(q) ==
    [pc : {"idle", "route", "status", "gate", "chat", "llms", "match", "resolve", "put", "done"},
     in : Inputs[q], route : Routes \cup {NoRoute, Malformed},
     status : Blocking \cup {"active", "unknown"}, resp : ResponseValue \cup {Pending}]

AnyRoute == Routes \cup {NoRoute, Malformed}
ContentForm == {"bytes", "viewer", "listing"}

\* The route is one the API wrote, in force, of an organisation in good standing.
Live(r) == r.route \in Routes /\ ~IsRouteExpired(r.route, r.in.at)
Clear(r) == Live(r) /\ r.status \notin Blocking

\* Past the gate, or past the wall that comes before it.
PastWall(r) == r.route.mode # "public" => ~r.in.embed /\ (r.in.crawler => Unsafe(r.in))
PastGate(r) == PastWall(r) /\ (r.route.mode # "public" => r.in.token = r.route.mode)

\* What the steps a request has taken have established.
Progress(r) ==
    /\ r.resp = Pending <=> r.pc \notin {"put", "done"}
    /\ r.pc \in {"idle", "route"} => r.route = NoRoute /\ r.status = "active"
    /\ r.pc = "status" => Live(r) /\ r.status = "active"
    /\ r.pc \in {"gate", "chat", "llms", "match", "resolve", "put"} => Clear(r)
    /\ r.pc = "gate" => PastWall(r) /\ r.route.mode # "public"
    /\ r.pc \in {"chat", "resolve"} => PastGate(r)
    /\ r.pc = "chat" => ~r.in.embed /\ ~Unsafe(r.in)
    /\ r.pc \in {"llms", "match", "put"} => r.route.mode = "public"
    /\ r.pc \in {"match", "put"} => ~r.in.embed
    /\ r.pc = "put" => /\ r.resp.body \in PageValue /\ r.resp.body.form \in ContentForm
                       /\ r.resp.body = Fresh(r.route, r.in) /\ Finds(r.route.version, r.in)

\* What an answer must be, whichever branch gave it.
Outcome(r, x) ==
    /\ x.body # Platform /\ r.route.mode # "public" =>
         /\ r.in.token = r.route.mode /\ ~r.in.crawler
         /\ x.store = "private" /\ x.frame # "any"
    /\ Clear(r) \/ r.route = NoRoute \/ (x.body = Platform /\ x.store \in {"no-store", "none"})
    /\ x.report = "visit" <=>
         /\ r.in.method = "GET" /\ x.status = 200 /\ x.body # Platform
         /\ x.body.html /\ x.body.form # "chat"
    /\ x.body # Platform /\ x.status = 200 /\ ~r.in.embed /\ x.body.form \in ContentForm
         /\ ~SharesKey(r.route.version, r.in)
         => x.body = Fresh(r.route, r.in)

RequestOK(q, r) == r \in Rq(q) /\ Progress(r) /\ (r.resp # Pending => Outcome(r, r.resp))

\* Every entry is the page some request of its key found and was shown.
EntryOK(k, page) ==
    /\ k.mode = "public" /\ page \in PageValue /\ page.form \in ContentForm
    /\ \E q \in Req : \E i \in Inputs[q] : \E rt \in Routes :
         k = CacheKey(rt, i) /\ page = Fresh(rt, i) /\ Finds(rt.version, i)

KvOK(s) ==
    /\ DOMAIN s = Key /\ s["route"] \in AnyRoute
    /\ s["status"] \in Blocking \cup {"active"} /\ s["revoked"] \in BOOLEAN

ServeInv ==
    /\ events \in 0..MaxEvents /\ KvOK(kv) /\ KvOK(seen)
    /\ \A k \in DOMAIN cache : EntryOK(k, cache[k])
    /\ DOMAIN req = Req /\ \A q \in Req : RequestOK(q, req[q])

-----------------------------------------------------------------------------
(* Paths and pages.                                                        *)

\* The least of at most three numbers is one of them.
LEMMA MinOfThree == ASSUME NEW S \in SUBSET (1..3), S # {} PROVE Min(S) \in S
<1>1. \E x \in S : \A y \in S : x <= y
  <2>1. CASE 1 \in S
    BY <2>1
  <2>2. CASE 1 \notin S /\ 2 \in S
    BY <2>2
  <2>3. CASE 1 \notin S /\ 2 \notin S
    <3>1. \A x \in S : x = 3
      BY <2>3
    <3>2. 3 \in S
      BY <3>1
    <3> QED BY <3>1, <3>2
  <2> QED BY <2>1, <2>2, <2>3
<1> QED BY <1>1 DEF Min

\* candidatePaths tries at most three paths.
LEMMA FewCandidates == ASSUME NEW c PROVE Len(CandidatePaths(c)) \in 1..3
  BY DEF CandidatePaths

\* What resolveManifestEntry returns is in the manifest.
LEMMA ResolvedIsThere ==
    ASSUME NEW m, NEW c, ResolveManifestEntry(m, c) # <<>>
    PROVE  ResolveManifestEntry(m, c) \in DOMAIN m
<1> DEFINE tried == CandidatePaths(c)
           hits == {n \in 1..Len(tried) : tried[n] \in DOMAIN m}
<1>1. hits # {}
  BY DEF ResolveManifestEntry
<1>2. hits \in SUBSET (1..3)
  BY FewCandidates
<1>3. Min(hits) \in hits
  BY <1>1, <1>2, MinOfThree
<1>4. ResolveManifestEntry(m, c) = tried[Min(hits)]
  BY <1>1 DEF ResolveManifestEntry
<1> QED BY <1>3, <1>4

\* Every page has its type; the name of a page of the Worker's is none of theirs.
LEMMA PageType ==
    ASSUME NEW rt \in Routes, NEW form \in {"bytes", "viewer", "listing", "chat", "llms"},
           NEW path \in PagePath, NEW html \in BOOLEAN, NEW utf8 \in BOOLEAN
    PROVE  /\ Page(rt, form, path, html, utf8) \in PageValue
           /\ Page(rt, form, path, html, utf8).form = form
           /\ Page(rt, form, path, html, utf8).html = html
<1>1. rt.version \in DOMAIN Manifest
  BY DEF RouteValue
<1> QED BY <1>1 DEF Page, PageValue

LEMMA PlatformIsNoPage == Platform \notin PageValue
<1>1. \A x \in PageValue : x.form \in {"bytes", "viewer", "listing", "chat", "llms"}
  BY DEF PageValue
<1>2. Platform.form = "platform"
  BY DEF Platform
<1> QED BY <1>1, <1>2

\* A file's page, and a folder's.
LEMMA FilePageType ==
    ASSUME NEW rt \in Routes, NEW i, NEW p \in DOMAIN Manifest[rt.version]
    PROVE  FilePage(rt, i, p) \in PageValue /\ FilePage(rt, i, p).form \in ContentForm
<1>1. rt.version \in DOMAIN Manifest
  BY DEF RouteValue
<1>2. Manifest[rt.version][p].utf8 \in BOOLEAN
  BY <1>1 DEF ManifestEntry
<1>3. p \in PagePath
  BY <1>1 DEF PagePath, FilePath
<1>4. IsHtml(p) \in BOOLEAN
  BY DEF IsHtml
<1>5. CASE FilePage(rt, i, p) = Page(rt, "viewer", p, TRUE, TRUE)
  <2>1. Page(rt, "viewer", p, TRUE, TRUE) \in PageValue /\ Page(rt, "viewer", p, TRUE, TRUE).form = "viewer"
    BY <1>3, PageType, ZenonT(30)
  <2> QED BY <1>5, <2>1 DEF ContentForm
<1>6. CASE FilePage(rt, i, p) = Page(rt, "bytes", p, IsHtml(p), Manifest[rt.version][p].utf8)
  BY <1>2, <1>3, <1>4, <1>6, PageType DEF ContentForm
<1> QED BY <1>5, <1>6 DEF FilePage, MarkdownPage

LEMMA ListingPageType ==
    ASSUME NEW rt \in Routes, NEW q \in Req, NEW i \in Inputs[q]
    PROVE  ListingPage(rt, i) \in PageValue /\ ListingPage(rt, i).form \in ContentForm
<1>1. Clean(i).segs \in PagePath
  <2> DEFINE all == UNION {Inputs[x] : x \in Req}
  <2>1. i \in all
    OBVIOUS
  <2> HIDE DEF all
  <2>2. Clean(i).segs \in {Clean(j).segs : j \in all}
    BY <2>1
  <2>3. Clean(i).segs \in FolderPath
    BY <2>2, Zenon DEF FolderPath, all
  <2> QED BY <2>3 DEF PagePath
<1> QED BY <1>1, PageType, ZenonT(30) DEF ListingPage, ContentForm

\* What is put into a page leaves the page what it is.
LEMMA BannerizeType ==
    ASSUME NEW rt, NEW page \in PageValue
    PROVE  /\ Bannerize(rt, page) \in PageValue /\ Bannerize(rt, page).form = page.form
           /\ Bannerize(rt, page).html = page.html
  BY DEF Bannerize, PageValue, ShouldInjectBanner, ShouldInjectChatPill

LEMMA BadgeType ==
    ASSUME NEW rt, NEW i, NEW page \in PageValue
    PROVE  /\ EmbedBadgeInject(rt, i, page) \in PageValue
           /\ EmbedBadgeInject(rt, i, page).form = page.form
           /\ EmbedBadgeInject(rt, i, page).html = page.html
  BY DEF EmbedBadgeInject, PageValue, ShouldShowEmbedBadge

-----------------------------------------------------------------------------
(* The cache key.                                                          *)

\* Two requests of one key see one page, unless the key of one is that of the
\* other's ?raw.
LEMMA KeyDeterminesPage ==
    ASSUME NEW rt \in Routes, NEW rt2 \in Routes, NEW q \in Req, NEW q2 \in Req,
           NEW i \in Inputs[q], NEW i2 \in Inputs[q2],
           CacheKey(rt, i) = CacheKey(rt2, i2),
           Finds(rt.version, i), ~SharesKey(rt2.version, i2)
    PROVE  Fresh(rt, i) = Fresh(rt2, i2)
<1> DEFINE pre(j) == IF j.raw THEN <<RawSegment>> ELSE <<>>
           Seg == (STRING \X STRING) \cup {RawSegment}
<1>1. /\ rt.version = rt2.version /\ rt.tier = rt2.tier /\ rt.chat = rt2.chat
      /\ i.slash = i2.slash /\ pre(i) \o i.path = pre(i2) \o i2.path
  BY DEF CacheKey
<1>2. /\ i \in Request /\ i2 \in Request /\ i.path \in Seq(Seg) /\ i2.path \in Seq(Seg)
      /\ i.raw \in BOOLEAN /\ i2.raw \in BOOLEAN
  BY SeqMonotonic DEF Request, UrlPath
<1>3. <<RawSegment>> \in Seq(Seg) /\ <<>> \in Seq(Seg) /\ Len(<<RawSegment>>) = 1 /\ <<RawSegment>>[1] = RawSegment
  OBVIOUS
<1> HIDE DEF Seg
<1>4. ~UnderRaw(i) /\ ~UnderRaw(i2)
  BY <1>1 DEF SharesKey
<1>5. CASE i.raw = i2.raw
  <2>1. i.path = i2.path
    <3>1. pre(i) = pre(i2) /\ pre(i) \in Seq(Seg)
      BY <1>3, <1>5
    <3> HIDE DEF pre
    <3> QED BY <1>1, <1>2, <3>1, ConcatSimplifications
  <2>2. Clean(i) = Clean(i2)
    BY <1>1, <2>1 DEF Clean
  <2>3. ASSUME NEW p PROVE FilePage(rt, i, p) = FilePage(rt2, i2, p)
    BY <1>1, <1>5 DEF FilePage, MarkdownPage, Page
  <2>4. ListingPage(rt, i) = ListingPage(rt2, i2)
    BY <1>1, <2>2 DEF ListingPage, Page
  <2>5. ASSUME NEW page PROVE Bannerize(rt, page) = Bannerize(rt2, page)
    BY <1>1 DEF Bannerize, ShouldInjectBanner, ShouldInjectChatPill
  <2> QED BY <1>1, <2>2, <2>3, <2>4, <2>5 DEF Fresh
<1>6. ASSUME NEW a \in Seq(Seg), NEW b \in Seq(Seg), a = <<RawSegment>> \o b
      PROVE  a # <<>> /\ a[1] = RawSegment
  BY <1>3, <1>6, ConcatProperties, EmptySeq
<1>7. CASE i.raw /\ ~i2.raw
  <2>1. i2.path = <<RawSegment>> \o i.path
    BY <1>1, <1>2, <1>7, ConcatEmptySeq
  <2> QED BY <1>2, <1>4, <1>6, <1>7, <2>1 DEF UnderRaw
<1>8. CASE ~i.raw /\ i2.raw
  <2>1. i.path = <<RawSegment>> \o i2.path
    BY <1>1, <1>2, <1>8, ConcatEmptySeq
  <2> QED BY <1>2, <1>4, <1>6, <1>8, <2>1 DEF UnderRaw
<1> QED BY <1>2, <1>5, <1>7, <1>8

-----------------------------------------------------------------------------
(* Answers.                                                                *)

\* What serve does to a response that may be framed changes the frame only.
LEMMA Framed ==
    ASSUME NEW i, NEW x \in ResponseValue
    PROVE  LET y == AsFramable(i, x) IN
           /\ y \in ResponseValue /\ y.status = x.status /\ y.body = x.body /\ y.store = x.store
           /\ y.report = x.report /\ (~i.embed => y.frame = x.frame)
<1>1. CASE i.embed
  <2>1. AsFramable(i, x) = [x EXCEPT !.frame = "any"]
    BY <1>1 DEF AsFramable
  <2> QED BY <1>1, <2>1, SMTT(30) DEF ResponseValue
<1>2. CASE ~i.embed
  BY <1>2 DEF AsFramable
<1> QED BY <1>1, <1>2

\* An answer that meets Outcome, given to a request at any step, is fine.
LEMMA AnsweredOK ==
    ASSUME NEW q \in Req, NEW r \in Rq(q), NEW x \in ResponseValue,
           Outcome(r, AsFramable(r.in, x))
    PROVE  RequestOK(q, Answered(r, x))
<1> DEFINE y == AsFramable(r.in, x)
           s == Answered(r, x)
<1>1. y \in ResponseValue
  BY Framed
<1>2. s = [r EXCEPT !.pc = "done", !.resp = y]
  BY DEF Answered
<1> HIDE DEF y, s
<1>3. /\ s \in Rq(q) /\ s.pc = "done" /\ s.resp = y /\ s.in = r.in /\ s.route = r.route
      /\ s.status = r.status
  BY <1>1, <1>2 DEF Rq
<1>4. y # Pending
  BY <1>1
<1>5. Progress(s)
  BY <1>3, <1>4 DEF Progress
<1>6. Outcome(s, y)
  BY <1>3 DEF Outcome, Clear, Live, y
<1> QED BY <1>3, <1>5, <1>6 DEF RequestOK, s

\* An answer of the Worker's own.
LEMMA OwnAnswer ==
    ASSUME NEW q \in Req, NEW r \in Rq(q), NEW x \in ResponseValue,
           x.body = Platform, x.report # "visit",
           Clear(r) \/ r.route = NoRoute \/ x.store \in {"no-store", "none"}
    PROVE  RequestOK(q, Answered(r, x))
<1>1. Outcome(r, AsFramable(r.in, x))
  BY Framed DEF Outcome
<1> QED BY <1>1, AnsweredOK

\* An answer with a page of the site.
LEMMA SiteAnswer ==
    ASSUME NEW q \in Req, NEW r \in Rq(q), NEW x \in ResponseValue, Clear(r),
           r.route.mode # "public" =>
               /\ r.in.token = r.route.mode /\ ~r.in.crawler /\ ~r.in.embed
               /\ x.store = "private" /\ x.frame # "any",
           x.body \in PageValue,
           x.report = "visit" <=>
               r.in.method = "GET" /\ x.status = 200 /\ x.body.html /\ x.body.form # "chat",
           x.status = 200 /\ ~r.in.embed /\ x.body.form \in ContentForm
               /\ ~SharesKey(r.route.version, r.in) => x.body = Fresh(r.route, r.in)
    PROVE  RequestOK(q, Answered(r, x))
<1>1. Outcome(r, AsFramable(r.in, x))
  BY Framed, PlatformIsNoPage DEF Outcome
<1> QED BY <1>1, AnsweredOK

\* The Worker's own answers are responses.
LEMMA Refusals ==
    \A x \in {MethodNotAllowed, TooManyRequests, ProjectionError, LinkExpired, AccountSuspended,
              InternalError} :
        /\ x \in ResponseValue /\ x.body = Platform /\ x.report # "visit"
        /\ x.store \in {"no-store", "none"}
  BY DEF Response, ResponseValue, MethodNotAllowed, TooManyRequests, ProjectionError, LinkExpired,
         AccountSuspended, InternalError

LEMMA OwnAnswers ==
    \A x \in {CrawlerBlocked, EmbedGatePlaceholder, RedirectToAuthz, HandleAuthzCallback,
              RobotsTxt(TRUE), RobotsTxt(FALSE)} :
        x \in ResponseValue /\ x.body = Platform /\ x.report # "visit"
  BY DEF Response, ResponseValue, CrawlerBlocked, EmbedGatePlaceholder, RedirectToAuthz,
         HandleAuthzCallback, RobotsTxt

LEMMA NotFoundAnswer ==
    \A i : /\ NotFound(i) \in ResponseValue /\ NotFound(i).body = Platform /\ NotFound(i).status = 404
           /\ NotFound(i).report \in {"serve_404", "none"} /\ NotFound(i).frame = "none"
  BY DEF Response, ResponseValue, NotFound, Report404

-----------------------------------------------------------------------------
(* The handlers: each takes a request that is fine at its step to one that *)
(* is fine.                                                                *)

\* A request goes on to a step whose facts hold of it.
LEMMA GoesOn ==
    ASSUME NEW q \in Req, NEW r \in Rq(q), r.resp = Pending,
           NEW pc \in {"route", "status", "gate", "chat", "llms", "match", "resolve"},
           Progress(At(r, pc))
    PROVE  RequestOK(q, At(r, pc))
  BY DEF RequestOK, At, Rq

LEMMA DispatchedOK ==
    ASSUME NEW q \in Req, NEW r, NEW i \in Inputs[q], RequestOK(q, r), r.pc = "idle"
    PROVE  RequestOK(q, Dispatched([r EXCEPT !.in = i]))
<1> DEFINE s == [r EXCEPT !.in = i]
<1>1. s \in Rq(q) /\ s.resp = Pending /\ s.route = NoRoute /\ s.status = "active" /\ s.in = i
  BY DEF RequestOK, Rq, Progress
<1> HIDE DEF s
<1>2. RequestOK(q, Answered(s, MethodNotAllowed)) /\ RequestOK(q, Answered(s, TooManyRequests))
      /\ RequestOK(q, Answered(s, NotFound(i)))
  BY <1>1, OwnAnswer, Refusals, NotFoundAnswer
<1>3. RequestOK(q, At(s, "route"))
  <2>1. Progress(At(s, "route"))
    BY <1>1 DEF Progress, At, Rq
  <2> QED BY <1>1, <2>1, GoesOn
<1>4. RequestOK(q, Dispatched(s))
  BY <1>1, <1>2, <1>3 DEF Dispatched
<1> QED BY <1>4 DEF s

LEMMA RoutedOK ==
    ASSUME NEW q \in Req, NEW r, NEW rt \in AnyRoute, RequestOK(q, r), r.pc = "route"
    PROVE  RequestOK(q, Routed([r EXCEPT !.route = rt]))
<1> DEFINE s == [r EXCEPT !.route = rt]
<1>1. s \in Rq(q) /\ s.resp = Pending /\ s.route = rt /\ s.status = "active" /\ s.in = r.in
  BY DEF RequestOK, Rq, Progress, AnyRoute
<1> HIDE DEF s
<1>2. RequestOK(q, Answered(s, ProjectionError)) /\ RequestOK(q, Answered(s, LinkExpired))
  BY <1>1, OwnAnswer, Refusals, NotFoundAnswer
<1>3. rt = NoRoute => RequestOK(q, Answered(s, NotFound(s.in)))
  BY <1>1, OwnAnswer, Refusals, NotFoundAnswer
<1>4. rt \in Routes /\ ~IsRouteExpired(rt, s.in.at) => RequestOK(q, At(s, "status"))
  <2> SUFFICES ASSUME rt \in Routes, ~IsRouteExpired(rt, s.in.at) PROVE RequestOK(q, At(s, "status"))
    OBVIOUS
  <2>1. Progress(At(s, "status"))
    BY <1>1 DEF Progress, At, Rq, Live
  <2> QED BY <1>1, <2>1, GoesOn
<1>5. RequestOK(q, Routed(s))
  BY <1>1, <1>2, <1>3, <1>4 DEF Routed, ParseFails, AnyRoute
<1> QED BY <1>5 DEF s

\* The transcript, the cache or the bucket, as servePublic and servePublicBody go on.
LEMMA ContentOK ==
    ASSUME NEW q \in Req, NEW r \in Rq(q), r.resp = Pending, Clear(r), PastGate(r), ~r.in.embed
    PROVE  RequestOK(q, Content(r))
<1>1. Progress(At(r, "chat")) \/ ~IsChat(r)
  BY DEF Progress, At, Rq, IsChat, Clear, Live, PastGate, PastWall
<1>2. r.route.mode = "public" => Progress(At(r, "match"))
  BY DEF Progress, At, Rq, Clear, Live
<1>3. Progress(At(r, "resolve"))
  BY DEF Progress, At, Rq, Clear, Live, PastGate, PastWall
<1> QED BY <1>1, <1>2, <1>3, GoesOn DEF Content

\* robots.txt, the crawler wall, llms.txt, the embed branch and the switch.
LEMMA SwitchedOK ==
    ASSUME NEW q \in Req, NEW r \in Rq(q), r.resp = Pending, Clear(r)
    PROVE  RequestOK(q, Switched(r))
<1> DEFINE public == r.route.mode = "public"
<1>1. RequestOK(q, Answered(r, RobotsTxt(public)))
  <2>1. RobotsTxt(public) \in {RobotsTxt(TRUE), RobotsTxt(FALSE)}
    OBVIOUS
  <2> QED BY <2>1, OwnAnswer, OwnAnswers
<1>2. RequestOK(q, Answered(r, CrawlerBlocked)) /\ RequestOK(q, Answered(r, EmbedGatePlaceholder))
  BY OwnAnswer, OwnAnswers
<1>3. public => RequestOK(q, At(r, "llms"))
  <2>1. public => Progress(At(r, "llms"))
    BY DEF Progress, At, Rq, Clear, Live
  <2> QED BY <2>1, GoesOn
<1>4. public => RequestOK(q, At(r, "resolve"))
  <2>1. public => Progress(At(r, "resolve"))
    BY DEF Progress, At, Rq, Clear, Live, PastGate, PastWall
  <2> QED BY <2>1, GoesOn
<1>5. public /\ ~r.in.embed => RequestOK(q, Content(r))
  BY ContentOK DEF PastGate, PastWall
<1>6. ~public /\ ~r.in.embed /\ ~(r.in.crawler /\ ~Unsafe(r.in)) => RequestOK(q, At(r, "gate"))
  <2>1. ~public /\ ~r.in.embed /\ ~(r.in.crawler /\ ~Unsafe(r.in)) => Progress(At(r, "gate"))
    BY DEF Progress, At, Rq, Clear, Live, PastWall
  <2> QED BY <2>1, GoesOn
<1> QED BY <1>1, <1>2, <1>3, <1>4, <1>5, <1>6 DEF Switched

LEMMA ScreenedOK ==
    ASSUME NEW q \in Req, NEW r, NEW st \in Blocking \cup {"active", "unknown"},
           RequestOK(q, r), r.pc = "status"
    PROVE  RequestOK(q, Screened([r EXCEPT !.status = st]))
<1> DEFINE s == [r EXCEPT !.status = st]
<1>1. s \in Rq(q) /\ s.resp = Pending /\ s.route = r.route /\ s.status = st /\ s.in = r.in /\ Live(s)
  BY DEF RequestOK, Rq, Progress, Live
<1> HIDE DEF s
<1>2. RequestOK(q, Answered(s, AccountSuspended))
  BY <1>1, OwnAnswer, Refusals
<1>3. st \notin Blocking => RequestOK(q, Switched(s))
  BY <1>1, SwitchedOK DEF Clear
<1>4. RequestOK(q, Screened(s))
  BY <1>1, <1>2, <1>3 DEF Screened, IsBlockingStatus
<1> QED BY <1>4 DEF s

LEMMA GatedOK ==
    ASSUME NEW q \in Req, NEW r, NEW revoked, RequestOK(q, r), r.pc = "gate"
    PROVE  RequestOK(q, Gated(r, revoked))
<1>1. r \in Rq(q) /\ r.resp = Pending /\ Clear(r) /\ PastWall(r) /\ r.route.mode # "public"
  BY DEF RequestOK, Progress
<1>2. RequestOK(q, Answered(r, HandleAuthzCallback)) /\ RequestOK(q, Answered(r, RedirectToAuthz))
  BY <1>1, OwnAnswer, OwnAnswers
<1>3. AuthorizeGated(r, revoked) => RequestOK(q, Content(r))
  BY <1>1, ContentOK DEF AuthorizeGated, PastGate, PastWall
<1> QED BY <1>2, <1>3 DEF Gated

\* What the gate's wrapper leaves of a response.
LEMMA WrappedType ==
    ASSUME NEW r, NEW x \in ResponseValue
    PROVE  LET y == Wrapped(r, x) IN
           /\ y \in ResponseValue /\ y.status = x.status /\ y.body = x.body /\ y.report = x.report
           /\ r.route.mode # "public" => y.store = "private" /\ y.frame = "none"
<1>1. CASE r.route.mode = "public"
  BY <1>1 DEF Wrapped
<1>2. CASE r.route.mode # "public"
  <2> DEFINE z == [x EXCEPT !.store = "private"]
  <2>1. Wrapped(r, x) = [z EXCEPT !.frame = "none"]
    BY <1>2 DEF Wrapped, AsPrivate
  <2>2. /\ z \in ResponseValue /\ z.status = x.status /\ z.body = x.body /\ z.report = x.report
        /\ z.store = "private"
    BY DEF ResponseValue
  <2> HIDE DEF z
  <2>3. Wrapped(r, x) \in ResponseValue
    BY <2>1, <2>2, SMTT(30) DEF ResponseValue
  <2> QED BY <2>1, <2>2, <2>3 DEF ResponseValue
<1> QED BY <1>1, <1>2

\* The transcript page, or the one that says it cannot be read.
LEMMA ChatOK ==
    ASSUME NEW q \in Req, NEW r, RequestOK(q, r), r.pc = "chat",
           NEW page \in {ChatPage(r.route), Unavailable}
    PROVE  RequestOK(q, Answered(r, Wrapped(r, ChatResponse(page))))
<1> DEFINE x == ChatResponse(page)
<1>1. r \in Rq(q) /\ Clear(r) /\ PastGate(r) /\ ~r.in.embed /\ ~Unsafe(r.in) /\ r.route \in Routes
  BY DEF RequestOK, Progress, Clear, Live
<1>2. ChatPage(r.route) \in PageValue /\ ChatPage(r.route).form = "chat"
  BY <1>1, PageType DEF ChatPage, PagePath
<1>3. page = Platform \/ (page \in PageValue /\ page.form = "chat")
  BY <1>2 DEF Unavailable
<1>4. x \in ResponseValue /\ x.body = page /\ x.report = "none" /\ x.status = 200
  BY <1>3 DEF ChatResponse, Response, ResponseValue
<1> HIDE DEF x
<1>5. CASE page = Platform
  <2>1. Wrapped(r, x) \in ResponseValue /\ Wrapped(r, x).body = Platform /\ Wrapped(r, x).report = "none"
    BY <1>4, <1>5, WrappedType
  <2>2. RequestOK(q, Answered(r, Wrapped(r, x)))
    BY <1>1, <2>1, OwnAnswer
  <2> QED BY <2>2 DEF x
<1>6. CASE page \in PageValue /\ page.form = "chat"
  <2> DEFINE y == Wrapped(r, x)
  <2>1. /\ y \in ResponseValue /\ y.body = page /\ y.report = "none"
        /\ r.route.mode # "public" => y.store = "private" /\ y.frame = "none"
    BY <1>4, WrappedType
  <2> HIDE DEF y
  <2>2. RequestOK(q, Answered(r, y))
    BY <1>1, <1>6, <2>1, SiteAnswer DEF PastGate, PastWall, ContentForm
  <2> QED BY <2>2 DEF y, x
<1> QED BY <1>3, <1>5, <1>6

\* llms.txt, or that there is none.
LEMMA LLMsOK ==
    ASSUME NEW q \in Req, NEW r, RequestOK(q, r), r.pc = "llms"
    PROVE  /\ RequestOK(q, Answered(r, Response(200, LLMsTxt(r.route), "public", "none")))
           /\ RequestOK(q, Answered(r, NotFound(r.in)))
<1> DEFINE x == Response(200, LLMsTxt(r.route), "public", "none")
<1>1. r \in Rq(q) /\ Clear(r) /\ r.route.mode = "public" /\ r.route \in Routes
  BY DEF RequestOK, Progress, Clear, Live
<1>2. LLMsTxt(r.route) \in PageValue /\ LLMsTxt(r.route).form = "llms" /\ LLMsTxt(r.route).html = FALSE
  <2>1. <<>> \in PagePath
    BY DEF PagePath
  <2>2. r.route.version \in DOMAIN Manifest
    BY <1>1 DEF RouteValue
  <2> QED BY <2>1, <2>2 DEF LLMsTxt, Page, PageValue
<1>3. x \in ResponseValue /\ x.body = LLMsTxt(r.route) /\ x.report = "none"
  BY <1>2 DEF Response, ResponseValue
<1> HIDE DEF x
<1>4. RequestOK(q, Answered(r, x))
  BY <1>1, <1>2, <1>3, SiteAnswer DEF ContentForm
<1>5. RequestOK(q, Answered(r, NotFound(r.in)))
  BY <1>1, OwnAnswer, NotFoundAnswer
<1> QED BY <1>4, <1>5 DEF x

\* A cached page for a request of its key, and the miss.
LEMMA MatchedOK ==
    ASSUME NEW q \in Req, NEW r, RequestOK(q, r), r.pc = "match"
    PROVE  /\ RequestOK(q, At(r, "resolve"))
           /\ \A page : EntryOK(CacheKey(r.route, r.in), page)
                        => RequestOK(q, Answered(r, ContentResponse(r.in, page)))
<1>1. /\ r \in Rq(q) /\ r.resp = Pending /\ Clear(r) /\ r.route.mode = "public" /\ r.route \in Routes
      /\ ~r.in.embed /\ r.in \in Inputs[q]
  BY DEF RequestOK, Progress, Clear, Live, Rq
<1>2. RequestOK(q, At(r, "resolve"))
  <2>1. Progress(At(r, "resolve"))
    BY <1>1 DEF Progress, At, Rq, Clear, Live, PastGate, PastWall
  <2> QED BY <1>1, <2>1, GoesOn
<1>3. ASSUME NEW page, EntryOK(CacheKey(r.route, r.in), page)
      PROVE  RequestOK(q, Answered(r, ContentResponse(r.in, page)))
  <2> DEFINE x == ContentResponse(r.in, page)
  <2>1. page \in PageValue /\ page.form \in ContentForm
    BY <1>3 DEF EntryOK
  <2>2. PICK q2 \in Req : \E i \in Inputs[q2] : \E rt \in Routes :
           CacheKey(r.route, r.in) = CacheKey(rt, i) /\ page = Fresh(rt, i) /\ Finds(rt.version, i)
    BY <1>3 DEF EntryOK
  <2>3. ~SharesKey(r.route.version, r.in) => page = Fresh(r.route, r.in)
    BY <1>1, <2>2, KeyDeterminesPage
  <2>4. /\ x \in ResponseValue /\ x.body = page /\ x.status = 200
        /\ x.report = "visit" <=> r.in.method = "GET" /\ page.html
    BY <2>1 DEF ContentResponse, Response, ResponseValue, Visit
  <2> HIDE DEF x
  <2>5. RequestOK(q, Answered(r, x))
    BY <1>1, <2>1, <2>3, <2>4, SiteAnswer DEF ContentForm
  <2> QED BY <2>5 DEF x
<1> QED BY <1>2, <1>3

\* A page the bucket has: framed, behind the gate, or public and on its way into
\* the cache.
LEMMA FoundOK ==
    ASSUME NEW q \in Req, NEW r, RequestOK(q, r), r.pc = "resolve",
           NEW page \in PageValue, page.form \in ContentForm, ~Unsafe(r.in),
           Finds(r.route.version, r.in), Bannerize(r.route, page) = Fresh(r.route, r.in)
    PROVE  RequestOK(q, Found(r, page))
<1>1. /\ r \in Rq(q) /\ r.resp = Pending /\ Clear(r) /\ PastGate(r) /\ r.route \in Routes
  BY DEF RequestOK, Progress, Clear, Live
<1>c. ASSUME NEW b \in PageValue, b.form \in ContentForm
      PROVE  LET x == ContentResponse(r.in, b) IN
             /\ x \in ResponseValue /\ x.body = b /\ x.status = 200
             /\ x.report = "visit" <=> r.in.method = "GET" /\ b.html
  BY <1>c DEF ContentResponse, Response, ResponseValue, Visit
<1>2. CASE r.in.embed
  <2> DEFINE b == EmbedBadgeInject(r.route, r.in, page)
             x == ContentResponse(r.in, b)
  <2>1. b \in PageValue /\ b.form \in ContentForm
    BY BadgeType
  <2> HIDE DEF b
  <2>2. /\ x \in ResponseValue /\ x.body = b /\ x.status = 200
        /\ x.report = "visit" <=> r.in.method = "GET" /\ b.html
    BY <1>c, <2>1
  <2> HIDE DEF x
  <2>3. RequestOK(q, Answered(r, x))
    BY <1>1, <1>2, <2>1, <2>2, SiteAnswer DEF PastGate, PastWall, ContentForm
  <2> QED BY <1>2, <2>3 DEF Found, x, b
<1>3. CASE ~r.in.embed
  <2> DEFINE b == Bannerize(r.route, page)
             y == Wrapped(r, ContentResponse(r.in, b))
             a == Answered(r, y)
  <2>1. b \in PageValue /\ b.form \in ContentForm /\ b = Fresh(r.route, r.in)
    BY BannerizeType
  <2> HIDE DEF b
  <2>2. /\ y \in ResponseValue /\ y.body = b /\ y.status = 200
        /\ y.report = "visit" <=> r.in.method = "GET" /\ b.html
        /\ r.route.mode # "public" => y.store = "private" /\ y.frame = "none"
    BY <1>c, <2>1, WrappedType
  <2> HIDE DEF y
  <2>3. RequestOK(q, a)
    BY <1>1, <1>3, <2>1, <2>2, SiteAnswer DEF PastGate, PastWall, ContentForm
  <2>4. r.route.mode = "public" => RequestOK(q, At(a, "put"))
    <3> SUFFICES ASSUME r.route.mode = "public" PROVE RequestOK(q, At(a, "put"))
      OBVIOUS
    <3>1. a.in = r.in /\ a.route = r.route /\ a.status = r.status /\ a.resp = y /\ a \in Rq(q)
      BY <1>1, <1>3, <2>3 DEF Answered, AsFramable, Rq, RequestOK
    <3> HIDE DEF a
    <3> DEFINE z == At(a, "put")
    <3>2. /\ z \in Rq(q) /\ z.in = r.in /\ z.route = r.route /\ z.status = r.status /\ z.resp = y
          /\ z.pc = "put"
      BY <3>1 DEF At, Rq
    <3> HIDE DEF z
    <3>3. Progress(z)
      BY <1>1, <1>3, <2>1, <2>2, <3>2 DEF Progress, Clear, Live
    <3>4. Outcome(z, y)
      <4>1. Outcome(a, y)
        BY <2>2, <2>3, <3>1 DEF RequestOK
      <4> QED BY <4>1, <3>1, <3>2 DEF Outcome, Clear, Live
    <3> QED BY <3>2, <3>3, <3>4 DEF RequestOK, z
  <2> QED BY <1>3, <2>3, <2>4 DEF Found, y, b
<1> QED BY <1>2, <1>3

\* The site's 404 page, or the Worker's.
LEMMA MissingOK ==
    ASSUME NEW q \in Req, NEW r, RequestOK(q, r), r.pc = "resolve", NEW m,
           m = <<>> \/ (m = Manifest[r.route.version] /\ ~Unsafe(r.in))
    PROVE  RequestOK(q, Missing(r, m))
<1> DEFINE custom == NotFoundPath \in DOMAIN m /\ <<"blob", m[NotFoundPath].sha>> \in bucket
           page == Page(r.route, "bytes", NotFoundPath, TRUE, m[NotFoundPath].utf8)
           x == [NotFound(r.in) EXCEPT !.body = page]
<1>1. /\ r \in Rq(q) /\ r.resp = Pending /\ Clear(r) /\ PastGate(r) /\ r.route \in Routes
      /\ r.route.version \in DOMAIN Manifest
  BY DEF RequestOK, Progress, Clear, Live, RouteValue
<1>2. CASE ~custom
  <2>1. Missing(r, m) = Answered(r, Wrapped(r, NotFound(r.in)))
    BY <1>2 DEF Missing
  <2> QED BY <1>1, <2>1, WrappedType, OwnAnswer, NotFoundAnswer
<1>3. CASE custom
  <2>1. NotFoundPath \in DOMAIN m /\ m = Manifest[r.route.version] /\ ~Unsafe(r.in)
    BY <1>3
  <2>2. m[NotFoundPath].utf8 \in BOOLEAN
    BY <1>1, <2>1 DEF ManifestEntry
  <2>3. NotFoundPath \in PagePath
    BY DEF PagePath
  <2>4. page \in PageValue
    BY <1>1, <2>2, <2>3, PageType
  <2>5. Missing(r, m) = Answered(r, Wrapped(r, x))
    BY <1>3 DEF Missing
  <2> HIDE DEF page
  <2>6. /\ x \in ResponseValue /\ x.body = page /\ x.status = 404 /\ x.report # "visit"
    BY <2>4, NotFoundAnswer DEF ResponseValue
  <2> HIDE DEF x
  <2> DEFINE y == Wrapped(r, x)
  <2>7. /\ y \in ResponseValue /\ y.body = page /\ y.status = 404 /\ y.report # "visit"
        /\ r.route.mode # "public" => y.store = "private" /\ y.frame = "none"
    BY <2>6, WrappedType
  <2> HIDE DEF y
  <2>8. RequestOK(q, Answered(r, y))
    BY <1>1, <2>1, <2>4, <2>7, SiteAnswer DEF PastGate, PastWall
  <2> QED BY <2>5, <2>8 DEF y
<1> QED BY <1>2, <1>3

LEMMA ResolvedOK ==
    ASSUME NEW q \in Req, NEW r, RequestOK(q, r), r.pc = "resolve"
    PROVE  RequestOK(q, Resolved(r))
<1> DEFINE v == r.route.version
           m == Manifest[v]
           c == Clean(r.in)
           p == ResolveManifestEntry(m, c)
<1>1. r.route \in Routes /\ r.in \in Inputs[q]
  BY DEF RequestOK, Progress, Clear, Live, Rq
<1>2. RequestOK(q, Missing(r, <<>>)) /\ (~Unsafe(r.in) => RequestOK(q, Missing(r, m)))
  BY MissingOK
<1>3. ~Unsafe(r.in) /\ p = <<>> /\ HasListing(m, c) => RequestOK(q, Found(r, ListingPage(r.route, r.in)))
  <2> SUFFICES ASSUME ~Unsafe(r.in), p = <<>>, HasListing(m, c)
               PROVE  RequestOK(q, Found(r, ListingPage(r.route, r.in)))
    OBVIOUS
  <2>1. Bannerize(r.route, ListingPage(r.route, r.in)) = Fresh(r.route, r.in)
    BY DEF Fresh
  <2>2. Finds(v, r.in)
    BY DEF Finds
  <2>3. ListingPage(r.route, r.in) \in PageValue /\ ListingPage(r.route, r.in).form \in ContentForm
    BY <1>1, ListingPageType
  <2> QED BY <2>1, <2>2, <2>3, FoundOK
<1>4. ~Unsafe(r.in) /\ p # <<>> => RequestOK(q, Found(r, FilePage(r.route, r.in, p)))
  <2> SUFFICES ASSUME ~Unsafe(r.in), p # <<>>
               PROVE  RequestOK(q, Found(r, FilePage(r.route, r.in, p)))
    OBVIOUS
  <2>1. Bannerize(r.route, FilePage(r.route, r.in, p)) = Fresh(r.route, r.in)
    BY DEF Fresh
  <2>2. Finds(v, r.in)
    BY DEF Finds
  <2>3. p \in DOMAIN m
    BY ResolvedIsThere
  <2>4. FilePage(r.route, r.in, p) \in PageValue /\ FilePage(r.route, r.in, p).form \in ContentForm
    BY <1>1, <2>3, FilePageType
  <2> QED BY <2>1, <2>2, <2>4, FoundOK
<1> HIDE DEF p, c
<1> QED BY <1>2, <1>3, <1>4 DEF Resolved, p, c

-----------------------------------------------------------------------------
(* The steps.                                                              *)

\* One request changes to one that is fine, and nothing else does.
LEMMA StepKeeps ==
    ASSUME ServeInv, NEW q \in Req, NEW pc, NEW r, Step(q, pc, r), RequestOK(q, r)
    PROVE  ServeInv'
<1>1. UNCHANGED <<events, kv, seen, cache>> /\ req' = [req EXCEPT ![q] = r] /\ DOMAIN req = Req
  BY DEF Step, store, ServeInv
<1>2. \A x \in Req : RequestOK(x, req'[x])
  BY <1>1 DEF ServeInv
<1> QED BY <1>1, <1>2 DEF ServeInv

\* The requests and the cache are left alone.
LEMMA EnvironmentKeeps == ASSUME ServeInv, Environment PROVE ServeInv'
<1> USE DEF ServeInv, KvOK, Key
<1>1. ASSUME NEW rt \in AnyRoute, WriteKV("route", rt) PROVE ServeInv'
  BY <1>1 DEF WriteKV
<1>2. ASSUME NEW s \in Blocking \cup {"active"}, WriteKV("status", s) PROVE ServeInv'
  BY <1>2 DEF WriteKV
<1>3. CASE WriteKV("revoked", TRUE)
  BY <1>3 DEF WriteKV
<1>4. ASSUME NEW k \in Key, Propagate(k) PROVE ServeInv'
  BY <1>4 DEF Propagate
<1>5. ASSUME NEW o, Collect(o) PROVE ServeInv'
  BY <1>5 DEF Collect
<1> QED BY <1>1, <1>2, <1>3, <1>4, <1>5 DEF Environment, AnyRoute

\* The page that is put was shown to a request of its key.
LEMMA PutKeeps == ASSUME ServeInv, NEW q \in Req, CachePut(q) PROVE ServeInv'
<1> DEFINE r == req[q]
           k == CacheKey(r.route, r.in)
           s == [r EXCEPT !.pc = "done"]
<1>1. RequestOK(q, r) /\ r.pc = "put" /\ r \in Rq(q) /\ Progress(r) /\ r.resp # Pending /\ Outcome(r, r.resp)
  BY DEF ServeInv, RequestOK, CachePut, Progress
<1>2. EntryOK(k, r.resp.body)
  <2>1. /\ r.route \in Routes /\ r.in \in Inputs[q] /\ r.route.mode = "public"
        /\ r.resp.body \in PageValue /\ r.resp.body.form \in ContentForm
        /\ r.resp.body = Fresh(r.route, r.in) /\ Finds(r.route.version, r.in)
    BY <1>1 DEF Progress, Clear, Live, Rq
  <2>2. k.mode = "public"
    BY <2>1 DEF CacheKey
  <2> QED BY <2>1, <2>2 DEF EntryOK
<1>3. \A x \in DOMAIN cache' : EntryOK(x, cache'[x])
  <2>1. CASE UNCHANGED cache
    BY <2>1 DEF ServeInv
  <2>2. CASE cache' = [x \in DOMAIN cache \cup {k} |-> IF x = k THEN r.resp.body ELSE cache[x]]
    <3> HIDE DEF k, r
    <3> QED BY <1>2, <2>2 DEF ServeInv
  <2> QED BY <2>1, <2>2 DEF CachePut
<1>4. RequestOK(q, s)
  <2>1. s \in Rq(q) /\ s.pc = "done" /\ s.in = r.in /\ s.route = r.route /\ s.status = r.status
        /\ s.resp = r.resp
    BY <1>1 DEF Rq
  <2> HIDE DEF s, r
  <2>2. Progress(s)
    BY <1>1, <2>1 DEF Progress
  <2>3. Outcome(s, s.resp)
    BY <1>1, <2>1 DEF Outcome, Clear, Live
  <2> QED BY <2>1, <2>2, <2>3 DEF RequestOK
<1>5. req' = [req EXCEPT ![q] = s] /\ UNCHANGED <<events, kv, seen>>
  BY DEF CachePut, store
<1>6. DOMAIN req' = Req /\ \A x \in Req : RequestOK(x, req'[x])
  BY <1>4, <1>5 DEF ServeInv
<1> QED BY <1>3, <1>5, <1>6 DEF ServeInv

\* fetch's catch.
LEMMA ThrowKeeps == ASSUME ServeInv, NEW q \in Req, Throw(q) PROVE ServeInv'
<1> DEFINE r == req[q]
           s == [r EXCEPT !.pc = "done", !.resp = InternalError]
<1>1. RequestOK(q, r) /\ r \in Rq(q) /\ Progress(r) /\ r.pc \in {"route", "chat", "llms", "resolve", "match"}
  BY DEF ServeInv, RequestOK, Throw
<1>2. InternalError \in ResponseValue /\ InternalError.body = Platform /\ InternalError.report # "visit"
      /\ InternalError.store \in {"no-store", "none"} /\ InternalError # Pending
  BY Refusals
<1>3. s \in Rq(q) /\ s.pc = "done" /\ s.resp = InternalError
  BY <1>1, <1>2 DEF Rq
<1>4. RequestOK(q, s)
  <2> HIDE DEF s
  <2>1. Progress(s)
    BY <1>2, <1>3 DEF Progress
  <2>2. Outcome(s, InternalError)
    BY <1>2 DEF Outcome
  <2> QED BY <1>3, <2>1, <2>2 DEF RequestOK
<1>5. req' = [req EXCEPT ![q] = s] /\ UNCHANGED <<kv, seen, cache>> /\ events' = events + 1 /\ events < MaxEvents
  BY DEF Throw
<1>6. DOMAIN req' = Req /\ \A x \in Req : RequestOK(x, req'[x])
  BY <1>4, <1>5 DEF ServeInv
<1> QED BY <1>5, <1>6 DEF ServeInv

\* Every step of a request.
LEMMA WorkerKeeps == ASSUME ServeInv, NEW q \in Req, Worker(q) PROVE ServeInv'
<1>0. RequestOK(q, req[q]) /\ KvOK(seen)
  BY DEF ServeInv
<1>1. CASE ReadRoute(q)
  <2>1. seen["route"] \in AnyRoute
    BY <1>0 DEF KvOK
  <2>2. RequestOK(q, Routed([req[q] EXCEPT !.route = seen["route"]]))
    BY <1>0, <1>1, <2>1, RoutedOK DEF ReadRoute, Step
  <2> QED BY <1>1, <2>2, StepKeeps DEF ReadRoute
<1>2. CASE ReadStatus(q)
  <2>1. PICK s \in {seen["status"], "unknown"} :
           Step(q, "status", Screened([req[q] EXCEPT !.status = s]))
    BY <1>2 DEF ReadStatus
  <2>2. s \in Blocking \cup {"active", "unknown"}
    BY <1>0 DEF KvOK
  <2>3. RequestOK(q, Screened([req[q] EXCEPT !.status = s]))
    BY <1>0, <2>1, <2>2, ScreenedOK DEF Step
  <2> QED BY <2>1, <2>3, StepKeeps
<1>3. CASE Gate(q)
  <2>1. PICK revoked : Step(q, "gate", Gated(req[q], revoked))
    BY <1>3 DEF Gate
  <2>2. RequestOK(q, Gated(req[q], revoked))
    BY <1>0, <2>1, GatedOK DEF Step
  <2> QED BY <2>1, <2>2, StepKeeps
<1>4. CASE ServeChat(q)
  <2>1. PICK page \in {ChatPage(req[q].route), Unavailable} :
         Step(q, "chat", Answered(req[q], Wrapped(req[q], ChatResponse(page))))
    BY <1>4 DEF ServeChat
  <2>2. req[q].pc = "chat"
    BY <1>4 DEF ServeChat
  <2>3. RequestOK(q, Answered(req[q], Wrapped(req[q], ChatResponse(page))))
    BY <1>0, <2>2, ChatOK
  <2> QED BY <2>1, <2>3, StepKeeps
<1>5. CASE ServeLLMs(q)
  <2>1. req[q].pc = "llms"
    BY <1>5 DEF ServeLLMs, Step
  <2>2. RequestOK(q, Answered(req[q], Response(200, LLMsTxt(req[q].route), "public", "none")))
        /\ RequestOK(q, Answered(req[q], NotFound(req[q].in)))
    BY <1>0, <2>1, LLMsOK
  <2>3. \/ Step(q, "llms", Answered(req[q], Response(200, LLMsTxt(req[q].route), "public", "none")))
        \/ Step(q, "llms", Answered(req[q], NotFound(req[q].in)))
    BY <1>5 DEF ServeLLMs
  <2> QED BY <2>2, <2>3, StepKeeps
<1>6. CASE CacheMatch(q)
  <2> DEFINE k == CacheKey(req[q].route, req[q].in)
  <2>1. req[q].pc = "match"
    BY <1>6 DEF CacheMatch, Step
  <2>2. k \in DOMAIN cache => RequestOK(q, Answered(req[q], ContentResponse(req[q].in, cache[k])))
    BY <1>0, <2>1, MatchedOK DEF ServeInv
  <2>3. RequestOK(q, At(req[q], "resolve"))
    BY <1>0, <2>1, MatchedOK
  <2>4. \/ k \in DOMAIN cache /\ Step(q, "match", Answered(req[q], ContentResponse(req[q].in, cache[k])))
        \/ Step(q, "match", At(req[q], "resolve"))
    BY <1>6 DEF CacheMatch
  <2> QED BY <2>2, <2>3, <2>4, StepKeeps
<1>7. CASE Resolve(q)
  <2>1. RequestOK(q, Resolved(req[q]))
    BY <1>0, <1>7, ResolvedOK DEF Resolve, Step
  <2> QED BY <1>7, <2>1, StepKeeps DEF Resolve
<1> QED BY <1>1, <1>2, <1>3, <1>4, <1>5, <1>6, <1>7, PutKeeps, ThrowKeeps DEF Worker

\* The published site before its first request.
LEMMA ServeInvInit == Init => ServeInv
<1> SUFFICES ASSUME Init PROVE ServeInv
  OBVIOUS
<1>1. events \in 0..MaxEvents /\ DOMAIN cache = {} /\ DOMAIN req = Req
  BY DEF Init
<1>2. KvOK(kv) /\ KvOK(seen)
  BY DEF Init, KvOK, Key, AnyRoute
<1>3. ASSUME NEW q \in Req PROVE RequestOK(q, req[q])
  <2> DEFINE i == CHOOSE x \in Inputs[q] : TRUE
  <2>1. i \in Inputs[q]
    OBVIOUS
  <2>2. req[q] = Idle(i)
    BY DEF Init
  <2> HIDE DEF i
  <2> QED BY <2>1, <2>2 DEF Idle, RequestOK, Rq, Progress
<1> QED BY <1>1, <1>2, <1>3 DEF ServeInv

\* The inductive invariant, of every behaviour of the Worker and what is around it.
THEOREM ServeInvariant == Spec => []ServeInv
<1>1. ServeInv /\ [Next]_vars => ServeInv'
  <2> SUFFICES ASSUME ServeInv, [Next]_vars PROVE ServeInv'
    OBVIOUS
  <2>1. ASSUME NEW q \in Req, NEW i \in Inputs[q], Arrive(q, i) PROVE ServeInv'
    <3>1. RequestOK(q, Dispatched([req[q] EXCEPT !.in = i]))
      BY <2>1, DispatchedOK DEF ServeInv, Arrive, Step
    <3> QED BY <2>1, <3>1, StepKeeps DEF Arrive
  <2>2. CASE UNCHANGED vars
    BY <2>2 DEF ServeInv, vars
  <2> QED BY <2>1, <2>2, WorkerKeeps, EnvironmentKeeps DEF Next
<1> QED BY <1>1, ServeInvInit, PTL DEF Spec

-----------------------------------------------------------------------------
(* The properties.                                                         *)

(* The requests, the stores and the cache keep their types, and a request  *)
(* has a response exactly once it has been answered (dispatch to           *)
(* waitUntil).                                                             *)
THEOREM ServeTypeCorrect == Spec => []TypeOK
<1>1. ServeInv => TypeOK
  BY DEF ServeInv, TypeOK, KvOK, AnyRoute, EntryOK, RequestOK, Rq, Progress
<1> QED BY <1>1, ServeInvariant, PTL

(* Whatever was cached before, a public page is the one the request's own  *)
(* route and path select (cacheKey, servePublic).                          *)
THEOREM CacheIsTransparent == Spec => []CacheTransparent
<1>1. ServeInv => CacheTransparent
  BY DEF ServeInv, CacheTransparent, RequestOK, Outcome, ShowsSite, Done, ContentForm
<1> QED BY <1>1, ServeInvariant, PTL

(* Gated content is shown to the bearer of its token only, and stays out   *)
(* of shared caches, frames and the location's own cache (serveGated).     *)
THEOREM GatedContentStaysGated == Spec => []GatedStaysGated
<1>1. ServeInv => GatedStaysGated
  BY DEF ServeInv, GatedStaysGated, EntryOK, RequestOK, Outcome, ShowsSite, Done
<1> QED BY <1>1, ServeInvariant, PTL

(* Expired links, suspended organisations and refused projections show     *)
(* nothing of the site (isRouteExpired, isBlockingStatus).                 *)
THEOREM RefusalsShowNothing == Spec => []RefusedShowsNothing
<1>1. ServeInv => RefusedShowsNothing
  BY DEF ServeInv, RefusedShowsNothing, RequestOK, Outcome, Clear, Live, Done
<1> QED BY <1>1, ServeInvariant, PTL

(* Views are counted once each and nothing else is (scheduleVisit).        *)
THEOREM EveryViewCounted == Spec => []ViewsCounted
<1>1. ServeInv => ViewsCounted
  BY DEF ServeInv, ViewsCounted, RequestOK, Outcome, Done
<1> QED BY <1>1, ServeInvariant, PTL
=============================================================================
