----------------------------- MODULE EdgeCaches -----------------------------
(***************************************************************************)
(* The two small caches the Worker's gate and limiter keep.                *)
(*                                                                         *)
(* loadKeys keeps the signing keys of the API per isolate.  Verifications  *)
(* overlap: each takes its own "now" and the entry it found when it began, *)
(* fetches, and overwrites the entry whenever its import is finished.      *)
(* rateLimitDecision counts requests per window in a key-value store with  *)
(* a GET and a PUT; reads may be stale and both calls may fail.            *)
(***************************************************************************)
EXTENDS Naturals, FiniteSets

CONSTANTS
    Kid,          \* signing keys
    Verification, \* calls of verifyEdgeToken
    Ttl, Grace,   \* JWKS_TTL_MS, JWKS_STALE_GRACE_MS
    Hit,          \* requests of one client identity
    Limit,        \* policy.limit
    Window,       \* policy.windowSeconds
    MaxTime       \* bound on the clock

ASSUME CachesAssumption ==
    /\ Ttl \in Nat /\ Grace \in Nat /\ MaxTime \in Nat
    /\ Limit \in Nat /\ Window \in Nat \ {0}
    /\ IsFiniteSet(Hit)

VARIABLES
    time,         \* Date.now()
    published,    \* the keys the JWKS endpoint serves
    lastServed,   \* history: the last instant each key was published
    jwks,         \* jwksCache of this isolate
    ver,          \* the verifications
    counter,      \* rl:<identity>:<window> of the store
    hit           \* the requests at the limiter

keyVars == <<published, lastServed, jwks, ver>>
limitVars == <<counter, hit>>
cachesVars == <<time, keyVars, limitVars>>

Time == 0..MaxTime
NoKeys == [keys |-> {}, expires |-> 0]      \* no entry: keys are never empty in one

CachesInit ==
    /\ time = 0
    /\ published = Kid
    /\ lastServed = [k \in Kid |-> 0]
    /\ jwks = NoKeys
    /\ ver \in [Verification -> {[pc |-> "idle", now |-> 0, kid |-> k, cached |-> NoKeys,
                                  doc |-> {}, verdict |-> "none"] : k \in Kid}]
    /\ counter = [w \in Time |-> 0]
    /\ hit = [h \in Hit |-> [pc |-> "idle", now |-> 0, prev |-> 0, verdict |-> "none"]]

-----------------------------------------------------------------------------
(* The signing keys.                                                       *)

\* Time passes while a key is published.
Tick ==
    /\ time < MaxTime
    /\ time' = time + 1
    /\ lastServed' = [k \in Kid |-> IF k \in published THEN time + 1 ELSE lastServed[k]]
    /\ UNCHANGED <<published, jwks, ver, limitVars>>

\* The API's signer is rotated.
Rotate(keys) ==
    /\ published' = keys
    /\ lastServed' = [k \in Kid |-> IF k \in keys THEN time ELSE lastServed[k]]
    /\ UNCHANGED <<time, jwks, ver, limitVars>>

\* jwtVerify with the keys loadKeys returned; its kid must be among them.
Verdict(r, keys) ==
    [r EXCEPT !.pc = "done", !.verdict = IF r.kid \in keys THEN "valid" ELSE "refused"]

\* loadKeys up to the fetch: an unexpired entry is used as it is.
LoadKeys(v) ==
    /\ ver[v].pc = "idle"
    /\ LET r == [ver[v] EXCEPT !.pc = "fetch", !.now = time, !.cached = jwks]
       IN  ver' = [ver EXCEPT ![v] = IF time < jwks.expires THEN Verdict(r, jwks.keys) ELSE r]
    /\ UNCHANGED <<time, published, lastServed, jwks, limitVars>>

\* The endpoint answers with its keys, or fails, or answers with garbage.
Fetch(v) ==
    /\ ver[v].pc = "fetch"
    /\ \E doc \in {published, {}} :
         ver' = [ver EXCEPT ![v].pc = "import", ![v].doc = doc]
    /\ UNCHANGED <<time, published, lastServed, jwks, limitVars>>

\* Mutant: the entry's life is counted from the end of the import.
ImportKeys_LateStamp(v) ==
    LET r == ver[v] IN
    /\ r.pc = "import"
    /\ IF r.doc # {}
       THEN /\ jwks' = [keys |-> r.doc, expires |-> time + Ttl]
            /\ ver' = [ver EXCEPT ![v] = Verdict(r, r.doc)]
       ELSE /\ ver' = [ver EXCEPT ![v] =
                  Verdict(r, IF r.now < r.cached.expires + Grace THEN r.cached.keys ELSE {})]
            /\ UNCHANGED jwks
    /\ UNCHANGED <<time, published, lastServed, limitVars>>

\* loadKeys after the fetch: the entry is replaced, or the one found at the
\* start serves for the grace period, or the token is refused.
ImportKeys(v) ==
    LET r == ver[v] IN
    /\ r.pc = "import"
    /\ IF r.doc # {}
       THEN /\ jwks' = [keys |-> r.doc, expires |-> r.now + Ttl]
            /\ ver' = [ver EXCEPT ![v] = Verdict(r, r.doc)]
       ELSE /\ ver' = [ver EXCEPT ![v] =
                  Verdict(r, IF r.now < r.cached.expires + Grace THEN r.cached.keys ELSE {})]
            /\ UNCHANGED jwks
    /\ UNCHANGED <<time, published, lastServed, limitVars>>

-----------------------------------------------------------------------------
(* The limiter.                                                            *)

\* Mutant: one counter for all windows.
WindowKey_Global(t) == 0

\* windowKey: the fixed window an instant falls into.
WindowKey(t) == t \div Window

\* rateLimitDecision begins with the request's instant.
Count(h) ==
    /\ hit[h].pc = "idle"
    /\ hit' = [hit EXCEPT ![h].pc = "get", ![h].now = time]
    /\ UNCHANGED <<time, keyVars, counter>>

\* kv.get: the count, or an older one this location still holds.
ReadCounter(h) ==
    /\ hit[h].pc = "get"
    /\ \E n \in 0..counter[WindowKey(hit[h].now)] :
         hit' = [hit EXCEPT ![h].pc = "put", ![h].prev = n]
    /\ UNCHANGED <<time, keyVars, counter>>

\* kv.get fails: the request passes.
ReadFails(h) ==
    /\ hit[h].pc = "get"
    /\ hit' = [hit EXCEPT ![h].pc = "done", ![h].verdict = "allowed"]
    /\ UNCHANGED <<time, keyVars, counter>>

\* kv.put, whose failure is ignored, and the decision.
WriteCounter(h) ==
    LET n == hit[h].prev + 1 IN
    /\ hit[h].pc = "put"
    /\ \/ counter' = [counter EXCEPT ![WindowKey(hit[h].now)] = n]
       \/ UNCHANGED counter
    /\ hit' = [hit EXCEPT ![h].pc = "done", ![h].verdict = IF n > Limit THEN "refused" ELSE "allowed"]
    /\ UNCHANGED <<time, keyVars>>

KeysNext ==
    \/ \E keys \in SUBSET Kid : Rotate(keys)
    \/ \E v \in Verification : LoadKeys(v) \/ Fetch(v) \/ ImportKeys(v)

LimitNext ==
    \E h \in Hit : Count(h) \/ ReadCounter(h) \/ ReadFails(h) \/ WriteCounter(h)

CachesNext == Tick \/ KeysNext \/ LimitNext

CachesSpec == CachesInit /\ [][CachesNext]_cachesVars

-----------------------------------------------------------------------------
(* Properties.                                                             *)

Entry == [keys : SUBSET Kid, expires : Nat]

\* The type invariant.
CachesTypeOK ==
    /\ time \in Time /\ published \subseteq Kid /\ lastServed \in [Kid -> Time]
    /\ jwks \in Entry
    /\ ver \in [Verification -> [pc : {"idle", "fetch", "import", "done"}, now : Time, kid : Kid,
                 cached : Entry, doc : SUBSET Kid, verdict : {"none", "valid", "refused"}]]
    /\ counter \in [Time -> Nat]
    /\ hit \in [Hit -> [pc : {"idle", "get", "put", "done"}, now : Time, prev : Nat,
                 verdict : {"none", "allowed", "refused"}]]

(* A token verifies only if the key that signed it was still published     *)
(* less than TTL + grace before the verification began, in whatever order  *)
(* overlapping fetches land and however long the endpoint fails            *)
(* (JWKS_STALE_GRACE_MS's comment).                                        *)
RetiredKeysRefused ==
    \A v \in Verification :
        ver[v].verdict = "valid" => ver[v].now <= lastServed[ver[v].kid] + Ttl + Grace

\* The requests that began in the window of instant t.
Begun(t) == {h \in Hit : hit[h].pc # "idle" /\ hit[h].now \div Window = t \div Window}

(* A client is refused only in a window in which it made more than Limit   *)
(* requests: lost updates and stale reads make the limiter looser, never   *)
(* tighter (rateLimitDecision's comment).                                  *)
RefusedOnlyOverLimit ==
    \A h \in Hit : hit[h].verdict = "refused" => Cardinality(Begun(hit[h].now)) > Limit
=============================================================================
