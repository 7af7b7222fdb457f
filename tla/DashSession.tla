----------------------------- MODULE DashSession -----------------------------
(***************************************************************************)
(* How a dashboard request gets the bearer token it calls the API with.    *)
(*                                                                         *)
(* A request reads its session (from the signed cookie while that is       *)
(* fresh, else from the database), looks in the instance's TokenCache      *)
(* under session:activeOrg, and on a miss mints a token.  The session is   *)
(* read again by the mint, after an await, and the entry is stamped when   *)
(* the mint is over.  Tokens cannot be revoked, so what matters is that a  *)
(* cached one is still valid when the API verifies it, and how old the     *)
(* organisation in it can be.                                              *)
(***************************************************************************)
EXTENDS Naturals, FiniteSets

CONSTANTS
    Req,          \* requests of one session to one server instance
    Orgs,         \* organisations, numbered in the order they become active
    TokenTtl,     \* ttlMs of TokenCache
    JwtLife,      \* the life of a minted token
    CookieTtl,    \* maxAge of the session cookie cache
    OrgTtl,       \* ORG_CACHE_TTL_MS
    MaxRequest,   \* how long a request may take
    MaxClock      \* bound on the clock

ASSUME SessionAssumption ==
    /\ Orgs \in Nat /\ MaxClock \in Nat /\ MaxRequest \in Nat
    /\ TokenTtl \in Nat \ {0} /\ CookieTtl \in Nat /\ OrgTtl \in Nat /\ JwtLife \in Nat
    /\ OrgTtl <= CookieTtl
    /\ TokenTtl + 2 * MaxRequest <= JwtLife

VARIABLES
    clock,
    active,       \* activeOrganizationId of the session row, 0 if unset
    first,        \* the organisation of the user's oldest membership, 0 if none
    lastCurrent,  \* history: when each organisation was last the session's
    cookie,       \* the session in the cookie cache: its org and expiry
    ping,         \* the answer of a get-session on its way to the browser
    tokens,       \* TokenCache: for each active org of the key
    orgCache,     \* orgCache of firstOrgId
    rq            \* the requests

sessionVars == <<clock, active, first, lastCurrent, cookie, ping, tokens, orgCache, rq>>

Org == 0..Orgs
NoToken == [org |-> 0, exp |-> 0]
NoCookie == [org |-> 0, exp |-> 0]
NoEntry == [token |-> NoToken, exp |-> 0]

Done == [pc |-> "done", start |-> 0, cookie |-> NoCookie, org |-> 0, token |-> NoToken]

\* A session begins: with the organisation of the oldest membership active,
\* unless that lookup failed.
SessionInit ==
    /\ clock \in 0..MaxClock
    /\ first \in Org /\ active \in {0, first}
    /\ lastCurrent = [o \in Org |-> clock]
    /\ cookie = [org |-> active, exp |-> clock + CookieTtl] /\ ping = NoCookie
    /\ tokens = [o \in Org |-> NoEntry] /\ orgCache = NoCookie
    /\ rq = [r \in Req |-> [Done EXCEPT !.pc = "idle"]]

Current(a, f, now) == [o \in Org |-> IF o = (IF a = 0 THEN f ELSE a) THEN now ELSE lastCurrent[o]]

\* A request ends within MaxRequest.  What has expired is never used again:
\* it is dropped here, or its stamp is.
Fresh(c) == IF clock + 1 < c.exp THEN c ELSE NoCookie
Aged(c) == IF clock + 1 < c.exp THEN c ELSE [c EXCEPT !.exp = 0]
Advance ==
    /\ clock < MaxClock
    /\ \A r \in Req : rq[r].pc \in {"idle", "done"} \/ clock < rq[r].start + MaxRequest
    /\ clock' = clock + 1
    /\ lastCurrent' = Current(active, first, clock + 1)
    /\ cookie' = Aged(cookie) /\ rq' = [r \in Req |-> [rq[r] EXCEPT !.cookie = Aged(@)]]
    /\ ping' = Fresh(ping) /\ orgCache' = Fresh(orgCache)
    /\ tokens' = [o \in Org |-> IF clock + 1 < tokens[o].exp THEN tokens[o] ELSE NoEntry]
    /\ UNCHANGED <<active, first>>

\* organization.setActive, whose answer carries a new cookie; it may fail.
SetActive(o) ==
    \/ /\ active' = o
       /\ cookie' = [org |-> o, exp |-> clock + CookieTtl]
    \/ UNCHANGED <<active, cookie>>

\* The next organisation; one that never becomes active is not counted.
NextOrg == IF active > first THEN active + 1 ELSE first + 1

\* AcceptInvitation: the membership, then setActive, whose failure is dropped.
AcceptInvitation ==
    /\ NextOrg \in Org
    /\ first' = IF first = 0 THEN NextOrg ELSE first
    /\ SetActive(NextOrg)
    /\ lastCurrent' = Current(active', first', clock)
    /\ UNCHANGED <<clock, ping, tokens, orgCache, rq>>

\* CreateOrgForm, where a user without organisation is sent: the organisation,
\* then setActive.
CreateOrg ==
    /\ first = 0 /\ NextOrg \in Org
    /\ first' = NextOrg /\ SetActive(NextOrg)
    /\ lastCurrent' = Current(active', first', clock)
    /\ UNCHANGED <<clock, ping, tokens, orgCache, rq>>

\* SessionCacheRefresh pings get-session, which signs what the session row
\* says; the answer may arrive after that of a setActive.
GetSession ==
    /\ ping' = [org |-> active, exp |-> clock + CookieTtl]
    /\ UNCHANGED <<clock, active, first, lastCurrent, cookie, tokens, orgCache, rq>>

SetCookie ==
    /\ ping # NoCookie /\ cookie' = ping /\ ping' = NoCookie
    /\ UNCHANGED <<clock, active, first, lastCurrent, tokens, orgCache, rq>>

-----------------------------------------------------------------------------
(* One request: getCurrentSession, bearerToken, apiFetch.                  *)

Send(r) ==
    /\ rq[r].pc = "idle"
    /\ rq' = [rq EXCEPT ![r].pc = "session", ![r].start = clock, ![r].cookie = cookie]
    /\ UNCHANGED <<clock, active, first, lastCurrent, cookie, ping, tokens, orgCache>>

\* Mutant: the cookie's session does not expire.
SessionOrg_NoExpiry(r) == rq[r].cookie.org

\* The session a request sees: its cookie's while fresh, else the row's.
SessionOrg(r) == IF clock < rq[r].cookie.exp THEN rq[r].cookie.org ELSE active

\* Mutant: the key is the session alone.
CacheKey_SessionOnly(org) == 0

\* tokenCacheKey, for one session.
CacheKey(org) == org

\* TokenCache.get.
Lookup(key) == IF clock < tokens[key].exp THEN tokens[key].token ELSE NoToken

\* bearerToken up to the mint; evictIfNeeded may have dropped the entry for
\* another session's.
BearerToken(r) ==
    LET org == SessionOrg(r) IN
    /\ rq[r].pc = "session"
    /\ \E hit \in {Lookup(CacheKey(org)), NoToken} :
       /\ rq' = [rq EXCEPT ![r].org = org, ![r].token = hit,
                           ![r].pc = IF hit = NoToken THEN "mint" ELSE "call"]
       /\ tokens' = IF hit = NoToken THEN [tokens EXCEPT ![CacheKey(org)] = NoEntry] ELSE tokens
    /\ UNCHANGED <<clock, active, first, lastCurrent, cookie, ping, orgCache>>

\* firstOrgId: the cached organisation, or the oldest membership; only a
\* found one is cached.
FirstOrg == IF clock < orgCache.exp THEN orgCache.org ELSE first

\* definePayload: the org_id of a token.
DefinePayload(s) == IF s = 0 THEN FirstOrg ELSE s

\* mintBearerToken: definePayload over the session read again.  A failure
\* leaves the request without token.
Mint(r) ==
    LET s == SessionOrg(r)  o == DefinePayload(s) IN
    /\ rq[r].pc = "mint"
    /\ \/ /\ rq' = [rq EXCEPT ![r].pc = "cache", ![r].token = [org |-> o, exp |-> clock + JwtLife]]
          /\ orgCache' = IF s = 0 /\ orgCache.exp <= clock /\ first # 0
                         THEN [org |-> first, exp |-> clock + OrgTtl] ELSE orgCache
       \/ rq' = [rq EXCEPT ![r] = Done] /\ UNCHANGED orgCache
    /\ UNCHANGED <<clock, active, first, lastCurrent, cookie, ping, tokens>>

\* Mutant: an entry lives as long as a token.
CacheToken_WholeLife(r) ==
    /\ rq[r].pc = "cache"
    /\ tokens' = [tokens EXCEPT ![CacheKey(rq[r].org)] =
                     [token |-> rq[r].token, exp |-> clock + JwtLife]]
    /\ rq' = [rq EXCEPT ![r].pc = "call"]
    /\ UNCHANGED <<clock, active, first, lastCurrent, cookie, ping, orgCache>>

\* TokenCache.set, under the key of the first read.
CacheToken(r) ==
    /\ rq[r].pc = "cache"
    /\ tokens' = [tokens EXCEPT ![CacheKey(rq[r].org)] =
                     [token |-> rq[r].token, exp |-> clock + TokenTtl]]
    /\ rq' = [rq EXCEPT ![r].pc = "call"]
    /\ UNCHANGED <<clock, active, first, lastCurrent, cookie, ping, orgCache>>

\* The last apiFetch of the request: the memoised token, whenever it began.
ApiFetch(r) ==
    /\ rq[r].pc = "call"
    /\ rq' = [rq EXCEPT ![r] = Done]
    /\ UNCHANGED <<clock, active, first, lastCurrent, cookie, ping, tokens, orgCache>>

SessionNext ==
    \/ Advance \/ GetSession \/ SetCookie \/ AcceptInvitation \/ CreateOrg
    \/ \E r \in Req : Send(r) \/ BearerToken(r) \/ Mint(r) \/ CacheToken(r) \/ ApiFetch(r)

SessionSpec == SessionInit /\ [][SessionNext]_sessionVars

-----------------------------------------------------------------------------
(* Properties.                                                             *)

Dated == [org : Org, exp : Nat]

\* The type invariant.
SessionTypeOK ==
    /\ clock \in 0..MaxClock /\ active \in Org /\ first \in Org
    /\ lastCurrent \in [Org -> 0..MaxClock]
    /\ cookie \in Dated /\ ping \in Dated /\ orgCache \in Dated
    /\ tokens \in [Org -> [token : Dated, exp : Nat]]
    /\ rq \in [Req -> [pc : {"idle", "session", "mint", "cache", "call", "done"}, start : 0..MaxClock,
                       cookie : Dated, org : Org, token : Dated]]

(* "A cached token is always still valid when the Go API verifies it":     *)
(* also the one found at the last instant of its entry, minted at the      *)
(* start of a slow request and used at the end of another.                 *)
TokenStillValid ==
    \A r \in Req : rq[r].pc = "call" => clock < rq[r].token.exp

(* An organisation switch is never undone by the token cache: a request    *)
(* that sees an organisation calls the API with that one or a later one,   *)
(* although session and token are read at different times.                 *)
SwitchSticks ==
    \A r \in Req : rq[r].pc = "call" => rq[r].token.org >= rq[r].org

(* The organisation in a token was the user's no longer ago than the       *)
(* cookie cache, the token cache and two requests allow, in whatever order *)
(* cookies arrive: no cache feeds another for ever.                        *)
StaleOrgBounded ==
    \A r \in Req :
        rq[r].pc = "call" /\ rq[r].token.org # 0 =>
            clock <= lastCurrent[rq[r].token.org] + CookieTtl + TokenTtl + 2 * MaxRequest
=============================================================================
