-------------------------- MODULE DashSession_proofs --------------------------
(***************************************************************************)
(* Proofs about DashSession, for any number of requests of a session and   *)
(* any lifetimes that satisfy SessionAssumption: a cached token is valid   *)
(* when it is used, an organisation switch sticks, and how stale the       *)
(* organisation of a token can be.                                         *)
(***************************************************************************)
EXTENDS DashSession, TLAPS

USE SessionAssumption

\* The type of a request.
RqType == [pc : {"idle", "session", "mint", "cache", "call", "done"}, start : 0..MaxClock,
           cookie : Dated, org : Org, token : Dated]
TokenEntry == [token : Dated, exp : Nat]

\* The empty values have the types of what they stand for.
LEMMA EmptyTypes ==
    /\ NoToken \in Dated /\ NoCookie \in Dated /\ NoEntry \in TokenEntry /\ Done \in RqType
    /\ NoCookie.exp = 0 /\ NoCookie.org = 0 /\ NoEntry.exp = 0 /\ Done.pc = "done" /\ Done.cookie = NoCookie
<1>1. 0 \in Org /\ 0 \in Nat /\ 0 \in 0..MaxClock
  BY DEF Org
<1>2. NoToken \in Dated /\ NoCookie \in Dated
  BY <1>1 DEF NoToken, NoCookie, Dated
<1>3. NoEntry \in TokenEntry
  BY <1>1, <1>2 DEF NoEntry, TokenEntry
<1>4. Done \in RqType
  BY <1>1, <1>2 DEF Done, RqType
<1> QED BY <1>2, <1>3, <1>4 DEF NoEntry, Done, NoCookie

\* The type invariant, with the types named.
LEMMA SessionTypes ==
    /\ SessionTypeOK <=>
          /\ clock \in 0..MaxClock /\ active \in Org /\ first \in Org
          /\ lastCurrent \in [Org -> 0..MaxClock]
          /\ cookie \in Dated /\ ping \in Dated /\ orgCache \in Dated
          /\ tokens \in [Org -> TokenEntry] /\ rq \in [Req -> RqType]
    /\ SessionTypeOK' <=>
          /\ clock' \in 0..MaxClock /\ active' \in Org /\ first' \in Org
          /\ lastCurrent' \in [Org -> 0..MaxClock]
          /\ cookie' \in Dated /\ ping' \in Dated /\ orgCache' \in Dated
          /\ tokens' \in [Org -> TokenEntry] /\ rq' \in [Req -> RqType]
  BY DEF SessionTypeOK, TokenEntry, RqType

\* Time makes of a dated value itself, an expired one or none.
LEMMA AgedType ==
    ASSUME SessionTypeOK, NEW c \in Dated
    PROVE  /\ Aged(c) \in Dated /\ Fresh(c) \in Dated
           /\ Aged(c).org = c.org /\ Aged(c).exp \in {0, c.exp} /\ (Aged(c).exp = 0 \/ clock + 1 < c.exp)
           /\ Aged(c).exp = c.exp \/ clock + 1 >= c.exp
           /\ Fresh(c) = c \/ Fresh(c) = NoCookie
  BY EmptyTypes DEF Aged, Fresh, Dated, SessionTypeOK

\* What Advance does to requests and cached tokens.
LEMMA AdvanceParts ==
    ASSUME SessionTypeOK, Advance
    PROVE  /\ clock' = clock + 1 /\ clock' \in 0..MaxClock /\ UNCHANGED <<active, first>>
           /\ cookie' = Aged(cookie) /\ ping' = Fresh(ping) /\ orgCache' = Fresh(orgCache)
           /\ \A r \in Req : /\ rq'[r] \in RqType /\ rq'[r].cookie = Aged(rq[r].cookie)
                             /\ rq'[r].pc = rq[r].pc /\ rq'[r].start = rq[r].start
                             /\ rq'[r].org = rq[r].org /\ rq'[r].token = rq[r].token
                             /\ rq[r].pc \notin {"idle", "done"} => clock < rq[r].start + MaxRequest
           /\ rq' \in [Req -> RqType]
           /\ \A o \in Org : tokens'[o] \in {tokens[o], NoEntry}
           /\ tokens' \in [Org -> TokenEntry]
<1>t. clock \in 0..MaxClock /\ rq \in [Req -> RqType] /\ tokens \in [Org -> TokenEntry]
  BY SessionTypes
<1>1. clock' = clock + 1 /\ clock' \in 0..MaxClock /\ UNCHANGED <<active, first>>
      /\ cookie' = Aged(cookie) /\ ping' = Fresh(ping) /\ orgCache' = Fresh(orgCache)
  BY <1>t DEF Advance
<1>2. ASSUME NEW r \in Req
      PROVE  /\ rq'[r] \in RqType /\ rq'[r].cookie = Aged(rq[r].cookie)
             /\ rq'[r].pc = rq[r].pc /\ rq'[r].start = rq[r].start
             /\ rq'[r].org = rq[r].org /\ rq'[r].token = rq[r].token
             /\ rq[r].pc \notin {"idle", "done"} => clock < rq[r].start + MaxRequest
  <2>1. rq'[r] = [rq[r] EXCEPT !.cookie = Aged(rq[r].cookie)]
    BY DEF Advance
  <2>2. rq[r] \in RqType /\ rq[r].cookie \in Dated
    BY <1>t DEF RqType
  <2>3. Aged(rq[r].cookie) \in Dated
    BY <2>2, AgedType
  <2>4. rq[r].pc \notin {"idle", "done"} => clock < rq[r].start + MaxRequest
    BY DEF Advance
  <2> QED BY <2>1, <2>2, <2>3, <2>4 DEF RqType
<1>3. rq' \in [Req -> RqType]
  <2>1. rq' = [r \in Req |-> rq'[r]]
    BY DEF Advance
  <2> QED BY <1>2, <2>1
<1>4. \A o \in Org : tokens'[o] \in {tokens[o], NoEntry}
  BY DEF Advance
<1>5. tokens' \in [Org -> TokenEntry]
  BY <1>t, EmptyTypes DEF Advance
<1> QED BY <1>1, <1>2, <1>3, <1>4, <1>5

\* The history of an instant has its type, never goes back, and holds the
\* current organisation at that instant.
LEMMA CurrentType ==
    ASSUME SessionTypeOK, \A o \in Org : lastCurrent[o] <= clock,
           NEW a \in Org, NEW f \in Org, NEW now \in 0..MaxClock, clock <= now
    PROVE  /\ Current(a, f, now) \in [Org -> 0..MaxClock]
           /\ \A o \in Org : lastCurrent[o] <= Current(a, f, now)[o] /\ Current(a, f, now)[o] <= now
           /\ Current(a, f, now)[IF a = 0 THEN f ELSE a] = now
  BY DEF Current, SessionTypeOK

\* A membership gained: the organisation it makes active is a later one.
LEMMA JoinParts ==
    ASSUME SessionTypeOK, AcceptInvitation \/ CreateOrg
    PROVE  /\ active' \in Org /\ first' \in Org /\ active <= active'
           /\ first # 0 => first' = first
           /\ first = 0 => first' # 0
           /\ first = 0 /\ active = 0 => active' \in {0, first'}
           /\ \/ UNCHANGED <<active, cookie>>
              \/ /\ active' # 0
                 /\ cookie' = [org |-> active', exp |-> clock + CookieTtl]
           /\ lastCurrent' = Current(active', first', clock)
           /\ UNCHANGED <<clock, ping, tokens, orgCache, rq>>
<1>1. active \in Nat /\ first \in Nat /\ Org \subseteq Nat
  BY DEF SessionTypeOK, Org
<1>2. NextOrg \in Nat \ {0} /\ active < NextOrg
  BY <1>1 DEF NextOrg
<1>3. CASE AcceptInvitation
  BY <1>1, <1>2, <1>3 DEF AcceptInvitation, SetActive, SessionTypeOK
<1>4. CASE CreateOrg
  BY <1>1, <1>2, <1>4 DEF CreateOrg, SetActive, SessionTypeOK
<1> QED BY <1>3, <1>4

\* What BearerToken finds: an unexpired entry under the session's organisation,
\* or nothing.
LEMMA BearerParts ==
    ASSUME SessionTypeOK, NEW r \in Req, BearerToken(r)
    PROVE  /\ rq[r].pc = "session" /\ UNCHANGED <<clock, active, first, lastCurrent, cookie, ping, orgCache>>
           /\ \A q \in Req : q # r => rq'[q] = rq[q]
           /\ rq' \in [Req -> RqType] /\ tokens' \in [Org -> TokenEntry]
           /\ rq'[r].org = SessionOrg(r) /\ rq'[r].org \in Org
           /\ rq'[r].start = rq[r].start /\ rq'[r].cookie = rq[r].cookie
           /\ \A o \in Org : tokens'[o] \in {tokens[o], NoEntry}
           /\ \/ rq'[r].pc = "mint"
              \/ /\ rq'[r].pc = "call" /\ clock < tokens[rq'[r].org].exp
                 /\ rq'[r].token = tokens[rq'[r].org].token
<1>t. rq \in [Req -> RqType] /\ tokens \in [Org -> TokenEntry] /\ active \in Org
  BY SessionTypes
<1> DEFINE org == SessionOrg(r)
<1>1. org \in Org
  BY <1>t DEF SessionOrg, RqType, Dated
<1>2. PICK hit \in {Lookup(org), NoToken} :
        /\ rq' = [rq EXCEPT ![r].org = org, ![r].token = hit,
                            ![r].pc = IF hit = NoToken THEN "mint" ELSE "call"]
        /\ tokens' = IF hit = NoToken THEN [tokens EXCEPT ![org] = NoEntry] ELSE tokens
  BY DEF BearerToken, CacheKey
<1>3. hit \in Dated
  BY <1>t, <1>1, EmptyTypes DEF Lookup, TokenEntry
<1>4. hit # NoToken => clock < tokens[org].exp /\ hit = tokens[org].token
  BY DEF Lookup
<1> HIDE DEF org
<1> DEFINE pc == IF hit = NoToken THEN "mint" ELSE "call"
<1>5. rq' = [rq EXCEPT ![r] = [rq[r] EXCEPT !.org = org, !.token = hit, !.pc = pc]]
  BY <1>2
<1>6. pc \in {"mint", "call"} /\ (pc = "call" => hit # NoToken)
  OBVIOUS
<1> HIDE DEF pc
<1>7. [rq[r] EXCEPT !.org = org, !.token = hit, !.pc = pc] \in RqType
  BY <1>t, <1>1, <1>3, <1>6 DEF RqType
<1>8. rq' \in [Req -> RqType] /\ \A q \in Req : q # r => rq'[q] = rq[q]
  BY <1>t, <1>5, <1>7
<1>9. rq'[r].org = org /\ rq'[r].token = hit /\ rq'[r].pc = pc
      /\ rq'[r].start = rq[r].start /\ rq'[r].cookie = rq[r].cookie
  BY <1>t, <1>5 DEF RqType
<1>10. tokens' \in [Org -> TokenEntry] /\ \A o \in Org : tokens'[o] \in {tokens[o], NoEntry}
  BY <1>t, <1>2, EmptyTypes
<1>11. rq[r].pc = "session" /\ UNCHANGED <<clock, active, first, lastCurrent, cookie, ping, orgCache>>
  BY DEF BearerToken
<1> QED BY <1>1, <1>4, <1>6, <1>8, <1>9, <1>10, <1>11 DEF org

\* A mint that succeeds gives a token for a whole life, of the organisation the
\* session means; only the oldest membership's organisation is cached.
LEMMA MintParts ==
    ASSUME SessionTypeOK, NEW r \in Req, Mint(r)
    PROVE  /\ rq[r].pc = "mint" /\ UNCHANGED <<clock, active, first, lastCurrent, cookie, ping, tokens>>
           /\ \A q \in Req : q # r => rq'[q] = rq[q]
           /\ rq' \in [Req -> RqType] /\ orgCache' \in Dated
           /\ \/ orgCache' = orgCache
              \/ orgCache'.org = first /\ first # 0
           /\ \/ rq'[r] = Done
              \/ /\ rq'[r].pc = "cache" /\ rq'[r].start = rq[r].start /\ rq'[r].org = rq[r].org
                 /\ rq'[r].cookie = rq[r].cookie
                 /\ rq'[r].token = [org |-> DefinePayload(SessionOrg(r)), exp |-> clock + JwtLife]
<1>t. rq \in [Req -> RqType] /\ active \in Org /\ first \in Org /\ orgCache \in Dated /\ clock \in Nat
  BY SessionTypes
<1> DEFINE s == SessionOrg(r)
           o == DefinePayload(s)
           token == [org |-> o, exp |-> clock + JwtLife]
<1>1. s \in Org
  BY <1>t DEF SessionOrg, RqType, Dated
<1>2. o \in Org
  BY <1>t, <1>1 DEF DefinePayload, FirstOrg, Dated
<1>3. token \in Dated
  BY <1>t, <1>2 DEF Dated
<1>4. rq[r].pc = "mint" /\ UNCHANGED <<clock, active, first, lastCurrent, cookie, ping, tokens>>
  BY DEF Mint
<1>5. \/ /\ rq' = [rq EXCEPT ![r].pc = "cache", ![r].token = token]
         /\ orgCache' = IF s = 0 /\ orgCache.exp <= clock /\ first # 0
                        THEN [org |-> first, exp |-> clock + OrgTtl] ELSE orgCache
      \/ rq' = [rq EXCEPT ![r] = Done] /\ UNCHANGED orgCache
  BY DEF Mint
<1>6. /\ orgCache' \in Dated
      /\ \/ orgCache' = orgCache
         \/ orgCache'.org = first /\ first # 0
  BY <1>t, <1>5 DEF Dated
<1> HIDE DEF token, s, o
<1>7. CASE rq' = [rq EXCEPT ![r].pc = "cache", ![r].token = token]
  <2>1. rq' = [rq EXCEPT ![r] = [rq[r] EXCEPT !.pc = "cache", !.token = token]]
    BY <1>7
  <2>2. [rq[r] EXCEPT !.pc = "cache", !.token = token] \in RqType
    BY <1>t, <1>3 DEF RqType
  <2>3. rq' \in [Req -> RqType] /\ \A q \in Req : q # r => rq'[q] = rq[q]
    BY <1>t, <2>1, <2>2
  <2>4. rq'[r].pc = "cache" /\ rq'[r].start = rq[r].start /\ rq'[r].org = rq[r].org
        /\ rq'[r].cookie = rq[r].cookie /\ rq'[r].token = token
    BY <1>t, <2>1 DEF RqType
  <2> QED BY <1>4, <1>6, <2>3, <2>4 DEF token, s, o
<1>8. CASE rq' = [rq EXCEPT ![r] = Done]
  BY <1>t, <1>4, <1>6, <1>8, EmptyTypes
<1> QED BY <1>5, <1>7, <1>8

\* TokenCache.set changes one entry and lets the request go on.
LEMMA CacheParts ==
    ASSUME SessionTypeOK, NEW r \in Req, CacheToken(r)
    PROVE  /\ rq[r].pc = "cache" /\ UNCHANGED <<clock, active, first, lastCurrent, cookie, ping, orgCache>>
           /\ \A q \in Req : q # r => rq'[q] = rq[q]
           /\ rq' \in [Req -> RqType] /\ tokens' \in [Org -> TokenEntry]
           /\ rq'[r].pc = "call" /\ rq'[r].start = rq[r].start /\ rq'[r].org = rq[r].org
           /\ rq'[r].cookie = rq[r].cookie /\ rq'[r].token = rq[r].token
           /\ \A o \in Org : \/ tokens'[o] = tokens[o]
                             \/ /\ o = rq[r].org
                                /\ tokens'[o].token = rq[r].token /\ tokens'[o].exp = clock + TokenTtl
<1>t. rq \in [Req -> RqType] /\ tokens \in [Org -> TokenEntry] /\ clock \in Nat
  BY SessionTypes
<1> DEFINE e == [token |-> rq[r].token, exp |-> clock + TokenTtl]
<1>1. e \in TokenEntry /\ e.token = rq[r].token /\ e.exp = clock + TokenTtl
  BY <1>t DEF RqType, TokenEntry
<1>2. tokens' = [tokens EXCEPT ![rq[r].org] = e] /\ rq' = [rq EXCEPT ![r].pc = "call"]
      /\ rq[r].pc = "cache" /\ UNCHANGED <<clock, active, first, lastCurrent, cookie, ping, orgCache>>
  BY DEF CacheToken, CacheKey
<1> HIDE DEF e
<1>3. tokens' \in [Org -> TokenEntry]
      /\ \A o \in Org : tokens'[o] = IF o = rq[r].org THEN e ELSE tokens[o]
  BY <1>t, <1>1, <1>2
<1>4. rq' = [rq EXCEPT ![r] = [rq[r] EXCEPT !.pc = "call"]] /\ [rq[r] EXCEPT !.pc = "call"] \in RqType
  BY <1>t, <1>2 DEF RqType
<1>5. rq' \in [Req -> RqType] /\ \A q \in Req : q # r => rq'[q] = rq[q]
  BY <1>t, <1>4
<1>6. rq'[r].pc = "call" /\ rq'[r].start = rq[r].start /\ rq'[r].org = rq[r].org
      /\ rq'[r].cookie = rq[r].cookie /\ rq'[r].token = rq[r].token
  BY <1>t, <1>4 DEF RqType
<1> QED BY <1>1, <1>2, <1>3, <1>5, <1>6

\* A request begins with the browser's cookie.
LEMMA SendParts ==
    ASSUME SessionTypeOK, NEW r \in Req, Send(r)
    PROVE  /\ UNCHANGED <<clock, active, first, lastCurrent, cookie, ping, tokens, orgCache>>
           /\ \A q \in Req : q # r => rq'[q] = rq[q]
           /\ rq' \in [Req -> RqType]
           /\ rq'[r].pc = "session" /\ rq'[r].start = clock /\ rq'[r].cookie = cookie
<1>t. rq \in [Req -> RqType] /\ cookie \in Dated /\ clock \in 0..MaxClock
  BY SessionTypes
<1>1. rq' = [rq EXCEPT ![r] = [rq[r] EXCEPT !.pc = "session", !.start = clock, !.cookie = cookie]]
      /\ UNCHANGED <<clock, active, first, lastCurrent, cookie, ping, tokens, orgCache>>
  BY DEF Send
<1>2. [rq[r] EXCEPT !.pc = "session", !.start = clock, !.cookie = cookie] \in RqType
  BY <1>t DEF RqType
<1>3. rq'[r].pc = "session" /\ rq'[r].start = clock /\ rq'[r].cookie = cookie
  BY <1>t, <1>1 DEF RqType
<1> QED BY <1>t, <1>1, <1>2, <1>3

-----------------------------------------------------------------------------
(* The type invariant.                                                     *)

\* The type invariant, and no history from the future.
BaseInv == SessionTypeOK /\ \A o \in Org : lastCurrent[o] <= clock

\* Every step keeps the types; the history only grows.
LEMMA StepBase ==
    ASSUME BaseInv, [SessionNext]_sessionVars
    PROVE  /\ BaseInv'
           /\ \A o \in Org : lastCurrent[o] <= lastCurrent'[o]
           /\ UNCHANGED <<active, first, lastCurrent, clock>>
              \/ lastCurrent'[IF active' = 0 THEN first' ELSE active'] = clock'
<1> DEFINE Goal == /\ BaseInv'
                   /\ \A o \in Org : lastCurrent[o] <= lastCurrent'[o]
                   /\ UNCHANGED <<active, first, lastCurrent, clock>>
                      \/ lastCurrent'[IF active' = 0 THEN first' ELSE active'] = clock'
<1> SUFFICES Goal
  OBVIOUS
<1>b. SessionTypeOK /\ \A o \in Org : lastCurrent[o] <= clock
  BY DEF BaseInv
<1>t. /\ clock \in 0..MaxClock /\ active \in Org /\ first \in Org
      /\ lastCurrent \in [Org -> 0..MaxClock]
      /\ cookie \in Dated /\ ping \in Dated /\ orgCache \in Dated
      /\ tokens \in [Org -> TokenEntry] /\ rq \in [Req -> RqType]
  BY <1>b, SessionTypes
<1>0. ASSUME SessionTypeOK', UNCHANGED <<active, first, lastCurrent, clock>> PROVE Goal
  BY <1>0, <1>b, <1>t DEF BaseInv
<1> USE SessionTypes
<1>1. CASE Advance
  <2>1. lastCurrent' = Current(active', first', clock')
    BY <1>1, <1>b, AdvanceParts DEF Advance
  <2>2. SessionTypeOK'
    <3>1. Current(active', first', clock') \in [Org -> 0..MaxClock]
      BY <1>1, <1>b, <1>t, AdvanceParts, CurrentType
    <3>2. cookie' \in Dated /\ ping' \in Dated /\ orgCache' \in Dated
      BY <1>1, <1>b, <1>t, AdvanceParts, AgedType
    <3> QED BY <1>1, <1>b, <1>t, <2>1, <3>1, <3>2, AdvanceParts
  <2>3. clock' \in 0..MaxClock /\ clock <= clock' /\ active' \in Org /\ first' \in Org
    BY <1>1, <1>b, <1>t, AdvanceParts
  <2> QED BY <1>b, <2>1, <2>2, <2>3, CurrentType DEF BaseInv
<1>2. CASE GetSession
  <2>1. [org |-> active, exp |-> clock + CookieTtl] \in Dated
    BY <1>t DEF Dated
  <2> QED BY <1>0, <1>2, <1>t, <2>1 DEF GetSession
<1>3. CASE SetCookie
  BY <1>0, <1>3, <1>t, EmptyTypes DEF SetCookie
<1>4. CASE AcceptInvitation \/ CreateOrg
  <2>1. active' \in Org /\ first' \in Org /\ lastCurrent' = Current(active', first', clock)
        /\ UNCHANGED <<clock, ping, tokens, orgCache, rq>>
    BY <1>4, <1>b, JoinParts
  <2>2. cookie' \in Dated
    <3>1. cookie' = cookie \/ cookie' = [org |-> active', exp |-> clock + CookieTtl]
      BY <1>4, <1>b, JoinParts
    <3>2. [org |-> active', exp |-> clock + CookieTtl] \in Dated
      BY <1>t, <2>1 DEF Dated
    <3> QED BY <1>t, <3>1, <3>2
  <2>3. Current(active', first', clock) \in [Org -> 0..MaxClock]
        /\ (\A o \in Org : lastCurrent[o] <= Current(active', first', clock)[o]
                           /\ Current(active', first', clock)[o] <= clock)
        /\ Current(active', first', clock)[IF active' = 0 THEN first' ELSE active'] = clock
    BY <1>b, <1>t, <2>1, CurrentType
  <2>4. SessionTypeOK'
    BY <1>t, <2>1, <2>2, <2>3
  <2> QED BY <2>1, <2>3, <2>4 DEF BaseInv
<1>5. ASSUME NEW r \in Req, Send(r) PROVE Goal
  BY <1>0, <1>5, <1>b, <1>t, SendParts
<1>6. ASSUME NEW r \in Req, BearerToken(r) PROVE Goal
  BY <1>0, <1>6, <1>b, <1>t, BearerParts
<1>7. ASSUME NEW r \in Req, Mint(r) PROVE Goal
  BY <1>0, <1>7, <1>b, <1>t, MintParts
<1>8. ASSUME NEW r \in Req, CacheToken(r) PROVE Goal
  BY <1>0, <1>8, <1>b, <1>t, CacheParts
<1>9. ASSUME NEW r \in Req, ApiFetch(r) PROVE Goal
  BY <1>0, <1>9, <1>t, EmptyTypes DEF ApiFetch
<1>10. CASE UNCHANGED sessionVars
  BY <1>0, <1>10, <1>t DEF sessionVars
<1> HIDE DEF Goal
<1> QED BY <1>1, <1>2, <1>3, <1>4, <1>5, <1>6, <1>7, <1>8, <1>9, <1>10 DEF SessionNext

\* The types and the history hold in every reachable state.
LEMMA BaseInvariant == SessionSpec => []BaseInv
<1>1. SessionInit => BaseInv
  <2> SUFFICES ASSUME SessionInit PROVE BaseInv
    OBVIOUS
  <2>1. first \in Org /\ active \in Org /\ clock \in 0..MaxClock
    BY DEF SessionInit, Org
  <2>2. cookie \in Dated /\ ping \in Dated /\ orgCache \in Dated
    BY <2>1, EmptyTypes DEF SessionInit, Dated
  <2>3. [Done EXCEPT !.pc = "idle"] \in RqType
    BY EmptyTypes DEF RqType
  <2>4. rq \in [Req -> RqType] /\ tokens \in [Org -> TokenEntry]
    BY <2>3, EmptyTypes DEF SessionInit
  <2>5. lastCurrent \in [Org -> 0..MaxClock] /\ \A o \in Org : lastCurrent[o] <= clock
    BY <2>1 DEF SessionInit
  <2> QED BY <2>1, <2>2, <2>4, <2>5, SessionTypes DEF BaseInv
<1> QED BY <1>1, StepBase, PTL DEF SessionSpec

\* Clock, cookie, caches and requests keep their types.
THEOREM SessionTypeCorrect == SessionSpec => []SessionTypeOK
  BY BaseInvariant, PTL DEF BaseInv

-----------------------------------------------------------------------------
(* A token is valid when it is used.                                       *)

Busy(r) == rq[r].pc \in {"session", "mint", "cache", "call"}

\* A busy request is young; its token outlives the longest request, and the
\* token of an entry outlives the entry by the longest request.
ValidInv ==
    /\ \A r \in Req :
        /\ Busy(r) => rq[r].start <= clock /\ clock <= rq[r].start + MaxRequest
        /\ rq[r].pc = "cache" => rq[r].start + JwtLife <= rq[r].token.exp
        /\ rq[r].pc = "call" => rq[r].start + MaxRequest < rq[r].token.exp
    /\ \A o \in Org : tokens[o].exp # 0 => tokens[o].exp + MaxRequest <= tokens[o].token.exp

\* The numbers of a state in its type are naturals.
LEMMA NatTypes ==
    ASSUME SessionTypeOK
    PROVE  /\ clock \in Nat /\ active \in Nat /\ first \in Nat /\ Org \subseteq Nat
           /\ \A r \in Req : /\ rq[r].start \in Nat /\ rq[r].token.exp \in Nat /\ rq[r].token.org \in Org
                             /\ rq[r].cookie \in Dated /\ rq[r].org \in Org
                             /\ rq[r].cookie.exp \in Nat /\ rq[r].cookie.org \in Org
           /\ \A o \in Org : /\ tokens[o].exp \in Nat /\ tokens[o].token.exp \in Nat
                             /\ tokens[o].token.org \in Org /\ lastCurrent[o] \in Nat
<1>1. /\ clock \in 0..MaxClock /\ active \in Org /\ first \in Org
      /\ lastCurrent \in [Org -> 0..MaxClock]
      /\ tokens \in [Org -> TokenEntry] /\ rq \in [Req -> RqType]
  BY SessionTypes
<1>2. Org \subseteq Nat /\ 0..MaxClock \subseteq Nat
  BY DEF Org
<1> QED BY <1>1, <1>2 DEF RqType, TokenEntry, Dated

\* Every step keeps what cached and memoised tokens have left.
LEMMA StepValid ==
    ASSUME BaseInv, ValidInv, [SessionNext]_sessionVars
    PROVE  ValidInv'
<1>b. SessionTypeOK /\ SessionTypeOK'
  BY StepBase DEF BaseInv
<1>t. /\ clock \in Nat
      /\ \A r \in Req : rq[r].start \in Nat /\ rq[r].token.exp \in Nat /\ rq[r].org \in Org
      /\ \A o \in Org : tokens[o].exp \in Nat /\ tokens[o].token.exp \in Nat
  BY <1>b, NatTypes
<1>1. CASE Advance
  <2>1. \A o \in Org : tokens'[o] \in {tokens[o], NoEntry}
    BY <1>1, <1>b, AdvanceParts
  <2>2. \A r \in Req : /\ rq'[r].pc = rq[r].pc /\ rq'[r].start = rq[r].start /\ rq'[r].token = rq[r].token
                       /\ rq[r].pc \notin {"idle", "done"} => clock < rq[r].start + MaxRequest
    BY <1>1, <1>b, AdvanceParts
  <2>3. clock' = clock + 1
    BY <1>1, <1>b, AdvanceParts
  <2> QED BY <1>t, <2>1, <2>2, <2>3, EmptyTypes DEF ValidInv, Busy
<1>2. CASE GetSession \/ SetCookie \/ AcceptInvitation \/ CreateOrg \/ UNCHANGED sessionVars
  <2>1. UNCHANGED <<clock, rq, tokens>>
    BY <1>2 DEF GetSession, SetCookie, AcceptInvitation, CreateOrg, sessionVars
  <2> QED BY <2>1 DEF ValidInv, Busy
<1>5. ASSUME NEW r \in Req, Send(r) PROVE ValidInv'
  BY <1>5, <1>b, <1>t, SendParts DEF ValidInv, Busy
<1>6. ASSUME NEW r \in Req, BearerToken(r) PROVE ValidInv'
  <2> DEFINE o == rq'[r].org
  <2>1. rq[r].pc = "session" /\ UNCHANGED clock /\ (\A q \in Req : q # r => rq'[q] = rq[q])
        /\ rq'[r].start = rq[r].start /\ o \in Org
        /\ (\A p \in Org : tokens'[p] \in {tokens[p], NoEntry})
    BY <1>6, <1>b, BearerParts
  <2>2. \/ rq'[r].pc = "mint"
        \/ rq'[r].pc = "call" /\ clock < tokens[o].exp /\ rq'[r].token = tokens[o].token
    BY <1>6, <1>b, BearerParts
  <2>3. rq[r].start <= clock /\ clock <= rq[r].start + MaxRequest
    BY <2>1 DEF ValidInv, Busy
  <2> HIDE DEF o
  <2>4. rq'[r].pc = "call" => rq'[r].start + MaxRequest < rq'[r].token.exp
    BY <1>t, <2>1, <2>2, <2>3 DEF ValidInv
  <2>5. \A p \in Org : tokens'[p].exp # 0 => tokens'[p].exp + MaxRequest <= tokens'[p].token.exp
    BY <2>1, EmptyTypes DEF ValidInv
  <2> QED BY <2>1, <2>2, <2>3, <2>4, <2>5 DEF ValidInv, Busy
<1>7. ASSUME NEW r \in Req, Mint(r) PROVE ValidInv'
  <2>1. rq[r].pc = "mint" /\ UNCHANGED <<clock, tokens>> /\ (\A q \in Req : q # r => rq'[q] = rq[q])
    BY <1>7, <1>b, MintParts
  <2>2. \/ rq'[r].pc = "done"
        \/ rq'[r].pc = "cache" /\ rq'[r].start = rq[r].start /\ rq'[r].token.exp = clock + JwtLife
    <3>1. CASE rq'[r] = Done
      BY <3>1, EmptyTypes
    <3>2. CASE rq'[r] # Done
      <4>1. rq'[r].pc = "cache" /\ rq'[r].start = rq[r].start /\ rq'[r].org = rq[r].org
            /\ rq'[r].cookie = rq[r].cookie
            /\ rq'[r].token = [org |-> DefinePayload(SessionOrg(r)), exp |-> clock + JwtLife]
        BY <1>7, <1>b, <3>2, MintParts
      <4> QED BY <4>1
    <3> QED BY <3>1, <3>2
  <2>3. rq[r].start <= clock /\ clock <= rq[r].start + MaxRequest
    BY <2>1 DEF ValidInv, Busy
  <2> QED BY <1>t, <2>1, <2>2, <2>3 DEF ValidInv, Busy
<1>8. ASSUME NEW r \in Req, CacheToken(r) PROVE ValidInv'
  <2>1. rq[r].pc = "cache" /\ UNCHANGED clock /\ (\A q \in Req : q # r => rq'[q] = rq[q])
        /\ rq'[r].pc = "call" /\ rq'[r].start = rq[r].start /\ rq'[r].token = rq[r].token
    BY <1>8, <1>b, CacheParts
  <2>2. \A o \in Org : \/ tokens'[o] = tokens[o]
                       \/ tokens'[o].token = rq[r].token /\ tokens'[o].exp = clock + TokenTtl
    BY <1>8, <1>b, CacheParts
  <2>3. clock <= rq[r].start + MaxRequest /\ rq[r].start <= clock /\ rq[r].start + JwtLife <= rq[r].token.exp
    BY <2>1 DEF ValidInv, Busy
  <2>4. clock + TokenTtl + MaxRequest <= rq[r].token.exp /\ rq[r].start + MaxRequest < rq[r].token.exp
    BY <1>t, <2>3
  <2>5. \A o \in Org : tokens'[o].exp # 0 => tokens'[o].exp + MaxRequest <= tokens'[o].token.exp
    BY <1>t, <2>2, <2>4 DEF ValidInv
  <2> QED BY <2>1, <2>3, <2>4, <2>5 DEF ValidInv, Busy
<1>9. ASSUME NEW r \in Req, ApiFetch(r) PROVE ValidInv'
  <2>1. UNCHANGED <<clock, tokens>> /\ rq'[r].pc = "done" /\ (\A q \in Req : q # r => rq'[q] = rq[q])
    BY <1>9, <1>b, SessionTypes, EmptyTypes DEF ApiFetch
  <2> QED BY <2>1 DEF ValidInv, Busy
<1> QED BY <1>1, <1>2, <1>5, <1>6, <1>7, <1>8, <1>9 DEF SessionNext

\* What tokens have left holds in every reachable state.
LEMMA ValidInvariant == SessionSpec => []ValidInv
<1>1. SessionInit => ValidInv
  BY EmptyTypes DEF SessionInit, ValidInv, Busy, Done
<1> QED BY <1>1, StepValid, BaseInvariant, PTL DEF SessionSpec

\* For all lifetimes with TokenTtl + 2 * MaxRequest <= JwtLife a token is valid
\* whenever the API verifies it, cached or not.
THEOREM TokensValid == SessionSpec => []TokenStillValid
<1>1. BaseInv /\ ValidInv => TokenStillValid
  <2> SUFFICES ASSUME BaseInv, ValidInv, NEW r \in Req, rq[r].pc = "call"
               PROVE  clock < rq[r].token.exp
    BY DEF TokenStillValid
  <2>1. clock \in Nat /\ rq[r].start \in Nat /\ rq[r].token.exp \in Nat
    BY NatTypes DEF BaseInv
  <2>2. clock <= rq[r].start + MaxRequest /\ rq[r].start + MaxRequest < rq[r].token.exp
    BY DEF ValidInv, Busy
  <2> QED BY <2>1, <2>2
<1> QED BY <1>1, BaseInvariant, ValidInvariant, PTL

-----------------------------------------------------------------------------
(* An organisation switch sticks.                                          *)

\* Organisations are numbered as they become active: no cookie is ahead of the
\* session row, a minting request has seen what the mint will see or less, and
\* an entry's token is no older than its key.
SwitchInv ==
    /\ cookie.org <= active /\ ping.org <= active
    /\ \A r \in Req :
        /\ rq[r].cookie.org <= active
        /\ rq[r].pc = "mint" => /\ rq[r].org <= active
                                /\ rq[r].org = rq[r].cookie.org \/ rq[r].cookie.exp <= clock
        /\ rq[r].pc \in {"cache", "call"} => rq[r].org <= rq[r].token.org
    /\ \A o \in Org : tokens[o].exp # 0 => o <= tokens[o].token.org

\* Every step keeps the order of organisations along the caches.
LEMMA StepSwitch ==
    ASSUME BaseInv, SwitchInv, [SessionNext]_sessionVars
    PROVE  SwitchInv'
<1>b. SessionTypeOK /\ SessionTypeOK'
  BY StepBase DEF BaseInv
<1>t. /\ clock \in Nat /\ active \in Nat /\ first \in Nat /\ Org \subseteq Nat
      /\ \A r \in Req : /\ rq[r].token.org \in Nat /\ rq[r].cookie \in Dated /\ rq[r].org \in Nat
                        /\ rq[r].cookie.exp \in Nat /\ rq[r].cookie.org \in Nat
      /\ \A o \in Org : tokens[o].exp \in Nat /\ tokens[o].token.org \in Nat
      /\ cookie \in Dated /\ ping \in Dated /\ cookie.org \in Nat /\ ping.org \in Nat /\ active' \in Nat
  <2>1. cookie \in Dated /\ ping \in Dated /\ active \in Org /\ active' \in Org
    BY <1>b, SessionTypes
  <2> QED BY <1>b, <2>1, NatTypes DEF Dated
<1>1. CASE Advance
  <2>1. cookie'.org = cookie.org /\ ping'.org \in {ping.org, 0} /\ UNCHANGED active /\ clock' = clock + 1
    BY <1>1, <1>b, <1>t, AdvanceParts, AgedType, EmptyTypes
  <2>2. \A r \in Req : /\ rq'[r].pc = rq[r].pc /\ rq'[r].org = rq[r].org /\ rq'[r].token = rq[r].token
                       /\ rq'[r].cookie = Aged(rq[r].cookie)
    BY <1>1, <1>b, AdvanceParts
  <2>3. \A r \in Req : rq'[r].cookie.org = rq[r].cookie.org /\ rq'[r].cookie.exp \in {0, rq[r].cookie.exp}
    BY <1>b, <1>t, <2>2, AgedType
  <2>4. \A o \in Org : tokens'[o] \in {tokens[o], NoEntry}
    BY <1>1, <1>b, AdvanceParts
  <2> QED BY <1>t, <2>1, <2>2, <2>3, <2>4, EmptyTypes DEF SwitchInv
<1>2. CASE GetSession \/ SetCookie
  <2>1. UNCHANGED <<clock, active, tokens, rq>> /\ cookie'.org <= active /\ ping'.org <= active
    BY <1>2, <1>t, EmptyTypes DEF GetSession, SetCookie, SwitchInv
  <2> QED BY <2>1 DEF SwitchInv
<1>3. CASE AcceptInvitation \/ CreateOrg
  <2>1. active <= active' /\ cookie'.org \in {cookie.org, active'} /\ UNCHANGED <<clock, ping, tokens, rq>>
    BY <1>3, <1>b, JoinParts
  <2> QED BY <1>t, <2>1 DEF SwitchInv
<1>5. ASSUME NEW r \in Req, Send(r) PROVE SwitchInv'
  BY <1>5, <1>b, <1>t, SendParts DEF SwitchInv
<1>6. ASSUME NEW r \in Req, BearerToken(r) PROVE SwitchInv'
  <2> DEFINE o == rq'[r].org
  <2>1. UNCHANGED <<clock, active, cookie, ping>> /\ (\A q \in Req : q # r => rq'[q] = rq[q])
        /\ rq'[r].cookie = rq[r].cookie /\ o \in Org /\ o = SessionOrg(r)
        /\ (\A p \in Org : tokens'[p] \in {tokens[p], NoEntry})
    BY <1>6, <1>b, BearerParts
  <2>2. \/ rq'[r].pc = "mint"
        \/ rq'[r].pc = "call" /\ clock < tokens[o].exp /\ rq'[r].token = tokens[o].token
    BY <1>6, <1>b, BearerParts
  <2> HIDE DEF o
  <2>3. /\ o <= active
        /\ o = rq[r].cookie.org \/ rq[r].cookie.exp <= clock
    BY <1>t, <2>1 DEF SessionOrg, SwitchInv
  <2>4. rq'[r].pc = "call" => o <= rq'[r].token.org
    BY <1>t, <2>1, <2>2 DEF SwitchInv
  <2>5. \A p \in Org : tokens'[p].exp # 0 => p <= tokens'[p].token.org
    BY <2>1, EmptyTypes DEF SwitchInv
  <2> QED BY <2>1, <2>2, <2>3, <2>4, <2>5 DEF SwitchInv, o
<1>7. ASSUME NEW r \in Req, Mint(r) PROVE SwitchInv'
  <2>1. rq[r].pc = "mint" /\ UNCHANGED <<clock, active, cookie, ping, tokens>>
        /\ (\A q \in Req : q # r => rq'[q] = rq[q])
    BY <1>7, <1>b, MintParts
  <2>2. \/ rq'[r].pc = "done" /\ rq'[r].cookie.org = 0
        \/ rq'[r].pc = "cache" /\ rq'[r].org = rq[r].org /\ rq'[r].cookie = rq[r].cookie
           /\ rq'[r].token.org = DefinePayload(SessionOrg(r))
    <3>1. CASE rq'[r] = Done
      BY <3>1, EmptyTypes
    <3>2. CASE rq'[r] # Done
      <4>1. rq'[r].pc = "cache" /\ rq'[r].start = rq[r].start /\ rq'[r].org = rq[r].org
            /\ rq'[r].cookie = rq[r].cookie
            /\ rq'[r].token = [org |-> DefinePayload(SessionOrg(r)), exp |-> clock + JwtLife]
        BY <1>7, <1>b, <3>2, MintParts
      <4> QED BY <4>1
    <3> QED BY <3>1, <3>2
  <2>3. rq[r].org <= SessionOrg(r) /\ SessionOrg(r) \in Nat
    BY <1>t, <2>1 DEF SessionOrg, SwitchInv
  <2>4. rq'[r].pc = "cache" => rq'[r].org <= rq'[r].token.org
    <3>1. SessionOrg(r) # 0 => DefinePayload(SessionOrg(r)) = SessionOrg(r)
      BY DEF DefinePayload
    <3>2. rq'[r].pc = "cache" => rq'[r].token.org \in Nat
      BY <1>b, NatTypes, SessionTypes DEF RqType, Dated, Org
    <3> QED BY <1>t, <2>2, <2>3, <3>1, <3>2
  <2> QED BY <1>t, <2>1, <2>2, <2>4 DEF SwitchInv
<1>8. ASSUME NEW r \in Req, CacheToken(r) PROVE SwitchInv'
  <2>1. rq[r].pc = "cache" /\ UNCHANGED <<clock, active, cookie, ping>>
        /\ (\A q \in Req : q # r => rq'[q] = rq[q])
        /\ rq'[r].pc = "call" /\ rq'[r].org = rq[r].org /\ rq'[r].cookie = rq[r].cookie
        /\ rq'[r].token = rq[r].token
    BY <1>8, <1>b, CacheParts
  <2>2. \A o \in Org : \/ tokens'[o] = tokens[o]
                       \/ o = rq[r].org /\ tokens'[o].token = rq[r].token
    BY <1>8, <1>b, CacheParts
  <2>3. \A o \in Org : tokens'[o].exp # 0 => o <= tokens'[o].token.org
    BY <2>1, <2>2 DEF SwitchInv
  <2> QED BY <2>1, <2>3 DEF SwitchInv
<1>9. ASSUME NEW r \in Req, ApiFetch(r) PROVE SwitchInv'
  <2>1. UNCHANGED <<clock, active, cookie, ping, tokens>> /\ rq'[r].pc = "done" /\ rq'[r].cookie.org = 0
        /\ (\A q \in Req : q # r => rq'[q] = rq[q])
    BY <1>9, <1>b, SessionTypes, EmptyTypes DEF ApiFetch
  <2> QED BY <1>t, <2>1 DEF SwitchInv
<1>10. CASE UNCHANGED sessionVars
  BY <1>10 DEF sessionVars, SwitchInv
<1> QED BY <1>1, <1>2, <1>3, <1>5, <1>6, <1>7, <1>8, <1>9, <1>10 DEF SessionNext

\* A request never calls the API with an organisation older than the one it saw
\* its session in, whatever the token cache holds.
THEOREM SwitchesStick == SessionSpec => []SwitchSticks
<1>1. SessionInit => SwitchInv
  <2> SUFFICES ASSUME SessionInit PROVE SwitchInv
    OBVIOUS
  <2>1. active \in Nat
    BY DEF SessionInit, Org
  <2> QED BY <2>1, EmptyTypes DEF SessionInit, SwitchInv, Done
<1>2. BaseInv /\ SwitchInv => SwitchSticks
  <2> SUFFICES ASSUME BaseInv, SwitchInv, NEW r \in Req, rq[r].pc = "call"
               PROVE  rq[r].token.org >= rq[r].org
    BY DEF SwitchSticks
  <2>1. rq[r].org <= rq[r].token.org /\ rq[r].org \in Nat /\ rq[r].token.org \in Nat
    BY NatTypes DEF SwitchInv, BaseInv
  <2> QED BY <2>1
<1> QED BY <1>1, <1>2, StepSwitch, BaseInvariant, PTL DEF SessionSpec

-----------------------------------------------------------------------------
(* How stale the organisation of a token can be.                           *)

\* The organisation a session with active organisation o works in.
Meant(o, f) == IF o = 0 THEN f ELSE o

\* A cookie expires a CookieTtl after its organisation was current, at most.
Recent(c, last, f) == c.exp <= last[Meant(c.org, f)] + CookieTtl

\* The row's organisation is current; cookies are recent; a token's organisation
\* was current a CookieTtl before its mint, at most, and an entry ends a
\* TokenTtl and a request later.
StaleInv ==
    /\ active # 0 => first # 0
    /\ lastCurrent[Meant(active, first)] = clock
    /\ Recent(cookie, lastCurrent, first) /\ Recent(ping, lastCurrent, first)
    /\ orgCache.exp # 0 => orgCache.org = first /\ first # 0
    /\ \A r \in Req :
        /\ Recent(rq[r].cookie, lastCurrent, first)
        /\ rq[r].pc = "cache" => rq[r].start <= lastCurrent[rq[r].token.org] + CookieTtl
        /\ rq[r].pc = "call" =>
             rq[r].start <= lastCurrent[rq[r].token.org] + CookieTtl + TokenTtl + MaxRequest
    /\ \A o \in Org : tokens[o].exp # 0 =>
        tokens[o].exp <= lastCurrent[tokens[o].token.org] + CookieTtl + TokenTtl + MaxRequest

\* A recent cookie stays recent while the history grows, and when the first
\* membership gives a session without organisation one.
LEMMA RecentStays ==
    ASSUME BaseInv, BaseInv', NEW c \in Dated, Recent(c, lastCurrent, first),
           \A o \in Org : lastCurrent[o] <= lastCurrent'[o],
           first # 0 => first' = first,
           first' # first => lastCurrent'[first'] = clock'  /\ clock <= clock'
    PROVE  Recent(c, lastCurrent', first')
<1>1. c.org \in Org /\ c.exp \in Nat /\ first \in Org /\ first' \in Org /\ 0 \in Org
  BY DEF Dated, BaseInv, SessionTypeOK, Org
<1>2. \A o \in Org : lastCurrent[o] \in Nat /\ lastCurrent'[o] \in Nat /\ lastCurrent[o] <= clock
  BY DEF BaseInv, SessionTypeOK
<1>3. clock \in Nat /\ clock' \in Nat
  BY DEF BaseInv, SessionTypeOK
<1>4. CASE c.org # 0 \/ first' = first
  BY <1>1, <1>2, <1>4 DEF Recent, Meant
<1>5. CASE c.org = 0 /\ first' # first
  <2>1. first = 0 /\ c.exp <= lastCurrent[0] + CookieTtl
    BY <1>5 DEF Recent, Meant
  <2>2. lastCurrent'[Meant(c.org, first')] = clock'
    BY <1>5 DEF Meant
  <2>3. c.exp <= clock' + CookieTtl
    BY <1>1, <1>2, <1>3, <1>5, <2>1
  <2> QED BY <2>2, <2>3 DEF Recent
<1> QED BY <1>4, <1>5

\* A cookie that says less is as recent.
LEMMA RecentShorter ==
    ASSUME BaseInv', NEW c \in Dated, NEW d \in Dated, Recent(c, lastCurrent', first'),
           (d.org = c.org /\ d.exp \in {0, c.exp}) \/ d = NoCookie
    PROVE  Recent(d, lastCurrent', first')
<1>1. \A o \in Org : lastCurrent'[o] \in Nat
  BY DEF BaseInv, SessionTypeOK
<1>2. Meant(d.org, first') \in Org
  BY DEF Meant, BaseInv, SessionTypeOK, Dated
<1>3. d.exp = 0 \/ (d.org = c.org /\ d.exp = c.exp)
  BY EmptyTypes
<1>4. CASE d.exp = 0
  <2>1. lastCurrent'[Meant(d.org, first')] \in Nat
    BY <1>1, <1>2
  <2> QED BY <1>4, <2>1 DEF Recent
<1>5. CASE d.org = c.org /\ d.exp = c.exp
  BY <1>5 DEF Recent
<1> QED BY <1>3, <1>4, <1>5

\* Every step keeps what the caches say recent.
LEMMA StepStale ==
    ASSUME BaseInv, ValidInv, StaleInv, [SessionNext]_sessionVars
    PROVE  StaleInv'
<1>b. BaseInv' /\ SessionTypeOK /\ SessionTypeOK' /\ \A o \in Org : lastCurrent[o] <= lastCurrent'[o]
  BY StepBase DEF BaseInv
<1>t. /\ clock \in Nat /\ active \in Org /\ first \in Org /\ Org \subseteq Nat /\ 0 \in Org
      /\ \A r \in Req : /\ rq[r].start \in Nat /\ rq[r].token.org \in Org /\ rq[r].cookie \in Dated
                        /\ rq[r].cookie.org \in Org /\ rq[r].cookie.exp \in Nat
      /\ \A o \in Org : tokens[o].exp \in Nat /\ tokens[o].token.org \in Org
      /\ \A o \in Org : lastCurrent[o] \in Nat /\ lastCurrent'[o] \in Nat /\ lastCurrent[o] <= clock
      /\ cookie \in Dated /\ ping \in Dated /\ orgCache \in Dated
  <2>1. 0 \in Org
    BY DEF Org
  <2> QED BY <1>b, <2>1, NatTypes DEF BaseInv, SessionTypeOK
<1>u. ASSUME UNCHANGED <<clock, active, first, lastCurrent, cookie, ping, orgCache>>,
             NEW r \in Req, \A q \in Req : q # r => rq'[q] = rq[q], rq' \in [Req -> RqType],
             rq'[r].cookie \in {rq[r].cookie, cookie, NoCookie},
             rq'[r].pc = "cache" => rq'[r].start <= lastCurrent[rq'[r].token.org] + CookieTtl,
             rq'[r].pc = "call" =>
               rq'[r].start <= lastCurrent[rq'[r].token.org] + CookieTtl + TokenTtl + MaxRequest,
             \A o \in Org : tokens'[o].exp # 0 =>
               tokens'[o].exp <= lastCurrent[tokens'[o].token.org] + CookieTtl + TokenTtl + MaxRequest
      PROVE  StaleInv'
  <2>1. Recent(rq'[r].cookie, lastCurrent', first')
    <3>1. Recent(NoCookie, lastCurrent', first')
      <4>1. Recent(cookie, lastCurrent', first')
        BY <1>u DEF StaleInv
      <4> QED BY <1>b, <1>t, <4>1, EmptyTypes, RecentShorter
    <3> QED BY <1>u, <3>1 DEF StaleInv
  <2> QED BY <1>u, <2>1 DEF StaleInv
<1>1. CASE Advance
  <2>1. UNCHANGED <<active, first>> /\ clock' = clock + 1 /\ clock' \in Nat
        /\ cookie' = Aged(cookie) /\ ping' = Fresh(ping) /\ orgCache' = Fresh(orgCache)
    BY <1>1, <1>b, AdvanceParts
  <2>2. lastCurrent'[Meant(active', first')] = clock'
    <3>1. lastCurrent' = Current(active, first, clock + 1)
      BY <1>1 DEF Advance
    <3>2. Meant(active, first) \in Org
      BY <1>t DEF Meant
    <3> QED BY <2>1, <3>1, <3>2 DEF Current, Meant
  <2>3. \A c \in Dated : Recent(c, lastCurrent, first) => Recent(c, lastCurrent', first')
    BY <1>b, <2>1, RecentStays
  <2>4. Recent(cookie', lastCurrent', first') /\ Recent(ping', lastCurrent', first')
    <3>1. Recent(cookie, lastCurrent', first') /\ Recent(ping, lastCurrent', first')
      BY <1>t, <2>3 DEF StaleInv
    <3>2. /\ cookie' \in Dated /\ ping' \in Dated
          /\ cookie'.org = cookie.org /\ cookie'.exp \in {0, cookie.exp}
          /\ ping' = ping \/ ping' = NoCookie
      BY <1>b, <1>t, <2>1, AgedType
    <3> QED BY <1>b, <1>t, <3>1, <3>2, RecentShorter
  <2>5. orgCache'.exp # 0 => orgCache'.org = first' /\ first' # 0
    BY <1>b, <1>t, <2>1, AgedType, EmptyTypes DEF StaleInv
  <2>6. ASSUME NEW r \in Req
        PROVE  /\ Recent(rq'[r].cookie, lastCurrent', first')
               /\ rq'[r].pc = "cache" => rq'[r].start <= lastCurrent'[rq'[r].token.org] + CookieTtl
               /\ rq'[r].pc = "call" =>
                    rq'[r].start <= lastCurrent'[rq'[r].token.org] + CookieTtl + TokenTtl + MaxRequest
    <3>1. rq'[r].pc = rq[r].pc /\ rq'[r].start = rq[r].start /\ rq'[r].token = rq[r].token
          /\ rq'[r].cookie = Aged(rq[r].cookie)
      BY <1>1, <1>b, AdvanceParts
    <3>2. rq'[r].cookie \in Dated /\ rq'[r].cookie.org = rq[r].cookie.org
          /\ rq'[r].cookie.exp \in {0, rq[r].cookie.exp}
      BY <1>b, <1>t, <3>1, AgedType
    <3>3. Recent(rq[r].cookie, lastCurrent', first')
      BY <1>t, <2>3 DEF StaleInv
    <3>4. Recent(rq'[r].cookie, lastCurrent', first')
      BY <1>b, <1>t, <3>2, <3>3, RecentShorter
    <3>5. rq[r].token.org \in Org /\ rq[r].start \in Nat
          /\ lastCurrent[rq[r].token.org] <= lastCurrent'[rq[r].token.org]
          /\ lastCurrent[rq[r].token.org] \in Nat /\ lastCurrent'[rq[r].token.org] \in Nat
      BY <1>b, <1>t
    <3> QED BY <3>1, <3>4, <3>5 DEF StaleInv
  <2>7. \A o \in Org : tokens'[o].exp # 0 =>
          tokens'[o].exp <= lastCurrent'[tokens'[o].token.org] + CookieTtl + TokenTtl + MaxRequest
    <3> SUFFICES ASSUME NEW o \in Org, tokens'[o].exp # 0
                 PROVE  tokens'[o].exp <= lastCurrent'[tokens'[o].token.org] + CookieTtl + TokenTtl + MaxRequest
      OBVIOUS
    <3>1. tokens'[o] = tokens[o]
      BY <1>1, <1>b, AdvanceParts, EmptyTypes
    <3>2. tokens[o].token.org \in Org /\ tokens[o].exp \in Nat
          /\ lastCurrent[tokens[o].token.org] <= lastCurrent'[tokens[o].token.org]
          /\ lastCurrent[tokens[o].token.org] \in Nat /\ lastCurrent'[tokens[o].token.org] \in Nat
      BY <1>b, <1>t
    <3> QED BY <3>1, <3>2 DEF StaleInv
  <2> QED BY <2>1, <2>2, <2>4, <2>5, <2>6, <2>7 DEF StaleInv
<1>2. CASE GetSession
  <2>1. UNCHANGED <<clock, active, first, lastCurrent, cookie, tokens, orgCache, rq>>
        /\ ping' = [org |-> active, exp |-> clock + CookieTtl]
    BY <1>2 DEF GetSession
  <2>2. ping'.org = active /\ ping'.exp = clock + CookieTtl
    BY <2>1
  <2>3. Recent(ping', lastCurrent', first')
    BY <1>t, <2>1, <2>2 DEF Recent, StaleInv
  <2> QED BY <2>1, <2>3 DEF StaleInv
<1>3. CASE SetCookie
  <2>1. UNCHANGED <<clock, active, first, lastCurrent, tokens, orgCache, rq>>
        /\ cookie' = ping /\ ping' = NoCookie
    BY <1>3 DEF SetCookie
  <2>2. Recent(cookie', lastCurrent', first')
    BY <2>1 DEF StaleInv
  <2>3. Recent(ping', lastCurrent', first')
    BY <1>b, <1>t, <2>1, <2>2, EmptyTypes, RecentShorter
  <2> QED BY <2>1, <2>2, <2>3 DEF StaleInv
<1>4. CASE AcceptInvitation \/ CreateOrg
  <2>1. /\ active' \in Org /\ first' \in Org
        /\ first # 0 => first' = first
        /\ first = 0 => first' # 0
        /\ first = 0 /\ active = 0 => active' \in {0, first'}
        /\ lastCurrent' = Current(active', first', clock)
        /\ UNCHANGED <<clock, ping, tokens, orgCache, rq>>
    BY <1>4, <1>b, JoinParts
  <2>2. lastCurrent'[Meant(active', first')] = clock'
    BY <1>t, <2>1 DEF Current, Meant
  <2>3. first' # first => lastCurrent'[first'] = clock'
    BY <2>1, <2>2 DEF Meant, StaleInv
  <2>4. \A c \in Dated : Recent(c, lastCurrent, first) => Recent(c, lastCurrent', first')
    BY <1>b, <1>t, <2>1, <2>3, RecentStays
  <2>5. Recent(cookie', lastCurrent', first')
    <3>1. CASE cookie' = cookie
      BY <1>t, <2>4, <3>1 DEF StaleInv
    <3>2. CASE cookie' = [org |-> active', exp |-> clock + CookieTtl]
      <4>1. cookie'.org = active' /\ cookie'.exp = clock + CookieTtl
        BY <3>2
      <4> QED BY <1>t, <2>1, <2>2, <4>1 DEF Recent
    <3> QED BY <1>4, <1>b, <3>1, <3>2, JoinParts
  <2>6. Recent(ping', lastCurrent', first') /\ \A r \in Req : Recent(rq'[r].cookie, lastCurrent', first')
    BY <1>t, <2>1, <2>4 DEF StaleInv
  <2>7. \A r \in Req : /\ rq[r].token.org \in Org /\ rq[r].start \in Nat
                       /\ lastCurrent[rq[r].token.org] <= lastCurrent'[rq[r].token.org]
                       /\ lastCurrent[rq[r].token.org] \in Nat /\ lastCurrent'[rq[r].token.org] \in Nat
    BY <1>b, <1>t
  <2>8. \A o \in Org : /\ tokens[o].token.org \in Org /\ tokens[o].exp \in Nat
                       /\ lastCurrent[tokens[o].token.org] <= lastCurrent'[tokens[o].token.org]
                       /\ lastCurrent[tokens[o].token.org] \in Nat /\ lastCurrent'[tokens[o].token.org] \in Nat
    BY <1>b, <1>t
  <2>9. \A r \in Req :
          /\ rq'[r].pc = "cache" => rq'[r].start <= lastCurrent'[rq'[r].token.org] + CookieTtl
          /\ rq'[r].pc = "call" =>
               rq'[r].start <= lastCurrent'[rq'[r].token.org] + CookieTtl + TokenTtl + MaxRequest
    BY <2>1, <2>7 DEF StaleInv
  <2>10. \A o \in Org : tokens'[o].exp # 0 =>
           tokens'[o].exp <= lastCurrent'[tokens'[o].token.org] + CookieTtl + TokenTtl + MaxRequest
    BY <2>1, <2>8 DEF StaleInv
  <2>11. (active' # 0 => first' # 0) /\ (orgCache'.exp # 0 => orgCache'.org = first' /\ first' # 0)
    BY <2>1 DEF StaleInv
  <2> QED BY <2>2, <2>5, <2>6, <2>9, <2>10, <2>11 DEF StaleInv
<1>5. ASSUME NEW r \in Req, Send(r) PROVE StaleInv'
  <2>1. UNCHANGED <<clock, active, first, lastCurrent, cookie, ping, tokens, orgCache>>
        /\ (\A q \in Req : q # r => rq'[q] = rq[q]) /\ rq' \in [Req -> RqType]
        /\ rq'[r].pc = "session" /\ rq'[r].cookie = cookie
    BY <1>5, <1>b, SendParts
  <2> QED BY <1>u, <2>1 DEF StaleInv
<1>6. ASSUME NEW r \in Req, BearerToken(r) PROVE StaleInv'
  <2> DEFINE o == rq'[r].org
  <2>1. UNCHANGED <<clock, active, first, lastCurrent, cookie, ping, orgCache>>
        /\ (\A q \in Req : q # r => rq'[q] = rq[q]) /\ rq' \in [Req -> RqType]
        /\ rq'[r].cookie = rq[r].cookie /\ rq'[r].start = rq[r].start /\ o \in Org
        /\ (\A p \in Org : tokens'[p] \in {tokens[p], NoEntry}) /\ rq[r].pc = "session"
    BY <1>6, <1>b, BearerParts
  <2>2. \/ rq'[r].pc = "mint"
        \/ rq'[r].pc = "call" /\ clock < tokens[o].exp /\ rq'[r].token = tokens[o].token
    BY <1>6, <1>b, BearerParts
  <2>3. rq[r].start <= clock
    BY <2>1 DEF ValidInv, Busy
  <2> HIDE DEF o
  <2>4. rq'[r].pc = "call" =>
          rq'[r].start <= lastCurrent[rq'[r].token.org] + CookieTtl + TokenTtl + MaxRequest
    <3> SUFFICES ASSUME rq'[r].pc = "call"
                 PROVE  rq[r].start <= lastCurrent[tokens[o].token.org] + CookieTtl + TokenTtl + MaxRequest
      BY <2>1, <2>2
    <3>1. clock < tokens[o].exp /\ tokens[o].exp \in Nat /\ tokens[o].token.org \in Org
      BY <1>t, <2>1, <2>2
    <3>2. tokens[o].exp <= lastCurrent[tokens[o].token.org] + CookieTtl + TokenTtl + MaxRequest
      BY <1>t, <2>1, <3>1 DEF StaleInv
    <3>3. lastCurrent[tokens[o].token.org] \in Nat /\ rq[r].start \in Nat /\ clock \in Nat
      BY <1>t, <3>1
    <3> DEFINE l == lastCurrent[tokens[o].token.org]  e == tokens[o].exp  b == rq[r].start
    <3> HIDE DEF l, e, b
    <3>4. clock < e /\ e \in Nat /\ l \in Nat /\ b \in Nat /\ clock \in Nat /\ b <= clock
          /\ e <= l + CookieTtl + TokenTtl + MaxRequest
      BY <2>3, <3>1, <3>2, <3>3 DEF l, e, b
    <3>5. b <= l + CookieTtl + TokenTtl + MaxRequest
      BY <3>4
    <3> QED BY <3>5 DEF l, b
  <2>5. \A p \in Org : tokens'[p].exp # 0 =>
          tokens'[p].exp <= lastCurrent[tokens'[p].token.org] + CookieTtl + TokenTtl + MaxRequest
    BY <2>1, EmptyTypes DEF StaleInv
  <2>6. rq'[r].pc # "cache"
    BY <2>2
  <2> QED BY <1>u, <2>1, <2>4, <2>5, <2>6
<1>7. ASSUME NEW r \in Req, Mint(r) PROVE StaleInv'
  <2>1. UNCHANGED <<clock, active, first, lastCurrent, cookie, ping, tokens>> /\ rq[r].pc = "mint"
        /\ (\A q \in Req : q # r => rq'[q] = rq[q]) /\ rq' \in [Req -> RqType]
    BY <1>7, <1>b, MintParts
  <2>2. orgCache'.exp # 0 => orgCache'.org = first /\ first # 0
    BY <1>7, <1>b, MintParts DEF StaleInv
  <2> DEFINE s == SessionOrg(r)
  <2>3. CASE rq'[r] = Done
    <3>1. Recent(rq'[r].cookie, lastCurrent', first')
      <4>1. Recent(cookie, lastCurrent', first')
        BY <2>1 DEF StaleInv
      <4>2. Recent(NoCookie, lastCurrent', first')
        BY <1>b, <1>t, <4>1, EmptyTypes, RecentShorter
      <4> QED BY <2>3, <4>2, EmptyTypes
    <3> QED BY <2>1, <2>2, <2>3, <3>1, EmptyTypes DEF StaleInv
  <2>4. CASE rq'[r] # Done
    <3>1. rq'[r].pc = "cache" /\ rq'[r].start = rq[r].start /\ rq'[r].cookie = rq[r].cookie
          /\ rq'[r].token = [org |-> DefinePayload(s), exp |-> clock + JwtLife]
      BY <1>7, <1>b, <2>4, MintParts
    <3>2. DefinePayload(s) = Meant(s, first)
      BY <1>t DEF DefinePayload, Meant, FirstOrg, StaleInv, Dated
    <3>3. clock <= lastCurrent[Meant(s, first)] + CookieTtl
      <4>1. CASE clock < rq[r].cookie.exp
        <5>1. s = rq[r].cookie.org
          BY <4>1 DEF SessionOrg
        <5>2. rq[r].cookie.exp <= lastCurrent[Meant(s, first)] + CookieTtl
          BY <5>1 DEF StaleInv, Recent
        <5>3. Meant(s, first) \in Org
          BY <1>t, <5>1 DEF Meant
        <5> DEFINE l == lastCurrent[Meant(s, first)]  e == rq[r].cookie.exp
        <5> HIDE DEF s, l, e
        <5>4. l \in Nat /\ e \in Nat /\ clock \in Nat /\ clock < e /\ e <= l + CookieTtl
          BY <1>t, <4>1, <5>2, <5>3 DEF l, e
        <5>5. clock <= l + CookieTtl
          BY <5>4
        <5> QED BY <5>5 DEF l
      <4>2. CASE ~(clock < rq[r].cookie.exp)
        <5>1. s = active
          BY <4>2 DEF SessionOrg
        <5> QED BY <1>t, <5>1 DEF StaleInv
      <4> QED BY <4>1, <4>2
    <3>4. Meant(s, first) \in Org
      BY <1>t DEF Meant, SessionOrg
    <3>5. rq[r].start <= clock
      BY <2>1 DEF ValidInv, Busy
    <3>6. rq'[r].token.org = Meant(s, first)
      BY <3>1, <3>2
    <3> HIDE DEF s
    <3>7. rq'[r].start <= lastCurrent[rq'[r].token.org] + CookieTtl
      <4> DEFINE l == lastCurrent[Meant(s, first)]  b == rq[r].start
      <4> HIDE DEF l, b
      <4>1. l \in Nat /\ b \in Nat /\ clock \in Nat /\ b <= clock /\ clock <= l + CookieTtl
        BY <1>t, <3>3, <3>4, <3>5 DEF l, b
      <4>2. b <= l + CookieTtl
        BY <4>1
      <4> QED BY <3>1, <3>6, <4>2 DEF l, b
    <3> QED BY <2>1, <2>2, <3>1, <3>7 DEF StaleInv
  <2> QED BY <2>3, <2>4
<1>8. ASSUME NEW r \in Req, CacheToken(r) PROVE StaleInv'
  <2>1. rq[r].pc = "cache" /\ UNCHANGED <<clock, active, first, lastCurrent, cookie, ping, orgCache>>
        /\ (\A q \in Req : q # r => rq'[q] = rq[q]) /\ rq' \in [Req -> RqType]
        /\ rq'[r].pc = "call" /\ rq'[r].start = rq[r].start /\ rq'[r].cookie = rq[r].cookie
        /\ rq'[r].token = rq[r].token
    BY <1>8, <1>b, CacheParts
  <2>2. \A o \in Org : \/ tokens'[o] = tokens[o]
                       \/ tokens'[o].token = rq[r].token /\ tokens'[o].exp = clock + TokenTtl
    BY <1>8, <1>b, CacheParts
  <2>3. clock <= rq[r].start + MaxRequest /\ rq[r].start <= lastCurrent[rq[r].token.org] + CookieTtl
    BY <2>1 DEF ValidInv, Busy, StaleInv
  <2>4. lastCurrent[rq[r].token.org] \in Nat /\ rq[r].start \in Nat
    BY <1>t
  <2>5. /\ rq[r].start <= lastCurrent[rq[r].token.org] + CookieTtl + TokenTtl + MaxRequest
        /\ clock + TokenTtl <= lastCurrent[rq[r].token.org] + CookieTtl + TokenTtl + MaxRequest
    BY <1>t, <2>3, <2>4
  <2>6. \A o \in Org : tokens'[o].exp # 0 =>
          tokens'[o].exp <= lastCurrent[tokens'[o].token.org] + CookieTtl + TokenTtl + MaxRequest
    BY <2>2, <2>5 DEF StaleInv
  <2> QED BY <1>u, <2>1, <2>5, <2>6
<1>9. ASSUME NEW r \in Req, ApiFetch(r) PROVE StaleInv'
  <2>1. UNCHANGED <<clock, active, first, lastCurrent, cookie, ping, tokens, orgCache>>
        /\ (\A q \in Req : q # r => rq'[q] = rq[q]) /\ rq' \in [Req -> RqType]
        /\ rq'[r].pc = "done" /\ rq'[r].cookie = NoCookie
    BY <1>9, <1>b, SessionTypes, EmptyTypes DEF ApiFetch
  <2> QED BY <1>u, <2>1 DEF StaleInv
<1>10. CASE UNCHANGED sessionVars
  BY <1>10 DEF sessionVars, StaleInv
<1> QED BY <1>1, <1>2, <1>3, <1>4, <1>5, <1>6, <1>7, <1>8, <1>9, <1>10 DEF SessionNext

\* The organisation of a token was the user's no longer ago than the lives of
\* the cookie and of a cache entry and two requests.
THEOREM StalenessBounded == SessionSpec => []StaleOrgBounded
<1>1. SessionInit => StaleInv
  <2> SUFFICES ASSUME SessionInit PROVE StaleInv
    OBVIOUS
  <2>1. /\ clock \in Nat /\ first \in Org /\ active \in Org /\ 0 \in Org
        /\ \A o \in Org : lastCurrent[o] = clock
    BY DEF SessionInit, Org
  <2>2. cookie.org = active /\ cookie.exp = clock + CookieTtl /\ ping = NoCookie /\ orgCache = NoCookie
        /\ (active # 0 => first # 0)
    BY DEF SessionInit
  <2>3. \A r \in Req : rq[r].pc = "idle" /\ rq[r].cookie = NoCookie
    BY EmptyTypes DEF SessionInit, Done
  <2>4. \A o \in Org : tokens[o].exp = 0
    BY EmptyTypes DEF SessionInit
  <2>5. Meant(active, first) \in Org /\ Meant(0, first) \in Org
    BY <2>1 DEF Meant
  <2> QED BY <2>1, <2>2, <2>3, <2>4, <2>5, EmptyTypes DEF StaleInv, Recent
<1>2. BaseInv /\ ValidInv /\ StaleInv => StaleOrgBounded
  <2> SUFFICES ASSUME BaseInv, ValidInv, StaleInv, NEW r \in Req, rq[r].pc = "call"
               PROVE  clock <= lastCurrent[rq[r].token.org] + CookieTtl + TokenTtl + 2 * MaxRequest
    BY DEF StaleOrgBounded
  <2>1. clock \in Nat /\ rq[r].start \in Nat /\ lastCurrent[rq[r].token.org] \in Nat
    BY NatTypes DEF BaseInv
  <2>2. clock <= rq[r].start + MaxRequest
        /\ rq[r].start <= lastCurrent[rq[r].token.org] + CookieTtl + TokenTtl + MaxRequest
    BY DEF ValidInv, Busy, StaleInv
  <2> QED BY <2>1, <2>2
<1> QED BY <1>1, <1>2, StepStale, BaseInvariant, ValidInvariant, PTL DEF SessionSpec
=============================================================================
