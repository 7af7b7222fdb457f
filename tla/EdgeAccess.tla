----------------------------- MODULE EdgeAccess -----------------------------
(***************************************************************************)
(* Who may see a gated site, and how that is taken back.                   *)
(*                                                                         *)
(* A viewer exchanges a session JWT (or the site's password) at the API    *)
(* for a short-lived edge token; the serving Worker accepts the token while*)
(* it is unexpired, carries the route's access mode and is not denylisted. *)
(* A denylist entry revoked:<kind>:<id> holds a min_iat, in seconds, and   *)
(* rejects the tokens issued before it; the API writes it with a GET and a *)
(* PUT on a key-value store that has no conditional write.  Admins change  *)
(* access, switch external sharing, revoke and remove members while mints  *)
(* are in flight, and any call to the store may fail.                      *)
(*                                                                         *)
(* One site of one org.  Time is the API's clock in whole seconds, the     *)
(* precision of iat and min_iat; time 0 is "never".                        *)
(***************************************************************************)
EXTENDS Integers

CONSTANTS
    User,        \* accounts of the identity provider
    External,    \* users whose e-mail domain is not a verified org domain
    Admin,       \* admin requests that may run at the same time
    Anon,        \* subject of the tokens that a password buys
    SiteKey,     \* revoked:site:<siteId>
    OrgKey,      \* revoked:org:<orgId>
    NoKey,       \* the key of an idle admin request
    TTL,         \* edgetoken.DefaultTTL
    MaxNow,      \* bound on the clock
    Faults       \* whether calls may fail

Subject == User \cup {Anon}
DenyKey == Subject \cup {SiteKey, OrgKey}

ASSUME EdgeAssumption ==
    /\ External \subseteq User
    /\ Anon \notin User
    /\ {SiteKey, OrgKey, NoKey} \cap Subject = {} /\ NoKey \notin DenyKey
    /\ TTL \in Nat /\ MaxNow \in Nat \ {0}
    /\ Faults \in BOOLEAN

VARIABLES
    now,          \* time.Now().Unix()
    members,      \* identity.member
    allowlist,    \* app.allowlist_entries of the site, by user
    externalOK,   \* app.org_meta.allow_external_sharing
    mode,         \* the access policy's mode in the database
    route,        \* access_mode of the route:<host> entry in the store
    denylist,     \* min_iat of every revoked: entry, 0 when absent
    jwt,          \* iat of the session JWT each user holds, 0 for none
    mint,         \* one token exchange in progress per user
    cookie,       \* the __Host-edge cookie of each user's browser
    op,           \* one admin request in progress per admin
    settled       \* history: the largest min_iat acknowledged for a key while
                  \* no earlier-stamped write for the key was in flight

policyVars == <<members, allowlist, externalOK, mode>>
storeVars == <<route, denylist>>
viewerVars == <<jwt, mint, cookie>>
accessVars == <<now, policyVars, storeVars, viewerVars, op, settled>>

Second == 0..MaxNow
TokenMode == {"password", "allowlist", "org_only"}
Mode == TokenMode \cup {"public"}

NoCookie == [sub |-> Anon, mode |-> "none", iat |-> 0]
IdleMint == [pc |-> "idle", sub |-> Anon, mode |-> "none", jwt |-> 0, due |-> {}]
IdleOp == [pc |-> "idle", key |-> NoKey, route |-> "none", minIAT |-> 0, removal |-> FALSE]

Cookie == [sub : Subject, mode : TokenMode \cup {"none"}, iat : Second]
MintRequest ==
    [pc : {"idle", "user", "site", "org", "sign"}, sub : Subject,
     mode : TokenMode \cup {"none"}, jwt : Second,
     due : SUBSET DenyKey]         \* history: keys settled above jwt when it began
AdminRequest ==
    [pc : {"idle", "routes", "finalize", "stamp", "read", "write"},
     key : DenyKey \cup {NoKey}, route : Mode \cup {"none"},
     minIAT : Second,            \* of the write; until it is stamped, when a removal began
     removal : BOOLEAN]        \* runs for removeMemberAction

(* The type invariant; no denylist entry and no token is dated after now.  *)
AccessTypeOK ==
    /\ now \in Second \ {0}
    /\ members \subseteq User /\ allowlist \subseteq User
    /\ externalOK \in BOOLEAN /\ mode \in Mode /\ route \in Mode
    /\ denylist \in [DenyKey -> 0..now] /\ settled \in [DenyKey -> 0..now]
    /\ jwt \in [User -> 0..now]
    /\ mint \in [User -> MintRequest]
    /\ cookie \in [User -> Cookie] /\ \A u \in User : cookie[u].iat <= now
    /\ op \in [Admin -> AdminRequest] /\ \A a \in Admin : op[a].minIAT <= now

AccessInit ==
    /\ now = 1
    /\ members = User
    /\ allowlist = {}
    /\ externalOK = FALSE
    /\ mode = "org_only"
    /\ route = "org_only"
    /\ denylist = [k \in DenyKey |-> 0]
    /\ jwt = [u \in User |-> 0]
    /\ mint = [u \in User |-> IdleMint]
    /\ cookie = [u \in User |-> NoCookie]
    /\ op = [a \in Admin |-> IdleOp]
    /\ settled = [k \in DenyKey |-> 0]

-----------------------------------------------------------------------------
(* The edge gate.                                                          *)

\* denylistKeys: the three entries that can revoke a token.
DenylistKeys(sub) == {sub, SiteKey, OrgKey}

\* Mutant: an entry revokes whatever its min_iat says.
IsRevoked_AnyEntry(c) == \E k \in DenylistKeys(c.sub) : denylist[k] > 0

\* isRevoked, when its reads succeed; a failed read rejects.
IsRevoked(c) == \E k \in DenylistKeys(c.sub) : denylist[k] > c.iat

\* verifyEdgeToken: unexpired and minted for the route's mode.
VerifyEdgeToken(c) == now < c.iat + TTL /\ c.mode = route

\* serveGated shows the site to the bearer of c.
ServeGated(c) == VerifyEdgeToken(c) /\ ~IsRevoked(c)

-----------------------------------------------------------------------------
(* The token exchange.                                                     *)

\* The identity provider issues a JWT to a user who signs in.
SignIn(u) ==
    /\ jwt' = [jwt EXCEPT ![u] = now]
    /\ UNCHANGED <<now, policyVars, storeVars, mint, cookie, op, settled>>

\* The live check of AuthorizeMint.
Authorized(u) ==
    \/ mode = "org_only" /\ u \in members
    \/ mode = "allowlist" /\ u \in allowlist /\ (u \in External => externalOK)

AuthorizeMint(u) ==
    /\ mint[u].pc = "idle"
    /\ jwt[u] > 0
    /\ Authorized(u)
    /\ mint' = [mint EXCEPT ![u] =
          [pc |-> "user", sub |-> u, mode |-> mode, jwt |-> jwt[u],
           due |-> {k \in DenylistKeys(u) : settled[k] > jwt[u]}]]
    /\ UNCHANGED <<now, policyVars, storeVars, jwt, cookie, op, settled>>

\* AuthzPassword: the password matches; no identity and no denylist check.
ResolveForPassword(u) ==
    /\ mint[u].pc = "idle"
    /\ mode = "password"
    /\ mint' = [mint EXCEPT ![u] =
          [pc |-> "sign", sub |-> Anon, mode |-> mode, jwt |-> 0, due |-> {}]]
    /\ UNCHANGED <<now, policyVars, storeVars, jwt, cookie, op, settled>>

\* The order in which mintBlockedByRevocation looks the keys up.
LookupKey(m) ==
    CASE m.pc = "user" -> m.sub
      [] m.pc = "site" -> SiteKey
      [] OTHER -> OrgKey

NextLookup(pc) ==
    CASE pc = "user" -> "site"
      [] pc = "site" -> "org"
      [] OTHER -> "sign"

\* Mutant: the entry is compared with the iat that the new token would get.
LookupBlocks_TokenIAT(m) == denylist[LookupKey(m)] > now

\* The entry looked up is later than the JWT that asks.
LookupBlocks(m) == denylist[LookupKey(m)] > m.jwt

\* One round of mintBlockedByRevocation.
LookupRevoked(u) ==
    /\ mint[u].pc \in {"user", "site", "org"}
    /\ mint' = [mint EXCEPT ![u] =
          IF LookupBlocks(mint[u]) THEN IdleMint
                                   ELSE [mint[u] EXCEPT !.pc = NextLookup(mint[u].pc)]]
    /\ UNCHANGED <<now, policyVars, storeVars, jwt, cookie, op, settled>>

\* EdgeSigner.Mint reads the clock; the callback stores the cookie.
Mint(u) ==
    /\ mint[u].pc = "sign"
    /\ cookie' = [cookie EXCEPT ![u] = [sub |-> mint[u].sub, mode |-> mint[u].mode, iat |-> now]]
    /\ mint' = [mint EXCEPT ![u] = IdleMint]
    /\ UNCHANGED <<now, policyVars, storeVars, jwt, op, settled>>

\* A failed lookup denies, and a browser may go away.
MintFails(u) ==
    /\ Faults
    /\ mint[u].pc # "idle"
    /\ mint' = [mint EXCEPT ![u] = IdleMint]
    /\ UNCHANGED <<now, policyVars, storeVars, jwt, cookie, op, settled>>

-----------------------------------------------------------------------------
(* Admin requests.                                                         *)

Begin(a, pc, k, r) ==
    /\ op[a].pc = "idle"
    /\ op' = [op EXCEPT ![a] = [pc |-> pc, key |-> k, route |-> r, minIAT |-> 0, removal |-> FALSE]]

\* RevokeMember, RevokeSiteAccess and RevokeAccess: a user must be a member now.
RevokeAccess(a, k) ==
    /\ k \in User => k \in members
    /\ Begin(a, "stamp", k, "none")
    /\ UNCHANGED <<now, policyVars, storeVars, viewerVars, settled>>

\* The transaction of SetSiteAccess; the trigger refuses public without
\* external sharing.
SetSiteAccess(a, m) ==
    /\ m = "public" => externalOK
    /\ mode' = m
    /\ Begin(a, "routes", SiteKey, m)
    /\ UNCHANGED <<now, members, allowlist, externalOK, storeVars, viewerVars, settled>>

\* SetAllowExternalSharing(true) widens and has nothing to reconcile.
EnableExternalSharing(a) ==
    /\ op[a].pc = "idle"
    /\ externalOK' = TRUE
    /\ UNCHANGED <<now, members, allowlist, mode, storeVars, viewerVars, op, settled>>

\* SetAllowExternalSharing(false): a public site becomes org_only and its route
\* is rewritten, external grants go, the org key is revoked.
DisableExternalSharing(a) ==
    /\ externalOK' = FALSE
    /\ allowlist' = allowlist \ External
    /\ IF mode = "public"
       THEN mode' = "org_only" /\ Begin(a, "routes", OrgKey, "org_only")
       ELSE mode' = mode /\ Begin(a, "stamp", OrgKey, "none")
    /\ UNCHANGED <<now, members, storeVars, viewerVars, settled>>

\* PutRoute, for every host of the site.
PutRoute(a) ==
    /\ op[a].pc = "routes"
    /\ route' = op[a].route
    /\ op' = [op EXCEPT ![a].pc = "stamp"]
    /\ UNCHANGED <<now, policyVars, denylist, viewerVars, settled>>

\* removeMemberAction: the identity provider deletes the member row first.
RemoveMember(a, u) ==
    /\ op[a].pc = "idle"
    /\ u \in members
    /\ members' = members \ {u}
    /\ op' = [op EXCEPT ![a] =
          [pc |-> "finalize", key |-> u, route |-> "none", minIAT |-> now, removal |-> TRUE]]
    /\ UNCHANGED <<now, allowlist, externalOK, mode, storeVars, viewerVars, settled>>

\* finalizeMemberRevocation calls RevokeAccess, whose requireTargetOrgMember
\* answers 404 unless the user has joined again.
FinalizeMemberRevocation(a) ==
    /\ op[a].pc = "finalize"
    /\ op' = [op EXCEPT ![a] = IF @.key \in members THEN [@ EXCEPT !.pc = "stamp"] ELSE IdleOp]
    /\ UNCHANGED <<now, policyVars, storeVars, viewerVars, settled>>

\* Mutant: min_iat is the first second after now.
Stamp_NextSecond(a) ==
    /\ op[a].pc = "stamp"
    /\ op' = [op EXCEPT ![a] = [@ EXCEPT !.pc = "read", !.minIAT = now + 1]]
    /\ UNCHANGED <<now, policyVars, storeVars, viewerVars, settled>>

\* minIAT := time.Now().Unix()
Stamp(a) ==
    /\ op[a].pc = "stamp"
    /\ op' = [op EXCEPT ![a] = [@ EXCEPT !.pc = "read", !.minIAT = now]]
    /\ UNCHANGED <<now, policyVars, storeVars, viewerVars, settled>>

\* History: the revocation is acknowledged.  An earlier-stamped write for the
\* key, if one is in flight, can still replace the entry.
Acknowledge(a) ==
    LET k == op[a].key
        alone == \A b \in Admin \ {a} :
            op[b].pc \in {"read", "write"} /\ op[b].key = k => op[b].minIAT >= op[a].minIAT
    IN  settled' = IF alone /\ settled[k] < op[a].minIAT
                   THEN [settled EXCEPT ![k] = op[a].minIAT] ELSE settled

\* Mutant: an entry that exists is never replaced.
RevokeMustWrite_IfAbsent(a) == denylist[op[a].key] = 0

\* The entry is missing or too early.
RevokeMustWrite(a) == denylist[op[a].key] < op[a].minIAT

\* Revoke's GET: an entry that is late enough is kept.
RevokeKept(a) ==
    /\ op[a].pc = "read"
    /\ ~RevokeMustWrite(a)
    /\ Acknowledge(a)
    /\ op' = [op EXCEPT ![a] = IdleOp]
    /\ UNCHANGED <<now, policyVars, storeVars, viewerVars>>

\* Revoke's GET: otherwise, and when the read fails, it goes on to the PUT.
RevokeRead(a) ==
    /\ op[a].pc = "read"
    /\ RevokeMustWrite(a) \/ Faults
    /\ op' = [op EXCEPT ![a].pc = "write"]
    /\ UNCHANGED <<now, policyVars, storeVars, viewerVars, settled>>

\* Revoke's PUT.
RevokeWrite(a) ==
    /\ op[a].pc = "write"
    /\ denylist' = [denylist EXCEPT ![op[a].key] = op[a].minIAT]
    /\ Acknowledge(a)
    /\ op' = [op EXCEPT ![a] = IdleOp]
    /\ UNCHANGED <<now, policyVars, route, viewerVars>>

\* The PUT reached the store and its answer was lost: nobody is told.
RevokeAnswerLost(a) ==
    /\ Faults
    /\ op[a].pc = "write"
    /\ denylist' = [denylist EXCEPT ![op[a].key] = op[a].minIAT]
    /\ op' = [op EXCEPT ![a] = IdleOp]
    /\ UNCHANGED <<now, policyVars, route, viewerVars, settled>>

\* A failed store call ends the request where it is: a failed PutRoute returns
\* before the revocation, a failed Revoke is logged or reported.
RequestFails(a) ==
    /\ Faults
    /\ op[a].pc # "idle"
    /\ op' = [op EXCEPT ![a] = IdleOp]
    /\ UNCHANGED <<now, policyVars, storeVars, viewerVars, settled>>

\* The allowlist handlers write the database only.
AddAllowlistEntry(u) ==
    /\ u \in External => externalOK
    /\ allowlist' = allowlist \cup {u}
    /\ UNCHANGED <<now, members, externalOK, mode, storeVars, viewerVars, op, settled>>

RemoveAllowlistEntry(u) ==
    /\ allowlist' = allowlist \ {u}
    /\ UNCHANGED <<now, members, externalOK, mode, storeVars, viewerVars, op, settled>>

\* An invitation is accepted at the identity provider.
Join(u) ==
    /\ members' = members \cup {u}
    /\ UNCHANGED <<now, allowlist, externalOK, mode, storeVars, viewerVars, op, settled>>

AccessTick ==
    /\ now < MaxNow
    /\ now' = now + 1
    /\ UNCHANGED <<policyVars, storeVars, viewerVars, op, settled>>

-----------------------------------------------------------------------------
ViewerNext == \E u \in User :
    \/ SignIn(u) \/ AuthorizeMint(u) \/ ResolveForPassword(u)
    \/ LookupRevoked(u) \/ Mint(u) \/ MintFails(u)

\* What an administrator, or a user who accepts an invitation, sets off.
AdminBegins ==
    \/ \E a \in Admin :
        \/ \E k \in User \cup {SiteKey, OrgKey} : RevokeAccess(a, k)
        \/ \E m \in Mode : SetSiteAccess(a, m)
        \/ EnableExternalSharing(a) \/ DisableExternalSharing(a)
        \/ \E u \in User : RemoveMember(a, u)
    \/ \E u \in User : AddAllowlistEntry(u) \/ RemoveAllowlistEntry(u) \/ Join(u)

\* The rest of an admin request.
AdminContinues == \E a \in Admin :
    \/ FinalizeMemberRevocation(a) \/ PutRoute(a)
    \/ Stamp(a) \/ RevokeKept(a) \/ RevokeRead(a) \/ RevokeWrite(a)
    \/ RevokeAnswerLost(a) \/ RequestFails(a)

AccessNext == ViewerNext \/ AdminBegins \/ AdminContinues \/ AccessTick

AccessSpec == AccessInit /\ [][AccessNext]_accessVars

-----------------------------------------------------------------------------
(* Safety.                                                                 *)

(* Once a revocation is acknowledged, and no write stamped earlier for the  *)
(* same key was still in flight, the Worker never again serves a token that *)
(* was issued before its min_iat - whatever reads and writes of the         *)
(* denylist fail, overlap or repeat afterwards (cloudflare.go Revoke,       *)
(* revoke.ts isRevoked).                                                   *)
RevokedTokensRejected ==
    \A u \in User : \A k \in DenylistKeys(cookie[u].sub) :
        cookie[u].iat < settled[k] => ~ServeGated(cookie[u])

(* A JWT issued before a revocation that had settled when the exchange      *)
(* began never buys a new edge token, although the token's own iat would    *)
(* pass the edge check (authz.go mintBlockedByRevocation).                 *)
NoRemintAfterRevocation ==
    [][\A u \in User : mint[u].due # {} => cookie'[u] = cookie[u]]_accessVars

(* Revocation never locks a viewer out: from the second after the stamp on, *)
(* a token signed for the route's mode is served, so signing in again ends  *)
(* the redirect between Worker and exchange, whatever admins revoke, switch *)
(* or write blindly meanwhile (min_iat is never in the future).  The second *)
(* of the stamp itself is left open: revoke.ts compares with >, which lets  *)
(* its tokens in, under a comment that says they are revoked.              *)
FreshTokenServed ==
    \A u \in User :
        /\ cookie[u].iat = now /\ cookie[u].mode = route /\ TTL > 0
        /\ \A k \in DenylistKeys(cookie[u].sub) : denylist[k] # now
        => ServeGated(cookie[u])

(* cloudflare.go: "the worst case is a redundant write, never a loosened    *)
(* denylist".                                                              *)
DenylistOnlyTightens == [][\A k \in DenyKey : denylist'[k] >= denylist[k]]_accessVars

(* members/actions.ts: once a member is removed, "every edge token they     *)
(* hold is rejected immediately at the serving Worker".                    *)
RemovedMemberRejected ==
    [][\A a \in Admin, u \in User :
          /\ op[a].removal /\ ~op'[a].removal
          /\ cookie[u].sub = op[a].key /\ cookie[u].iat < op[a].minIAT
          => ~ServeGated(cookie[u])']_accessVars

=============================================================================
