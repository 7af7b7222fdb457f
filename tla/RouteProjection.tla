-------------------------- MODULE RouteProjection --------------------------
(***************************************************************************)
(* How one site's routes reach the edge.                                   *)
(*                                                                         *)
(* Postgres is authoritative.  A handler commits a transaction and then    *)
(* writes route:<host> to Workers KV for every host of the site, one call  *)
(* at a time, without a lock: handlers overlap, a write fails, the process *)
(* stops.  The transaction reads the site row first and does not lock it,  *)
(* so the route it returns may carry the mode or the version another       *)
(* transaction has just replaced.  RebuildFromDB writes the whole table    *)
(* from a snapshot.  Preview hosts and the routes' plan tier and chat id   *)
(* are left out.                                                           *)
(***************************************************************************)
EXTENDS Naturals

CONSTANTS
    Host,         \* the site's hosts
    Canonical,    \* the host the site has from the start; the others are custom domains
    Version,      \* the site's versions
    Handler,      \* handlers that may run at the same time
    None,         \* no version, no route
    MaxRequests,  \* bound on the requests of a behaviour
    MaxFailures   \* bound on the failed calls and stopped processes

Mode == {"public", "org_only"}
Route == [version : Version, mode : Mode, exp : BOOLEAN]

ASSUME ProjectionAssumption ==
    Canonical \in Host /\ None \notin Version \cup Route /\ MaxRequests \in Nat /\ MaxFailures \in Nat

VARIABLES
    site,         \* the row of app.sites with its access policy
    hosts,        \* the site's rows in app.host_routes
    kv,           \* route:<host> in Workers KV
    req,          \* each request
    rebuild,      \* RebuildFromDB
    started,      \* number of requests started
    failures,     \* number of failures
    raced,        \* history: handlers overlapped or failed since the last undisturbed rebuild
    published,    \* history: versions published
    modes,        \* history: modes in force
    registered    \* history: hosts registered

dbVars == <<site, hosts, published, modes, registered>>
projectionVars == <<dbVars, kv, req, rebuild, started, failures, raced>>

Custom == Host \ {Canonical}

SiteRow == [live : Version \cup {None}, mode : Mode, exp : BOOLEAN, gone : BOOLEAN]
NewSite == [live |-> None, mode |-> "public", exp |-> FALSE, gone |-> FALSE]
NoReq == [pc |-> "idle", seen |-> NewSite, todo |-> {}, val |-> None]
NoRebuild == [pc |-> "idle", snap |-> [h \in Host |-> None], todo |-> {}, alone |-> FALSE]

ProjectionInit ==
    /\ site = NewSite /\ hosts = {Canonical}
    /\ kv = [h \in Host |-> None]
    /\ req = [r \in Handler |-> NoReq] /\ rebuild = NoRebuild
    /\ started = 0 /\ failures = 0 /\ raced = FALSE
    /\ published = {} /\ modes = {"public"} /\ registered = {Canonical}

-----------------------------------------------------------------------------
\* routeExpiry: only public links expire at the edge.
RouteExpiry(mode, exp) == mode = "public" /\ exp

\* Mutant: a site without a live version gets a route.
RouteValue_Unpublished(version, mode, exp) ==
    [version |-> version, mode |-> mode, exp |-> RouteExpiry(mode, exp)]

RouteValue(version, mode, exp) ==
    IF version = None THEN None ELSE [version |-> version, mode |-> mode, exp |-> RouteExpiry(mode, exp)]

\* Mutant: a rebuild projects the canonical host only.
Collected_CanonicalOnly(s, hs) ==
    [h \in Host |-> IF h = Canonical THEN RouteValue(s.live, s.mode, s.exp) ELSE None]

\* CollectRoutesForOrg: every registered host of a published site.
Collected(s, hs) ==
    [h \in Host |-> IF h \in hs THEN RouteValue(s.live, s.mode, s.exp) ELSE None]

Desired(h) == IF h \in hosts THEN RouteValue(site.live, site.mode, site.exp) ELSE None

Idle(r) == req[r].pc = "idle"

\* The transaction's first read of the site; a site that is gone is not found.
\* Which request it is shows when it commits.
Begin(r) ==
    /\ Idle(r) /\ started < MaxRequests /\ ~site.gone
    /\ req' = [req EXCEPT ![r] = [NoReq EXCEPT !.pc = "read", !.seen = site]]
    /\ started' = started + 1
    /\ raced' = (raced \/ rebuild.pc # "idle" \/ \E q \in Handler : ~Idle(q))
    /\ rebuild' = [rebuild EXCEPT !.alone = FALSE]
    /\ UNCHANGED <<dbVars, kv, failures>>

\* The transaction commits; hs are the hosts to write, val the route for each.
Project(r, hs, val) ==
    req' = [req EXCEPT ![r] = IF hs = {} THEN NoReq
                              ELSE [NoReq EXCEPT !.pc = "write", !.todo = hs, !.val = val]]

Commits(r) == req[r].pc = "read" /\ ~site.gone

\* Mutant: the route is projected although the pointer flip is rolled back.
Publish_RolledBack(r) ==
    /\ Commits(r)
    /\ \E v \in Version : Project(r, hosts, RouteValue(v, req[r].seen.mode, site.exp))
    /\ UNCHANGED <<dbVars, kv, rebuild, started, failures, raced>>

\* Store.Publish flips the pointer; the mode in the route is the one read first.
Publish(r) ==
    /\ Commits(r)
    /\ \E v \in Version :
        /\ site' = [site EXCEPT !.live = v]
        /\ published' = published \cup {v}
        /\ Project(r, hosts, RouteValue(v, req[r].seen.mode, site.exp))
    /\ UNCHANGED <<hosts, modes, registered, kv, rebuild, started, failures, raced>>

SetMode(r, mode, exp) ==
    /\ site' = [site EXCEPT !.mode = mode, !.exp = exp]
    /\ modes' = modes \cup {mode}
    /\ Project(r, IF req[r].seen.live = None THEN {} ELSE hosts, RouteValue(req[r].seen.live, mode, exp))
    /\ UNCHANGED <<hosts, published, registered, kv, rebuild, started, failures, raced>>

\* Mutant: an access change rewrites the canonical host only.
SetAccess_CanonicalOnly(r) ==
    /\ Commits(r)
    /\ \E mode \in Mode, exp \in BOOLEAN :
        /\ site' = [site EXCEPT !.mode = mode, !.exp = exp]
        /\ modes' = modes \cup {mode}
        /\ Project(r, IF req[r].seen.live = None THEN {} ELSE {Canonical},
                   RouteValue(req[r].seen.live, mode, exp))
    /\ UNCHANGED <<hosts, published, registered, kv, rebuild, started, failures, raced>>

\* SetSiteAccess: the version in the route is the one read first.
SetAccess(r) == Commits(r) /\ \E mode \in Mode, exp \in BOOLEAN : SetMode(r, mode, exp)

\* SetAllowExternalSharing(false) lists the public sites, then makes them org_only.
Downgrade(r) == Commits(r) /\ req[r].seen.mode = "public" /\ SetMode(r, "org_only", FALSE)

\* SiteChatRoutes, ReprojectOrgRoutes: the routes again, nothing committed.
Reproject(r) ==
    /\ Commits(r)
    /\ LET s == req[r].seen
       IN Project(r, IF s.live = None THEN {} ELSE hosts, RouteValue(s.live, s.mode, s.exp))
    /\ UNCHANGED <<dbVars, kv, rebuild, started, failures, raced>>

\* UpdateDomainStatus registers the host; its route is the site read first,
\* without the expiry.
VerifyDomain(r) ==
    /\ Commits(r)
    /\ \E h \in Custom :
        /\ hosts' = hosts \cup {h}
        /\ registered' = registered \cup {h}
        /\ Project(r, IF req[r].seen.live = None THEN {} ELSE {h},
                   RouteValue(req[r].seen.live, req[r].seen.mode, FALSE))
    /\ UNCHANGED <<site, published, modes, kv, rebuild, started, failures, raced>>

DeleteDomain(r) ==
    /\ Commits(r)
    /\ \E h \in Custom : hosts' = hosts \ {h} /\ Project(r, {h}, None)
    /\ UNCHANGED <<site, published, modes, registered, kv, rebuild, started, failures, raced>>

\* DeleteSite: host_routes cascade with the site.
DeleteSite(r) ==
    /\ Commits(r)
    /\ site' = [site EXCEPT !.gone = TRUE, !.live = None]
    /\ hosts' = {} /\ Project(r, hosts, None)
    /\ UNCHANGED <<published, modes, registered, kv, rebuild, started, failures, raced>>

\* The site was deleted after the first read.
NotFound(r) ==
    /\ req[r].pc = "read" /\ site.gone
    /\ req' = [req EXCEPT ![r] = NoReq]
    /\ UNCHANGED <<dbVars, kv, rebuild, started, failures, raced>>

\* PutRoute or DeleteRoute for one host.
Write(r, h) ==
    /\ req[r].pc = "write" /\ h \in req[r].todo
    /\ kv' = [kv EXCEPT ![h] = req[r].val]
    /\ req' = IF req[r].todo = {h} THEN [req EXCEPT ![r] = NoReq]
              ELSE [req EXCEPT ![r].todo = @ \ {h}]
    /\ UNCHANGED <<dbVars, rebuild, started, failures, raced>>

\* A failed put ends the request with an error, a failed delete is logged; a
\* stopped process ends any request.
WriteFails(r, h) ==
    /\ req[r].pc = "write" /\ h \in req[r].todo /\ failures < MaxFailures
    /\ \/ req' = [req EXCEPT ![r] = NoReq]
       \/ /\ req[r].val = None /\ req[r].todo # {h}
          /\ req' = [req EXCEPT ![r].todo = @ \ {h}]
    /\ failures' = failures + 1 /\ raced' = TRUE
    /\ UNCHANGED <<dbVars, kv, rebuild, started>>

-----------------------------------------------------------------------------
(* RebuildFromDB.                                                          *)

Collect ==
    /\ rebuild.pc = "idle"
    /\ rebuild' = [pc |-> "list", snap |-> Collected(site, hosts), todo |-> {},
                   alone |-> \A r \in Handler : Idle(r)]
    /\ raced' = (raced \/ \E r \in Handler : ~Idle(r))
    /\ UNCHANGED <<dbVars, kv, req, started, failures>>

\* The keys to prune are those listed now that the snapshot lacks.
ListKeys ==
    /\ rebuild.pc = "list"
    /\ rebuild' = [rebuild EXCEPT !.pc = "prune", !.todo = {h \in Host : kv[h] # None /\ rebuild.snap[h] = None}]
    /\ UNCHANGED <<dbVars, kv, req, started, failures, raced>>

Prune(h) ==
    /\ rebuild.pc = "prune" /\ h \in rebuild.todo
    /\ kv' = [kv EXCEPT ![h] = None]
    /\ rebuild' = [rebuild EXCEPT !.todo = @ \ {h}]
    /\ UNCHANGED <<dbVars, req, started, failures, raced>>

Pruned ==
    /\ rebuild.pc = "prune" /\ rebuild.todo = {}
    /\ rebuild' = [rebuild EXCEPT !.pc = "put", !.todo = {h \in Host : rebuild.snap[h] # None}]
    /\ UNCHANGED <<dbVars, kv, req, started, failures, raced>>

Put(h) ==
    /\ rebuild.pc = "put" /\ h \in rebuild.todo
    /\ kv' = [kv EXCEPT ![h] = rebuild.snap[h]]
    /\ rebuild' = [rebuild EXCEPT !.todo = @ \ {h}]
    /\ UNCHANGED <<dbVars, req, started, failures, raced>>

Rebuilt ==
    /\ rebuild.pc = "put" /\ rebuild.todo = {}
    /\ rebuild' = NoRebuild
    /\ raced' = (raced /\ ~rebuild.alone)
    /\ UNCHANGED <<dbVars, kv, req, started, failures>>

RebuildFails ==
    /\ rebuild.pc # "idle" /\ failures < MaxFailures
    /\ rebuild' = NoRebuild /\ failures' = failures + 1 /\ raced' = TRUE
    /\ UNCHANGED <<dbVars, kv, req, started>>

Commit(r) ==
    \/ Publish(r) \/ SetAccess(r) \/ Downgrade(r) \/ Reproject(r)
    \/ VerifyDomain(r) \/ DeleteDomain(r) \/ DeleteSite(r) \/ NotFound(r)

Continue == ListKeys \/ Pruned \/ Rebuilt \/ \E h \in Host : Prune(h) \/ Put(h)

ProjectionNext ==
    \/ \E r \in Handler :
        \/ Begin(r)
        \/ Commit(r)
        \/ \E h \in Host : Write(r, h) \/ WriteFails(r, h)
    \/ Collect \/ Continue \/ RebuildFails

\* A handler or a rebuild that started goes on; nobody has to start one.
Serve(r) == Commit(r) \/ \E h \in Host : Write(r, h)
ProjectionFairness ==
    /\ \A r \in Handler : WF_projectionVars(Serve(r))
    /\ WF_projectionVars(Continue)

ProjectionSafety == ProjectionInit /\ [][ProjectionNext]_projectionVars
ProjectionSpec == ProjectionSafety /\ ProjectionFairness

-----------------------------------------------------------------------------
(* The type invariant.                                                     *)
ProjectionTypeOK ==
    /\ site \in SiteRow /\ hosts \subseteq Host
    /\ kv \in [Host -> Route \cup {None}]
    /\ req \in [Handler -> [pc : {"idle", "read", "write"}, seen : SiteRow,
                            todo : SUBSET Host, val : Route \cup {None}]]
    /\ rebuild \in [pc : {"idle", "list", "prune", "put"}, snap : [Host -> Route \cup {None}],
                    todo : SUBSET Host, alone : BOOLEAN]
    /\ started \in Nat /\ failures \in Nat /\ raced \in BOOLEAN
    /\ published \subseteq Version /\ modes \subseteq Mode /\ registered \subseteq Host

\* The two routes serve the same version under the same mode.
Same(a, b) ==
    \/ a = None /\ b = None
    \/ a # None /\ b # None /\ a.version = b.version /\ a.mode = b.mode

Quiet == rebuild.pc = "idle" /\ \A r \in Handler : Idle(r)

(* Handlers that run one after another leave every host of the site, the   *)
(* canonical one and the custom domains, at the committed version and mode *)
(* and leave no route for a host that is gone; one undisturbed rebuild     *)
(* restores this after any overlap, failure or crash.                      *)
SerialWritesTrack == Quiet /\ ~raced => \A h \in Host : Same(kv[h], Desired(h))

(* A link's expiry reaches every host with the route: rebuild.go says      *)
(* omitting it would silently un-expire a shared link.                     *)
LinkExpirySurvives ==
    Quiet /\ ~raced => \A h \in Host : kv[h] # None => kv[h].exp = Desired(h).exp

\* The route table as a cache of the database.
Entry(route) == IF route = None THEN None ELSE [version |-> route.version, mode |-> route.mode]
Cache == INSTANCE RouteCache WITH
    row <- [h \in Host |-> Entry(Desired(h))],
    cache <- [h \in Host |-> Entry(kv[h])]

(* Whatever overlaps or fails, an entry names a published version, a mode  *)
(* that was in force and a host that was registered: the table is a cache  *)
(* of the database's past, never ahead of it.                              *)
EntriesWereCommitted == Cache!CacheSpec

(* If the operator runs the rebuild again and again, every entry comes to  *)
(* the row once requests stop, whatever overlapped or failed before.       *)
RoutesConverge == []<>(rebuild.pc = "list") => Cache!CacheSettles
=============================================================================
