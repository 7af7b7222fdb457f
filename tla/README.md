# Dropway, verified

Dropway publishes static sites, skills and chats for organisations: a Go API
(`services/api`) over Postgres and an R2 object store, a Cloudflare Worker
(`edge/serving-worker`) that serves content from R2 by routes and denylist
entries in Workers KV, a dashboard with the identity provider (Better Auth), a
CLI, an SDK and an MCP server as clients, and billing and quotas in `cloud/`.

This directory holds TLA+ models of the parts where steps of several actors
interleave on state that no single transaction covers, TLC configurations that
check them on small instances, and TLAPS proofs for every instance.

## Inventory

| Component | State | Operations | What is hard |
|---|---|---|---|
| Deploy pipeline (`handlers/deployments.go`, `store/versions.go`) | blob and manifest objects in R2; version rows, `current_version_id` | prepare, PUT of missing blobs, finalize (verify, row and metering, manifest, preview), publish and rollback | one deploy is several requests and finalize several steps over two stores, each of which may be the last |
| Skill uploads (`handlers/skill_uploads.go`, `store/skills.go`) | the same blobs; skill version rows | prepare, finalize (verify, row and metering, manifest, pointer flip) | other order of steps, shared namespace and ledger |
| Preset seeding (`handlers/skills.go`, `store/skillfolders.go`) | `skills_seeded`; the presets' skills, versions and blobs | put the blobs, stage the rows, put the manifests, publish | runs inside any skills request, several times at once, is not capped |
| Storage ledger and quota (`accountStorage`, `releaseStorageForBlobs`, `cloud/quota`) | `org_blobs`, `org_usage.storage_bytes` | charge new blobs, refund collected ones | dedup, cap, concurrent charges and refunds |
| Blob collector (`store/gc.go`) | its snapshot of retained versions, the orphan list | select, read manifests, list, delete, release | runs for minutes beside everything above, no lock on R2 |
| Token exchange (`handlers/authz.go`, `store/authz.go`) | session JWTs, edge tokens | live authorization, denylist lookups, signing | time passes between check and signature |
| Edge gate (`edge/serving-worker/src/{gated,authz,edgetoken,revoke}.ts`) | the viewer's cookie; KV route and denylist | verify and serve | sees only what KV holds |
| Revocation (`handlers/revoke.go`, `internal/projection/cloudflare.go`) | `revoked:<kind>:<id>` with a `min_iat` | revoke user, site, org | read-then-write without a conditional write, whole-second clocks, failing calls |
| Access policy (`handlers/access.go`, `store/{access,orgpolicy}.go`) | access mode, allowlist, sharing switch | change mode, allowlist, sharing | database first, KV route and revocation later |
| Member removal (`members/actions.ts`) | member row | remove, then revoke | two services, ordered calls |
| Content serving (`edge/serving-worker/src/{index,chat}.ts`) | the location's response cache; its lagging copy of KV; R2 | dispatch, read route and status, gate, resolve a path, decorate, cache | every await lets the store, the bucket and the cache change; gated and public content share handlers |
| The Worker's small caches (`edgetoken.ts`, `ratelimit.ts`) | signing keys per isolate; a counter per window in KV | load keys, count a request | overlapping fetches, outages, lost updates |
| Route projection (`internal/projection`, `store/rebuild.go`) | `host_routes` rows, `route:<host>` in KV | put, delete, rebuild | KV written after commit, in any order, from rows read without a lock |
| Sites, hosts, custom domains (`store/{sites,domains}.go`) | site rows, host primary key, site count | create, delete, attach a domain | caps and host ownership between concurrent requests |
| Deploy clients (`packages/sdk`, `lib/deploy.ts`) | the upload pool, retries | hash, prepare, PUT, finalize, publish, abort | lost answers, timeouts and retries against handlers that go on |
| Upload components (`deploy-dropzone.tsx`, `skill-upload-dialog.tsx`) | the state shown; the skill an attempt created | drop, confirm, upload, retry, close | asynchronous reads and workers that outlive their deploy |
| Dashboard sessions (`lib/{api,token-cache,auth}.ts`) | session row and cookie, token cache, organisation cache | read the session, mint, cache, call | four caches that feed each other, cookies that overtake each other |
| OAuth allowlist (`lib/oauth-chatgpt-redirect.ts`, `lib/auth.ts`) | a client's redirect URIs; consents | widen the list at authorize, compare at token | read, check and overwrite without a transaction |
| Dashboard controls (`components/**`, `app/(app)/**/actions.ts`) | what is shown, what is pending, the page's properties | click, poll, answer, refresh | refusals, lost calls, other writers, shared busy marks |
| Billing (`cloud/billing`) | plan tier, org status | Stripe events | repeated and reordered events |
| Chats, feed, comments, collab, API keys, AI memory, audit | single rows | create, read, update, delete | little beyond one transaction each on the server |
| CLI, MCP server | none shared | call the API | retries of the requests above |

What makes them correct:

- *pipeline and collector*: what is served keeps its blobs; a fresh upload is
  never collected; a live skill has its manifest;
- *metering*: the counter is the sum of the ledger, passes the cap only by the
  presets' bytes, and what is stored is counted;
- *access*: a revoked token is not served again, a revoked session buys no new
  token, and nobody is locked out by a revocation they have signed in after;
- *projection*: routes written one after another follow the database, a rebuild
  repairs what overlapped or failed, and an entry never names anything that was
  not committed;
- *deploy clients*: one content makes one version, what a client was answered
  with can be served, a success is about one's own folder, and a deploy ends;
- *serving*: the cache never shows, nor the gate leaks, what the request's route
  does not allow, and refusals show nothing;
- *dashboard*: a token is valid and for the organisation meant, an allowlist
  gains nothing unvouched, and a control shows what the server holds and does
  not stay pending;
- *billing* (not modelled): the last event in Stripe's order decides the tier.

## Modules

| Module | What it is |
|---|---|
| `DeployGC` | deploys, skill uploads, preset seeding, publish and preview requests, storage metering and the collector, for one org |
| `MCDeployGC` | the instances TLC checks, each a choice (`Parts`) of who uploads what and whose requests seed |
| `DeployGC_proofs` | its theorems |
| `EdgeAccess` | token exchange, edge gate, denylist, access changes, member removal, for one site |
| `MCEdgeAccess` | bounds on the admin requests begun (`MaxBegun`, the first `MaxOverlapping` of them at any time); the instances of its two violated runs, and a part of `MCEdgeServe` |
| `EdgeAccess_proofs` | its theorems |
| `EdgeServe` | one host's requests through the Worker: dispatch, route, status, gate, content, response cache |
| `EdgeCaches` | the Worker's signing key cache and its rate limit counter |
| `MCEdgeServe`, `EdgeServe_proofs` | the instances of `EdgeServe`, `EdgeCaches` and `EdgeAccess`; the theorems of the first two |
| `RouteCache` | what the route table promises: a cache of the database |
| `RouteProjection` | how handlers and the rebuild write one site's routes; implements `RouteCache` |
| `DeployClient` | the SDK and the dashboard deploying a folder against the API |
| `MCDelivery`, `RouteProjection_proofs`, `DeployClient_proofs` | the instances of both; their theorems, and the composition's in the last |
| `UploadDialogs` | the drop zone of a site and the skill upload dialog |
| `DashSession` | session, cookie, token cache and the organisation a request calls the API with |
| `OAuthRedirects` | the hook that widens an OAuth client's redirect allowlist |
| `DashViews` | the dashboard's controls and the server actions behind them |
| `MCDashboard`, `DashSession_proofs`, `DashViews_proofs`, `Dashboard_proofs` | the instances of the four; their theorems, those of `UploadDialogs`, `OAuthRedirects` and the composition in the last |

### DeployGC

State: `blobs`, `age`, `manifests` are R2; `ledger`, `storage` are
`app.org_blobs` and `app.org_usage.storage_bytes`; `live`, `versionNo`,
`current`, `preview` are the rows of sites, skills and versions; `req[c]` is one
upload in progress per client, its `pc` the step the handler has reached; `gc`
is the collector's pass; `served` is a history variable.

A manifest is the set of blobs it references. The content hash identifies it, so
`<<item, manifest>>` names a version row (both version tables have a unique
constraint on the item and the hash). A blob has size one. `Publish` takes any
version row of the site, whether its manifest is written or not, as the store's
`Publish` does.

An action is a database transaction or one call to the object store; between any
two of them a request or a pass may stop for good (`Abort`, `GCAbort`; a dry run
is a pass that stops before its first delete). `CreateSiteVersion` is split
where it really is: the idempotency read comes before the advisory lock
(`LookupSiteVersion`, `InsertSiteVersion`), so a concurrent finalize of the same
content gets a unique violation. `CreateSkillVersion` takes the lock first and
is one step. The collector fixes its cutoff before it reads the manifests; an
orphan candidate is a blob old enough then, and dropped when a manifest
references it or when the listing shows it written since.

Ages are capped at the value they are compared with, so time itself needs no
bound.

Seeding (`ensureSkillsSeeded`) is the first thing a skills request does in an
org that is not seeded: the API puts the presets' blobs itself, stored or not
(`SeedBegin`, `SeedPutBlob`), stages skill and version in one transaction that
charges without the cap (`SeedStage`, `MeterStorageNoCap`; `SeedStageSkips` when
a user's skill has the slug or another request was faster), writes the manifest
and publishes (`SeedPutManifest`, `SeedPublish`). `seeded` is
`org_meta.skills_seeded`, `unborn` the ids the preset's row has not had yet: a
preset deleted before it is published is staged again as a new row. One preset
stands for all of them, which are staged in one transaction and published in
another. `WithinQuota` is therefore about what is not a preset's: it lets the
counter pass the cap by the ledger's part of `PresetContent`, and by no more.

Not in the model: two passes over one org at a time (a pass is an operator's
command), a store that reports no last-modified time, a release of the API that
changes a preset's content while an org is being seeded, and
`RecomputeOrgStorage`. The routes that publish also writes are in
`RouteProjection`.

### EdgeAccess

State: `members`, `allowlist`, `externalOK`, `mode` are the database; `route`
and `denylist` are KV; `jwt`, `mint`, `cookie` belong to each viewer; `op[a]` is
an admin request in progress, its `pc` the step reached; `settled` is a history
variable.

The exchange is `AuthorizeMint` (the live check, one transaction), one
`LookupRevoked` per denylist key in the code's order, and `Mint`, which reads
the clock. An admin request is its database transaction, `PutRoute`, `Stamp`
(`time.Now().Unix()`), the GET (`RevokeKept`, `RevokeRead`) and the PUT
(`RevokeWrite`). With `Faults`, any store call may fail, a failed GET falls
through to the PUT as in the code, and a PUT may take effect although its answer
is lost. Member removal is `RemoveMember` at the identity provider followed by
`FinalizeMemberRevocation`, which calls the same endpoint as the dashboard's
revoke button.

The clock counts seconds, the precision of `iat` and `min_iat`. JWTs do not
expire and a user may always sign in again: both allow more than the system
does. KV is one register per key; reads that lag behind at an edge location are
in `EdgeServe`. A timed-out PUT that lands later, and API instances whose clocks
differ, are not modelled. Administrators are authorized; the denylist reader and
writer are configured.

`settled[k]` is the largest `min_iat` whose revocation was acknowledged while no
earlier-stamped write for `k` was in flight. The condition is what the store can
give: without it the property is false, which is the finding on
`DenylistOnlyTightens`.

`FreshTokenServed` begins with the second after a revocation's stamp. A token
signed in the very second of the stamp is accepted by the comparison in
`revoke.ts` and called revoked by the comment above it; the property claims
neither.

### EdgeServe and EdgeCaches

State of `EdgeServe`: `kv` is what the API wrote for the host (route, the
organisation's status, a denylist entry), `seen` the copy this location reads,
which follows at any later time (`Propagate`); `bucket` is R2, which the
collector empties under the requests (`Collect`); `cache` is `caches.default`;
`req[q]` is a request, its `pc` the await it stands at.

A request takes one step per await of the code: `Arrive` (`dispatch` up to the
limiter), `ReadRoute`, `ReadStatus`, the gate, the cache match, the resolution
of the path, the chat transcript, and the cache write that runs after the
response (`waitUntil`). What follows an await is an operator named after the
handler (`Routed`, `Screened`, `Switched`, `Gated`, `Resolved`, `Found`,
`Missing`), so the early returns are in the code's order. A path is a sequence
of segments with their extensions, which is what `cleanPath` and
`candidatePaths` look at; a page is the file it shows and what was added to it
(banner, pill, badge); of the headers, who may store and who may frame the
response is kept. The instant a request arrives at is an input, for the clock is
read once per request. A read of the stores that throws is `fetch`'s catch (`Throw`).

`EdgeCaches` has `loadKeys` as three steps (look, fetch, import) of any number
of overlapping verifications while the published keys rotate and the endpoint
fails, and `rateLimitDecision` as a GET that may return an older count and a PUT
that may be lost.

`/raw/x` and `/x?raw` have one cache key (`SharesKey`). `CacheTransparent`
therefore leaves out requests under `/raw/` and versions that have a page there.

Not modelled: bytes, ranges and compression, the HTML of the Worker's own pages,
and several locations.

### RouteProjection and RouteCache

State: `site` is the row with its policy, `hosts` the rows of `host_routes`,
`kv` the entries; `req[r]` is a handler, at its first read, between its commit
and its KV writes, or idle; `rebuild` is `RebuildFromDB` with its snapshot;
`published`, `modes`, `registered` are the database's past and `raced` says
whether handlers overlapped or failed since the last undisturbed rebuild (all
four are history).

`Begin` is the request's first read of the site, which takes no lock (for a
domain it is `GetSite` before `UpdateDomainStatus`). Each commit
(`Publish`, `SetAccess`, `Downgrade`, `Reproject`, `VerifyDomain`,
`DeleteDomain`, `DeleteSite`) computes its route from what the code takes it
from: a publish carries the mode it read first, an access change the version it
read first, a verified domain both as they were then. Then one `Write` per host, in any order, any of which may fail.

`RouteCache` is the abstract specification: the database commits, entries are
filled one at a time with something committed, or dropped. `RouteProjection`
implements it under the mapping that keeps version and mode of a route
(`Cache == INSTANCE RouteCache WITH ...`): `EntriesWereCommitted` is its safety
part, `RoutesConverge` its liveness part.

Preview hosts, and plan tier and chat id in the value, are left out; `public`
and `org_only` stand for the four modes, since a route only carries the mode.

### DeployClient

`cl[c]` is a client: the queue and flight of its upload pool, its free workers,
its attempts; `fin[c][n]` is its n-th finalize at the server and `pub[c]` its
publish, which go on when the client has given up. The two programs share the
protocol; `MayRetry` and `AbortDeploy` say what only the SDK does. A pool whose
upload failed rejects at once and its other workers go on (`TakeItem` in state
"failed"), as `Promise.all` leaves them. A PUT may be stored without an answer.
The dashboard sorts paths by UTF-16 units and the server by bytes, so its digest
may be refused (`DigestAgrees`). `CreateSiteVersion` is split at the idempotency
read, as in `DeployGC`; the collector and the quota are left to that module.

`SetCurrentVersion` is the store's `Publish`: any row of the site becomes the
live one. A client publishes the version it was answered with (`PublishSite`),
and anybody may publish any other row at any time (`PublishAny`), one without a
manifest included: what a client may rely on is `AnsweredIsServable`, not that
whatever is live can be served.

### UploadDialogs, DashSession, OAuthRedirects, DashViews

`UploadDialogs`: `zone` is the drop zone's state and `drop[d]` where the deploy
of each dropped folder is, including workers that outlive it ("straggling") and
a rejection nobody caught ("threw"). That the zone shows no deploy as working
but one that runs is stated twice: `WorkingIsRunning` allows for the rejected
one and holds, `ZoneUnlocks` is what `deployFolder`'s comment promises and does
not. `dialog` is the skill dialog, `up` its upload and `skills` the slugs the
server has.

`DashSession`: `active` and `first` are the identity provider's rows, `cookie`
the signed session in the browser and `ping` another one still on its way,
`tokens` the `TokenCache`, `orgCache` the first-organisation cache, `rq[r]` a
request of one session. Organisations are numbered in the order they become
active, so "later" is "greater". `MaxRequest` bounds how long a request takes,
which the code leaves to the platform's limit; `SessionAssumption` states the
relation of the real constants (4 minutes and two requests within a token's 10,
`OrgTtl` at most `CookieTtl`).

`OAuthRedirects`: `allow` is the client's list, `consent` whether anybody
consented, `auth[a]` an authorize between its reads and its write. A URI is a
record of what the code's parsers distinguish, its raw spelling included. The
provider's exact match and code binding are external.

`DashViews`: the components that call a server action follow one handler, and
`Controls` lists them with what differs: what the busy mark locks, whether the
answer, a guess or the page's properties are shown, whether a rejection is
caught, what is refreshed. `db`, `props`, `view` are a row's value on the
server, in the last render and in the component; `calls` are calls and refreshes
under way. Server actions run one at a time (`Ready`), calls of the auth client
overlap. A call is answered, refused (the plan's poll too: `Refusable`) or lost;
the plan's poll arms its next timer after its answer, so a lost one is the last
(`OnPlan`). Next.js and React are external.

## Runs

| Run | Result | Instance | Properties |
|---|---|---|---|
| `deploy` | passes, about 0.7M states | one site, one skill, one preset, two clients, cap 1, keep last 1, in five parts: `versions` (one client, two contents of which the cap admits one), `race` (two clients, a content each, room for one), `shared` (site and skill over one blob, two clients), `presets` (a deploy beside a seeding), `seeders` (two seedings) | `TypeOK`, `CounterMatchesLedger`, `WithinQuota`, `LiveSkillHasManifest`, `SparesFreshUploads`, `ServedContentSurvives` |
| `edge` | passes, about 1.0M states | two requests, five routes over two versions, one event; two verifications and two keys; three requests in windows of two seconds; one user (external), two admin requests at a time and three in all, a clock of two seconds, faults | `TypeOK`, `CacheTransparent`, `GatedStaysGated`, `RefusedShowsNothing`, `ViewsCounted`, `RetiredKeysRefused`, `RefusedOnlyOverLimit`, `AccessTypeOK`, `RevokedTokensRejected`, `FreshTokenServed`, `NoRemintAfterRevocation` |
| `delivery` | passes, about 0.2M states | an SDK and a dashboard client over one folder of two blobs, one retry; two handlers, two hosts, two versions, three requests, one failure, rebuilds | `DeliveryTypeOK`, `RetriesMakeOneVersion`, `AnsweredIsServable`, `SuccessIsOwnFolder`, `SerialWritesTrack`, `EntriesWereCommitted`; `DeploysEnd`, `RoutesConverge` |
| `dashboard` | passes, about 0.65M states | two drops and two skill folders; two authorizes over eight URIs; two requests and two organisations; every control, with three clicks | `DashTypeOK`, `WorkingIsRunning`, `UploadHasItsDialog`, `AllowlistSound`, `TokenStillValid`, `SwitchSticks`, `StaleOrgBounded`, `ShowsOwnWrite`, `LastChoiceWins`, `ConsentedGainsNoCallback`; `ClicksSettle` |
| `gc_live_blobs` | violated | the part `versions` of `deploy`, cap 2 | `LiveBlobsNeverDeleted` |
| `gc_undercounts` | violated | as `gc_live_blobs` | `FinalizedDeployIsMetered` |
| `denylist_tightens` | violated | `MCEdgeAccess` with the bounds of `edge`, no faults | `DenylistOnlyTightens` |
| `member_removal` | violated | as `denylist_tightens` | `RemovedMemberRejected` |
| `gated_chat_drawer` | violated | as `edge` | `ChatDrawerOpens` |
| `link_expiry` | violated | as `delivery` | `LinkExpirySurvives` |
| `zone_lockout` | violated | as `dashboard` | `ZoneUnlocks` |
| `plan_poll` | violated | as `dashboard` | `PollingEnds` |

`MCEdgeServe`, `MCDelivery` and `MCDashboard` hold parts that share no state. A
behaviour picks one (`part`) and the others rest in an initial state: the
reachable states are the union of the parts', and a property of one part says
what it would say alone. `MCDeployGC` has parts too, which are choices of who
acts on the same state: each client uploads only what its part offers (`Offers`,
`Seeds`), and previews, publishes of the site and deletes of rows (`Deleted`) are
kept to the parts they matter in. The theorems are about `DeployGC` itself, where
all of it happens at once.

Why the bounds are enough. In `deploy`, `versions` has two contents, so that
there is a previous version to roll back to, a preview that is not the live
version and a deploy that does not fit the cap; `race` has two finalizes that
fit one by one and not together, beside deletes of the site and a collector
whose refund makes room again; `shared` has two clients, so that two finalizes of
one content overlap and an upload overlaps a pass that another upload's blob is
in; `presets` has a cap that seeding passes before, between or after the steps of
a deploy; `seeders` has two requests that find the org unseeded, a user's skill
and deletes of both.
`UploadWindow = MinAge = 0` still has the two ages that matter, within the guard
and past it, for blobs and for presigned URLs; the gap of an hour that the code
leaves between the two bounds only helps.

The access part of `edge` needs two admin requests for two `Revoke` calls to
overlap, a third for one to begin after an acknowledgement (it begins when no
other runs), and two seconds for a token to be older than a revocation; `TTL = 2`
keeps the token unexpired throughout. The bounds on begun requests (`MaxBegun`,
`MaxOverlapping`) and the clock (`MaxNow`) limit the runs only; the proofs do not
use them (`MaxNow` is any positive number).

The serving part needs a second request to meet a page the first one cached, and an
event between them (a publish, a plan change, an access change, a suspension, a
collected object); its routes differ in mode, version, tier, chat and expiry,
each of which a page or its key depends on, and its inputs take every branch of
the handlers. Two verifications let an older fetch overwrite a newer one, over a
clock that outlasts TTL and grace together. `delivery` needs two deploys of one
content for a retry to meet another's half-made version, and two handlers for
writes to land in the other order of the commits; the third request comes after
a rebuild. `dashboard` has two authorizes because the list is overwritten by one
at a time, two ids so that a second can be asked for, a clock longer than
`CookieTtl + TokenTtl`, and three clicks, so that two calls overlap and one
follows.

Fairness. Nobody has to deploy, click, publish or rebuild, and no handler of a
deploy has to answer. `DeploysEnd` assumes that a client takes its own steps
(`Own`), and that a request of the SDK settles (`Settle`): `fetchWithRetry` arms
one timer over the headers and the body of every attempt. The dashboard's
fetches (`deploy.ts:108`, `api.ts:367`) have no timer and no signal, so nothing
is assumed of them, and for the dashboard the property is conditional: a deploy
ends if its requests do not hang for ever (`[]<>~Waiting(c)`). Nothing is assumed
to succeed. `RoutesConverge` assumes that a handler or a rebuild that started goes
on, and states itself that the operator runs the rebuild again and again
(`rebuild.go` calls it the backstop). `ClicksSettle` assumes that the browser
runs the calls it has and the timer of the plan's polling; a rejected server
action that a component does not catch leaves its control pending, which the
model has (`OnUncaught`); the property claims nothing for those controls once it
happened, and claims all of the controls that do catch. What a source comment
promises of one that does not is a run of its own (`plan_poll`). The runs do not check for
deadlock where the system may come to rest: every request answered, the bounds
used up. Neither a finalize nor a collector pass is retried by the API itself,
so `DeployGC` and `EdgeAccess` claim no liveness.

What the violated runs show:

1. *A live version can lose blobs* (`gc_live_blobs`). `gc.go:87`: "The CURRENT
   (live) version's blobs are NEVER deleted". A version row can be published
   before its manifest is written, and a retained version without a manifest
   references nothing. A rollback after the selection has the same effect: the
   version rolled back to was not retained. What does hold is
   `ServedContentSurvives`: content that was served when the pass selected.
2. *The counter can be low* (`gc_undercounts`). `gc.go:135`: "the safe direction
   (never under-counts a tenant)". The release drops ledger rows by hash after
   the deletes; a blob uploaded again in between is stored and not counted.
3. *The denylist can loosen* (`denylist_tightens`). `cloudflare.go:219`: "never a
   loosened denylist". Two overlapping `Revoke` calls.
4. *Removal does not revoke* (`member_removal`). `members/actions.ts:156`: "every
   edge token they hold is rejected immediately". The endpoint requires the user
   to be a member, and the row is already gone.
5. *The drawer of a gated site stays empty* (`gated_chat_drawer`).
   `index.ts:848`: "The pill's drawer embeds this page in a SAME-ORIGIN iframe
   ... Relax exactly that pair to same-origin here". `asPrivate` sets the framing
   headers again on every gated response.
6. *A verified domain does not expire* (`link_expiry`). `rebuild.go:76`: link
   expiry "MUST survive a rebuild/reprojection (omitting it would silently
   un-expire a shared link)". `UpdateDomainStatus` builds its route without it.
7. *A rejected deploy locks the drop zone* (`zone_lockout`). `deploy.ts:74`:
   "Never throws, a failure resolves to `{ ok: false, message }`". A file that
   changed while it is hashed, or a server action that is not answered, rejects;
   `runDeploy` has no catch, and the zone shows the deploy as working for good.
8. *The wait for a new plan spins on* (`plan_poll`). `finalizing-state.tsx:30`:
   "We give up polling after a bounded window ... we never want to spin forever".
   Each poll arms the next after its answer, and nothing catches a lost one.

Seen while modelling, without a run of their own: a concurrent finalize of the
same content fails with a unique violation where the comment on
`CreateSiteVersion` promises the existing version; the comment at `revoke.ts:134-137`
says that a token signed in the second of the revocation is revoked and the
comparison below it accepts the token (`FreshTokenServed` leaves that second
out); `skills.go:124-126` puts the presets' blobs again "keeping the GC age guard
on our side", and a pass that had listed the old object as an orphan deletes the
new one all the same, since the guard is evaluated on the listing
(`SparesFreshUploads` leaves the presets' blobs out, and `ServedContentSurvives`
does not); two releases of the API that seed an org with different presets at
once collide on the version number 1 of the skill; `edgerevoke.go`
says a lost key fails closed, and a missing key is accepted; `RecomputeOrgStorage`
sums the ledger, so it cannot repair a missing or a stale ledger row;
`SetSiteAccess` and `UpdateDomainStatus` build routes without a plan tier, so the
free plan's banner goes until the next publish or rebuild; `uploadSkillFolder`
says like `deployFolder` that it never throws, and is rejected by the same
failures, which leaves the dialog busy; a folder dropped during a skill upload is uploaded into the old
skill on the next attempt; `index.ts:1054` says that a raw source is "Cached
under a distinct key (see cacheKey) so it never collides with the rendered page",
and the segment that marks it is put in front of the path like a folder, so
`/a.md?raw` and `/raw/a.md` have one key and the first answer cached is given to
both (the proof of `CacheIsTransparent` needs `SharesKey` for it).

## Proofs

TLAPS proves, for all values of the constants that satisfy the assumption each
module names (`DeployAssumption`, `EdgeAssumption`, `ProjectionAssumption`,
`ClientAssumption`, `ServeAssumption`, `PendingAssumption`, `CachesAssumption`,
`SessionAssumption`, `OAuthAssumption`, `DialogsAssumption`, `ViewsAssumption`).
The theorems about the clients, the routes and the views assume the safety part
of their specification (`ClientSafety`, `ProjectionSafety`, `ViewsSafety`), so
they use no fairness. `DeliveryParts` and `DashParts` prove that a behaviour of
`MCDelivery` or `MCDashboard` satisfies the specification of every part, which
carries each part's theorems to the composition.

| Theorem | States | Rests on |
|---|---|---|
| `TypeCorrect` | `[]TypeOK` of `DeployGC` | `TypeInv`: `TypeOK` and `ReqWellFormed` |
| `CounterCorrect`, `QuotaHolds` | `[]CounterMatchesLedger`, `[]WithinQuota` | `MeterInv` |
| `FreshUploadsSpared` | `SparesFreshUploads` | `AgeInv`, from `UploadWindow <= MinAge` |
| `ServedSurvives` | `ServedContentSurvives` | `ServedInv` |
| `SkillManifestFirst` | `[]LiveSkillHasManifest` | `TypeInv` and the order of the steps in `req[c].pc` |
| `EdgeTypeCorrect` | `[]AccessTypeOK` | `EdgeTypeInv`: `AccessTypeOK` and `OpWellFormed` |
| `RevocationSticks` | `[]RevokedTokensRejected` | `SettledInv` |
| `NoRemint` | `NoRemintAfterRevocation` | `MintInv` |
| `FreshTokensServed` | `[]FreshTokenServed` | `AccessTypeOK` |
| `ProjectionTypeCorrect` | `[]ProjectionTypeOK` | itself |
| `SerialWritesCorrect` | `[]SerialWritesTrack` | `TrackInv`: `RebuildInv` and `SerialInv` |
| `RoutesAreCache` | `EntriesWereCommitted`, the refinement | `CommittedInv` |
| `ClientTypeCorrect`, `OneVersionPerContent`, `AnsweredServable`, `SuccessOwn` | `[]ClientTypeOK`, `[]RetriesMakeOneVersion`, `[]AnsweredIsServable`, `[]SuccessIsOwnFolder` | `ClientInv`: `BaseType`, `PoolInv`, `UploadInv`, `VersionInv` |
| `DeliveryTypeCorrect` | `[]DeliveryTypeOK` | `DeliveryParts` and the types of the two parts |
| `ServeTypeCorrect`, `CacheIsTransparent`, `GatedContentStaysGated`, `RefusalsShowNothing`, `EveryViewCounted` | `[]TypeOK` of `EdgeServe`, `[]CacheTransparent`, `[]GatedStaysGated`, `[]RefusedShowsNothing`, `[]ViewsCounted` | `ServeInv`: `KvOK`, `EntryOK`, and `RequestOK` (`Progress`, `Outcome`) |
| `CachesTypeCorrect` | `[]CachesTypeOK` | itself |
| `RetiredKeysBounded` | `[]RetiredKeysRefused` | `KeyAges` |
| `LimiterNeverTight` | `[]RefusedOnlyOverLimit` | `Counted` |
| `SessionTypeCorrect` | `[]SessionTypeOK` | `BaseInv` |
| `TokensValid`, `SwitchesStick`, `StalenessBounded` | `[]TokenStillValid`, `[]SwitchSticks`, `[]StaleOrgBounded` | `ValidInv`, `SwitchInv`, `StaleInv` |
| `OAuthTypeCorrect` | `[]OAuthTypeOK` | itself |
| `AllowlistStaysSound`, `ConsentedStays` | `[]AllowlistSound`, `ConsentedGainsNoCallback` | `AllowInv`, `ConsentInv` |
| `DialogsTypeCorrect`, `WorkingHasDeploy`, `UploadKeepsDialog` | `[]DialogsTypeOK`, `[]WorkingIsRunning`, `[]UploadHasItsDialog` | the two properties are inductive on the type |
| `ViewsTypeCorrect`, `OwnWritesShown`, `LastChoiceHolds` | `[]ViewsTypeOK`, `[]ShowsOwnWrite`, `[]LastChoiceWins` | `ViewsInv` and `ControlsOK` |
| `DashTypeCorrect` | `[]DashTypeOK` | `DashParts` and the types of the four parts |

Why the strengthenings are needed:

- `ReqWellFormed` ties a request's fields to its `pc` (a request past "idle" has
  an item of the right kind and one of the contents), without which the updates
  of rows have no type.
- `MeterInv` is the counter equation and the bound together: the refund's floor
  at zero never acts because what is refunded was in the ledger. The bound is
  inductive in the form "the ledger without the presets' blobs fits the cap"
  (`QuotaOfLedger`): a seeding adds nothing to that part, and a charge that the
  cap check admits bounds the whole counter.
- `AgeInv` has `SignedPutsAreForNewBlobs` (a client still able to PUT a blob has
  held its URL at least as long as the blob has existed, so the blob is not past
  the guard, from `UploadWindow <= MinAge`) and `OrphansAreOld` (everything on
  the delete list is past the guard). The first is what keeps the second true
  when a client PUTs.
- `ServedInv` says that a blob served at selection is either in no orphan set or
  still referenced by a retained version whose manifest is there to be read.
- `SettledInv` says that the stored `min_iat` is at least `settled`, and that
  every write in flight for the key is stamped no earlier than `settled`.
- `MintInv` says that a key settled above the JWT when the exchange began is
  still settled above it and has yet to be looked up, so the exchange cannot
  reach the signature.

- `RebuildInv` says that a rebuild no handler disturbed holds the current rows,
  and what it has pruned and put is at them; `SerialInv` that, while nothing
  raced, at most one handler is in flight, it read the current row, and every
  host not on its list is already right. Both are needed: a handler may begin
  after a rebuild that cleared `raced`.
- `CommittedInv` says that every route in flight, in a snapshot or in KV was
  committed before, which makes each write a `Fill` or a `Drop` of `RouteCache`.
- `PoolInv` bounds the workers and keeps the pool within the folder, `UploadInv`
  says that what is neither queued nor in flight is stored and that later
  attempts are not sent yet, `VersionInv` that every row has its
  blobs, that a finalize or a client names only a version of its own folder, and
  one whose manifest is written once it is answered, whatever rows are published
  meanwhile.
- `KeyAges` dates what overlapping verifications hold: an entry expires at most
  TTL after its keys were last published, a fetched document was published no
  earlier than its verification began.
- `Counted` says that a counter, and what a request read of it, is at most the
  number of requests of its window already decided.
- `ValidInv` relates a token's expiry to the entry's and the request's age;
  `SwitchInv` says no cookie is ahead of the row and no entry older than its key;
  `StaleInv` that each cookie and token is within its life of a moment at which
  its organisation was current.
- `AllowInv` says that the lists still to be written back were sound when they
  were read, since the write overwrites the list; `ConsentInv` that an authorize
  that began under a consent reaches its write only with an id its list had.

- `ServeInv` has, for each request, `Progress` (what the steps up to its present
  await established: which route it read, that the gate let it pass) and
  `Outcome` (what any answer is: who may store it, what it shows), and for each
  cache entry `EntryOK`: it is the page some request with that key would get
  freshly. The last is needed because a page leaves the cache long after it was
  put there, under another route and in another request; that two requests with
  one key have one fresh page is a lemma about `CacheKey`.
- `ViewsInv` uses nothing of a control but `ControlOK`, which `ControlsOK` proves
  of every member of `Controls`. `Serial` says that at most the first of the
  browser's queued actions has executed, `PagesFresh` that a page
  rendered in the queue still shows the database, but for rows others wrote since,
  `PropsShown` and `ViewShown` that a page that does not show the value yet has a
  call or a refresh coming that will make it, `Chosen` that the last choice is in
  the database or in the last call not yet executed.

Only model-checked: that the refuted statements (`PollingEnds` and `ZoneUnlocks`
among them) are refuted, and the liveness
properties (`DeploysEnd`, `RoutesConverge`, `ClicksSettle`), which need fairness
and `ENABLED` and are out of the prover's reach. Every safety property of a
passing run is stated by a theorem.

## Not modelled

- The Go webhook of billing (`cloud/billing`): repeated and reordered Stripe
  events, tier and status in the database. A module of its own would state
  convergence under fair delivery.
- `CreateSite` under the site cap and the global host key: one transaction under
  an advisory lock.
- The write skew between making a site public and switching sharing off (the
  trigger of `0001_baseline.sql`): it needs the database's snapshot rules.
- A second collector pass at the same time, and preview routes with their sweep.
- The Go content edge, a second implementation of the Worker's gate with its
  routes from Postgres; the Go CLI and the MCP server, which issue the modelled
  requests; the API's rate limit bucket, which is under one mutex; the audit log,
  append-only and best effort.
- Language model and embedding calls, pages that only render, generated types,
  examples.

## Running

    tlc -workers 2 -config MCDeployGC.cfg MCDeployGC
    tlc -workers 2 -config MCEdgeServe.cfg MCEdgeServe
    tlc -workers 2 -config MCEdgeAccess_tighten.cfg MCEdgeAccess    # refutes DenylistOnlyTightens
    tlc -workers 2 -config MCDelivery.cfg MCDelivery
    tlc -workers 2 -config MCDashboard.cfg MCDashboard
    tlapm RouteProjection_proofs.tla      # and the seven other *_proofs modules
