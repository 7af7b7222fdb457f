------------------------------ MODULE EdgeServe ------------------------------
(***************************************************************************)
(* One request through the serving Worker of one host, from the method     *)
(* check to the background cache write, with the state it shares with the  *)
(* requests around it: the key-value store as this location sees it (a     *)
(* copy that lags behind the API's writes), the object store that the      *)
(* garbage collector empties, and the location's response cache.           *)
(*                                                                         *)
(* A URL path is a sequence of segments <<base, extension>>; a page is the *)
(* file it shows and what the Worker adds to it.  Headers are kept as what *)
(* they promise: who may store the response and who may frame it.  The     *)
(* instant a request arrives at is an input (0, or 1 when the links that   *)
(* expire have), for the clock is read once per request.                   *)
(***************************************************************************)
EXTENDS Naturals, Sequences, SequencesExt

CONSTANTS
    Req,          \* request slots; a slot carries one request
    Inputs,       \* Inputs[q]: the requests that slot q may carry
    Routes,       \* the route values the API writes for this host
    Manifest,     \* Manifest[v]: the files of version v, by path
    NoRoute,      \* no route:<host> entry
    Malformed,    \* an entry the parser refuses
    Pending,      \* the response of a request not answered yet
    MaxEvents     \* bound on the environment's writes, deletions and faults

VARIABLES
    kv,           \* the store as the API wrote it: route, status, revoked
    seen,         \* the same three keys as this location reads them
    bucket,       \* objects present: <<"manifest", v>> and <<"blob", sha>>
    cache,        \* caches.default: cache key -> page
    req,          \* the requests
    events        \* how many of those happened

vars == <<kv, seen, bucket, cache, req, events>>
store == <<kv, seen, bucket, events>>

\* A page of the Worker's own: no byte of the site in it.
Platform == [form |-> "platform"]

GatedMode == {"password", "allowlist", "org_only"}
Key == {"route", "status", "revoked"}
Blocking == {"suspended", "over_limit"}
IndexHtml == <<"index", "html">>
NotFoundPath == << <<"404", "html">> >>
ChatPath == << <<"__dropway", "">>, <<"chat", "">> >>
CallbackPath == << <<"__authz", "">>, <<"callback", "">> >>
ServiceWorkerScripts ==
    {<<b, "js">> : b \in {"sw", "service-worker", "serviceworker", "firebase-messaging-sw"}}
RawSegment == <<"raw", "">>

-----------------------------------------------------------------------------
(* What the API, the build and a browser hand the Worker.                  *)

UrlPath == Seq(STRING \X STRING)
Request ==
    [method : STRING, path : UrlPath, slash : BOOLEAN, raw : BOOLEAN, embed : BOOLEAN, at : Nat,
     limited : BOOLEAN, badge : STRING, crawler : BOOLEAN, sw : BOOLEAN, token : STRING]
RouteValue ==
    [mode : GatedMode \cup {"public"}, version : DOMAIN Manifest, tier : STRING, chat : STRING,
     expires : Nat]
ManifestEntry == [sha : STRING, utf8 : BOOLEAN, big : BOOLEAN]

\* A file has a name; the marks for no route and a refused entry are no routes.
ASSUME ServeAssumption ==
    /\ MaxEvents \in Nat
    /\ \A q \in Req : Inputs[q] # {} /\ Inputs[q] \subseteq Request
    /\ Routes \subseteq RouteValue /\ NoRoute \notin Routes /\ Malformed \notin Routes
    /\ \A v \in DOMAIN Manifest : \A p \in DOMAIN Manifest[v] :
         p \in UrlPath /\ p # <<>> /\ Manifest[v][p] \in ManifestEntry

-----------------------------------------------------------------------------
(* Paths and manifests.                                                    *)

\* cleanPath: drops empty and "." segments; its caller sees Unsafe as null.
Unsafe(i) == \E n \in 1..Len(i.path) : i.path[n] = <<"..", "">>
CleanPath(path, slash) ==
    LET segs == SelectSeq(path, LAMBDA s : s \notin {<<"", "">>, <<".", "">>})
    IN  [segs |-> segs, slash |-> slash /\ segs # <<>>]
Clean(i) == CleanPath(i.path, i.slash)

Ext(p) == IF p = <<>> THEN "" ELSE Last(p)[2]
IsHtml(p) == Ext(p) \in {"html", "htm"}
IsMarkdownPath(p) == Ext(p) \in {"md", "mdx"}

\* candidatePaths, in the order they are tried.
CandidatePaths(c) ==
    IF c.segs = <<>> \/ c.slash THEN <<Append(c.segs, IndexHtml)>>
    ELSE <<c.segs>> \o
         IF Ext(c.segs) # "" THEN <<>>
         ELSE <<Append(c.segs, IndexHtml), Append(Front(c.segs), <<Last(c.segs)[1], "html">>)>>

\* resolveManifestEntry; <<>> for null.
ResolveManifestEntry(m, c) ==
    LET tried == CandidatePaths(c)
        hits == {n \in 1..Len(tried) : tried[n] \in DOMAIN m}
    IN  IF hits = {} THEN <<>> ELSE tried[Min(hits)]

\* listDirectory(directoryPrefix(c)) has an entry.
HasListing(m, c) == \E p \in DOMAIN m : Len(p) > Len(c.segs) /\ IsPrefix(c.segs, p)

IsServiceWorkerScript(c) == c.segs # <<>> /\ ~c.slash /\ Last(c.segs) \in ServiceWorkerScripts

\* isRouteExpired, at the instant the request arrived.
IsRouteExpired(rt, at) == rt.expires # 0 /\ at >= rt.expires

-----------------------------------------------------------------------------
(* Pages.                                                                  *)

Page(rt, form, path, html, utf8) ==
    [version |-> rt.version, form |-> form, path |-> path, html |-> html, utf8 |-> utf8,
     banner |-> FALSE, pill |-> FALSE, badge |-> FALSE]

\* renderMarkdownPage, renderDirectoryListing, renderChatPage and llmsTxtBody:
\* pages the Worker renders itself.
MarkdownPage(rt, p) == Page(rt, "viewer", p, TRUE, TRUE)
ListingPage(rt, i) == Page(rt, "listing", Clean(i).segs, TRUE, TRUE)
ChatPage(rt) == Page(rt, "chat", ChatPath, TRUE, TRUE)
\* A transcript that is missing or that parseTranscript refuses.
Unavailable == Platform
LLMsTxt(rt) == Page(rt, "llms", <<>>, FALSE, TRUE)

\* The file resolveBlob streams, or the viewer it renders a Markdown file into.
FilePage(rt, i, p) ==
    LET e == Manifest[rt.version][p]
    IN  IF IsMarkdownPath(p) /\ ~i.raw /\ ~e.big THEN MarkdownPage(rt, p)
        ELSE Page(rt, "bytes", p, IsHtml(p), e.utf8)

\* What is put into a page: only into HTML that can be read as UTF-8.
ShouldInjectBanner(rt, page) == rt.tier = "free" /\ page.html /\ page.utf8
ShouldInjectChatPill(rt, page) == rt.chat # "none" /\ page.html /\ page.utf8
\* A tier is known and the embedder may not, or did not, drop the badge.
ShouldShowEmbedBadge(rt, i, page) ==
    rt.tier # "none" /\ ~(rt.tier = "pro" /\ i.badge = "0") /\ page.html /\ page.utf8

\* bannerize: the free plan's banner and the pill of an attached chat.
Bannerize(rt, page) ==
    [page EXCEPT !.banner = ShouldInjectBanner(rt, page), !.pill = ShouldInjectChatPill(rt, page)]

EmbedBadgeInject(rt, i, page) == [page EXCEPT !.badge = ShouldShowEmbedBadge(rt, i, page)]

\* Mutant: the plan is left out of the key, as it does not change the version.
CacheKey_NoTier(rt, i) ==
    [mode |-> rt.mode, version |-> rt.version, tier |-> "_", chat |-> rt.chat,
     path |-> (IF i.raw THEN <<RawSegment>> ELSE <<>>) \o i.path, slash |-> i.slash]

\* cacheKey: /<mode>/<version>/<tier>/<chat>[/raw]<pathname>.
CacheKey(rt, i) ==
    [mode |-> rt.mode, version |-> rt.version, tier |-> rt.tier, chat |-> rt.chat,
     path |-> (IF i.raw THEN <<RawSegment>> ELSE <<>>) \o i.path, slash |-> i.slash]

-----------------------------------------------------------------------------
(* Responses.                                                              *)

Response(status, body, cc, report) ==
    [status |-> status, body |-> body, store |-> cc, frame |-> "none", report |-> report]

\* The pages and responses there are, and the mark for no response yet.
FilePath == UNION {DOMAIN Manifest[v] : v \in DOMAIN Manifest}
FolderPath == {Clean(i).segs : i \in UNION {Inputs[q] : q \in Req}}
PagePath == {<<>>, ChatPath, NotFoundPath} \cup FilePath \cup FolderPath
PageValue ==
    [version : DOMAIN Manifest, form : {"bytes", "viewer", "listing", "chat", "llms"}, path : PagePath,
     html : BOOLEAN, utf8 : BOOLEAN, banner : BOOLEAN, pill : BOOLEAN, badge : BOOLEAN]
ResponseValue ==
    [status : {200, 302, 403, 404, 405, 410, 429, 500, 503}, body : {Platform} \cup PageValue,
     store : {"none", "public", "no-store", "private"}, frame : {"none", "self", "any"},
     report : {"none", "visit", "serve_404", "exception"}]
ASSUME PendingAssumption == Pending \notin ResponseValue

\* The Worker's own answers.
MethodNotAllowed == Response(405, Platform, "none", "none")
TooManyRequests == Response(429, Platform, "no-store", "none")
ProjectionError == Response(500, Platform, "no-store", "exception")
LinkExpired == Response(410, Platform, "no-store", "none")
AccountSuspended == Response(503, Platform, "no-store", "none")
RobotsTxt(public) == Response(200, Platform, IF public THEN "public" ELSE "private", "none")
CrawlerBlocked == Response(403, Platform, "private", "none")
EmbedGatePlaceholder == Response(200, Platform, "no-store", "none")
\* redirectToAuthz and the redirect of handleAuthzCallback look alike from here.
RedirectToAuthz == Response(302, Platform, "private", "none")
HandleAuthzCallback == Response(302, Platform, "private", "none")
\* fetch's catch, with captureException.
InternalError == Response(500, Platform, "none", "exception")

\* captureServe404: document navigations are reported.
Report404(i) == IF i.method = "GET" THEN "serve_404" ELSE "none"

\* notFound with no page of the site's.
NotFound(i) == Response(404, Platform, "public", Report404(i))

\* scheduleVisit: GETs of HTML count.
Visit(i, page) == IF i.method = "GET" /\ page.html THEN "visit" ELSE "none"

ContentResponse(i, page) == Response(200, page, "public", Visit(i, page))

\* Mutant: the wrapper keeps the caching directive of the response it wraps.
AsPrivate_KeepsStore(r) == [r EXCEPT !.frame = "none"]

\* asPrivate: the content security headers again, and private, no-store.
AsPrivate(r) == [r EXCEPT !.store = "private", !.frame = "none"]

\* serve: every response to ?embed may be framed.
AsFramable(i, r) == IF i.embed THEN [r EXCEPT !.frame = "any"] ELSE r

\* A request that is answered, and one that goes on.
Answered(r, resp) == [r EXCEPT !.pc = "done", !.resp = AsFramable(r.in, resp)]
At(r, pc) == [r EXCEPT !.pc = pc]

-----------------------------------------------------------------------------
Idle(i) ==
    [pc |-> "idle", in |-> i, route |-> NoRoute, status |-> "active", resp |-> Pending]

\* A published site: its objects are in the bucket and its route is everywhere.
Init ==
    /\ \E rt \in Routes :
         /\ kv = [k \in Key |-> IF k = "route" THEN rt ELSE IF k = "status" THEN "active" ELSE FALSE]
         /\ seen = kv
    /\ bucket = {<<"manifest", v>> : v \in DOMAIN Manifest} \cup
                {<<"blob", s>> : s \in UNION {{Manifest[v][p].sha : p \in DOMAIN Manifest[v]} : v \in DOMAIN Manifest}}
    /\ cache = <<>>
    /\ req = [q \in Req |-> Idle(CHOOSE i \in Inputs[q] : TRUE)]
    /\ events = 0

-----------------------------------------------------------------------------
(* The environment: the API's writes, their propagation, the collector.    *)

WriteKV(k, v) ==
    /\ events < MaxEvents
    /\ kv[k] # v
    /\ kv' = [kv EXCEPT ![k] = v]
    /\ events' = events + 1
    /\ UNCHANGED <<seen, bucket, cache, req>>

Propagate(k) ==
    /\ seen[k] # kv[k]
    /\ seen' = [seen EXCEPT ![k] = kv[k]]
    /\ UNCHANGED <<kv, bucket, cache, req, events>>

Collect(o) ==
    /\ events < MaxEvents
    /\ bucket' = bucket \ {o}
    /\ events' = events + 1
    /\ UNCHANGED <<kv, seen, cache, req>>

-----------------------------------------------------------------------------
(* The request: what each await of the handlers goes on to.                *)

\* dispatch up to the rate limiter, whose verdict comes with the request.
Dispatched(r) ==
    CASE r.in.method \notin {"GET", "HEAD"} ->
           Answered(r, MethodNotAllowed)
      [] r.in.method \in {"GET", "HEAD"} /\ r.in.sw -> Answered(r, NotFound(r.in))
      [] OTHER -> IF r.in.limited THEN Answered(r, TooManyRequests)
                  ELSE At(r, "route")

\* safeParseKVRouteValue refuses the entry.
ParseFails(rt) == rt = Malformed

\* Mutant: links outlive their expiry.
Routed_NoExpiry(r) ==
    CASE r.route = NoRoute -> Answered(r, NotFound(r.in))
      [] ParseFails(r.route) -> Answered(r, ProjectionError)
      [] OTHER -> At(r, "status")

\* The route is read: unknown host, refused projection, expired link.
Routed(r) ==
    CASE r.route = NoRoute -> Answered(r, NotFound(r.in))
      [] ParseFails(r.route) -> Answered(r, ProjectionError)
      [] OTHER -> IF IsRouteExpired(r.route, r.in.at)
                  THEN Answered(r, LinkExpired)
                  ELSE At(r, "status")

\* serveChatIfRequested applies: the reserved path of a route with a chat.
IsChat(r) ==
    /\ r.route.chat # "none" /\ ~Unsafe(r.in)
    /\ Clean(r.in) = [segs |-> ChatPath, slash |-> FALSE]

\* servePublic asks the cache; servePublicBody, behind the gate, never does.
Content(r) ==
    At(r, IF IsChat(r) THEN "chat" ELSE IF r.route.mode = "public" THEN "match" ELSE "resolve")

\* handleLLMMeta: robots.txt, the crawler wall and llms.txt, before any gate.
\* The embed branch and the switch on access_mode follow.
Switched(r) ==
    LET public == r.route.mode = "public"
        for(name) == ~Unsafe(r.in) /\ Clean(r.in) = [segs |-> << <<name, "txt">> >>, slash |-> FALSE]
    IN  IF for("robots")
        THEN Answered(r, RobotsTxt(public))
        ELSE IF ~public /\ r.in.crawler /\ ~Unsafe(r.in)
        THEN Answered(r, CrawlerBlocked)
        ELSE IF for("llms") /\ public THEN At(r, "llms")
        ELSE IF r.in.embed
        THEN IF public THEN At(r, "resolve")
             ELSE Answered(r, EmbedGatePlaceholder)
        ELSE IF public THEN Content(r) ELSE At(r, "gate")

IsBlockingStatus(status) == status \in Blocking

\* The organisation's status is read; "unknown" stands for a failed read.
Screened(r) ==
    IF IsBlockingStatus(r.status)
    THEN Answered(r, AccountSuspended)
    ELSE Switched(r)

\* authorizeGated: the cookie's token is for this route's mode and not revoked.
AuthorizeGated(r, revoked) == r.in.token = r.route.mode /\ ~revoked

\* serveGated: the callback, then the cookie, then the denylist.
Gated(r, revoked) ==
    IF r.in.path = CallbackPath THEN Answered(r, HandleAuthzCallback)
    ELSE IF AuthorizeGated(r, revoked) THEN Content(r)
    ELSE Answered(r, RedirectToAuthz)

\* What serveGated does to the content it is given.
Wrapped(r, resp) == IF r.route.mode = "public" THEN resp ELSE AsPrivate(resp)

\* Mutant: the response waits for the cache write it started.
Found_PutFirst(r, page) ==
    IF r.in.embed
    THEN Answered(r, ContentResponse(r.in, EmbedBadgeInject(r.route, r.in, page)))
    ELSE IF r.route.mode = "public" /\ r.in.method = "GET" THEN At(r, "put")
    ELSE Answered(r, Wrapped(r, ContentResponse(r.in, Bannerize(r.route, page))))

\* resolveBlob found page: serveEmbed, servePublicBody or servePublic.
Found(r, page) ==
    IF r.in.embed
    THEN Answered(r, ContentResponse(r.in, EmbedBadgeInject(r.route, r.in, page)))
    ELSE LET a == Answered(r, Wrapped(r, ContentResponse(r.in, Bannerize(r.route, page))))
         IN  IF r.route.mode = "public" /\ r.in.method = "GET" THEN At(a, "put") ELSE a

\* resolveBlob found nothing; the site's 404.html, undecorated, if it is there.
Missing(r, m) ==
    LET custom == NotFoundPath \in DOMAIN m /\ <<"blob", m[NotFoundPath].sha>> \in bucket
        plain == NotFound(r.in)
    IN  Answered(r, Wrapped(r,
          IF custom
          THEN [plain EXCEPT !.body = Page(r.route, "bytes", NotFoundPath, TRUE, m[NotFoundPath].utf8)]
          ELSE plain))

\* resolveBlob.
Resolved(r) ==
    LET v == r.route.version
        m == Manifest[v]
        c == Clean(r.in)
        p == ResolveManifestEntry(m, c)
    IN  IF Unsafe(r.in) \/ IsServiceWorkerScript(c) \/ <<"manifest", v>> \notin bucket
        THEN Missing(r, <<>>)
        ELSE IF p = <<>>
        THEN IF NotFoundPath \notin DOMAIN m /\ HasListing(m, c)
             THEN Found(r, ListingPage(r.route, r.in))
             ELSE Missing(r, m)
        ELSE IF <<"blob", m[p].sha>> \in bucket
        THEN Found(r, FilePage(r.route, r.in, p))
        ELSE Missing(r, m)

-----------------------------------------------------------------------------
(* Its steps, one per await.                                               *)

Step(q, pc, r) ==
    /\ req[q].pc = pc
    /\ req' = [req EXCEPT ![q] = r]
    /\ UNCHANGED <<store, cache>>

Arrive(q, i) ==
    Step(q, "idle", Dispatched([req[q] EXCEPT !.in = i]))

ReadRoute(q) == Step(q, "route", Routed([req[q] EXCEPT !.route = seen["route"]]))

ReadStatus(q) ==
    \E s \in {seen["status"], "unknown"} :
        Step(q, "status", Screened([req[q] EXCEPT !.status = s]))

\* A failed denylist read counts as revoked.
Gate(q) == \E revoked \in {seen["revoked"], TRUE} : Step(q, "gate", Gated(req[q], revoked))

\* serveChatIfRequested: the transcript page, or the one that says it cannot be
\* read, framable by the site's own pages.
ChatResponse(page) == [Response(200, page, "no-store", "none") EXCEPT !.frame = "self"]

ServeChat(q) ==
    /\ req[q].pc = "chat"
    /\ \E page \in {ChatPage(req[q].route), Unavailable} :
         Step(q, "chat", Answered(req[q], Wrapped(req[q], ChatResponse(page))))

\* llms.txt: the list of a public site's pages.
ServeLLMs(q) ==
    LET r == req[q]
    IN  Step(q, "llms",
          Answered(r, IF <<"manifest", r.route.version>> \in bucket
                      THEN Response(200, LLMsTxt(r.route), "public", "none")
                      ELSE NotFound(r.in)))

\* Mutant: a hit is returned before the visit is recorded.
CacheMatch_Uncounted(q) ==
    LET r == req[q]
        k == CacheKey(r.route, r.in)
    IN  Step(q, "match",
          IF k \in DOMAIN cache
          THEN Answered(r, [ContentResponse(r.in, cache[k]) EXCEPT !.report = "none"])
          ELSE At(r, "resolve"))

CacheMatch(q) ==
    LET r == req[q]
        k == CacheKey(r.route, r.in)
    IN  Step(q, "match",
          IF k \in DOMAIN cache THEN Answered(r, ContentResponse(r.in, cache[k]))
          ELSE At(r, "resolve"))

Resolve(q) == Step(q, "resolve", Resolved(req[q]))

\* cache.put under waitUntil, after the response left; it may fail, and an
\* entry that is evicted later is one that was never put.
CachePut(q) ==
    LET k == CacheKey(req[q].route, req[q].in)
    IN  /\ req[q].pc = "put"
        /\ \/ cache' = [x \in DOMAIN cache \cup {k} |->
                          IF x = k THEN req[q].resp.body ELSE cache[x]]
           \/ UNCHANGED cache
        /\ req' = [req EXCEPT ![q].pc = "done"]
        /\ UNCHANGED store

\* A read of the stores throws: fetch's catch answers and reports.
Throw(q) ==
    /\ events < MaxEvents
    /\ req[q].pc \in {"route", "chat", "llms", "resolve", "match"}
    /\ req' = [req EXCEPT ![q].pc = "done",
                          ![q].resp = InternalError]
    /\ events' = events + 1
    /\ UNCHANGED <<kv, seen, bucket, cache>>

Worker(q) ==
    \/ ReadRoute(q) \/ ReadStatus(q) \/ Gate(q) \/ ServeChat(q)
    \/ ServeLLMs(q) \/ CacheMatch(q) \/ Resolve(q) \/ CachePut(q) \/ Throw(q)

Environment ==
    \/ \E rt \in Routes \cup {NoRoute, Malformed} : WriteKV("route", rt)
    \/ \E s \in Blocking \cup {"active"} : WriteKV("status", s)
    \/ WriteKV("revoked", TRUE)
    \/ \E k \in Key : Propagate(k)
    \/ \E o \in bucket : Collect(o)

Next ==
    \/ Environment
    \/ \E q \in Req : Worker(q) \/ \E i \in Inputs[q] : Arrive(q, i)

Spec == Init /\ [][Next]_vars

-----------------------------------------------------------------------------
(* Properties.                                                             *)

\* The type invariant.
TypeOK ==
    /\ events \in 0..MaxEvents
    /\ \A s \in {kv, seen} :
         /\ s["route"] \in Routes \cup {NoRoute, Malformed}
         /\ s["status"] \in Blocking \cup {"active"} /\ s["revoked"] \in BOOLEAN
    /\ \A k \in DOMAIN cache : cache[k] \in PageValue
    /\ \A q \in Req : LET r == req[q] IN
         /\ r.pc \in {"idle", "route", "status", "gate", "chat", "llms", "match",
                      "resolve", "put", "done"}
         /\ r.in \in Inputs[q] /\ r.route \in Routes \cup {NoRoute, Malformed}
         /\ r.resp \in IF r.pc \in {"put", "done"} THEN ResponseValue ELSE {Pending}

\* The page a location with a cold cache and a full bucket shows.
Fresh(rt, i) ==
    LET p == ResolveManifestEntry(Manifest[rt.version], Clean(i))
    IN  Bannerize(rt, IF p = <<>> THEN ListingPage(rt, i) ELSE FilePage(rt, i, p))

\* The version has a file or a folder for the path.
Finds(v, i) ==
    /\ ~Unsafe(i)
    /\ ResolveManifestEntry(Manifest[v], Clean(i)) # <<>> \/ HasListing(Manifest[v], Clean(i))

\* /x?raw and /raw/x have one cache key.  The request is of the second kind, or
\* the version has pages there.
UnderRaw(i) == ~i.raw /\ i.path # <<>> /\ i.path[1] = RawSegment
SharesKey(v, i) ==
    UnderRaw(i) \/ \E q \in Req : \E j \in Inputs[q] : UnderRaw(j) /\ Finds(v, j)

Done(r) == r.resp # Pending
ShowsSite(r) == Done(r) /\ r.resp.body # Platform

(* The cache is transparent: whatever was cached before, by which request  *)
(* and under which route, a public page is the one this request's route    *)
(* and path select, with the banner and the pill the route asks for        *)
(* (cacheKey).  Not promised: /raw/x, which answers with a cached /x?raw   *)
(* even where the site has no such page, and versions that do have pages   *)
(* there, for cacheKey gives the two requests one key.                     *)
CacheTransparent ==
    \A q \in Req : LET r == req[q] IN
        ShowsSite(r) /\ r.resp.status = 200 /\ ~r.in.embed
            /\ r.resp.body.form \in {"bytes", "viewer", "listing"}
            /\ ~SharesKey(r.route.version, r.in)
        => r.resp.body = Fresh(r.route, r.in)

(* What a request read as gated is shown only to the bearer of a token for *)
(* that mode, is never stored by a shared cache, never framed by another   *)
(* site, and never in the location's own cache (serveGated, serveEmbed,    *)
(* notFound, handleLLMMeta).                                               *)
GatedStaysGated ==
    /\ \A k \in DOMAIN cache : k.mode = "public"
    /\ \A q \in Req : LET r == req[q] IN
         ShowsSite(r) /\ r.route.mode # "public"
         => /\ r.in.token = r.route.mode /\ ~r.in.crawler
            /\ r.resp.store = "private" /\ r.resp.frame # "any"

(* An expired link and a suspended organisation show nothing of the site,  *)
(* cached pages included, and their refusal is not cacheable; nor does an  *)
(* unknown host (isRouteExpired, isBlockingStatus before every other step).*)
RefusedShowsNothing ==
    \A q \in Req : LET r == req[q] IN
        Done(r) /\ r.route # NoRoute
            /\ (r.route = Malformed \/ IsRouteExpired(r.route, r.in.at) \/ r.status \in Blocking)
        => r.resp.body = Platform /\ r.resp.store \in {"no-store", "none"}

(* Every view of a page is counted once, and nothing else is, whether the  *)
(* page came from the cache, the bucket, behind the gate or in a frame     *)
(* (the four calls of scheduleVisit).                                      *)
ViewsCounted ==
    \A q \in Req : LET r == req[q] IN
        Done(r) =>
          (r.resp.report = "visit" <=>
             /\ r.in.method = "GET" /\ r.resp.status = 200 /\ r.resp.body # Platform
             /\ r.resp.body.html /\ r.resp.body.form # "chat")

(* The transcript page may be framed by the site's own pages, which is how *)
(* the pill's drawer shows it (serveChatIfRequested's comment).            *)
ChatDrawerOpens ==
    \A q \in Req : ShowsSite(req[q]) /\ req[q].resp.body.form = "chat"
                   => req[q].resp.frame = "self"
=============================================================================
