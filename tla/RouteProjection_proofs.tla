----------------------- MODULE RouteProjection_proofs -----------------------
(***************************************************************************)
(* Proofs about RouteProjection, for every set of hosts, versions and      *)
(* handlers: the type invariant; that handlers which do not overlap leave  *)
(* the route table at the database, and that an undisturbed rebuild brings *)
(* it back there; and that the table implements RouteCache.                *)
(***************************************************************************)
EXTENDS RouteProjection, TLAPS

USE ProjectionAssumption

\* A route value is a route of its version and mode, or none for no version.
LEMMA RouteValueType ==
    ASSUME NEW v \in Version \cup {None}, NEW m \in Mode, NEW e \in BOOLEAN
    PROVE  /\ RouteValue(v, m, e) \in Route \cup {None}
           /\ RouteValue(v, m, e) = None <=> v = None
           /\ v # None => RouteValue(v, m, e) \in Route
           /\ v # None => RouteValue(v, m, e).version = v /\ RouteValue(v, m, e).mode = m
<1>1. CASE v = None
  BY <1>1 DEF RouteValue
<1>2. CASE v # None
  <2>1. RouteExpiry(m, e) \in BOOLEAN
    BY DEF RouteExpiry
  <2>2. RouteValue(v, m, e) = [version |-> v, mode |-> m, exp |-> RouteExpiry(m, e)]
    BY <1>2 DEF RouteValue
  <2>3. RouteValue(v, m, e) \in Route
    BY <1>2, <2>1, <2>2 DEF Route
  <2> QED BY <1>2, <2>2, <2>3
<1> QED BY <1>1, <1>2

\* Two values for one version and mode serve the same, whatever their expiry.
LEMMA SameValue ==
    ASSUME NEW v \in Version \cup {None}, NEW m \in Mode, NEW e \in BOOLEAN, NEW f \in BOOLEAN
    PROVE  Same(RouteValue(v, m, e), RouteValue(v, m, f))
  BY RouteValueType DEF Same

\* What a rebuild collects has its type.
LEMMA CollectedType ==
    ASSUME NEW s \in SiteRow, NEW hs \in SUBSET Host
    PROVE  Collected(s, hs) \in [Host -> Route \cup {None}]
<1>1. RouteValue(s.live, s.mode, s.exp) \in Route \cup {None}
  BY RouteValueType DEF SiteRow
<1> QED BY <1>1 DEF Collected

\* The request that Project leaves behind has its type.
LEMMA ProjectType ==
    ASSUME ProjectionTypeOK, NEW r \in Handler, NEW hs \in SUBSET Host, NEW val \in Route \cup {None},
           Project(r, hs, val)
    PROVE  req' \in [Handler -> [pc : {"idle", "read", "write"}, seen : SiteRow,
                                 todo : SUBSET Host, val : Route \cup {None}]]
<1> DEFINE new == IF hs = {} THEN NoReq ELSE [NoReq EXCEPT !.pc = "write", !.todo = hs, !.val = val]
<1>1. new \in [pc : {"idle", "read", "write"}, seen : SiteRow, todo : SUBSET Host, val : Route \cup {None}]
  BY DEF NoReq, NewSite, SiteRow, Mode
<1>2. req' = [req EXCEPT ![r] = new]
  BY DEF Project
<1> HIDE DEF new
<1> QED BY <1>1, <1>2 DEF ProjectionTypeOK

\* What the type invariant says of the row and of a request, as the steps
\* below need it.
LEMMA RowType ==
    ASSUME ProjectionTypeOK
    PROVE  /\ site.live \in Version \cup {None} /\ site.mode \in Mode /\ site.exp \in BOOLEAN
           /\ \A r \in Handler : /\ req[r].seen.live \in Version \cup {None}
                                 /\ req[r].seen.mode \in Mode /\ req[r].seen.exp \in BOOLEAN
                                 /\ req[r].seen \in SiteRow
                                 /\ req[r].todo \in SUBSET Host /\ req[r].val \in Route \cup {None}
  BY DEF ProjectionTypeOK, SiteRow

\* A change of the access mode keeps the types.
LEMMA SetModeType ==
    ASSUME ProjectionTypeOK, NEW r \in Handler, NEW mode \in Mode, NEW exp \in BOOLEAN,
           SetMode(r, mode, exp)
    PROVE  ProjectionTypeOK'
<1>1. RouteValue(req[r].seen.live, mode, exp) \in Route \cup {None}
  BY RowType, RouteValueType
<1> DEFINE hs == IF req[r].seen.live = None THEN {} ELSE hosts
<1>2. hs \in SUBSET Host
  BY DEF ProjectionTypeOK
<1>3. Project(r, hs, RouteValue(req[r].seen.live, mode, exp))
  BY DEF SetMode
<1> HIDE DEF hs
<1>4. req' \in [Handler -> [pc : {"idle", "read", "write"}, seen : SiteRow,
                            todo : SUBSET Host, val : Route \cup {None}]]
  BY <1>1, <1>2, <1>3, ProjectType
<1>5. site' \in SiteRow
  BY DEF SetMode, ProjectionTypeOK, SiteRow
<1> QED BY <1>4, <1>5 DEF SetMode, ProjectionTypeOK

\* A commit preserves the type invariant.
LEMMA CommitType ==
    ASSUME ProjectionTypeOK, NEW r \in Handler, Commit(r)
    PROVE  ProjectionTypeOK'
<1> DEFINE ReqType == [Handler -> [pc : {"idle", "read", "write"}, seen : SiteRow,
                                   todo : SUBSET Host, val : Route \cup {None}]]
<1>1. CASE Publish(r)
  <2>1. PICK v \in Version :
          /\ site' = [site EXCEPT !.live = v] /\ published' = published \cup {v}
          /\ Project(r, hosts, RouteValue(v, req[r].seen.mode, site.exp))
    BY <1>1 DEF Publish
  <2>2. RouteValue(v, req[r].seen.mode, site.exp) \in Route \cup {None} /\ hosts \in SUBSET Host
    BY RowType, RouteValueType DEF ProjectionTypeOK
  <2>3. req' \in ReqType
    BY <2>1, <2>2, ProjectType
  <2>4. site' \in SiteRow
    BY <2>1 DEF ProjectionTypeOK, SiteRow
  <2> HIDE DEF ReqType
  <2> QED BY <1>1, <2>1, <2>3, <2>4 DEF Publish, ProjectionTypeOK, ReqType
<1>2. CASE SetAccess(r)
  BY <1>2, SetModeType DEF SetAccess
<1>3. CASE Downgrade(r)
  <2>1. SetMode(r, "org_only", FALSE) /\ "org_only" \in Mode
    BY <1>3 DEF Downgrade, Mode
  <2> QED BY <2>1, SetModeType
<1>4. CASE Reproject(r)
  <2> DEFINE s == req[r].seen
             hs == IF s.live = None THEN {} ELSE hosts
  <2>1. RouteValue(s.live, s.mode, s.exp) \in Route \cup {None} /\ hs \in SUBSET Host
    BY RowType, RouteValueType DEF ProjectionTypeOK
  <2>2. Project(r, hs, RouteValue(s.live, s.mode, s.exp))
    BY <1>4 DEF Reproject
  <2> HIDE DEF hs, s
  <2>3. req' \in ReqType
    BY <2>1, <2>2, ProjectType
  <2> QED BY <1>4, <2>3 DEF Reproject, ProjectionTypeOK, dbVars
<1>5. CASE VerifyDomain(r)
  <2> DEFINE s == req[r].seen
             hs(h) == IF s.live = None THEN {} ELSE {h}
  <2>1. PICK h \in Custom :
          /\ hosts' = hosts \cup {h} /\ registered' = registered \cup {h}
          /\ Project(r, hs(h), RouteValue(s.live, s.mode, FALSE))
    BY <1>5 DEF VerifyDomain
  <2>2. RouteValue(s.live, s.mode, FALSE) \in Route \cup {None} /\ hs(h) \in SUBSET Host
    <3>1. FALSE \in BOOLEAN /\ {h} \in SUBSET Host /\ {} \in SUBSET Host
      BY DEF Custom
    <3> QED BY <3>1, RowType, RouteValueType
  <2> HIDE DEF hs, s
  <2>3. req' \in ReqType
    BY <2>1, <2>2, ProjectType
  <2> QED BY <1>5, <2>1, <2>3 DEF VerifyDomain, ProjectionTypeOK, Custom
<1>6. CASE DeleteDomain(r)
  <2>1. PICK h \in Custom : hosts' = hosts \ {h} /\ Project(r, {h}, None)
    BY <1>6 DEF DeleteDomain
  <2>2. {h} \in SUBSET Host /\ None \in Route \cup {None}
    BY DEF Custom
  <2>3. req' \in ReqType
    BY <2>1, <2>2, ProjectType
  <2> QED BY <1>6, <2>1, <2>3 DEF DeleteDomain, ProjectionTypeOK
<1>7. CASE DeleteSite(r)
  <2>1. hosts \in SUBSET Host /\ None \in Route \cup {None}
    BY DEF ProjectionTypeOK
  <2>2. req' \in ReqType
    BY <1>7, <2>1, ProjectType DEF DeleteSite
  <2>3. site' \in SiteRow
    BY <1>7 DEF DeleteSite, ProjectionTypeOK, SiteRow
  <2> QED BY <1>7, <2>2, <2>3 DEF DeleteSite, ProjectionTypeOK
<1>8. CASE NotFound(r)
  BY <1>8 DEF NotFound, ProjectionTypeOK, dbVars, NoReq, NewSite, SiteRow, Mode
<1> QED BY <1>1, <1>2, <1>3, <1>4, <1>5, <1>6, <1>7, <1>8 DEF Commit

\* Every other step preserves it too.
LEMMA StepType ==
    ASSUME ProjectionTypeOK, [ProjectionNext]_projectionVars
    PROVE  ProjectionTypeOK'
<1> USE DEF dbVars
<1>1. ASSUME NEW r \in Handler, Begin(r) PROVE ProjectionTypeOK'
  <2>1. [NoReq EXCEPT !.pc = "read", !.seen = site]
          \in [pc : {"idle", "read", "write"}, seen : SiteRow, todo : SUBSET Host, val : Route \cup {None}]
    BY DEF NoReq, NewSite, ProjectionTypeOK
  <2>2. req' = [req EXCEPT ![r] = [NoReq EXCEPT !.pc = "read", !.seen = site]]
        /\ rebuild' = [rebuild EXCEPT !.alone = FALSE] /\ started' = started + 1
        /\ UNCHANGED <<site, hosts, kv, published, modes, registered, failures>> /\ raced' \in BOOLEAN
    BY <1>1 DEF Begin, ProjectionTypeOK
  <2>3. req' \in [Handler -> [pc : {"idle", "read", "write"}, seen : SiteRow,
                              todo : SUBSET Host, val : Route \cup {None}]]
    BY <2>1, <2>2 DEF ProjectionTypeOK
  <2>4. rebuild' \in [pc : {"idle", "list", "prune", "put"}, snap : [Host -> Route \cup {None}],
                      todo : SUBSET Host, alone : BOOLEAN]
    BY <2>2 DEF ProjectionTypeOK
  <2>5. started' \in Nat
    BY <2>2 DEF ProjectionTypeOK
  <2> QED BY <2>2, <2>3, <2>4, <2>5 DEF ProjectionTypeOK
<1>2. ASSUME NEW r \in Handler, NEW h \in Host, Write(r, h) PROVE ProjectionTypeOK'
  <2>1. req[r].val \in Route \cup {None} /\ NoReq \in [pc : {"idle", "read", "write"}, seen : SiteRow,
             todo : SUBSET Host, val : Route \cup {None}]
    BY RowType DEF NoReq, NewSite, SiteRow, Mode
  <2>2. CASE req[r].todo = {h}
    BY <1>2, <2>1, <2>2 DEF Write, ProjectionTypeOK
  <2>3. CASE req[r].todo # {h}
    <3>1. [req[r] EXCEPT !.todo = req[r].todo \ {h}]
             \in [pc : {"idle", "read", "write"}, seen : SiteRow, todo : SUBSET Host, val : Route \cup {None}]
      BY DEF ProjectionTypeOK
    <3>2. req' = [req EXCEPT ![r] = [req[r] EXCEPT !.todo = req[r].todo \ {h}]]
      BY <1>2, <2>3 DEF Write
    <3>3. req' \in [Handler -> [pc : {"idle", "read", "write"}, seen : SiteRow,
                                todo : SUBSET Host, val : Route \cup {None}]]
      BY <3>1, <3>2 DEF ProjectionTypeOK
    <3> QED BY <1>2, <2>1, <3>3 DEF Write, ProjectionTypeOK
  <2> QED BY <2>2, <2>3
<1>3. ASSUME NEW r \in Handler, NEW h \in Host, WriteFails(r, h) PROVE ProjectionTypeOK'
  <2>1. CASE req' = [req EXCEPT ![r] = NoReq]
    <3>1. req' \in [Handler -> [pc : {"idle", "read", "write"}, seen : SiteRow,
                                todo : SUBSET Host, val : Route \cup {None}]]
      BY <2>1 DEF ProjectionTypeOK, NoReq, NewSite, SiteRow, Mode
    <3> QED BY <1>3, <3>1 DEF WriteFails, ProjectionTypeOK
  <2>2. CASE req' = [req EXCEPT ![r].todo = @ \ {h}]
    <3>1. req' \in [Handler -> [pc : {"idle", "read", "write"}, seen : SiteRow,
                                todo : SUBSET Host, val : Route \cup {None}]]
      <4>1. [req[r] EXCEPT !.todo = req[r].todo \ {h}]
               \in [pc : {"idle", "read", "write"}, seen : SiteRow, todo : SUBSET Host, val : Route \cup {None}]
        BY DEF ProjectionTypeOK
      <4>2. req' = [req EXCEPT ![r] = [req[r] EXCEPT !.todo = req[r].todo \ {h}]]
        BY <2>2
      <4> QED BY <4>1, <4>2 DEF ProjectionTypeOK
    <3> QED BY <1>3, <3>1 DEF WriteFails, ProjectionTypeOK
  <2> QED BY <1>3, <2>1, <2>2 DEF WriteFails
<1>4. CASE Collect
  <2>1. Collected(site, hosts) \in [Host -> Route \cup {None}]
    BY CollectedType DEF ProjectionTypeOK
  <2> QED BY <1>4, <2>1 DEF Collect, ProjectionTypeOK
<1>5. CASE ListKeys
  BY <1>5 DEF ListKeys, ProjectionTypeOK
<1>6. ASSUME NEW h \in Host, Prune(h) PROVE ProjectionTypeOK'
  BY <1>6 DEF Prune, ProjectionTypeOK
<1>7. CASE Pruned
  BY <1>7 DEF Pruned, ProjectionTypeOK
<1>8. ASSUME NEW h \in Host, Put(h) PROVE ProjectionTypeOK'
  <2>1. rebuild.snap[h] \in Route \cup {None}
    BY DEF ProjectionTypeOK
  <2> QED BY <1>8, <2>1 DEF Put, ProjectionTypeOK
<1>9. CASE Rebuilt
  BY <1>9 DEF Rebuilt, NoRebuild, ProjectionTypeOK
<1>10. CASE RebuildFails
  BY <1>10 DEF RebuildFails, NoRebuild, ProjectionTypeOK
<1>11. CASE UNCHANGED projectionVars
  BY <1>11 DEF projectionVars, ProjectionTypeOK
<1> QED BY <1>1, <1>2, <1>3, <1>4, <1>5, <1>6, <1>7, <1>8, <1>9, <1>10, <1>11, CommitType
        DEF ProjectionNext, Continue

\* The row, the route table, the requests and the rebuild keep their types: in
\* particular nothing writes a route without a version.
THEOREM ProjectionTypeCorrect == ProjectionSafety => []ProjectionTypeOK
<1>1. ProjectionInit => ProjectionTypeOK
  <2> SUFFICES ASSUME ProjectionInit PROVE ProjectionTypeOK
    OBVIOUS
  <2>1. NewSite \in SiteRow
    BY DEF NewSite, SiteRow, Mode
  <2>2. NoReq \in [pc : {"idle", "read", "write"}, seen : SiteRow,
                  todo : SUBSET Host, val : Route \cup {None}]
    BY <2>1 DEF NoReq
  <2>3. NoRebuild \in [pc : {"idle", "list", "prune", "put"}, snap : [Host -> Route \cup {None}],
                      todo : SUBSET Host, alone : BOOLEAN]
    BY DEF NoRebuild
  <2> QED BY <2>1, <2>2, <2>3 DEF ProjectionInit, ProjectionTypeOK, Mode
<1> QED BY <1>1, StepType, PTL DEF ProjectionSafety

-----------------------------------------------------------------------------
(* Handlers that do not overlap.                                           *)

\* A rebuild no handler has disturbed works on the current rows; what it has
\* pruned and put is at its snapshot.
RebuildInv ==
    rebuild.pc # "idle" /\ rebuild.alone =>
        /\ \A r \in Handler : Idle(r)
        /\ rebuild.snap = Collected(site, hosts)
        /\ rebuild.pc = "prune" =>
             \A h \in Host : rebuild.snap[h] = None /\ kv[h] # None => h \in rebuild.todo
        /\ rebuild.pc = "put" => \A h \in Host : h \notin rebuild.todo => kv[h] = rebuild.snap[h]

\* While nothing has overlapped or failed, at most one handler is in flight, it
\* saw the current row, and the table is at the rows but for its own writes.
SerialInv ==
    ~raced =>
        /\ rebuild.pc # "idle" => rebuild.alone
        /\ \A r, q \in Handler : ~Idle(r) /\ ~Idle(q) => r = q
        /\ \A r \in Handler : req[r].pc = "read" => req[r].seen = site
        /\ \A r \in Handler : req[r].pc = "write" =>
             \A h \in req[r].todo : Same(req[r].val, Desired(h))
        /\ rebuild.pc = "idle" => \A h \in Host :
             Same(kv[h], Desired(h)) \/ \E r \in Handler : req[r].pc = "write" /\ h \in req[r].todo

TrackInv == RebuildInv /\ SerialInv

\* A handler in flight rules out an undisturbed rebuild.
LEMMA BusyHandler ==
    ASSUME ProjectionTypeOK, TrackInv, NEW r \in Handler, ~Idle(r)
    PROVE  /\ rebuild.pc # "idle" => ~rebuild.alone
           /\ ~raced => rebuild.pc = "idle" /\ \A q \in Handler : q # r => Idle(q)
  BY DEF TrackInv, RebuildInv, SerialInv

\* A commit keeps the invariant if the rows and the projected value agree: the
\* hosts it writes get what they should have, the others already have it.
LEMMA CommitTracks ==
    ASSUME ProjectionTypeOK, TrackInv,
           NEW r \in Handler, req[r].pc = "read",
           NEW hs \in SUBSET Host, NEW val \in Route \cup {None}, Project(r, hs, val),
           UNCHANGED <<kv, rebuild, raced>>,
           ~raced => /\ \A h \in hs : Same(val, Desired(h)')
                     /\ \A h \in Host \ hs : Same(kv[h], Desired(h)) => Same(kv[h], Desired(h)')
    PROVE  TrackInv'
<1>1. ~Idle(r)
  BY DEF Idle
<1>2. RebuildInv'
  BY <1>1, BusyHandler DEF RebuildInv
<1>3. ASSUME ~raced PROVE SerialInv'
  <2>1. rebuild.pc = "idle" /\ \A q \in Handler : q # r => Idle(q)
    BY <1>1, <1>3, BusyHandler
  <2>2. \A q \in Handler : q # r => req'[q] = req[q] /\ req'[q].pc = "idle"
    BY <2>1 DEF Project, ProjectionTypeOK, Idle
  <2>3. \A h \in Host : Same(kv[h], Desired(h))
    BY <1>3, <2>1 DEF TrackInv, SerialInv, Idle
  <2>4. CASE hs = {}
    <3>1. req'[r].pc = "idle"
      BY <2>4 DEF Project, NoReq, ProjectionTypeOK
    <3>2. \A h \in Host : Same(kv'[h], Desired(h)')
      BY <1>3, <2>3, <2>4
    <3> QED BY <1>3, <2>1, <2>2, <3>1, <3>2 DEF SerialInv, Idle
  <2>5. CASE hs # {}
    <3>1. req'[r].pc = "write" /\ req'[r].todo = hs /\ req'[r].val = val
      BY <2>5 DEF Project, NoReq, ProjectionTypeOK
    <3>2. \A h \in Host \ hs : Same(kv'[h], Desired(h)')
      BY <1>3, <2>3
    <3>3. \A h \in hs : Same(val, Desired(h)')
      BY <1>3
    <3> QED BY <1>3, <2>1, <2>2, <3>1, <3>2, <3>3 DEF SerialInv, Idle
  <2> QED BY <2>4, <2>5
<1> QED BY <1>2, <1>3 DEF TrackInv, SerialInv

\* A commit that changes the mode writes it to every host of the site.
LEMMA SetModeTracks ==
    ASSUME ProjectionTypeOK, TrackInv, NEW r \in Handler, req[r].pc = "read",
           NEW mode \in Mode, NEW exp \in BOOLEAN, SetMode(r, mode, exp)
    PROVE  TrackInv'
<1> DEFINE live == req[r].seen.live
           hs == IF live = None THEN {} ELSE hosts
           val == RouteValue(live, mode, exp)
<1>1. live \in Version \cup {None} /\ val \in Route \cup {None} /\ hs \in SUBSET Host
  BY RowType, RouteValueType DEF ProjectionTypeOK
<1>2. Project(r, hs, val) /\ UNCHANGED <<hosts, kv, rebuild, raced>>
      /\ site' = [site EXCEPT !.mode = mode, !.exp = exp]
  BY DEF SetMode
<1>3. site'.live = site.live /\ site'.mode = mode /\ site'.exp = exp
  BY <1>2 DEF ProjectionTypeOK, SiteRow
<1>4. ASSUME ~raced
      PROVE  /\ \A h \in hs : Same(val, Desired(h)')
             /\ \A h \in Host \ hs : Same(kv[h], Desired(h)) => Same(kv[h], Desired(h)')
  <2>1. live = site.live
    BY <1>4 DEF TrackInv, SerialInv
  <2>2. \A h \in hosts : Desired(h)' = val
    BY <1>2, <1>3, <2>1 DEF Desired
  <2>3. Same(val, val)
    BY <1>1, SameValue
  <2>4. \A h \in Host \ hosts : Desired(h) = None /\ Desired(h)' = None
    BY <1>2 DEF Desired
  <2>5. live = None => \A h \in Host : Desired(h) = None /\ Desired(h)' = None
    BY <1>2, <1>3, <2>1 DEF Desired, RouteValue
  <2> QED BY <2>2, <2>3, <2>4, <2>5
<1> HIDE DEF hs, val, live
<1> QED BY <1>1, <1>2, <1>4, CommitTracks

\* Every commit keeps it.
LEMMA CommitKeepsTrack ==
    ASSUME ProjectionTypeOK, TrackInv, NEW r \in Handler, Commit(r)
    PROVE  TrackInv'
<1>1. CASE Publish(r)
  <2>1. PICK v \in Version :
          /\ site' = [site EXCEPT !.live = v]
          /\ Project(r, hosts, RouteValue(v, req[r].seen.mode, site.exp))
    BY <1>1 DEF Publish
  <2> DEFINE val == RouteValue(v, req[r].seen.mode, site.exp)
  <2>2. val \in Route \cup {None} /\ hosts \in SUBSET Host
    BY RowType, RouteValueType DEF ProjectionTypeOK
  <2>3. site'.live = v /\ site'.mode = site.mode /\ site'.exp = site.exp
    BY <2>1 DEF ProjectionTypeOK, SiteRow
  <2>4. UNCHANGED <<hosts, kv, rebuild, raced>> /\ req[r].pc = "read"
    BY <1>1 DEF Publish, Commits
  <2>5. ASSUME ~raced
        PROVE  /\ \A h \in hosts : Same(val, Desired(h)')
               /\ \A h \in Host \ hosts : Same(kv[h], Desired(h)) => Same(kv[h], Desired(h)')
    <3>1. req[r].seen.mode = site.mode
      BY <2>4, <2>5 DEF TrackInv, SerialInv
    <3>2. \A h \in hosts : Desired(h)' = val
      BY <2>3, <2>4, <3>1 DEF Desired
    <3>3. Same(val, val)
      BY RowType, SameValue
    <3>4. \A h \in Host \ hosts : Desired(h) = None /\ Desired(h)' = None
      BY <2>4 DEF Desired
    <3> QED BY <3>2, <3>3, <3>4
  <2> HIDE DEF val
  <2>6. Project(r, hosts, val)
    BY <2>1 DEF val
  <2> QED BY <2>2, <2>4, <2>5, <2>6, CommitTracks
<1>2. CASE SetAccess(r)
  BY <1>2, SetModeTracks DEF SetAccess, Commits
<1>3. CASE Downgrade(r)
  <2>1. SetMode(r, "org_only", FALSE) /\ "org_only" \in Mode /\ req[r].pc = "read"
    BY <1>3 DEF Downgrade, Mode, Commits
  <2> QED BY <2>1, SetModeTracks
<1>4. CASE Reproject(r)
  <2> DEFINE s == req[r].seen
             hs == IF s.live = None THEN {} ELSE hosts
             val == RouteValue(s.live, s.mode, s.exp)
  <2>1. val \in Route \cup {None} /\ hs \in SUBSET Host
    BY RowType, RouteValueType DEF ProjectionTypeOK
  <2>2. Project(r, hs, val) /\ UNCHANGED <<site, hosts, kv, rebuild, raced>> /\ req[r].pc = "read"
    BY <1>4 DEF Reproject, dbVars, Commits
  <2>3. ASSUME ~raced
        PROVE  /\ \A h \in hs : Same(val, Desired(h)')
               /\ \A h \in Host \ hs : Same(kv[h], Desired(h)) => Same(kv[h], Desired(h)')
    <3>1. s = site
      BY <2>2, <2>3 DEF TrackInv, SerialInv
    <3>2. \A h \in Host : Desired(h)' = Desired(h)
      BY <2>2 DEF Desired
    <3>3. \A h \in hosts : Desired(h) = val
      BY <3>1 DEF Desired
    <3>4. Same(val, val)
      BY RowType, SameValue
    <3>5. hs \subseteq hosts /\ hosts \subseteq Host
      BY DEF ProjectionTypeOK
    <3> QED BY <3>2, <3>3, <3>4, <3>5
  <2> HIDE DEF hs, val, s
  <2> QED BY <2>1, <2>2, <2>3, CommitTracks
<1>5. CASE VerifyDomain(r)
  <2> DEFINE s == req[r].seen
             hs(h) == IF s.live = None THEN {} ELSE {h}
             val == RouteValue(s.live, s.mode, FALSE)
  <2>1. PICK h \in Custom : hosts' = hosts \cup {h} /\ Project(r, hs(h), val)
    BY <1>5 DEF VerifyDomain
  <2>2. FALSE \in BOOLEAN /\ h \in Host
    BY DEF Custom
  <2>3. val \in Route \cup {None} /\ hs(h) \in SUBSET Host
    BY <2>2, RowType, RouteValueType, ZenonT(30)
  <2>4. UNCHANGED <<site, kv, rebuild, raced>> /\ req[r].pc = "read"
    BY <1>5 DEF VerifyDomain, Commits
  <2>5. ASSUME ~raced
        PROVE  /\ \A g \in hs(h) : Same(val, Desired(g)')
               /\ \A g \in Host \ hs(h) : Same(kv[g], Desired(g)) => Same(kv[g], Desired(g)')
    <3>1. s = site
      BY <2>4, <2>5 DEF TrackInv, SerialInv
    <3>2. Desired(h)' = RouteValue(site.live, site.mode, site.exp)
      BY <2>1, <2>4 DEF Desired
    <3>3. Same(val, Desired(h)')
      BY <2>2, <3>1, <3>2, RowType, SameValue
    <3>4. \A g \in Host : g # h => Desired(g)' = Desired(g)
      BY <2>1, <2>4 DEF Desired
    <3>5. site.live = None => \A g \in Host : Desired(g) = None /\ Desired(g)' = None
      BY <2>4 DEF Desired, RouteValue
    <3>6. CASE site.live = None
      BY <3>1, <3>5, <3>6
    <3>7. CASE site.live # None
      BY <3>1, <3>3, <3>4, <3>7
    <3> QED BY <3>6, <3>7
  <2> HIDE DEF hs, val, s
  <2> QED BY <2>1, <2>3, <2>4, <2>5, CommitTracks
<1>6. CASE DeleteDomain(r)
  <2>1. PICK h \in Custom : hosts' = hosts \ {h} /\ Project(r, {h}, None)
    BY <1>6 DEF DeleteDomain
  <2>2. UNCHANGED <<site, kv, rebuild, raced>> /\ req[r].pc = "read" /\ {h} \in SUBSET Host
    BY <1>6 DEF DeleteDomain, Commits, Custom
  <2>3. Desired(h)' = None /\ \A g \in Host : g # h => Desired(g)' = Desired(g)
    BY <2>1, <2>2 DEF Desired
  <2>4. Same(None, Desired(h)')
    BY <2>3 DEF Same
  <2> QED BY <2>1, <2>2, <2>3, <2>4, CommitTracks
<1>7. CASE DeleteSite(r)
  <2>1. hosts' = {} /\ Project(r, hosts, None) /\ UNCHANGED <<kv, rebuild, raced>> /\ req[r].pc = "read"
    BY <1>7 DEF DeleteSite, Commits
  <2>2. \A h \in Host : Desired(h)' = None
    BY <2>1 DEF Desired
  <2>3. \A h \in Host \ hosts : Desired(h) = None
    BY DEF Desired
  <2>4. hosts \in SUBSET Host /\ \A h \in hosts : Same(None, Desired(h)')
    BY <2>2 DEF Same, ProjectionTypeOK
  <2> QED BY <2>1, <2>2, <2>3, <2>4, CommitTracks
<1>8. CASE NotFound(r)
  <2>1. Project(r, {}, None) /\ UNCHANGED <<site, hosts, kv, rebuild, raced>> /\ req[r].pc = "read"
    BY <1>8 DEF NotFound, Project, dbVars
  <2>2. \A h \in Host : Desired(h)' = Desired(h)
    BY <2>1 DEF Desired
  <2>3. {} \in SUBSET Host
    OBVIOUS
  <2> QED BY <2>1, <2>2, <2>3, CommitTracks
<1> QED BY <1>1, <1>2, <1>3, <1>4, <1>5, <1>6, <1>7, <1>8 DEF Commit

\* Every step keeps it.
LEMMA StepTracks ==
    ASSUME ProjectionTypeOK, TrackInv, [ProjectionNext]_projectionVars
    PROVE  TrackInv'
<1>1. ASSUME NEW r \in Handler, Begin(r) PROVE TrackInv'
  <2>1. UNCHANGED <<site, hosts, kv>> /\ rebuild'.alone = FALSE /\ rebuild'.pc = rebuild.pc
        /\ raced' = (raced \/ rebuild.pc # "idle" \/ \E q \in Handler : ~Idle(q))
    BY <1>1 DEF Begin, dbVars, ProjectionTypeOK
  <2>2. req'[r].pc = "read" /\ req'[r].seen = site /\ \A q \in Handler : q # r => req'[q] = req[q]
    BY <1>1 DEF Begin, NoReq, ProjectionTypeOK
  <2>3. RebuildInv'
    BY <2>1 DEF RebuildInv
  <2>4. ASSUME ~raced' PROVE SerialInv'
    <3>1. ~raced /\ rebuild.pc = "idle" /\ \A q \in Handler : req[q].pc = "idle"
      BY <2>1, <2>4 DEF Idle
    <3>2. \A h \in Host : Same(kv[h], Desired(h))
      BY <3>1 DEF TrackInv, SerialInv
    <3>3. \A h \in Host : Same(kv'[h], Desired(h)')
      BY <2>1, <3>2 DEF Desired
    <3> QED BY <2>1, <2>2, <3>1, <3>3 DEF SerialInv, Idle
  <2> QED BY <2>3, <2>4 DEF TrackInv, SerialInv
<1>2. ASSUME NEW r \in Handler, NEW h \in Host, Write(r, h) PROVE TrackInv'
  <2>1. req[r].pc = "write" /\ h \in req[r].todo /\ kv' = [kv EXCEPT ![h] = req[r].val]
        /\ UNCHANGED <<site, hosts, rebuild, raced>>
    BY <1>2 DEF Write, dbVars
  <2>2. ~Idle(r)
    BY <2>1 DEF Idle
  <2>3. RebuildInv'
    BY <2>1, <2>2, BusyHandler DEF RebuildInv
  <2>4. ASSUME ~raced PROVE SerialInv'
    <3>1. rebuild.pc = "idle" /\ \A q \in Handler : q # r => req[q].pc = "idle"
      BY <2>2, <2>4, BusyHandler DEF Idle
    <3>2. \A q \in Handler : q # r => req'[q].pc = "idle"
      BY <1>2, <3>1 DEF Write, ProjectionTypeOK
    <3>3. \A g \in Host : Desired(g)' = Desired(g)
      BY <2>1 DEF Desired
    <3>4. \A g \in req[r].todo : Same(req[r].val, Desired(g))
      BY <2>1, <2>4 DEF TrackInv, SerialInv
    <3>5. \A g \in Host : g \notin req[r].todo => Same(kv[g], Desired(g))
      BY <2>4, <3>1 DEF TrackInv, SerialInv
    <3>6. \A g \in Host : g \notin req[r].todo \ {h} => Same(kv'[g], Desired(g)')
      <4>1. SUFFICES ASSUME NEW g \in Host, g \notin req[r].todo \ {h} PROVE Same(kv'[g], Desired(g)')
        OBVIOUS
      <4>2. CASE g = h
        BY <2>1, <3>3, <3>4, <4>2 DEF ProjectionTypeOK
      <4>3. CASE g # h
        BY <2>1, <3>3, <3>5, <4>1, <4>3 DEF ProjectionTypeOK
      <4> QED BY <4>2, <4>3
    <3>7. CASE req[r].todo = {h}
      <4>1. req'[r].pc = "idle"
        BY <1>2, <3>7 DEF Write, NoReq, ProjectionTypeOK
      <4> QED BY <2>1, <2>4, <3>1, <3>2, <3>6, <3>7, <4>1 DEF SerialInv, Idle
    <3>8. CASE req[r].todo # {h}
      <4>1. req'[r].pc = "write" /\ req'[r].todo = req[r].todo \ {h} /\ req'[r].val = req[r].val
        BY <1>2, <2>1, <3>8 DEF Write, ProjectionTypeOK
      <4>2. \A g \in req'[r].todo : Same(req'[r].val, Desired(g)')
        BY <3>3, <3>4, <4>1, RowType
      <4> QED BY <2>1, <2>4, <3>1, <3>2, <3>6, <4>1, <4>2 DEF SerialInv, Idle
    <3> QED BY <3>7, <3>8
  <2> QED BY <2>1, <2>3, <2>4 DEF TrackInv, SerialInv
<1>3. ASSUME NEW r \in Handler, NEW h \in Host, WriteFails(r, h) PROVE TrackInv'
  <2>1. ~Idle(r) /\ raced' /\ UNCHANGED rebuild
    BY <1>3 DEF WriteFails, Idle
  <2> QED BY <2>1, BusyHandler DEF TrackInv, RebuildInv, SerialInv
<1>4. CASE Collect
  <2>1. UNCHANGED <<site, hosts, kv, req>> /\ rebuild.pc = "idle" /\ rebuild'.pc = "list"
        /\ rebuild'.snap = Collected(site, hosts) /\ rebuild'.alone = (\A r \in Handler : Idle(r))
        /\ raced' = (raced \/ \E r \in Handler : ~Idle(r))
    BY <1>4 DEF Collect, dbVars
  <2>2. RebuildInv'
    BY <2>1 DEF RebuildInv, Idle, Collected
  <2>3. ASSUME ~raced' PROVE SerialInv'
    BY <2>1, <2>3 DEF SerialInv, Idle
  <2> QED BY <2>2, <2>3 DEF TrackInv, SerialInv
<1>5. CASE ListKeys
  <2>1. UNCHANGED <<site, hosts, kv, req, raced>> /\ rebuild.pc = "list" /\ rebuild'.pc = "prune"
        /\ rebuild'.snap = rebuild.snap /\ rebuild'.alone = rebuild.alone
        /\ rebuild'.todo = {h \in Host : kv[h] # None /\ rebuild.snap[h] = None}
    BY <1>5 DEF ListKeys, dbVars, ProjectionTypeOK
  <2>2. RebuildInv'
    BY <2>1 DEF TrackInv, RebuildInv, Idle, Collected
  <2>3. SerialInv'
    BY <2>1 DEF TrackInv, SerialInv, Idle, Desired
  <2> QED BY <2>2, <2>3 DEF TrackInv
<1>6. ASSUME NEW h \in Host, Prune(h) PROVE TrackInv'
  <2>1. UNCHANGED <<site, hosts, req, raced>> /\ rebuild.pc = "prune" /\ rebuild'.pc = "prune"
        /\ kv' = [kv EXCEPT ![h] = None] /\ rebuild'.snap = rebuild.snap
        /\ rebuild'.alone = rebuild.alone /\ rebuild'.todo = rebuild.todo \ {h}
    BY <1>6 DEF Prune, dbVars, ProjectionTypeOK
  <2>2. \A g \in Host : kv'[g] = IF g = h THEN None ELSE kv[g]
    BY <2>1 DEF ProjectionTypeOK
  <2>3. RebuildInv'
    BY <2>1, <2>2 DEF TrackInv, RebuildInv, Idle, Collected
  <2>4. SerialInv'
    BY <2>1 DEF TrackInv, SerialInv, Idle, Desired
  <2> QED BY <2>3, <2>4 DEF TrackInv
<1>7. CASE Pruned
  <2>1. UNCHANGED <<site, hosts, kv, req, raced>> /\ rebuild.pc = "prune" /\ rebuild.todo = {}
        /\ rebuild'.pc = "put" /\ rebuild'.snap = rebuild.snap /\ rebuild'.alone = rebuild.alone
        /\ rebuild'.todo = {h \in Host : rebuild.snap[h] # None}
    BY <1>7 DEF Pruned, dbVars, ProjectionTypeOK
  <2>2. RebuildInv'
    BY <2>1 DEF TrackInv, RebuildInv, Idle, Collected
  <2>3. SerialInv'
    BY <2>1 DEF TrackInv, SerialInv, Idle, Desired
  <2> QED BY <2>2, <2>3 DEF TrackInv
<1>8. ASSUME NEW h \in Host, Put(h) PROVE TrackInv'
  <2>1. UNCHANGED <<site, hosts, req, raced>> /\ rebuild.pc = "put" /\ rebuild'.pc = "put"
        /\ kv' = [kv EXCEPT ![h] = rebuild.snap[h]] /\ rebuild'.snap = rebuild.snap
        /\ rebuild'.alone = rebuild.alone /\ rebuild'.todo = rebuild.todo \ {h}
    BY <1>8 DEF Put, dbVars, ProjectionTypeOK
  <2>2. \A g \in Host : kv'[g] = IF g = h THEN rebuild.snap[h] ELSE kv[g]
    BY <2>1 DEF ProjectionTypeOK
  <2>3. RebuildInv'
    BY <2>1, <2>2 DEF TrackInv, RebuildInv, Idle, Collected
  <2>4. SerialInv'
    BY <2>1 DEF TrackInv, SerialInv, Idle, Desired
  <2> QED BY <2>3, <2>4 DEF TrackInv
<1>9. CASE Rebuilt
  <2>1. UNCHANGED <<site, hosts, kv, req>> /\ rebuild.pc = "put" /\ rebuild.todo = {}
        /\ rebuild'.pc = "idle" /\ raced' = (raced /\ ~rebuild.alone)
    BY <1>9 DEF Rebuilt, dbVars, NoRebuild
  <2>2. RebuildInv'
    BY <2>1 DEF RebuildInv
  <2>3. ASSUME ~raced' PROVE SerialInv'
    <3>1. rebuild.alone
      BY <2>1, <2>3 DEF TrackInv, SerialInv
    <3>2. \A r \in Handler : req'[r].pc = "idle"
      BY <2>1, <3>1 DEF TrackInv, RebuildInv, Idle
    <3>3. \A h \in Host : kv[h] = Desired(h)
      BY <2>1, <3>1 DEF TrackInv, RebuildInv, Collected, Desired
    <3>4. \A h \in Host : Same(kv[h], Desired(h))
      BY <3>3 DEF Same
    <3>5. \A h \in Host : Same(kv'[h], Desired(h)')
      BY <2>1, <3>4 DEF Desired
    <3> QED BY <2>1, <3>2, <3>5 DEF SerialInv, Idle
  <2> QED BY <2>2, <2>3 DEF TrackInv, SerialInv
<1>10. CASE RebuildFails
  BY <1>10 DEF RebuildFails, NoRebuild, TrackInv, RebuildInv, SerialInv
<1>11. CASE UNCHANGED projectionVars
  BY <1>11 DEF projectionVars, dbVars, TrackInv, RebuildInv, SerialInv, Idle, Desired, Collected
<1> QED BY <1>1, <1>2, <1>3, <1>4, <1>5, <1>6, <1>7, <1>8, <1>9, <1>10, <1>11, CommitKeepsTrack
        DEF ProjectionNext, Continue

\* Handlers that run one after another leave the route table at the committed
\* version and mode of every host, and one undisturbed rebuild brings it back
\* after any overlap or failure.
THEOREM SerialWritesCorrect == ProjectionSafety => []SerialWritesTrack
<1>1. ProjectionInit => TrackInv
  <2> SUFFICES ASSUME ProjectionInit PROVE TrackInv
    OBVIOUS
  <2>1. \A h \in Host : Same(kv[h], Desired(h))
    BY DEF ProjectionInit, Desired, Same, RouteValue, NewSite
  <2>2. rebuild.pc = "idle" /\ \A r \in Handler : req[r].pc = "idle"
    BY DEF ProjectionInit, NoRebuild, NoReq
  <2> QED BY <2>1, <2>2 DEF TrackInv, RebuildInv, SerialInv, Idle
<1>2. TrackInv => SerialWritesTrack
  BY DEF TrackInv, SerialInv, SerialWritesTrack, Quiet, Idle
<1> QED BY <1>1, <1>2, StepTracks, ProjectionTypeCorrect, PTL DEF ProjectionSafety

-----------------------------------------------------------------------------
(* The route table is a cache of the database's past.                      *)

\* What is in flight, in the row or in the snapshot was committed before.
CommittedInv ==
    /\ site.live # None => site.live \in published
    /\ site.mode \in modes /\ hosts \subseteq registered
    /\ \A r \in Handler :
        /\ req[r].pc = "read" => /\ req[r].seen.live # None => req[r].seen.live \in published
                                 /\ req[r].seen.mode \in modes
        /\ req[r].pc = "write" /\ req[r].val # None =>
             /\ req[r].val.version \in published /\ req[r].val.mode \in modes
             /\ req[r].todo \subseteq registered
    /\ rebuild.pc # "idle" => \A h \in Host : rebuild.snap[h] # None =>
        /\ rebuild.snap[h].version \in published /\ rebuild.snap[h].mode \in modes
        /\ h \in registered

\* A commit keeps it if the new row and the projected route are made of what
\* was committed by then.
LEMMA CommitCommitted ==
    ASSUME ProjectionTypeOK, CommittedInv,
           NEW r \in Handler, NEW hs \in SUBSET Host, NEW v \in Version \cup {None}, NEW m \in Mode,
           NEW e \in BOOLEAN, NEW val, val = None \/ val = RouteValue(v, m, e), Project(r, hs, val),
           published \subseteq published', modes \subseteq modes', registered \subseteq registered',
           UNCHANGED rebuild,
           site'.live # None => site'.live \in published',
           site'.mode \in modes', hosts' \subseteq registered',
           val # None /\ v # None => v \in published' /\ m \in modes' /\ hs \subseteq registered'
    PROVE  CommittedInv'
<1>1. \A q \in Handler : q # r => req'[q] = req[q]
  BY DEF Project, ProjectionTypeOK
<1>2. \/ req'[r].pc = "idle"
      \/ req'[r].pc = "write" /\ req'[r].todo = hs /\ req'[r].val = val
  BY DEF Project, NoReq, ProjectionTypeOK
<1>3. val # None => v # None /\ val.version = v /\ val.mode = m
  BY RouteValueType
<1>4. val # None => val.version \in published' /\ val.mode \in modes' /\ hs \subseteq registered'
  BY <1>3
<1> QED BY <1>1, <1>2, <1>4 DEF CommittedInv

\* Every step keeps it, and the past only grows.
LEMMA StepCommitted ==
    ASSUME ProjectionTypeOK, CommittedInv, [ProjectionNext]_projectionVars
    PROVE  /\ CommittedInv'
           /\ published \subseteq published' /\ modes \subseteq modes' /\ registered \subseteq registered'
<1> DEFINE Goal == /\ CommittedInv'
                   /\ published \subseteq published' /\ modes \subseteq modes'
                   /\ registered \subseteq registered'
<1> SUFFICES Goal
  OBVIOUS
<1>1. ASSUME NEW r \in Handler, Begin(r) PROVE Goal
  <2>1. UNCHANGED <<site, hosts, published, modes, registered>> /\ rebuild'.snap = rebuild.snap
        /\ rebuild'.pc = rebuild.pc
    BY <1>1 DEF Begin, dbVars, ProjectionTypeOK
  <2>2. req'[r].pc = "read" /\ req'[r].seen = site /\ \A q \in Handler : q # r => req'[q] = req[q]
    BY <1>1 DEF Begin, NoReq, ProjectionTypeOK
  <2> QED BY <2>1, <2>2 DEF CommittedInv
<1>2. ASSUME NEW r \in Handler, Publish(r) PROVE Goal
  <2>1. PICK v \in Version :
          /\ site' = [site EXCEPT !.live = v] /\ published' = published \cup {v}
          /\ Project(r, hosts, RouteValue(v, req[r].seen.mode, site.exp))
    BY <1>2 DEF Publish
  <2>2. site'.live = v /\ site'.mode = site.mode
    BY <2>1 DEF ProjectionTypeOK, SiteRow
  <2>3. UNCHANGED <<hosts, modes, registered, rebuild>> /\ req[r].seen.mode \in modes
    BY <1>2 DEF Publish, Commits, CommittedInv
  <2>4. hosts \in SUBSET Host /\ v \in Version \cup {None} /\ req[r].seen.mode \in Mode /\ site.exp \in BOOLEAN
    BY RowType DEF ProjectionTypeOK
  <2>5. published \subseteq published' /\ v \in published' /\ site'.live \in published'
        /\ site'.mode \in modes' /\ hosts' \subseteq registered' /\ hosts \subseteq registered'
        /\ req[r].seen.mode \in modes' /\ modes \subseteq modes' /\ registered \subseteq registered'
    BY <2>1, <2>2, <2>3 DEF CommittedInv
  <2>6. CommittedInv'
    BY <2>1, <2>3, <2>4, <2>5, CommitCommitted
  <2> QED BY <2>5, <2>6
<1>3. ASSUME NEW r \in Handler, NEW mode \in Mode, NEW exp \in BOOLEAN, Commits(r), SetMode(r, mode, exp)
      PROVE  Goal
  <2> DEFINE live == req[r].seen.live
             hs == IF live = None THEN {} ELSE hosts
  <2>1. site' = [site EXCEPT !.mode = mode, !.exp = exp] /\ modes' = modes \cup {mode}
        /\ Project(r, hs, RouteValue(live, mode, exp)) /\ UNCHANGED <<hosts, published, registered, rebuild>>
    BY <1>3 DEF SetMode
  <2>2. site'.live = site.live /\ site'.mode = mode
    BY <2>1 DEF ProjectionTypeOK, SiteRow
  <2>3. live # None => live \in published
    BY <1>3 DEF Commits, CommittedInv
  <2>4. hs \in SUBSET Host /\ hs \subseteq hosts /\ live \in Version \cup {None}
    BY RowType DEF ProjectionTypeOK
  <2> HIDE DEF hs, live
  <2>5. /\ site'.live # None => site'.live \in published'
        /\ live # None => live \in published'
        /\ site'.mode \in modes' /\ mode \in modes' /\ modes \subseteq modes'
        /\ hosts' \subseteq registered' /\ hs \subseteq registered'
        /\ published \subseteq published' /\ registered \subseteq registered'
    BY <2>1, <2>2, <2>3, <2>4 DEF CommittedInv
  <2>6. CommittedInv'
    BY <2>1, <2>4, <2>5, CommitCommitted
  <2> QED BY <2>5, <2>6
<1>4. ASSUME NEW r \in Handler, SetAccess(r) PROVE Goal
  BY <1>3, <1>4 DEF SetAccess
<1>5. ASSUME NEW r \in Handler, Downgrade(r) PROVE Goal
  <2>1. SetMode(r, "org_only", FALSE) /\ "org_only" \in Mode /\ Commits(r) /\ FALSE \in BOOLEAN
    BY <1>5 DEF Downgrade, Mode
  <2> HIDE DEF Goal
  <2> QED BY <1>3, <2>1
<1>6. ASSUME NEW r \in Handler, Reproject(r) PROVE Goal
  <2> DEFINE s == req[r].seen
             hs == IF s.live = None THEN {} ELSE hosts
  <2>1. Project(r, hs, RouteValue(s.live, s.mode, s.exp))
        /\ UNCHANGED <<site, hosts, published, modes, registered, rebuild>>
    BY <1>6 DEF Reproject, dbVars
  <2>2. (s.live # None => s.live \in published) /\ s.mode \in modes
    BY <1>6 DEF Reproject, Commits, CommittedInv
  <2>3. hs \in SUBSET Host /\ hs \subseteq hosts /\ s.live \in Version \cup {None}
        /\ s.mode \in Mode /\ s.exp \in BOOLEAN
    BY RowType DEF ProjectionTypeOK
  <2> HIDE DEF hs, s
  <2>4. CommittedInv'
    BY <2>1, <2>2, <2>3, CommitCommitted DEF CommittedInv
  <2> QED BY <2>1, <2>4
<1>7. ASSUME NEW r \in Handler, VerifyDomain(r) PROVE Goal
  <2> DEFINE s == req[r].seen
             hs(h) == IF s.live = None THEN {} ELSE {h}
  <2>1. PICK h \in Custom : hosts' = hosts \cup {h} /\ registered' = registered \cup {h}
          /\ Project(r, hs(h), RouteValue(s.live, s.mode, FALSE))
    BY <1>7 DEF VerifyDomain
  <2>2. UNCHANGED <<site, published, modes, rebuild>>
        /\ (s.live # None => s.live \in published) /\ s.mode \in modes
    BY <1>7 DEF VerifyDomain, Commits, CommittedInv
  <2>3. hs(h) \in SUBSET Host /\ hs(h) \subseteq {h} /\ FALSE \in BOOLEAN
        /\ s.live \in Version \cup {None} /\ s.mode \in Mode
    BY RowType DEF Custom, ProjectionTypeOK
  <2> HIDE DEF hs, s
  <2>4. CommittedInv'
    BY <2>1, <2>2, <2>3, CommitCommitted DEF CommittedInv
  <2> QED BY <2>1, <2>2, <2>4
<1>8. ASSUME NEW r \in Handler, NEW hs \in SUBSET Host, Project(r, hs, None), hosts' \subseteq hosts,
             site'.live = None \/ site'.live = site.live, site'.mode = site.mode,
             UNCHANGED <<published, modes, registered, rebuild>>
      PROVE  Goal
  <2>1. None \in Version \cup {None} /\ "public" \in Mode /\ FALSE \in BOOLEAN
    BY DEF Mode
  <2>2. CommittedInv'
    BY <1>8, <2>1, CommitCommitted DEF CommittedInv
  <2> QED BY <1>8, <2>2
<1>9. ASSUME NEW r \in Handler, DeleteDomain(r) PROVE Goal
  <2>1. PICK h \in Custom : hosts' = hosts \ {h} /\ Project(r, {h}, None)
    BY <1>9 DEF DeleteDomain
  <2>2. {h} \in SUBSET Host /\ UNCHANGED <<site, published, modes, registered, rebuild>>
    BY <1>9 DEF DeleteDomain, Custom
  <2> HIDE DEF Goal
  <2> QED BY <1>8, <2>1, <2>2
<1>10. ASSUME NEW r \in Handler, DeleteSite(r) PROVE Goal
  <2>1. Project(r, hosts, None) /\ hosts' = {} /\ UNCHANGED <<published, modes, registered, rebuild>>
        /\ hosts \in SUBSET Host
    BY <1>10 DEF DeleteSite, ProjectionTypeOK
  <2>2. site'.live = None /\ site'.mode = site.mode
    BY <1>10 DEF DeleteSite, ProjectionTypeOK, SiteRow
  <2> HIDE DEF Goal
  <2> QED BY <1>8, <2>1, <2>2
<1>11. ASSUME NEW r \in Handler, NotFound(r) PROVE Goal
  <2>1. Project(r, {}, None) /\ UNCHANGED <<site, hosts, published, modes, registered, rebuild>>
        /\ {} \in SUBSET Host
    BY <1>11 DEF NotFound, Project, dbVars
  <2> HIDE DEF Goal
  <2> QED BY <1>8, <2>1
<1>12. ASSUME NEW r \in Handler, NEW h \in Host, Write(r, h) \/ WriteFails(r, h) PROVE Goal
  <2>1. UNCHANGED <<site, hosts, published, modes, registered, rebuild>>
    BY <1>12 DEF Write, WriteFails, dbVars
  <2>2. \A q \in Handler : q # r => req'[q] = req[q]
    BY <1>12 DEF Write, WriteFails, ProjectionTypeOK
  <2>3. req[r].pc = "write" /\
        \/ req'[r].pc = "idle"
        \/ req'[r].pc = "write" /\ req'[r].val = req[r].val /\ req'[r].todo \subseteq req[r].todo
    BY <1>12 DEF Write, WriteFails, NoReq, ProjectionTypeOK
  <2> QED BY <2>1, <2>2, <2>3 DEF CommittedInv
<1>13. CASE Collect
  <2>1. UNCHANGED <<site, hosts, req, published, modes, registered>> /\ rebuild'.snap = Collected(site, hosts)
    BY <1>13 DEF Collect, dbVars
  <2>2. \A h \in Host : Collected(site, hosts)[h] # None =>
          /\ Collected(site, hosts)[h].version = site.live /\ Collected(site, hosts)[h].mode = site.mode
          /\ site.live # None /\ h \in hosts
    BY RowType, RouteValueType DEF Collected
  <2> QED BY <2>1, <2>2 DEF CommittedInv
<1>14. CASE Continue
  <2>1. /\ UNCHANGED <<site, hosts, req, published, modes, registered>>
        /\ \/ rebuild'.pc = "idle"
           \/ rebuild.pc # "idle" /\ rebuild'.snap = rebuild.snap
    <3>1. CASE ListKeys \/ Pruned
      BY <3>1 DEF ListKeys, Pruned, dbVars, ProjectionTypeOK
    <3>2. ASSUME NEW h \in Host, Prune(h) \/ Put(h)
          PROVE  /\ UNCHANGED <<site, hosts, req, published, modes, registered>>
                 /\ rebuild.pc # "idle" /\ rebuild'.snap = rebuild.snap
      BY <3>2 DEF Prune, Put, dbVars, ProjectionTypeOK
    <3>3. CASE Rebuilt
      BY <3>3 DEF Rebuilt, NoRebuild, dbVars
    <3> QED BY <1>14, <3>1, <3>2, <3>3 DEF Continue
  <2> QED BY <2>1 DEF CommittedInv
<1>15. CASE RebuildFails
  BY <1>15 DEF RebuildFails, NoRebuild, CommittedInv, dbVars
<1>16. CASE UNCHANGED projectionVars
  BY <1>16 DEF projectionVars, dbVars, CommittedInv
<1> HIDE DEF Goal
<1>17. ASSUME NEW r \in Handler, Commit(r) PROVE Goal
  BY <1>2, <1>4, <1>5, <1>6, <1>7, <1>9, <1>10, <1>11, <1>17 DEF Commit
<1>18. CASE \E r \in Handler : Begin(r) \/ Commit(r) \/ \E h \in Host : Write(r, h) \/ WriteFails(r, h)
  BY <1>1, <1>12, <1>17, <1>18
<1> QED BY <1>13, <1>14, <1>15, <1>16, <1>18 DEF ProjectionNext

\* A step that leaves the table alone is a step of the abstract database.
LEMMA AbstractCommit ==
    ASSUME ProjectionTypeOK', CommittedInv', UNCHANGED kv,
           published \subseteq published', modes \subseteq modes', registered \subseteq registered'
    PROVE  Cache!CacheNext
<1>1. \A h \in Host : Entry(Desired(h)') # None =>
        /\ Entry(Desired(h)').version \in published' /\ Entry(Desired(h)').mode \in modes'
        /\ h \in registered'
  <2> SUFFICES ASSUME NEW h \in Host, Entry(Desired(h)') # None
               PROVE  /\ Entry(Desired(h)').version \in published' /\ Entry(Desired(h)').mode \in modes'
                      /\ h \in registered'
    OBVIOUS
  <2>1. h \in hosts' /\ Desired(h)' = RouteValue(site'.live, site'.mode, site'.exp) /\ Desired(h)' # None
    BY DEF Entry, Desired
  <2>2. site'.live \in Version \cup {None} /\ site'.mode \in Mode /\ site'.exp \in BOOLEAN
    BY DEF ProjectionTypeOK, SiteRow
  <2>3. site'.live # None /\ Desired(h)'.version = site'.live /\ Desired(h)'.mode = site'.mode
    BY <2>1, <2>2, RouteValueType
  <2> QED BY <2>1, <2>3 DEF Entry, CommittedInv
<1>2. Cache!Commit
  BY <1>1 DEF Cache!Commit, Entry
<1> QED BY <1>2 DEF Cache!CacheNext

\* A step that sets one entry, to nothing or to what was committed, is a step
\* of the abstract table.
LEMMA AbstractWrite ==
    ASSUME ProjectionTypeOK, NEW h \in Host, NEW val \in Route \cup {None},
           kv' = [kv EXCEPT ![h] = val],
           UNCHANGED <<site, hosts, published, modes, registered>>,
           val # None => val.version \in published /\ val.mode \in modes /\ h \in registered
    PROVE  Cache!CacheNext
<1> DEFINE table == [g \in Host |-> Entry(kv[g])]
<1>1. UNCHANGED [g \in Host |-> Entry(Desired(g))]
  BY DEF Desired
<1>2. [g \in Host |-> Entry(kv'[g])] = [table EXCEPT ![h] = Entry(val)]
  BY DEF ProjectionTypeOK
<1>3. CASE val = None
  <2>1. Entry(val) = None
    BY <1>3 DEF Entry
  <2>2. Cache!Drop(h)
    BY <1>1, <1>2, <2>1 DEF Cache!Drop
  <2> QED BY <2>2 DEF Cache!CacheNext
<1>4. CASE val # None
  <2>1. Entry(val) \in [version : published, mode : modes]
    BY <1>4 DEF Entry
  <2>2. Cache!Fill(h)
    BY <1>1, <1>2, <1>4, <2>1 DEF Cache!Fill
  <2> QED BY <2>2 DEF Cache!CacheNext
<1> QED BY <1>3, <1>4

\* Every step of the handlers and of the rebuild is a step of RouteCache or
\* leaves it alone.
LEMMA StepRefines ==
    ASSUME ProjectionTypeOK, CommittedInv, [ProjectionNext]_projectionVars
    PROVE  [Cache!CacheNext]_(Cache!cacheVars)
<1>1. /\ ProjectionTypeOK' /\ CommittedInv'
      /\ published \subseteq published' /\ modes \subseteq modes' /\ registered \subseteq registered'
  BY StepType, StepCommitted
<1>2. ASSUME NEW r \in Handler, NEW h \in Host, Write(r, h) PROVE Cache!CacheNext
  <2>1. kv' = [kv EXCEPT ![h] = req[r].val] /\ UNCHANGED <<site, hosts, published, modes, registered>>
        /\ req[r].pc = "write" /\ h \in req[r].todo
    BY <1>2 DEF Write, dbVars
  <2>2. req[r].val # None => req[r].val.version \in published /\ req[r].val.mode \in modes /\ h \in registered
    BY <2>1 DEF CommittedInv
  <2> QED BY <2>1, <2>2, RowType, AbstractWrite
<1>3. ASSUME NEW h \in Host, Prune(h) PROVE Cache!CacheNext
  <2>1. None \in Route \cup {None} /\ kv' = [kv EXCEPT ![h] = None]
        /\ UNCHANGED <<site, hosts, published, modes, registered>>
    BY <1>3 DEF Prune, dbVars
  <2> QED BY <2>1, AbstractWrite
<1>4. ASSUME NEW h \in Host, Put(h) PROVE Cache!CacheNext
  <2>1. rebuild.snap[h] \in Route \cup {None} /\ kv' = [kv EXCEPT ![h] = rebuild.snap[h]]
        /\ UNCHANGED <<site, hosts, published, modes, registered>> /\ rebuild.pc # "idle"
    BY <1>4 DEF Put, dbVars, ProjectionTypeOK
  <2>2. rebuild.snap[h] # None =>
          rebuild.snap[h].version \in published /\ rebuild.snap[h].mode \in modes /\ h \in registered
    BY <2>1 DEF CommittedInv
  <2> QED BY <2>1, <2>2, AbstractWrite
<1>5. CASE UNCHANGED kv
  BY <1>1, <1>5, AbstractCommit
<1>6. \/ \E r \in Handler, h \in Host : Write(r, h)
      \/ \E h \in Host : Prune(h) \/ Put(h)
      \/ UNCHANGED kv
  BY DEF ProjectionNext, projectionVars, Begin, Commit, Publish, SetAccess, SetMode, Downgrade, Reproject,
         VerifyDomain, DeleteDomain, DeleteSite, NotFound, WriteFails, Collect, Continue, ListKeys, Pruned,
         Rebuilt, RebuildFails
<1> QED BY <1>2, <1>3, <1>4, <1>5, <1>6

\* Whatever overlaps, fails or restarts, the route table the edge reads is a
\* cache of the database's past: RouteProjection implements RouteCache.
THEOREM RoutesAreCache == ProjectionSafety => EntriesWereCommitted
<1>1. ProjectionInit => CommittedInv
  BY DEF ProjectionInit, CommittedInv, NewSite, NoReq, NoRebuild
<1>2. ProjectionSafety => []CommittedInv
  BY <1>1, StepCommitted, ProjectionTypeCorrect, PTL DEF ProjectionSafety
<1>3. ProjectionInit => Cache!CacheInit
  BY DEF ProjectionInit, Cache!CacheInit, Entry, Desired, RouteValue, NewSite
<1> QED BY <1>2, <1>3, StepRefines, ProjectionTypeCorrect, PTL
        DEF ProjectionSafety, EntriesWereCommitted, Cache!CacheSpec
=============================================================================
