\* Two requests and one event around them; two verifications over a rotation;
\* three requests in three windows of the limiter; one viewer and two admin
\* requests that overlap, two seconds, faults.
SPECIFICATION MCSpec
CONSTANTS
  q1 = q1
  q2 = q2
  Req = {q1, q2}
  Inputs <- MCInputs
  Routes <- MCRoutes
  Manifest <- MCManifest
  NoRoute = NoRoute
  Malformed = Malformed
  Pending = Pending
  MaxEvents = 1
  Kid = {k1, k2}
  Verification = {v1, v2}
  Ttl = 1
  Grace = 1
  Hit = {h1, h2, h3}
  Limit = 1
  Window = 2
  MaxTime = 3
  User = {u1}
  External = {u1}
  Admin = {a1, a2}
  Anon = Anon
  SiteKey = SiteKey
  OrgKey = OrgKey
  NoKey = NoKey
  TTL = 2
  MaxNow = 2
  MaxBegun = 3
  MaxOverlapping = 2
  Faults = TRUE
SYMMETRY AdminSymmetry
CHECK_DEADLOCK FALSE
INVARIANTS TypeOK CacheTransparent GatedStaysGated RefusedShowsNothing ViewsCounted
           RetiredKeysRefused RefusedOnlyOverLimit
           AccessTypeOK RevokedTokensRejected FreshTokenServed
PROPERTIES NoRemintAfterRevocation
