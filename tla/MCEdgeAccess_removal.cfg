\* actions.ts: a removed member's tokens are rejected immediately.  No call fails.
SPECIFICATION BoundedSpec
CONSTANTS
  User = {u1}
  External = {u1}
  Admin = {a1, a2}
  Anon = Anon
  SiteKey = SiteKey
  OrgKey = OrgKey
  NoKey = NoKey
  TTL = 2
  MaxNow = 2
  MaxBegun = 3
  MaxOverlapping = 2
  Faults = FALSE
SYMMETRY AdminSymmetry
PROPERTIES RemovedMemberRejected
