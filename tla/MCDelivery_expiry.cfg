SPECIFICATION Spec
CONSTANTS
    c1 = c1
    c2 = c2
    b1 = b1
    b2 = b2
    Client = {c1, c2}
    Sdk = {c1}
    Folder <- MCFolder
    Limit = 2
    MaxRetries = 1
    None = None
    Host = {h1, h2}
    Canonical = h1
    Version = {v1, v2}
    Handler = {r1, r2}
    MaxRequests = 3
    MaxFailures = 1
INVARIANT
    LinkExpirySurvives
CHECK_DEADLOCK FALSE
