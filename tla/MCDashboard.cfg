SPECIFICATION Spec
CONSTANTS
    Deploy = {d1, d2}
    Skill = {f1, f2}
    Name = {n1, n2}
    None = None
    MaxUploads = 2
    Authorize = {a1, a2}
    Text <- MCText
    Uris <- MCUris
    Registered <- MCRegistered
    SkipConsent = FALSE
    Req = {r1, r2}
    Orgs = 2
    TokenTtl = 1
    JwtLife = 3
    CookieTtl = 1
    OrgTtl = 1
    MaxRequest = 1
    MaxClock = 5
    Unset = Unset
    MaxClicks = 3
INVARIANTS
    DashTypeOK
    WorkingIsRunning
    UploadHasItsDialog
    AllowlistSound
    TokenStillValid
    SwitchSticks
    StaleOrgBounded
    ShowsOwnWrite
    LastChoiceWins
PROPERTIES
    ConsentedGainsNoCallback
    ClicksSettle
CHECK_DEADLOCK FALSE
