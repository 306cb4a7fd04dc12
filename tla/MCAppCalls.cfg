SPECIFICATION CallsSpec
CONSTANTS
    r1 = r1
    r2 = r2
    a = a
    b = b
    Repo = {r1, r2}
    Name = {a, b, c}
    Installation = {i1, i2}
    None = None
    TargetLists <- MCTargetLists
    GITHUB_REQUEST_MAX_ATTEMPTS = 2
    Replies <- MCReplies
    Ahead <- MCAhead
    Taking = {0, 30}
    START = 1000
    REQUEST_TIMEOUT = 30
    GITHUB_REQUEST_INITIAL_BACKOFF = 1
    GITHUB_REQUEST_MAX_BACKOFF = 5
    BACKDATED = 300
    LIFETIME = 2700
    GITHUB_MAX_LIFETIME = 3000
SYMMETRY MCSymmetry
INVARIANTS
    GrantIsScoped
    OneInstallation
    OrphansAreKnown
    CallsEndInTime
PROPERTIES
    JwtIsAccepted
