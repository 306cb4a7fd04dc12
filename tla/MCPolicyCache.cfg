SPECIFICATION FairSpec
CONSTANTS
    v1 = v1
    bad = bad
    Worker = {w1, w2}
    Version = {v1, bad}
    Invalid = {bad}
    NoPolicy = NoPolicy
    PRIMARY_TTL = 2
    STALE_TTL = 4
    MAX_JITTER = 1
    MAX_BACKOFF = 4
    SHIFT_BITS = 2
    RetryAfters = {0, 9}
    LOAD_TIMEOUT = 1
INVARIANTS
    HonoursRetryAfter
PROPERTIES
    AuthorizedIsCurrent
    FailsClosed
    EveryCallReturns
    Recovers
