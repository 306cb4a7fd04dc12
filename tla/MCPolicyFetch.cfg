SPECIFICATION Spec
CONSTANTS
    Version = {"exact", "long", "binary"}
    Size <- MCSize
    NotUtf8 = {"binary"}
    None = None
    Refusals <- MCRefusals
    REQUEST_TIMEOUT = 1
    MAX_POLICY_BYTES = 2
    DEFAULT_RATE_LIMIT_BACKOFF = 2
    MAX_RATE_LIMIT_BACKOFF = 4
    MAX_SKEW = 1
INVARIANTS
    TokenIsRevoked
    LoadedIsTheFile
    LimitIsWaitedOut
PROPERTIES
    LimitsAreHeard
    PolicyLoadSpec
