SPECIFICATION Spec
CONSTANTS
    t1 = t1
    t2 = t2
    Worker = {w1, w2}
    Token = {t1, t2}
    Claims <- MCClaims
    CLOCK_TOLERANCE_SECONDS = 1
    REPLAY_MARGIN = 3
    LAMBDA_TIMEOUT = 2
    MAX_SKEW = 1
    U64_MAX = 5000
    MAX_TIME = 8
SYMMETRY MCSymmetry
INVARIANTS
    TokenChain
    SweepIsFinal
    MintWindow
    ReplayAnswerIsHonest
PROPERTY
    OncePerTokenSpec
