SPECIFICATION Spec
CONSTANTS
    REQUEST_TIMEOUT = 2
    LAMBDA_TIMEOUT = 4
    LIFETIME = 6
    MAX_SKEW = 1
INVARIANTS
    OutputIsRevocable
    NothingIsLeftSilently
