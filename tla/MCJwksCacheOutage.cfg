SPECIFICATION Spec
CONSTANTS
    Worker = {w1, w2}
    Key = {k1, k2}
    JWKS_TTL = 3
    JWKS_REFRESH_COOLDOWN = 2
    HTTP_TIMEOUT = 1
PROPERTY
    OutageIsUnavailable
