SPECIFICATION FairSpec
CONSTANTS
    Worker = {w1, w2}
    Key = {k1}
    JWKS_TTL = 3
    JWKS_REFRESH_COOLDOWN = 2
    HTTP_TIMEOUT = 1
PROPERTIES
    RefreshesAreSpaced
    WithdrawnKeyDies
    RotationIsNoticed
    TurnsAreKept
    EveryCallReturns
    PublishedKeyWorks
