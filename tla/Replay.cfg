SPECIFICATION Spec
CONSTANTS
    Services = {gateway, locker}
    Tokens <- SomeTokens
    Requests = {r1, r2}
    JWKs <- SomeJWKs
    Skew = 1
    MaxLifetime = 2
    TTL = 6
    Drift = 1
    Delay = 1
    MaxClock = 9
SYMMETRY Symmetry
INVARIANTS
    TypeOK
    OneUse
    UsedIsHeld
CHECK_DEADLOCK FALSE
