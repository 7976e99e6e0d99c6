SPECIFICATION Spec
CONSTANTS
    t1 = t1  t2 = t2  x = x  y = y  z = z
    NoKey = NoKey
    Threads = {t1, t2}
    DataKeys = {x, y, z}
    TTL = 1
    MaxSize = 2
    MaxClock = 2
SYMMETRY KeySymmetry
INVARIANTS TypeOK CacheBounded HitWasLive LiveKeyKept LifetimeBounded
