SPECIFICATION FairSpec
CONSTANTS
    t1 = t1  t2 = t2  x = x  y = y  z = z
    NoKey = NoKey
    Threads = {t1, t2}
    DataKeys = {x, y}
    TTL = 1
    MaxSize = 1
    MaxClock = 2

PROPERTIES ExpiredEntryLeaves
