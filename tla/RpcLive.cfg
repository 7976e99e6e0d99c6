SPECIFICATION FairSpec
CONSTANTS
    c1 = c1  c2 = c2  k1 = k1  k2 = k2  k3 = k3
    NoConn = NoConn
    Callers = {c1, c2}
    Conns = {k1, k2}
    MaxRetries = 2
    MaxPool = 1
    MaxHandlers = 1
    MaxRequests = 1
    MaxEnds = 1
    MaxStops = 1
    Garbles = TRUE
INVARIANTS OneAfterStop
PROPERTIES CallsImplemented NeverClosedUnanswered CallReturns HandlerReleased StopEnds
CHECK_DEADLOCK FALSE
