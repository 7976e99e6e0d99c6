SPECIFICATION Spec
CONSTANTS
    c1 = c1  c2 = c2  k1 = k1  k2 = k2  k3 = k3
    NoConn = NoConn
    Callers = {c1, c2}
    Conns = {k1, k2, k3}
    MaxRetries = 2
    MaxPool = 1
    MaxHandlers = 2
    MaxRequests = 2
    MaxEnds = 1
    MaxStops = 0
    Garbles = FALSE
SYMMETRY RpcSymmetry
INVARIANTS TypeOK SoleOwner OwnResponse PooledQuiet ConnectionsBounded HandledPerRetries
CHECK_DEADLOCK FALSE
