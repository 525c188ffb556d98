\* As many connections as callers, the size both services give their pools.
CONSTANTS
    Callers = {c1, c2, c3}
    Conn = {k1, k2, k3}
    NoConn = NoConn
    MaxSize = 3
SPECIFICATION FairSpec
INVARIANTS NeverParks
PROPERTIES CallsReturn
