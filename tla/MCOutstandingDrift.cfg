CONSTANTS
    Links = {m1, m2}
    Txn = {t1, t2}
    WithPin = {}
    NoTxn = NoTxn
    Limit = 2
    Conn = {k1, k2}
    NoConn = NoConn
    MaxDbFaults = 0
    EventLimit = 1
    MaxFailedPosts = 0
SYMMETRY Symmetry
SPECIFICATION ObservedSpec
INVARIANTS OutstandingNeverDrifts
CHECK_DEADLOCK FALSE
