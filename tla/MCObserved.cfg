CONSTANTS
    Links = {m1, m2}
    Txn = {t1, t2}
    WithPin = {}
    NoTxn = NoTxn
    Limit = 2
    Conn = {k1}
    NoConn = NoConn
    MaxDbFaults = 0
    EventLimit = 2
    MaxFailedPosts = 1
SYMMETRY Symmetry
SPECIFICATION ObservedSpec
INVARIANTS BoardTypeOK ApprovalsAreReal DriftIsBounded
CHECK_DEADLOCK FALSE
