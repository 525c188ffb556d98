\* Nothing fails but the issuer: the comment at gateway/app.py:210.
CONSTANTS
    Links = {m1}
    Txn = {t1, t2}
    WithPin = {}
    NoTxn = NoTxn
    Limit = 1
    Conn = {k1}
    NoConn = NoConn
    MaxDbFaults = 0
SPECIFICATION Spec
INVARIANTS IssuerDownIs91
CHECK_DEADLOCK FALSE
