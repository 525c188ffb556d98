\* Three transactions on two merchant connections and two connections to the
\* issuer, which break and are replaced while the database works: what one
\* transaction leaves on a connection must not reach another.
CONSTANTS
    Links = {m1, m2}
    Txn = {t1, t2, t3}
    WithPin = {}
    NoTxn = NoTxn
    Limit = 2
    Conn = {k1, k2}
    NoConn = NoConn
    MaxDbFaults = 0
SYMMETRY Symmetry
SPECIFICATION Spec
INVARIANTS TypeOK ApprovedOnce OneExchange
PROPERTIES FollowsProtocol
\* The run is over once every merchant connection is closed.
CHECK_DEADLOCK FALSE
