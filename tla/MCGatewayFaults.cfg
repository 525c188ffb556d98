\* Two handlers compete for one slot; any two database calls
\* may fail, with or without effect, and one PIN block may be untranslatable.
CONSTANTS
    Links = {m1, m2}
    Txn = {t1, t2}
    WithPin = {t2}
    NoTxn = NoTxn
    Limit = 1
    Conn = {k1}
    NoConn = NoConn
    MaxDbFaults = 2
SPECIFICATION FairSpec
INVARIANTS HandledIsSettled CompletedOnce RowIsTrue SlotsCoverPool
PROPERTIES ToldIsFinal HandlersReturn
\* The run is over once every merchant connection is closed.
CHECK_DEADLOCK FALSE
