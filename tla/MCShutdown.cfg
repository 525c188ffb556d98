\* Two handlers for one slot and one issuer connection, events posted two at
\* a time: enough for a handler that waits while the process goes down, and
\* for an event that overtakes another.
CONSTANTS
    Links = {1, 2}
    Txn = {1, 2}
    WithPin = {}
    NoTxn = 0
    Limit = 1
    Conn = {k1}
    NoConn = NoConn
    MaxDbFaults = 0
    EventLimit = 2
    MaxFailedPosts = 1
SPECIFICATION ShutdownFairSpec
INVARIANTS ShutdownTypeOK AcceptedIsFinished EventsAreFinished
PROPERTIES ShutdownEnds
ACTION_CONSTRAINTS SentInOrder SignalInTime IssuerFaultBound PostFaultBound
CHECK_DEADLOCK FALSE
