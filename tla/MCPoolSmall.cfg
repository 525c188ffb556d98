\* Four callers share two connections (a third can exist but must not): callers
\* park, overtake each other and wait for the lock.
CONSTANTS
    Callers = {c1, c2, c3, c4}
    Conn = {k1, k2, k3}
    NoConn = NoConn
    MaxSize = 2
SYMMETRY Symmetry
SPECIFICATION Spec
INVARIANTS TypeOK Accounted Exclusive Holding LockLine
PROPERTIES KeepsPromise
