\* More callers than connections: the comment at pool.py:49.
CONSTANTS
    Callers = {c1, c2}
    Conn = {k1}
    NoConn = NoConn
    MaxSize = 1
SPECIFICATION Spec
INVARIANTS ParkedForAReturn
