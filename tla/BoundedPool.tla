----------------------------- MODULE BoundedPool -----------------------------
(***************************************************************************)
(* What a pool of connections to one downstream host promises, whatever    *)
(* its internals: a connection is lent to one caller at a time, and the    *)
(* host never has more than MaxSize of them, those still being closed      *)
(* included.  ConnectionPool (services/common/pool.py) implements this.    *)
(***************************************************************************)
EXTENDS Naturals, FiniteSets

CONSTANTS Callers,      \* tasks that borrow connections
          Conn,         \* connections that can exist
          NoConn,       \* what a caller without a connection holds, no Conn
          MaxSize       \* most connections the downstream host ever has

VARIABLES spare,        \* connections ready to be lent
          lent,         \* [Callers -> connection lent, or NoConn]
          retiring      \* connections given up and not closed yet

vars == <<spare, lent, retiring>>

Lent == {lent[c] : c \in Callers} \ {NoConn}

Existing == spare \cup Lent \cup retiring

TypeOK ==
    /\ spare \subseteq Conn
    /\ lent \in [Callers -> Conn \cup {NoConn}]
    /\ retiring \subseteq Conn

Init ==
    /\ spare = {}
    /\ lent = [c \in Callers |-> NoConn]
    /\ retiring = {}

\* A caller borrows a spare connection ...
Lend(c, k) ==
    /\ lent[c] = NoConn
    /\ k \in spare
    /\ spare' = spare \ {k}
    /\ lent' = [lent EXCEPT ![c] = k]
    /\ UNCHANGED retiring

\* ... or one opened for it, while the host has fewer than MaxSize.
Open(c, k) ==
    /\ lent[c] = NoConn
    /\ k \in Conn \ Existing
    /\ Cardinality(Existing) < MaxSize
    /\ lent' = [lent EXCEPT ![c] = k]
    /\ UNCHANGED <<spare, retiring>>

Return(c) ==
    /\ lent[c] # NoConn
    /\ spare' = spare \cup {lent[c]}
    /\ lent' = [lent EXCEPT ![c] = NoConn]
    /\ UNCHANGED retiring

Retire(c) ==
    /\ lent[c] # NoConn
    /\ retiring' = retiring \cup {lent[c]}
    /\ lent' = [lent EXCEPT ![c] = NoConn]
    /\ UNCHANGED spare

Close(k) ==
    /\ k \in retiring
    /\ retiring' = retiring \ {k}
    /\ UNCHANGED <<spare, lent>>

Next ==
    \/ \E c \in Callers, k \in Conn : Lend(c, k) \/ Open(c, k)
    \/ \E c \in Callers : Return(c) \/ Retire(c)
    \/ \E k \in Conn : Close(k)

Spec == Init /\ [][Next]_vars
=============================================================================
