---------------------------- MODULE ConnectionPool ----------------------------
(***************************************************************************)
(* services/common/pool.py: the pool of persistent connections to one      *)
(* downstream host, and the callers that borrow from it.                   *)
(*                                                                         *)
(* One step of the model is the code a coroutine runs between two points   *)
(* where it can suspend.  asyncio.Lock is first come, first served and     *)
(* hands over to its oldest waiter without letting a newcomer in between:  *)
(* lockQ is that line, its head owns the lock.  asyncio.Queue has no such  *)
(* rule: a get_nowait may overtake a parked get.                           *)
(***************************************************************************)
EXTENDS Naturals, Sequences, FiniteSets

CONSTANTS Callers,      \* tasks that acquire and release
          Conn,         \* connections that can exist
          NoConn,       \* what a caller without a connection holds
          MaxSize       \* max_size

ASSUME PoolAssumption ==
    /\ IsFiniteSet(Callers)
    /\ IsFiniteSet(Conn)
    /\ NoConn \notin Conn
    /\ MaxSize \in Nat \ {0}

VARIABLES idle,         \* _idle: connections ready for reuse, oldest first
          created,      \* _created
          lockQ,        \* _create_lock: its owner, then its waiters
          phase,        \* where each caller is in acquire, its use, release
          held,         \* the connection each caller has in its hands
          conn          \* what this side's socket knows of each connection

poolVars == <<idle, created, lockQ, phase, held, conn>>

Phases == {"out",         \* neither acquiring, using nor releasing
           "locking",     \* acquire: waits for _create_lock
           "connecting",  \* acquire: in _connect, owning the lock
           "parked",      \* acquire: suspended in _idle.get
           "using",       \* between acquire and release
           "closing",     \* release: in wait_closed
           "uncounting"}  \* release: waits for _create_lock

\* "eof": the peer closed its side, which leaves the transport open.
\* "lost": the transport is gone, writer.is_closing() is true.
ConnStates == {"none", "open", "eof", "lost"}

TypeOK ==
    /\ idle \in Seq(Conn)
    /\ created \in 0 .. MaxSize
    /\ lockQ \in Seq(Callers)
    /\ phase \in [Callers -> Phases]
    /\ held \in [Callers -> Conn \cup {NoConn}]
    /\ conn \in [Conn -> ConnStates]

Init ==
    /\ idle = <<>>
    /\ created = 0
    /\ lockQ = <<>>
    /\ phase = [c \in Callers |-> "out"]
    /\ held = [c \in Callers |-> NoConn]
    /\ conn = [k \in Conn |-> "none"]

-----------------------------------------------------------------------------
(* acquire *)

Owns(c) == lockQ # <<>> /\ Head(lockQ) = c

\* get_nowait finds a connection: it is handed over as it is, dead or alive.
AcquireIdle(c) ==
    /\ phase[c] = "out"
    /\ idle # <<>>
    /\ held' = [held EXCEPT ![c] = Head(idle)]
    /\ idle' = Tail(idle)
    /\ phase' = [phase EXCEPT ![c] = "using"]
    /\ UNCHANGED <<created, lockQ, conn>>

\* Nothing idle and the lock is taken: wait in line for it.
AcquireWaitLock(c) ==
    /\ phase[c] = "out"
    /\ idle = <<>>
    /\ lockQ # <<>>
    /\ lockQ' = Append(lockQ, c)
    /\ phase' = [phase EXCEPT ![c] = "locking"]
    /\ UNCHANGED <<idle, created, held, conn>>

\* Nothing idle and the lock is free: taking it does not suspend.
AcquireCreate(c) ==
    /\ phase[c] = "out"
    /\ idle = <<>> /\ lockQ = <<>>
    /\ created < MaxSize
    /\ created' = created + 1
    /\ lockQ' = <<c>>
    /\ phase' = [phase EXCEPT ![c] = "connecting"]
    /\ UNCHANGED <<idle, held, conn>>

AcquirePark(c) ==
    /\ phase[c] = "out"
    /\ idle = <<>> /\ lockQ = <<>>
    /\ ~(created < MaxSize)
    /\ phase' = [phase EXCEPT ![c] = "parked"]
    /\ UNCHANGED <<idle, created, lockQ, held, conn>>

\* The lock comes to a waiting acquire.  It does not look at _idle again
\* before it decides to create.
LockedCreate(c) ==
    /\ phase[c] = "locking" /\ Owns(c)
    /\ created < MaxSize
    /\ created' = created + 1
    /\ phase' = [phase EXCEPT ![c] = "connecting"]
    /\ UNCHANGED <<idle, lockQ, held, conn>>

LockedTake(c) ==
    /\ phase[c] = "locking" /\ Owns(c)
    /\ ~(created < MaxSize)
    /\ idle # <<>>
    /\ lockQ' = Tail(lockQ)
    /\ held' = [held EXCEPT ![c] = Head(idle)]
    /\ idle' = Tail(idle)
    /\ phase' = [phase EXCEPT ![c] = "using"]
    /\ UNCHANGED <<created, conn>>

LockedPark(c) ==
    /\ phase[c] = "locking" /\ Owns(c)
    /\ ~(created < MaxSize)
    /\ idle = <<>>
    /\ lockQ' = Tail(lockQ)
    /\ phase' = [phase EXCEPT ![c] = "parked"]
    /\ UNCHANGED <<idle, created, held, conn>>

ConnectOK(c) ==
    /\ phase[c] = "connecting"
    /\ \E k \in Conn :
          /\ conn[k] = "none"
          /\ conn' = [conn EXCEPT ![k] = "open"]
          /\ held' = [held EXCEPT ![c] = k]
    /\ lockQ' = Tail(lockQ)
    /\ phase' = [phase EXCEPT ![c] = "using"]
    /\ UNCHANGED <<idle, created>>

\* Mutant: a failed connect keeps its place in the count.
ConnectFailKeepsCount(c) ==
    /\ phase[c] = "connecting"
    /\ lockQ' = Tail(lockQ)
    /\ phase' = [phase EXCEPT ![c] = "out"]
    /\ UNCHANGED <<idle, created, held, conn>>

\* Mutant: a failed connect leaves without releasing the lock.
ConnectFailKeepsLock(c) ==
    /\ phase[c] = "connecting"
    /\ created' = created - 1
    /\ phase' = [phase EXCEPT ![c] = "out"]
    /\ UNCHANGED <<idle, lockQ, held, conn>>

\* The caller gets the exception.
ConnectFail(c) ==
    /\ phase[c] = "connecting"
    /\ created' = created - 1
    /\ lockQ' = Tail(lockQ)
    /\ phase' = [phase EXCEPT ![c] = "out"]
    /\ UNCHANGED <<idle, held, conn>>

\* A put woke a parked get, and nobody overtook it.
TakeReturned(c) ==
    /\ phase[c] = "parked"
    /\ idle # <<>>
    /\ held' = [held EXCEPT ![c] = Head(idle)]
    /\ idle' = Tail(idle)
    /\ phase' = [phase EXCEPT ![c] = "using"]
    /\ UNCHANGED <<created, lockQ, conn>>

Acquire(c) ==
    AcquireIdle(c) \/ AcquireWaitLock(c) \/ AcquireCreate(c) \/ AcquirePark(c)

Locked(c) == LockedCreate(c) \/ LockedTake(c) \/ LockedPark(c)

-----------------------------------------------------------------------------
(* release *)

Reusable(c, healthy) == healthy /\ conn[held[c]] # "lost"

\* Mutant: the connection is put back and its reference kept.
ReleaseToIdleKeeps(c, healthy) ==
    /\ phase[c] = "using"
    /\ Reusable(c, healthy)
    /\ idle' = Append(idle, held[c])
    /\ phase' = [phase EXCEPT ![c] = "out"]
    /\ UNCHANGED <<created, lockQ, held, conn>>

\* put on an unbounded queue does not suspend.
ReleaseToIdle(c, healthy) ==
    /\ phase[c] = "using"
    /\ Reusable(c, healthy)
    /\ idle' = Append(idle, held[c])
    /\ held' = [held EXCEPT ![c] = NoConn]
    /\ phase' = [phase EXCEPT ![c] = "out"]
    /\ UNCHANGED <<created, lockQ, conn>>

\* Mutant: the place is given away before the connection is closed.
ReleaseCloseEarly(c, healthy) ==
    /\ phase[c] = "using"
    /\ ~Reusable(c, healthy)
    /\ created' = created - 1
    /\ phase' = [phase EXCEPT ![c] = "closing"]
    /\ UNCHANGED <<idle, lockQ, held, conn>>

ReleaseClose(c, healthy) ==
    /\ phase[c] = "using"
    /\ ~Reusable(c, healthy)
    /\ phase' = [phase EXCEPT ![c] = "closing"]
    /\ UNCHANGED <<idle, created, lockQ, held, conn>>

Release(c, healthy) == ReleaseToIdle(c, healthy) \/ ReleaseClose(c, healthy)

\* wait_closed returned or raised, and the lock is free.
ClosedUncount(c) ==
    /\ phase[c] = "closing"
    /\ lockQ = <<>>
    /\ conn' = [conn EXCEPT ![held[c]] = "none"]
    /\ held' = [held EXCEPT ![c] = NoConn]
    /\ created' = created - 1
    /\ phase' = [phase EXCEPT ![c] = "out"]
    /\ UNCHANGED <<idle, lockQ>>

ClosedWaitLock(c) ==
    /\ phase[c] = "closing"
    /\ lockQ # <<>>
    /\ conn' = [conn EXCEPT ![held[c]] = "none"]
    /\ held' = [held EXCEPT ![c] = NoConn]
    /\ lockQ' = Append(lockQ, c)
    /\ phase' = [phase EXCEPT ![c] = "uncounting"]
    /\ UNCHANGED <<idle, created>>

\* Wakes nobody who is parked on _idle.
Uncount(c) ==
    /\ phase[c] = "uncounting" /\ Owns(c)
    /\ created' = created - 1
    /\ lockQ' = Tail(lockQ)
    /\ phase' = [phase EXCEPT ![c] = "out"]
    /\ UNCHANGED <<idle, held, conn>>

Closed(c) == ClosedUncount(c) \/ ClosedWaitLock(c)

-----------------------------------------------------------------------------
(* the downstream host *)

PeerCloses(k) ==
    /\ conn[k] = "open"
    /\ conn' = [conn EXCEPT ![k] = "eof"]
    /\ UNCHANGED <<idle, created, lockQ, phase, held>>

PeerResets(k) ==
    /\ conn[k] \in {"open", "eof"}
    /\ conn' = [conn EXCEPT ![k] = "lost"]
    /\ UNCHANGED <<idle, created, lockQ, phase, held>>

-----------------------------------------------------------------------------

\* What the pool does for a caller that is inside acquire or release.
Progress(c) ==
    \/ Locked(c) \/ TakeReturned(c)
    \/ ConnectOK(c) \/ ConnectFail(c)
    \/ Closed(c) \/ Uncount(c)

Next ==
    \/ \E c \in Callers :
          \/ Acquire(c)
          \/ Release(c, TRUE) \/ Release(c, FALSE)
          \/ Progress(c)
    \/ \E k \in Conn : PeerCloses(k) \/ PeerResets(k)

Spec == Init /\ [][Next]_poolVars

\* A suspended coroutine runs once what it waits for is there, and a connect
\* or a close comes to an end.  Nothing is asked of the callers: one may keep
\* its connection forever.
Fairness == \A c \in Callers : WF_poolVars(Progress(c))

FairSpec == Spec /\ Fairness
-----------------------------------------------------------------------------
(* Properties *)

\* Callers whose connection, in the making or in use, created counts.
Counted == {c \in Callers : phase[c] \in {"connecting", "using", "closing", "uncounting"}}

Waiting == {c \in Callers : phase[c] \in {"locking", "connecting", "uncounting"}}

\* created is the connections in the pool and those its callers make, use or
\* close: none is forgotten (the pool would shrink) or counted off twice (it
\* would exceed max_size) on any error path of acquire and release.
Accounted == created = Len(idle) + Cardinality(Counted)

\* pool.py:13-15: a connection carries one request at a time.  It is in one
\* place only, in _idle once or in the hands of one caller.
Exclusive ==
    /\ \A i, j \in 1 .. Len(idle) : idle[i] = idle[j] => i = j
    /\ \A c \in Callers : held[c] # NoConn =>
          /\ \A i \in 1 .. Len(idle) : idle[i] # held[c]
          /\ \A d \in Callers : held[d] = held[c] => d = c

\* A caller holds a connection exactly from the end of acquire to the end of
\* release's close, and what is idle or held has not been closed by this side.
Holding ==
    /\ \A c \in Callers : held[c] # NoConn <=> phase[c] \in {"using", "closing"}
    /\ \A c \in Callers : held[c] # NoConn => conn[held[c]] # "none"
    /\ \A i \in 1 .. Len(idle) : conn[idle[i]] # "none"

\* The line of _create_lock is exactly the callers that wait for it or own
\* it, and only its owner connects: a connect that hangs is the only reason
\* why the line does not move.
LockLine ==
    /\ \A i, j \in 1 .. Len(lockQ) : lockQ[i] = lockQ[j] => i = j
    /\ {lockQ[i] : i \in 1 .. Len(lockQ)} = Waiting
    /\ \A c \in Callers : phase[c] = "connecting" => Owns(c)

\* gateway/app.py:201-204: with no more callers than connections (there the
\* semaphore, in the merchant MAX_OUTSTANDING) nobody ever waits for another
\* caller to return one.
NeverParks == Cardinality(Callers) <= MaxSize => \A c \in Callers : phase[c] # "parked"

\* ... so a call of acquire or release comes back, whatever the other callers
\* do with the connections they hold.
CallsReturn ==
    \A c \in Callers : phase[c] \notin {"out", "using"} ~> phase[c] \in {"out", "using"}

\* pool.py:49-50: a caller parks only to "wait for one to be returned": then
\* there is one in _idle, or some caller that still has one to return or is
\* on its way to one.
ParkedForAReturn ==
    (\E c \in Callers : phase[c] = "parked") =>
        idle # <<>> \/ \E d \in Callers : phase[d] \notin {"out", "parked"}

\* The promise of BoundedPool: one borrower per connection, at most MaxSize
\* connections at the host, those being closed included.
Promise == INSTANCE BoundedPool WITH
    spare <- {idle[i] : i \in 1 .. Len(idle)},
    lent <- [c \in Callers |-> IF phase[c] = "using" THEN held[c] ELSE NoConn],
    retiring <- {held[c] : c \in {d \in Callers : phase[d] = "closing"}}

KeepsPromise == Promise!Spec
=============================================================================
