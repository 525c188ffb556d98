------------------------------- MODULE Control -------------------------------
(***************************************************************************)
(* services/common/control.py: ControlPoller, the cached view a simulator  *)
(* has of a pause switch the dashboard keeps (services/dashboard/app.py).  *)
(*                                                                         *)
(* Time is counted in ticks; every age stops counting where it no longer   *)
(* matters.  The lock is a line, as in ConnectionPool: its head owns it.   *)
(***************************************************************************)
EXTENDS Naturals, Sequences

CONSTANTS Pollers,      \* tasks that call get
          Cache,        \* cache_seconds
          PollTime,     \* longest time a GET takes (assumed: the client's
                        \* timeout bounds each of its phases)
          MaxMisses     \* bound: polls that fail

ASSUME ControlAssumption ==
    /\ Cache \in Nat \ {0}
    /\ PollTime \in Nat
    /\ MaxMisses \in Nat

VARIABLES flag,         \* CONTROL of the dashboard: paused or not
          state,        \* _state: what the poller believes
          cacheAge,     \* time since _cached_at, Cache when it is stale
          getQ,         \* _lock: its owner, then its waiters
          poll,         \* the owner's GET: none, asked, or what it brings
          pollAge,      \* time since it was sent
          sinceChange,  \* time since flag changed
          missed,       \* a poll has failed since then
          misses        \* polls that failed

controlVars ==
    <<flag, state, cacheAge, getQ, poll, pollAge, sinceChange, missed, misses>>

Switch == {"live", "paused"}

Settled == Cache + PollTime

ControlTypeOK ==
    /\ flag \in Switch /\ state \in Switch
    /\ cacheAge \in 0 .. Cache
    /\ getQ \in Seq(Pollers)
    /\ poll \in Switch \cup {"none", "asked"}
    /\ pollAge \in 0 .. PollTime
    /\ sinceChange \in 0 .. Settled
    /\ missed \in BOOLEAN
    /\ misses \in 0 .. MaxMisses

ControlInit ==
    /\ flag = "live" /\ state = "live"
    /\ cacheAge = Cache
    /\ getQ = <<>>
    /\ poll = "none" /\ pollAge = 0
    /\ sinceChange = Settled
    /\ missed = FALSE /\ misses = 0

-----------------------------------------------------------------------------
(* get.  Where it returns, its value is state', and the caller goes on in  *)
(* the same step.                                                          *)

\* Mutant: the cache is used past its time.
FreshTooLong == cacheAge <= Cache

Fresh == cacheAge < Cache

OwnsLock(c) == getQ # <<>> /\ Head(getQ) = c

Ask == poll' = "asked" /\ pollAge' = 0

\* The cache is fresh: get returns without suspending.
GetCached == Fresh /\ UNCHANGED controlVars

\* It is stale: poll if the lock is free, or wait in line for it.
GetWaits(c) ==
    /\ ~Fresh
    /\ getQ' = Append(getQ, c)
    /\ IF getQ = <<>> THEN Ask ELSE UNCHANGED <<poll, pollAge>>
    /\ UNCHANGED <<flag, state, cacheAge, sinceChange, missed, misses>>

\* The lock comes to a waiter, which finds the cache refreshed ...
LockedFresh(c) ==
    /\ OwnsLock(c) /\ poll = "none"
    /\ Fresh
    /\ getQ' = Tail(getQ)
    /\ UNCHANGED <<flag, state, cacheAge, poll, pollAge, sinceChange, missed, misses>>

\* ... or stale again.
LockedPoll(c) ==
    /\ OwnsLock(c) /\ poll = "none"
    /\ ~Fresh
    /\ Ask
    /\ UNCHANGED <<flag, state, cacheAge, getQ, sinceChange, missed, misses>>

\* Mutant: the state is taken from a response that is not there.
PollOKEarly(c) ==
    /\ OwnsLock(c) /\ poll # "none"
    /\ state' = poll
    /\ cacheAge' = 0
    /\ poll' = "none"
    /\ getQ' = Tail(getQ)
    /\ UNCHANGED <<flag, pollAge, sinceChange, missed, misses>>

\* Mutant: a flag that is false is not entered.
PollOKTrueOnly(c) ==
    /\ OwnsLock(c) /\ poll \in Switch
    /\ state' = IF poll = "paused" THEN "paused" ELSE state
    /\ cacheAge' = 0
    /\ poll' = "none"
    /\ getQ' = Tail(getQ)
    /\ UNCHANGED <<flag, pollAge, sinceChange, missed, misses>>

PollOK(c) ==
    /\ OwnsLock(c) /\ poll \in Switch
    /\ state' = poll
    /\ cacheAge' = 0
    /\ poll' = "none"
    /\ getQ' = Tail(getQ)
    /\ UNCHANGED <<flag, pollAge, sinceChange, missed, misses>>

\* Mutant: a poll that fails does not give the lock back.
PollFailsKeepsLock(c) ==
    /\ OwnsLock(c) /\ poll # "none"
    /\ misses < MaxMisses
    /\ misses' = misses + 1
    /\ missed' = TRUE
    /\ cacheAge' = 0
    /\ poll' = "none"
    /\ UNCHANGED <<flag, state, getQ, pollAge, sinceChange>>

\* Whatever goes wrong: the last known state counts as fresh.
PollFails(c) ==
    /\ OwnsLock(c) /\ poll # "none"
    /\ misses < MaxMisses
    /\ misses' = misses + 1
    /\ missed' = TRUE
    /\ cacheAge' = 0
    /\ poll' = "none"
    /\ getQ' = Tail(getQ)
    /\ UNCHANGED <<flag, state, pollAge, sinceChange>>

GetReturns(c) == LockedFresh(c) \/ PollOK(c) \/ PollFails(c)

-----------------------------------------------------------------------------
(* the dashboard, and time *)

\* A pause or resume endpoint.
SetSwitch(s) ==
    /\ s # flag
    /\ flag' = s
    /\ sinceChange' = 0
    /\ missed' = FALSE
    /\ UNCHANGED <<state, cacheAge, getQ, poll, pollAge, misses>>

\* get_control.
Answer ==
    /\ poll = "asked"
    /\ poll' = flag
    /\ UNCHANGED <<flag, state, cacheAge, getQ, pollAge, sinceChange, missed, misses>>

Older(age, limit) == IF age < limit THEN age + 1 ELSE limit

\* A GET ends before it is older than PollTime.
Tick ==
    /\ poll # "none" => pollAge < PollTime
    /\ cacheAge' = Older(cacheAge, Cache)
    /\ pollAge' = IF poll = "none" THEN pollAge ELSE pollAge + 1
    /\ sinceChange' = Older(sinceChange, Settled)
    /\ UNCHANGED <<flag, state, getQ, poll, missed, misses>>
=============================================================================
