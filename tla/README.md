# A verification of the acquirer simulation

The repository simulates the authorization path of a card acquirer: a merchant
simulator sends ISO 8583 requests to one or more gateway processes, a gateway
records each in Postgres, forwards it to an issuer simulator, records the answer
and returns it, and tells a dashboard about every stage. All four services are
single-threaded `asyncio` programs that run many coroutines each. This directory
holds TLA+ models of that program, the TLC configurations that check them and
TLAPS proofs about them.

Paths below are relative to the repository.

## 1. Inventory

| component | where | state it keeps | operations |
|---|---|---|---|
| connection pool | `services/common/pool.py` | `_idle`, `_created`, `_create_lock` | `acquire`, `release` |
| gateway path | `services/gateway/app.py` | one coroutine per merchant connection, `_concurrency`, one pool per issuer replica | `handle_merchant`, `_handle_merchant`, `forward_to_issuer` |
| gateway database | `services/gateway/db.py` | one row per transaction | `init_db`, `insert_request`, `update_response` |
| event delivery | `services/gateway/app.py` | `_event_tasks`, `_event_semaphore` | `fire_event`, `_dispatch_event`, `report_event` |
| dashboard | `services/dashboard/app.py` | `OUTSTANDING`, `COUNTS`, `CONTROL`, rolling windows, `_clients` | `post_event`, `broadcast`, the stats loop, the control endpoints, `ws_endpoint` |
| issuer simulator | `services/issuer_simulator/app.py` | cards, keys, one coroutine per connection | `handle_gateway`, `decide_response` |
| merchant simulator | `services/merchant_simulator/app.py` | a pacing coroutine per merchant, `_BACKGROUND_TASKS`, `_outstanding`, `_stop_event`, one pool per gateway | `run_merchant`, `send_one`, `send_transaction`, the drain in `main` |
| control polling | `services/common/control.py` | the cached control state, its age, a lock | `get` |
| shutdown | `services/common/util.py`, `scripts/graceful_shutdown.sh` | the drain's snapshot of tasks | `serve_until_signal`, the script |
| seed generation | `scripts/generate_data.py` | the seed files and keys, a marker | `main` |
| PIN blocks | `services/common/crypto.py` | none | encode, decode and translate an ISO 4 block |
| codec | `services/common/iso8583.py` | none | `pack`, `unpack`, `read_message`, `write_message` |
| reference tables | `services/common/reference.py` | constants | |
| front end | `services/dashboard/static/` | the page | draws, sends control requests |
| deployment | `podman-compose.yml` | limits, replicas, grace periods | |

How they interact:

- **merchant → gateway → issuer**: one TCP connection carries one exchange at a
  time and is reused. Both clients borrow it from a `ConnectionPool`. Nothing on
  the wire matches a response to its request except the order on the stream.
- **gateway → Postgres**: each call is a transaction of its own. A handler makes
  up to three (insert, forwarded, final) and one more in the `except` clause.
- **gateway → dashboard**: every event is a task, sent once, in no guaranteed
  order, and forgotten on failure; the dashboard may still get what the gateway
  has given up.
- **dashboard → merchant, issuer**: pause and rate are polled, through a cache.
- **the shutdown script** reads `OUTSTANDING` and trusts it.

What is hard here, and what makes each component correct:

| component | hard because of | correct when |
|---|---|---|
| connection pool | callers interleave at every `await` while connects fail and connections die | the count is exact on every path; a connection has one owner; at most `max_size` exist; nobody waits forever |
| gateway path | what a failure becomes depends on where it happens; connections go from one transaction to the next; two limits (semaphore, pool) on top of each other | each transaction is settled once, with its own answer; record, event and reply agree; slots come back |
| event delivery, counters | reordering, loss, late arrival, a counter floored at zero | no approval is invented; the outstanding count is off by no more than what can overtake, fail or be fired twice |
| control polling, merchant | stale flags, sends parked at the semaphore across a pause or stop | nothing is originated after a stop; the drain waits for all that was |
| shutdown | tasks born during the drain; limits of 25 s and 120 s | what was accepted is finished, its event included, or cut off by a limit |
| dashboard broadcast | a set iterated across an `await` | the stats loop never ends |
| seed generation, start-up | runs killed between writes, started again, or overlapping; services that read half a file, restart, keep old keys | keys and cards in use are of one run; no file is replaced under a service |
| PIN blocks, decision | three key zones and a fourth key at rest, held by three processes; month arithmetic | the right entry passes every check, a wrong one none |

The full list of hazards, each at its line with the properties that cover it or
the reason why none does yet, is in `PROJECT.json`.

## 2. Modules

```
BoundedPool                      what a pool promises
   ^ implemented by (TLC: KeepsPromise; TLAPS: PoolKeepsPromise, every size)
ConnectionPool  <-- EXTENDS -- ConnectionPoolProofs, MCConnectionPool
   ^ INSTANCE, Callers <- Links, MaxSize <- Limit
Gateway         <-- EXTENDS -- MCGateway, GatewayProofs
   |  \-- implements (TLC: FollowsProtocol; TLAPS: GatewayFollowsProtocol) --> Authorization
   ^ EXTENDS
ObservedGateway <-- EXTENDS -- MCObservedGateway
   |  \-- INSTANCE --> Telemetry
   ^ EXTENDS
Shutdown        <-- EXTENDS -- MCShutdown

GatewayProofs   -- INSTANCE --> ConnectionPoolProofs, Callers <- Links, MaxSize <- Limit
   ^ EXTENDS
GatewayOutcomeProofs
   ^ EXTENDS
GatewayCourseProofs
   ^ EXTENDS
ObservedGatewayProofs            EXTENDS ObservedGateway as well
   ^ EXTENDS
ShutdownProofs                   EXTENDS Shutdown as well

Control
   ^ EXTENDS
Merchant        <-- EXTENDS -- MerchantProofs, MCMerchant

PinZones                         operators: what becomes of a PIN, a CVV, a date
   ^ EXTENDS
SeedFiles       <-- EXTENDS -- SeedFilesProofs, MCSeedFiles
```

**The unit of a step.** A coroutine is atomic between two points where it really
suspends, so that is what an action is. Whether an `await` suspends was decided
call by call:

- `asyncio.Lock` and `Semaphore` are taken without suspending when free; they
  hand over to the oldest waiter and a newcomer cannot slip in between. Hence
  `lockQ` (the head owns the lock) and `slotQ` (the first `Limit` hold a slot).
- `Queue.get_nowait` and `put` on an unbounded queue never suspend. A `put` wakes
  a parked `get`, which runs later: until then another `get_nowait` may take the
  item. Hence `TakeReturned` needs only a non-empty `idle`, whoever is parked.
- `writer.drain` below the high-water mark and `fire_event` do not suspend, so a
  write happens in the step that led to it.
- `wait_closed`, `open_connection`, reads, database calls and sleeps suspend.

### `ConnectionPool` (pool.py)

| code | model |
|---|---|
| `_idle`, `_created`, `_create_lock` | `idle`, `created`, `lockQ` |
| where a caller is in `acquire`/`release` | `phase` |
| the `(reader, writer)` in its hands | `held` |
| `acquire` up to its first suspension | `AcquireIdle`, `AcquireWaitLock`, `AcquireCreate`, `AcquirePark` |
| `acquire` once the lock is handed to it | `LockedCreate`, `LockedTake`, `LockedPark` |
| `_connect` ends | `ConnectOK`, `ConnectFail` |
| `_idle.get()` wakes up | `TakeReturned` |
| `release` | `ReleaseToIdle` or `ReleaseClose`, then `ClosedUncount`, or `ClosedWaitLock` and `Uncount` |
| the peer closes, the transport dies | `PeerCloses`, `PeerResets` |

`conn` distinguishes what the code does: `writer.is_closing()` is false for a
connection the peer has merely closed (`"eof"`) and true once the transport is
gone (`"lost"`). Cancellation of a caller is not modelled: no code of the
repository cancels one before the process ends.

### `Gateway` (gateway/app.py, gateway/db.py)

`Links` are merchant connections with their handler tasks. `pc[m]` says where
handler `m` is suspended outside the pool, the pool's own `phase[m]` where it is
inside it. `txn[m]` and `code[m]` are its locals, `slotQ` is `_concurrency`.

| code | model |
|---|---|
| the loop's read, `async with _concurrency` | `Receive`, `EndOfLink` |
| ingest delay and `insert_request`; "received"; PIN translation | `InsertOK`, `InsertFails` |
| `update_response(forwarded_at)`; "forwarded"; `acquire`'s first step | `MarkOK`, `MarkFails` |
| the rest of `acquire`, then `write_message` | `AcquireProceeds`, `ConnectFails` |
| `read_message` and `release` | `ReadReply`, `ReadReset` (an `OSError`: 91), `ReadEof` (`IncompleteReadError`: the `except` clause, 96), `ReleaseProceeds` |
| response delay, final update, "completed", reply | `SettleOK`, `SettleFails` |
| the `except` clause of `handle_merchant` | `Fallback` |
| merchants, network, issuer | `MerchantSends`, `LinkFails`, `IssuerDecides`, `IssuerFails` |

A failing database call may or may not have taken effect (a commit whose
acknowledgement is lost), `DbFails` allows both. `wire[k]` is what is under way
on an issuer connection: if a response were left on a connection that goes back
to the pool, the next borrower would read it. One issuer replica is modelled: a
transaction uses exactly one pool, so two never meet in it.

Data that no property tells apart is left out: the fields of a message,
`forwarded_at`, durations and time stamps. `"05"` stands for every decline of the
issuer. `WithPin` are the transactions with a PIN block, whose translation may raise. `dump_message`
(off by default) and malformed messages (the merchants of this system send
none) are left out.

`Authorization` is what merchant and issuer may rely on: a transaction is decided
at most once, after it was submitted, and answered at most once, by the issuer's
decision for it or by 91 or 96. `Gateway` implements it with `submitted <- sent`.

### `Telemetry` and `ObservedGateway` (fire_event to dashboard/app.py)

`tasks` are the events whose post is not over, oldest first; the first
`EventLimit` of them (`_event_semaphore`) are being posted, and end in any order.

| code | model |
|---|---|
| `fire_event` | `FireAll`, part of the handler's step |
| `post_event` and the end of `_dispatch_event` | `PostHandled` |
| `report_event` without a connection or an answer in time: ignored | `PostFails` |
| `post_event` for an event that was given up | `LateHandled` |
| the counters | `Count` |

A post that the gateway has given up frees its place, so what is posted next may
be handled first: `late` holds how many events of each kind may still arrive so,
after any number of newer ones or never. A post that was counted and then timed
out at the gateway is `PostFails` with `LateHandled` right behind it. A post that
succeeds is counted in the step in which it ends: counted earlier it would hold its
place a little longer, which only leaves less room for others to overtake.
`ObservedGateway` runs `Gateway` and turns each event a step fires into a task.

### `Control` and `Merchant` (control.py, merchant_simulator/app.py)

| code | model |
|---|---|
| `ControlPoller.get` from a fresh cache | `GetCached`, part of the caller's step |
| the same from a stale one, and the rest once the lock is there | `GetWaits`, `LockedFresh`, `LockedPoll`, `PollOK`, `PollFails` |
| the pause and resume endpoints, `get_control` | `SetSwitch`, `Answer` |
| `run_merchant` with `_sleep_or_stop` and `_sleep_or_interrupt` | `Awake`, `Interrupted`, `InGet`; what follows a `get` is `AfterGet` |
| `send_one`, `send_transaction` | `Prepared`, `Sent` |
| the end of `main`, the signal handler | `Gathered`, `Drained`, `DrainTimesOut`, `Signal` |

`get` returns inside a step, and the merchant goes on to its next suspension in
the same step, so the pause switch it acts on is `state'`. Time is a `Tick` that
ages the cache, the poll under way and the last change of the switch. Ages stop
where they stop mattering, so the clock needs no bound. That a poll is over within
`PollTime` is an assumption: the client's 2 seconds (httpx) bound its connect, each
write and each read, and an answer that came in pieces could take longer. Sleeps of a merchant may
end at any time: their lengths are random. Left out: the rate multiplier, which
only changes those lengths; a merchant without a terminal key, which goes round
its loop; the instant in which a sleep's time-out and the signal fall into the same turn
of the event loop, whose outcome is that of a signal during the poll.

### `Shutdown` (util.py: serve_until_signal, in the gateway)

`Shutdown` is `ObservedGateway` with `main` around it: every step of a handler, the
issuer or a post goes on until `main` has returned (`GoesOn`), which ends the loop
and every task in it.

| code | model |
|---|---|
| SIGTERM, `server.close()`, `serve_task.cancel()` | `Signal` |
| `await serve_task` ends, `in_flight` is collected | `Joined` |
| `asyncio.wait(in_flight)` returns, or its time-out | `Drained`, `CutOff` |
| an event task of `in_flight` is done | `PostGoesOn` and `Remaining` |
| the dashboard handles what the gateway gave up, before or after its end | `LateArrives` |

The images run Python 3.12. There a cancelled `serve_forever` waits in
`wait_closed` until the server knows no connection any more, so `Joined` has the
guard `Attached = {}`: handlers finish, and are not cut off, before the drain is
even set up. `in_flight` is then a snapshot: the handlers still in their slot after
their connection was lost (`waitH`), and as many of the oldest event tasks as
there are (`waitE`).

### `SeedFiles` and `PinZones` (generate_data.py, util.py, crypto.py, issuer_simulator/app.py)

| code | model |
|---|---|
| `main` up to the random data, with `--if-missing` | `Start` |
| `write_json`: `open(path, "w")`, then the end of `with` | `Open`, `Close` |
| the container is stopped, the disk is full | `Crash` |
| `wait_for_files` finds nothing missing | `Found` |
| `load_json` in the `main`s, `json.load` raises | `Load`, `LoadFails` |
| a service ends and is started again | `Ends`, `Restart` |

A file is the set of runs whose bytes are in it: empty after `open`, one run after
`Close`, `Mixed` when two have it open. A service that reads a file while it is
being written finds half of it and ends, or, where the bytes happen to parse, gets
what is there (`Parsed`). With the same `--seed` runs differ only in the keys and in
the PIN blocks made with them, hence `Seeded` for the other files. Left out: the
reference files, which no service reads, and `makedirs`.

`PinZones` has the pure part. The cipher is ideal: `Decode` gives the PIN under the
right key and PAN, and otherwise digits nobody chose (`"garbled"`) or a
`ValueError` (`"raises"`). `Answers` follows a request from `build_live_message` through
`translate_pin_block` to `decide_response`, with the keys and cards that each party
happens to hold; `"generic"` is the weighted choice that no check precedes.

## 3. Runs

| run | question | result |
|---|---|---|
| `pool_small` | Do callers that share fewer connections than there are callers ever lose count of them, share one, or open too many? | `Accounted`, `Exclusive`, `Holding`, `LockLine` hold, and `ConnectionPool` implements `BoundedPool` |
| `pool_sized` | With `max_size` callers, as both services size it, does every call return although others may keep theirs forever? | `NeverParks`, `CallsReturn` hold |
| `pool_stranded` | Is there always somebody to return a connection to a parked caller? | no, see finding 1 |
| `gateway` | Can an answer reach another transaction, or two answers one transaction, while connections break and are reused? | no: `OneExchange`, `ApprovedOnce`, `FollowsProtocol` hold |
| `gateway_faults` | Is every transaction settled, consistently in row, event and reply, and every slot returned, whatever raises? | `HandledIsSettled`, `RowIsTrue`, `SlotsCoverPool`, `ToldIsFinal`, `HandlersReturn` hold; a transaction completes a second time only over a reply that could not be written (`CompletedOnce`) |
| `issuer_down` | Does the merchant learn of a dead issuer by 91? | no, see finding 2 |
| `observed` | What are the dashboard's numbers worth while events overtake each other, fail, arrive late or are fired twice? | approvals are real (`ApprovalsAreReal`); beyond what is under way the outstanding count is high by at most `EventLimit - 1` and the failed posts, low by at most the completions that nothing opened (`DriftIsBounded`) |
| `outstanding_drift` | Does the outstanding count never drift? | it does, see finding 3 |
| `merchant` | Does a pause, a resume, a stop do what it should, wherever each merchant is and though polls fail? | `PauseIsPrompt`, `ResumeIsSeen`, `StopEnds`, `NothingIsCutOff` hold |
| `merchant_stop` | Is nothing originated after the stop? | something may be, see finding 4 |
| `startup` | Whose keys and cards do the services hold, whatever is killed, restarted or overlaps, and what does a cardholder get for it? | of one run, unless two overlap (`OneGeneration`, `FilesStayPut`); then the right PIN passes (`RightIsAccepted`); a wrong one passes never (`WrongIsNeverApproved`) |
| `shutdown` | Does a gateway that is told to stop finish what it accepted, its events included, and does it come to an end? | yes, unless it is cut off (`AcceptedIsFinished`, `EventsAreFinished`), once its merchants have hung up (`ShutdownEnds`) |

The safety properties of all passing runs are proved for every value of the constants
as well (section 5).

Every property of a passing run is broken by a named mutant of the code model
(`PROJECT.json`, "mutants"): each mutant is an operator next to the definition it
replaces.

**Bounds.** For the safety properties the proofs remove them; for liveness, and for
the violations, they are what the answer rests on.

- `pool_small`: 4 callers, `MaxSize` 2, and a third connection that could be opened
  and must not be. Two callers can be in the lock's line behind an owner while
  another holds a connection or is parked: every pair of phases meets.
- `pool_sized`: 3 callers, 3 connections, no symmetry (a liveness property).
- `gateway`: 3 transactions on 2 links and 2 connections, `Limit` 2. A
  connection has an earlier, a present and a later user, while another
  transaction runs beside it. No failing database call (`MaxDbFaults` 0), for
  the size of the state space.
- `gateway_faults`: 2 transactions, one with a PIN block whose translation may raise,
  `Limit` 1 so that handlers queue for the slot, and `MaxDbFaults` 2 in all: the
  first failure leads to the `except` clause, the second is the failure of its
  update, and a transaction has no third call to fail; or each transaction has
  one.
- `observed`: `EventLimit` 2, the smallest with which a "completed" event overtakes
  its "received" one, and one failed post (`MaxFailedPosts`), which may arrive
  late. The run reaches both ends of `DriftIsBounded`: a count one too high with no
  post failed, two too high with one, and too low by a transaction completed
  twice. One issuer connection: which one a transaction uses is nothing the
  dashboard learns.
- `merchant`: 2 merchants, so that one waits for the other's poll; a cache of 2 ticks
  and polls of up to 1, the smallest values for which a cached state, a poll under
  way and a stale cache differ; one failing poll (`MaxMisses`); 2 transactions and
  one slot.
- `startup`: 2 runs of the generator, so that one follows, overlaps or replaces the
  other at every file; one service of each kind, since services do not interact;
  one card in the vault and one PAN that is not; expiry dates and months around
  the end of a year, where `EndOfMonth` carries; every combination of entries.
- `shutdown`: 2 transactions on 2 links for one slot and one issuer connection, and
  posts two at a time, so that a handler waits for another, and events for a post
  or overtake one, while the process goes down. Two constraints keep one of several behaviours that
  differ only in names or in the order of independent steps: `SentInOrder` (links
  and transactions are interchangeable; SYMMETRY would be unsound with liveness)
  and `SignalInTime` (before `Joined` no step depends on `main`, so a signal after
  the last request was sent has the same effect as one just before it). Both
  constrain actions no fairness condition speaks of. No failing database call,
  which `gateway_faults` has. Two more constraints bound the faults for the size of
  the state space, and stop no step that fairness asks for: only the first
  transaction may lose its issuer connection (`IssuerFaultBound`), and one post may
  fail, an approval's (`PostFaultBound`).
- Transactions are bounded by `Txn`. Each is sent once: its id is a `uuid4` and
  no code resends.

`CHECK_DEADLOCK FALSE` where the system really stops: every merchant connection
closed, (in `observed`) every event delivered as well, (in `shutdown`) the process
gone, or (in `startup`) every run over and a service waiting for files that will
never come.

**Fairness.** `ConnectionPool!FairSpec`: `WF` on what the event loop does for a
caller inside `acquire` or `release`: a coroutine whose wait is over is run, a
connect and a close end (the operating system's time-outs see to it). Nothing is
assumed of a caller that holds a connection, nor of the peer. `Gateway!FairSpec`: `WF`
on each handler's next step, for the same reason, and on the issuer's answer:
`handle_gateway` answers every request unless its connection breaks, and its
pause is lifted at last. There is no read time-out in the gateway, so without
that assumption a paused issuer holds a slot forever, which is intended
(dashboard/app.py:7-17). No strong fairness: locks and semaphores are lines, and
`IssuerFails` never has to happen. `Merchant!FairSpec`: `WF` on each merchant, on
`main` (its 25 seconds pass), on the dashboard's answer and on time; none on the
transactions, which may hang forever, nor on the signal. `Shutdown!ShutdownFairSpec`: `WF` on the progress of the whole process: something goes
on while something can. That is less than each task's own, and enough because
there are finitely many requests; the signal, a `CutOff` and the merchants' hanging
up need never happen. That polls do not fail
without end is the bound `MaxMisses`; `ResumeIsSeen` needs it, since a dashboard that is
away for good never tells of a resume.

## 4. Findings

1. **A lost wake-up in the pool** (`pool_stranded`, pool.py:62). A caller that
   finds the pool at capacity parks in `_idle.get()`, "wait for one to be
   returned" (pool.py:49). If the borrower's round trip fails, `release` closes
   the connection and lowers `_created`, but wakes nobody: the parked caller
   waits below capacity. It takes more callers than `max_size`, which neither
   service allows; `NobodyParks` is the proof of that sizing argument.
2. **91 or 96** (`issuer_down`, gateway/app.py:355). A connection the issuer has
   closed, an idle one of the pool included, makes the read raise
   `IncompleteReadError`. That is an `EOFError`, no `OSError`, so it becomes 96 and
   not the 91 that gateway/app.py:211-214 announces.
3. **The outstanding count drifts** (`outstanding_drift`, gateway/app.py:280). When
   the reply cannot be written, the transaction has already been completed; the
   `except` clause fires "completed" again and `OUTSTANDING` drops twice, against
   gateway/app.py:244-246. `graceful_shutdown.sh` stops the gateway when it
   reads 0. The row of such a transaction also turns to 96, which `ToldIsFinal`
   delimits: only if the merchant was not told.
4. **One more transaction after the stop** (`merchant_stop`,
   merchant_simulator/app.py:223). `_sleep_or_interrupt` tests `_stop_event`, then suspends
   in `_control.get()`. If the stop comes during that poll and the sleep is over, the
   merchant still originates a transaction, against the comment at line 87. The
   drain waits for it (`NothingIsCutOff`).

Five more things the models show which no line of the repository contradicts
outright:

- **The end of a gateway is not bounded by `drain_timeout`.** The wait for `serve_task`
  (util.py:86) lasts, on Python 3.12, until every merchant connection is closed, and
  a merchant simulator keeps idle ones in its pool. `ShutdownEnds` therefore has the
  hanging up as its premise; without it only compose's SIGKILL ends the process.
  The docstring's 25 seconds (util.py:64-71) count from later on. The script of
  `graceful_shutdown.sh` stops the merchants first, which satisfies the premise.
- **Events that overtake each other leave the count too high for good**
  (dashboard/app.py:146). A "completed" event that finds `OUTSTANDING` at zero is
  swallowed, and the "received" one it overtook is never taken back. `DriftIsBounded`
  says how much that can be: with thirty posts at a time (gateway/app.py:142) up
  to 29, and one more for each failed post. `graceful_shutdown.sh` then waits for
  a zero that does not come, until its time-out. Downwards the count is off by
  one for each transaction that completed a second time or without having been
  received.
- **An event may die with the process** when its merchant's connection was lost:
  the handler is then in the snapshot, but the event it fires last is not
  (`EventsAreFinished` says when none does).
- **The marker comes before the PINs and the keys** (generate_data.py:388). A run that
  is killed after it leaves a set that every later `--if-missing` run takes for
  complete. The services then wait for files that never come, which is safe
  (`OneGeneration`), but they do not start. A service that meets a file half
  written ends and needs to be started again: `wait_for_files` does not see that.
- **Two generators that both miss the marker** (generate_data.py:370) may leave the
  cards of one run with the keys of the other. The `startup` run reaches that, and
  `OneGeneration`, `RightIsAccepted` and `FilesStayPut` leave it out (`~overlap`); only
  that nothing wrong is approved holds in spite of it (`WrongIsNeverApproved`).

## 5. Proofs

`ConnectionPoolProofs` proves, from `PoolAssumption` alone (finitely many callers and
connections, `NoConn` is no connection, `max_size` is positive):

| theorem | says |
|---|---|
| `Inductive` | `Spec => []IndInv` |
| `TypeCorrect` | `TypeOK`, with `created` never above `MaxSize` |
| `CountIsExact` | `Accounted` |
| `OneRequestAtATime` | `Exclusive` |
| `NobodyParks` | `NeverParks` |
| `HeldIsOpen` | `Holding` |
| `LineIsExact` | `LockLine`: nobody is forgotten in the lock's line |
| `PoolKeepsPromise` | `KeepsPromise`: the refinement of `BoundedPool` |

The inductive invariant is

    IndInv == TypeOK /\ Holding /\ Exclusive /\ OnlyOwnerConnects /\ Accounted /\ NeverParks

and no conjunct stands without the others. That `created` stays within 0..MaxSize
when a failed connect or a close lowers it needs `Accounted` (the caller itself is
counted, so the count is positive). `Accounted` needs to know which phases hold a
connection (`Holding`) and that a connect that ends releases the lock of the
caller that connects (`OnlyOwnerConnects`, the part of `LockLine` that is enough
here). `Exclusive` needs `Holding`: `ConnectOK` takes a connection that does not
exist, and what is idle or held does exist. `NeverParks` needs `Accounted`: a
caller that finds nothing idle and `created = MaxSize` would be one more than
MaxSize other callers that are counted.

The proof has one lemma per conjunct (`TypeStep`, `HoldStep`, `ExclusiveStep`,
`CountStep`, `ParkStep`, `OwnerStep`), each a case distinction over `StepCases`, the
disjuncts of `Next`; the cardinality of `Counted` is moved by `CountedGains` and
`CountedLoses`. The refinement (`StepKeepsPromise`) maps each step to one of
`BoundedPool`'s or to a stutter; that a new connection fits is `RoomAtHost`, where
the connections at the host are counted through `Accounted`. `LineIsExact` has an
invariant of its own, `LockLine` itself: `LineTail` and `LineAppend` say what leaving and
joining do to the set of those in line, `LineStep` applies them to each step.

`GatewayProofs`, `GatewayOutcomeProofs` and `GatewayCourseProofs` prove, from
`GatewayAssumption` alone:

| theorem | says |
|---|---|
| `StructureHolds`, `InvHolds` | `Spec => []Structure`, `Spec => []IInv` |
| `GatewayTypes` | `TypeOK` |
| `ExchangesStayApart` | `OneExchange` |
| `SlotsAreEnough` | `SlotsCoverPool` |
| `ApprovalsAreTrue` | `ApprovedOnce` |
| `ReadIsSettled` | `HandledIsSettled` |
| `CompletesOnce` | `CompletedOnce` |
| `RowsAreTrue` | `RowIsTrue` |
| `AnswersAreFinal` | `ToldIsFinal` |
| `GatewayFollowsProtocol` | `FollowsProtocol`: the refinement of `Authorization` |

The pool's proof is used, not repeated: `PP == INSTANCE ConnectionPoolProofs` makes its
invariant one of `Gateway`'s states, `PoolSteps` shows that each step is a step of the
pool or leaves it alone, and `PP!StepInv` does the rest. What the pool's premise is to
the pool (no more callers than connections) the slots are to the gateway, so
the invariant is about the two lines together:

    Structure == TypeOK /\ PP!IndInv /\ PhaseMatchesPc /\ SlotLine /\ OwnTask
                   /\ OneExchange /\ WireMatches /\ CodeIsOwn

`PhaseMatchesPc` says where in the pool a handler can be at each of its own
suspensions, a close that goes on after the failure included, and that nobody parks.
`SlotLine` is the semaphore: the line is exactly the handlers at work, each once, and
whoever is past the insert holds a slot. The two give that nobody parks
(`SlotMeansRoom`): a handler that asks for a connection holds a slot, and so do
all callers that count, so they are fewer than `Limit`. `OwnTask` (a transaction
is in one inbox or at one handler) keeps the exchanges apart: `OneExchange` alone is
not inductive, since `ReadReply` needs to know that the response under way is
there because of this very request (`WireMatches`), and `SettleOK` that the code in
hand is still the issuer's (`CodeIsOwn`).

`Outcome` adds the records: a transaction that was not read is untouched
(`UnreadIsUntouched`); row, events and reply at each suspension of its handler
(`WorkOf`); "received" comes first and "approved" once, only of what the issuer
approved (`EventsOf`); and `SettledOf`, `RowOf`, which are the properties themselves.
Most steps leave the records alone and move a transaction along (`QuietStep`); the
others write only the records of their own transaction (`OwnRecords`) and have
a lemma each, by whether their database call succeeds. `Protocol`'s steps follow from
it: `IssuerDecides` is a decision, the reply of `SettleOK` or `Fallback` an answer, all
else a stutter.

`Course` counts the completed events of a transaction. `WayOf` says how the `except`
clause was entered: before "completed", before "received" (its insert failed), or
after both, with the merchant's connection lost. Only the last leads to a second
completed event, and no handler goes on with that transaction afterwards.

`ObservedGatewayProofs` adds `TelemetryAssumption`:

| theorem | says |
|---|---|
| `BoardTypeCorrect` | `BoardTypeOK`, so `OUTSTANDING` is never negative |
| `ApprovalsAreNoMore` | `ApprovalsAreReal` |
| `TheDriftIsBounded` | `DriftIsBounded`, for every `EventLimit` and any number of failed posts |

Tasks are posted in any order, and counted by the positions that hold an event of a
kind; the lemmas `CountAdded` and `CountPosted` say what one more and one less do.
For the approvals, `AnnouncedCovers` relates three states: what the board has counted
and what may still reach it are no more than the approvals the gateway fired, and
those are transactions the issuer approved (`EventsOf`). `Txn` need not be finite:
what was sent is (`DecidedWasSent`).

For the count of open transactions the difficulty is `CountDown`, which stops at zero
and then loses one. An event that moves `Drift` upwards finds `OUTSTANDING` at zero, so
`Drift` is then what is pending alone: "received" events, less "completed" ones and
open transactions. `SuffixBalance` bounds it (`DriftAtZero`): of the "received" events
queued behind the first `EventLimit`, each one's transaction is open or has its
"completed" event in the queue behind them as well, since the gateway fires it later and
no post reaches it yet. What is left are the events being posted, of which the
swallowed one is one that does not open, and those that were given up, no more
than failed (`LateEvents`). Downwards `Drift` moves when an event completes a
transaction that was not open (`EventOpens`, from `Course`), which makes it one
of `Strays`. `FinishedCount` is the same account for `approved` and `declined`.

`ShutdownProofs` has no assumption of its own:

| theorem | says |
|---|---|
| `ShutdownIsObserved` | `ShutdownSpec => ObservedSpec`: what is proved above holds until the end |
| `ShutdownTypes` | `ShutdownTypeOK` |
| `NothingAcceptedIsLost` | `AcceptedIsFinished` |
| `NoEventIsLost` | `EventsAreFinished` |

Its invariant is about the snapshot alone. `NobodyForgotten`: once `serve_task` is over,
whoever is not in `in_flight` has ended, and stays so (`EndedStays`). `WaitedForAll`: a
drain that was not given up saw them end. `EventsWaitedFor`: if no connection was lost,
`waitE` is all the tasks, since nobody is left to fire one. That what was accepted
is settled then is `HandledIsSettled`, which holds through `ShutdownIsObserved`. What
the dashboard ends with is `FinishedCount` and `DriftIsBounded` with nothing pending,
nothing open and, no connection being lost, nothing completed twice (`Course`).

`MerchantProofs` proves:

| theorem | says |
|---|---|
| `DrainMissesNothing` | `NothingIsCutOff` |
| `PausesTakeEffect` | `PauseIsPrompt` |
| `MerchantTypes` | `TypeOK` |

The first needs no assumption on the constants. Its invariant `DrainInv` adds to the
property that once `gather` has returned every merchant has ended (so none originates
a transaction: `MerchantStepDrain`), and that from then on whatever runs is in the
snapshot, which `Prepared` and `Sent` only take from. The second rests on
`ControlAssumption` and adds up two ages: an answer that the switch has left behind was
taken after its poll was sent (`AnswerIsRecent`), so it is younger than `PollTime` allows;
a cache that disagrees with the switch is at most `PollTime` older in truth than it thinks
(`CacheIsRecent`), and it is used for less than `Cache`. The sum is `Settled`.

`SeedFilesProofs` proves, from `SeedAssumption` alone:

| theorem | says |
|---|---|
| `TypeCorrect` | `TypeOK` |
| `KeysOfOneRun` | `OneGeneration` |
| `NothingIsReplaced` | `FilesStayPut` |
| `WrongIsRefusedAlways` | `WrongIsNeverApproved` |
| `RightIsAcceptedAlways` | `RightIsAccepted` |

The inductive invariant `IInv` says how the marker splits a behaviour without overlap
in two. Before it exists there are no keys, so every service still waits and holds
nothing, and the one run that writes is at or before the marker (`BeforeMarker`).
Afterwards no run starts to write, and one run, the marker's author, has written
the cards and alone can write the keys (`AfterMarker`, `Author`). `OneRun`, `StartsEmpty`,
`KeysPending` and `ReadIsLoaded` are what the steps need besides. The rest is arithmetic
and case distinction: `ExpiryIsTheMonth` shows that `is_expired` means the month on
the card, for all dates; `WrongPinFails` and `RoundTrip` follow a PIN block through the
zones.

Every invariant and every action property of a passing run is stated by one of
these theorems, and both refinements are. Only model-checked are the liveness
properties `CallsReturn`, `HandlersReturn`, `ResumeIsSeen`, `StopEnds` and
`ShutdownEnds`, which are out of the prover's reach (fairness is stated with
ENABLED), and the four runs that expect a violation. No proof is by induction over
data: what is counted in a sequence is the cardinality of a set of positions.

## 6. Not modelled

- The front end, the deployment files and the contents of the reference tables:
  presentation, configuration, data.
- The rolling windows and percentages of `current_stats`: presentation of the counts.
- AES itself, and the random contents of the seed data.
- The connection pools inside httpx and SQLAlchemy: libraries. Of the database
  the model knows that a call takes effect, fails, or both.
- The broadcast to browsers (`broadcast`, the stats loop, `ws_endpoint`). `_clients` is
  iterated across an `await`; when a browser comes or goes while a send is held up,
  the iterator raises `RuntimeError`, and in the stats loop nothing catches it. That
  follows from the code at once; nothing in the repository says what browsers are
  owed, so there is no promise to check it against.
- `init_db`: when two gateways create the schema at once one of them fails and the
  tables are there; when it fails for another reason every later call raises, and
  `Gateway` has failing calls.
- The issuer's pause loop: it delays an answer, which `IssuerDecides` may do anyway; the
  poller under it is `Control`.
- The wire format of iso8583.py: data. That a message is read whole, or not at all,
  is part of `Gateway`.

## 7. Plan

Done: `BoundedPool`, `ConnectionPool`, `ConnectionPoolProofs`; `Authorization`,
`Gateway`, `GatewayProofs`, `GatewayOutcomeProofs`, `GatewayCourseProofs`; `Telemetry`,
`ObservedGateway`, `ObservedGatewayProofs`; `Control`, `Merchant`, `MerchantProofs`;
`PinZones`, `SeedFiles`, `SeedFilesProofs`; `Shutdown`, `ShutdownProofs`. Left:
`Broadcast` (dashboard/app.py), should a promise to browsers be written down.
