------------------------------- MODULE Gateway -------------------------------
(***************************************************************************)
(* services/gateway/app.py: one gateway process.  A handler task serves    *)
(* each merchant connection (handle_merchant, _handle_merchant), at most   *)
(* Limit of them at once process a transaction, and those share one pool   *)
(* of connections to the issuer (forward_to_issuer, ConnectionPool).       *)
(*                                                                         *)
(* A step is the code a handler runs between two points where it suspends: *)
(* the wait for a message, for its slot, for the database, for the pool,   *)
(* for the issuer, and the two simulated delays.  The merchants, the       *)
(* network, Postgres and the issuer are environment: each of their         *)
(* outcomes the code distinguishes is a step of its own.                   *)
(***************************************************************************)
EXTENDS Naturals, Sequences, FiniteSets, Functions

CONSTANTS Links,        \* merchant connections, each with its handler task
          Txn,          \* transaction ids
          WithPin,      \* those that carry a PIN block
          NoTxn,
          Limit,        \* CONCURRENCY_LIMIT, also max_size of the pool
          Conn, NoConn, \* connections to the issuer
          MaxDbFaults   \* bound: failing database calls

ASSUME GatewayAssumption ==
    /\ IsFiniteSet(Links) /\ IsFiniteSet(Conn)
    /\ NoConn \notin Conn
    /\ NoTxn \notin Txn
    /\ WithPin \subseteq Txn
    /\ Limit \in Nat \ {0}
    /\ MaxDbFaults \in Nat

VARIABLES
    (* the pool of connections to the issuer, see ConnectionPool *)
    idle, created, lockQ, phase, held, conn,
    (* the handlers *)
    pc,         \* where each handler is suspended
    txn,        \* the transaction it works on, or NoTxn
    code,       \* its local response_code once forward_to_issuer is over
    slotQ,      \* _concurrency: the first Limit hold a slot, the rest wait
    fired,      \* per transaction, the events given to fire_event, in order
    (* Postgres *)
    row,        \* per transaction: "absent", "PENDING" or its response_code
    dbFaults,   \* per transaction, how many database calls failed
    (* the merchants' side *)
    link,       \* state of each merchant connection
    inbox,      \* the request sent on it and not read yet, or NoTxn
    sent,       \* transactions sent so far
    told,       \* per transaction, the response codes the merchant received
    (* the issuer's side *)
    wire,       \* per connection, the exchanges on it, oldest first
    asked,      \* requests that reached the issuer
    decided     \* its decisions

poolVars == <<idle, created, lockQ, phase, held, conn>>
handlerVars == <<pc, txn, code, slotQ, fired>>
dbVars == <<row, dbFaults>>
merchantVars == <<link, inbox, sent, told>>
issuerVars == <<wire, asked, decided>>
vars == <<poolVars, handlerVars, dbVars, merchantVars, issuerVars>>

Pool == INSTANCE ConnectionPool WITH Callers <- Links, MaxSize <- Limit

NoCode == "none"
Verdict == {"00", "05"}         \* "05" stands for every decline of the issuer
AcquirerCode == {"91", "96"}
Code == Verdict \cup AcquirerCode

Status(c) == IF c = "00" THEN "APPROVED" ELSE "DECLINED"

\* The events of fire_event, a completed one by its response_status.
Completed(c) == IF Status(c) = "APPROVED" THEN "approved" ELSE "declined"
Event == {"received", "forwarded_to_issuer", "approved", "declined"}

Exchange == [txn : Txn, code : Verdict \cup {NoCode}]

TypeOK ==
    /\ Pool!TypeOK
    /\ pc \in [Links -> {"read", "insert", "mark", "forward", "settle", "fallback", "closed"}]
    /\ txn \in [Links -> Txn \cup {NoTxn}]
    /\ code \in [Links -> Code \cup {NoCode}]
    /\ slotQ \in Seq(Links)
    /\ fired \in [Txn -> Seq(Event)]
    /\ row \in [Txn -> Code \cup {"absent", "PENDING"}]
    /\ dbFaults \in [Txn -> Nat]
    /\ link \in [Links -> {"open", "eof", "lost"}]
    /\ inbox \in [Links -> Txn \cup {NoTxn}]
    /\ sent \subseteq Txn
    /\ told \in [Txn -> Seq(Code)]
    /\ wire \in [Conn -> Seq(Exchange)]
    /\ asked \subseteq Txn
    /\ decided \in [Txn -> Verdict \cup {NoCode}]

Init ==
    /\ Pool!Init
    /\ pc = [m \in Links |-> "read"]
    /\ txn = [m \in Links |-> NoTxn]
    /\ code = [m \in Links |-> NoCode]
    /\ slotQ = <<>>
    /\ fired = [t \in Txn |-> <<>>]
    /\ row = [t \in Txn |-> "absent"]
    /\ dbFaults = [t \in Txn |-> 0]
    /\ link = [m \in Links |-> "open"]
    /\ inbox = [m \in Links |-> NoTxn]
    /\ sent = {}
    /\ told = [t \in Txn |-> <<>>]
    /\ wire = [k \in Conn |-> <<>>]
    /\ asked = {}
    /\ decided = [t \in Txn |-> NoCode]

-----------------------------------------------------------------------------
(* What the handler's steps are made of *)

\* Mutant: one handler too many is let in.
HasSlotOneMore(m) == \E i \in 1 .. Len(slotQ) : i <= Limit + 1 /\ slotQ[i] = m

HasSlot(m) == \E i \in 1 .. Len(slotQ) : i <= Limit /\ slotQ[i] = m

\* m leaves the line; those behind it move up.
LeaveSlot(m) ==
    \E i \in 1 .. Len(slotQ) :
        /\ slotQ[i] = m
        /\ slotQ' = [j \in 1 .. Len(slotQ) - 1 |-> IF j < i THEN slotQ[j] ELSE slotQ[j + 1]]

Goto(m, p) == pc' = [pc EXCEPT ![m] = p]

\* fire_event only creates a task: it neither suspends nor raises.
Fire(m, e) == fired' = [fired EXCEPT ![txn[m]] = Append(@, e)]

\* A committed statement, or one that raised: then it may or may not have
\* taken effect.
DbOK(t, new) ==
    /\ row' = [row EXCEPT ![t] = new]
    /\ UNCHANGED dbFaults

DbFails(t, new) ==
    /\ FoldFunction(+, 0, dbFaults) < MaxDbFaults
    /\ dbFaults' = [dbFaults EXCEPT ![t] = @ + 1]
    /\ row' \in {row, [row EXCEPT ![t] = new]}

\* update_response on a row that is not there updates nothing.
Updated(t, c) == IF row[t] = "absent" THEN "absent" ELSE c

\* write_message to the merchant.  On a connection it has closed the write
\* goes through and nobody reads it; on a lost one it raises.
Told(m, c) ==
    told' = IF link[m] = "open" THEN [told EXCEPT ![txn[m]] = Append(@, c)] ELSE told

\* Mutant: the way out of the loop does not give the slot back.
FinishLeaksSlot(m, p) ==
    /\ Goto(m, p)
    /\ IF p = "closed" THEN UNCHANGED slotQ ELSE LeaveSlot(m)
    /\ txn' = [txn EXCEPT ![m] = NoTxn]
    /\ code' = [code EXCEPT ![m] = NoCode]

\* Back to the top of the loop with the slot given back, or out of it.
Finish(m, p) ==
    /\ Goto(m, p)
    /\ LeaveSlot(m)
    /\ txn' = [txn EXCEPT ![m] = NoTxn]
    /\ code' = [code EXCEPT ![m] = NoCode]

\* acquire has handed over a connection in this step: write_message follows
\* at once.  A dead connection takes the bytes, or raises, and reaches nobody.
Write(m) ==
    LET k == held'[m]  x == [txn |-> txn[m], code |-> NoCode]
    IN  IF k = NoConn
        THEN UNCHANGED <<wire, asked>>
        ELSE /\ wire' = [wire EXCEPT ![k] = Append(@, x)]
             /\ asked' = IF conn'[k] = "open" THEN asked \cup {txn[m]} ELSE asked

-----------------------------------------------------------------------------
(* handle_merchant: the loop *)

\* A message is read and the handler goes for a slot.
Receive(m) ==
    /\ pc[m] = "read"
    /\ inbox[m] # NoTxn
    /\ link[m] \in {"open", "eof"}
    /\ txn' = [txn EXCEPT ![m] = inbox[m]]
    /\ inbox' = [inbox EXCEPT ![m] = NoTxn]
    /\ slotQ' = Append(slotQ, m)
    /\ Goto(m, "insert")
    /\ UNCHANGED <<poolVars, code, fired, dbVars, link, sent, told, issuerVars>>

\* IncompleteReadError or ConnectionResetError: close and end.  What a lost
\* connection had still to deliver is never read.
EndOfLink(m) ==
    /\ pc[m] = "read"
    /\ \/ link[m] = "eof" /\ inbox[m] = NoTxn
       \/ link[m] = "lost"
    /\ Goto(m, "closed")
    /\ UNCHANGED <<poolVars, txn, code, slotQ, fired, dbVars, merchantVars, issuerVars>>

\* Mutant: the row of a failed transaction is left alone.
FallbackKeepsRow(m) == UNCHANGED dbVars

\* The except clause: update, event and reply of a transaction whose
\* processing raised.  An update that fails is ignored.
FallbackDb(m) ==
    LET t == txn[m] IN DbOK(t, Updated(t, "96")) \/ DbFails(t, Updated(t, "96"))

\* Mutant: no event for a transaction that failed.
FallbackNoEvent(m) == UNCHANGED fired

\* Mutant: the event of a failed transaction carries the issuer's response.
FallbackEventOfCode(m) == Fire(m, Completed(code[m]))

FallbackEvent(m) == Fire(m, Completed("96"))

Fallback(m) ==
    /\ pc[m] = "fallback"
    /\ phase[m] = "out"
    /\ FallbackDb(m)
    /\ FallbackEvent(m)
    /\ Told(m, "96")
    /\ Finish(m, IF link[m] = "lost" THEN "closed" ELSE "read")
    /\ UNCHANGED <<poolVars, link, inbox, sent, issuerVars>>

-----------------------------------------------------------------------------
(* _handle_merchant: the transaction *)

\* insert_request, the "received" event, and the translation of the PIN
\* block, if there is one, which raises when it cannot be done.
InsertOK(m) ==
    /\ pc[m] = "insert"
    /\ HasSlot(m)
    /\ DbOK(txn[m], "PENDING")
    /\ Fire(m, "received")
    /\ \/ Goto(m, "mark")
       \/ txn[m] \in WithPin /\ Goto(m, "fallback")
    /\ UNCHANGED <<poolVars, txn, code, slotQ, merchantVars, issuerVars>>

InsertFails(m) ==
    /\ pc[m] = "insert"
    /\ HasSlot(m)
    /\ DbFails(txn[m], "PENDING")
    /\ Goto(m, "fallback")
    /\ UNCHANGED <<poolVars, txn, code, slotQ, fired, merchantVars, issuerVars>>

\* forwarded_at is set, the event fired, and the pool asked for a connection.
MarkOK(m) ==
    /\ pc[m] = "mark"
    /\ DbOK(txn[m], row[txn[m]])
    /\ Fire(m, "forwarded_to_issuer")
    /\ Pool!Acquire(m)
    /\ Write(m)
    /\ Goto(m, "forward")
    /\ UNCHANGED <<txn, code, slotQ, merchantVars, decided>>

MarkFails(m) ==
    /\ pc[m] = "mark"
    /\ DbFails(txn[m], row[txn[m]])
    /\ Goto(m, "fallback")
    /\ UNCHANGED <<poolVars, txn, code, slotQ, fired, merchantVars, issuerVars>>

\* The wait in acquire, and the write once it returns.
AcquireProceeds(m) ==
    /\ Pool!Locked(m) \/ Pool!TakeReturned(m) \/ Pool!ConnectOK(m)
    /\ Write(m)
    /\ UNCHANGED <<handlerVars, dbVars, merchantVars, decided>>

\* ConnectionRefusedError or another OSError: response code 91.
ConnectFails(m) ==
    /\ Pool!ConnectFail(m)
    /\ code' = [code EXCEPT ![m] = "91"]
    /\ Goto(m, "settle")
    /\ UNCHANGED <<txn, slotQ, fired, dbVars, merchantVars, issuerVars>>

\* Mutant: a response is used that has not arrived.
ResponseEarly(m) ==
    /\ code' = [code EXCEPT ![m] = Head(wire[held[m]]).code]
    /\ wire' = [wire EXCEPT ![held[m]] = Tail(@)]

\* Mutant: the response is looked at but not taken off the stream.
ResponseLeft(m) ==
    /\ Head(wire[held[m]]).code # NoCode
    /\ code' = [code EXCEPT ![m] = Head(wire[held[m]]).code]
    /\ UNCHANGED wire

\* read_message.
Response(m) ==
    /\ Head(wire[held[m]]).code # NoCode
    /\ code' = [code EXCEPT ![m] = Head(wire[held[m]]).code]
    /\ wire' = [wire EXCEPT ![held[m]] = Tail(@)]

\* The connection is released as healthy once the response is read.
ReadReply(m) ==
    /\ pc[m] = "forward" /\ phase[m] = "using"
    /\ Response(m)
    /\ Pool!Release(m, TRUE)
    /\ Goto(m, "settle")
    /\ UNCHANGED <<txn, slotQ, fired, dbVars, merchantVars, asked, decided>>

\* Mutant: healthy stays true when the round trip raises.
GiveUpHealthy(m) == Pool!Release(m, TRUE)

GiveUp(m) == Pool!Release(m, FALSE)

\* The write or the read raises an OSError, which becomes code 91.
ReadReset(m) ==
    /\ pc[m] = "forward" /\ phase[m] = "using"
    /\ conn[held[m]] = "lost"
    /\ code' = [code EXCEPT ![m] = "91"]
    /\ GiveUp(m)
    /\ Goto(m, "settle")
    /\ UNCHANGED <<txn, slotQ, fired, dbVars, merchantVars, issuerVars>>

\* The stream ends before a response: IncompleteReadError is no OSError and
\* leaves _handle_merchant.
ReadEof(m) ==
    /\ pc[m] = "forward" /\ phase[m] = "using"
    /\ conn[held[m]] \in {"eof", "lost"}
    /\ Head(wire[held[m]]).code = NoCode
    /\ GiveUp(m)
    /\ Goto(m, "fallback")
    /\ UNCHANGED <<txn, code, slotQ, fired, dbVars, merchantVars, issuerVars>>

\* The rest of release for a connection that is given up.
ReleaseProceeds(m) ==
    /\ Pool!Closed(m) \/ Pool!Uncount(m)
    /\ wire' = IF held[m] = NoConn THEN wire ELSE [wire EXCEPT ![held[m]] = <<>>]
    /\ UNCHANGED <<handlerVars, dbVars, merchantVars, asked, decided>>

\* The final update, the "completed" event and the reply.
SettleOK(m) ==
    /\ pc[m] = "settle"
    /\ phase[m] = "out"
    /\ DbOK(txn[m], Updated(txn[m], code[m]))
    /\ Fire(m, Completed(code[m]))
    /\ Told(m, code[m])
    /\ IF link[m] = "lost"
       THEN Goto(m, "fallback") /\ UNCHANGED <<txn, code, slotQ>>
       ELSE Finish(m, "read")
    /\ UNCHANGED <<poolVars, link, inbox, sent, issuerVars>>

\* Mutant: the reply goes out before the update that fails.
SettleFailsToldFirst(m) ==
    /\ pc[m] = "settle"
    /\ phase[m] = "out"
    /\ DbFails(txn[m], Updated(txn[m], code[m]))
    /\ Told(m, code[m])
    /\ Goto(m, "fallback")
    /\ UNCHANGED <<poolVars, txn, code, slotQ, fired, link, inbox, sent, issuerVars>>

\* Mutant: the event is fired before the update that fails.
SettleFailsFiredFirst(m) ==
    /\ pc[m] = "settle"
    /\ phase[m] = "out"
    /\ DbFails(txn[m], Updated(txn[m], code[m]))
    /\ Fire(m, Completed(code[m]))
    /\ Goto(m, "fallback")
    /\ UNCHANGED <<poolVars, txn, code, slotQ, merchantVars, issuerVars>>

SettleFails(m) ==
    /\ pc[m] = "settle"
    /\ phase[m] = "out"
    /\ DbFails(txn[m], Updated(txn[m], code[m]))
    /\ Goto(m, "fallback")
    /\ UNCHANGED <<poolVars, txn, code, slotQ, fired, merchantVars, issuerVars>>

-----------------------------------------------------------------------------
(* The environment *)

\* A merchant's pool keeps one request at a time on a connection, each with
\* an id of its own (uuid4).
MerchantSends(m, t) ==
    /\ link[m] = "open"
    /\ inbox[m] = NoTxn /\ pc[m] = "read"
    /\ t \notin sent
    /\ sent' = sent \cup {t}
    /\ inbox' = [inbox EXCEPT ![m] = t]
    /\ UNCHANGED <<poolVars, handlerVars, dbVars, link, told, issuerVars>>

LinkFails(m, s) ==
    /\ \/ link[m] = "open" /\ s \in {"eof", "lost"}
       \/ link[m] = "eof" /\ s = "lost"
    /\ pc[m] # "closed"
    /\ link' = [link EXCEPT ![m] = s]
    /\ UNCHANGED <<poolVars, handlerVars, dbVars, inbox, sent, told, issuerVars>>

\* The issuer decides each request it got, once.  The response arrives if
\* the connection is still there.
IssuerDecides(t, v) ==
    /\ t \in asked
    /\ decided[t] = NoCode
    /\ decided' = [decided EXCEPT ![t] = v]
    /\ wire' = [k \in Conn |->
                  IF conn[k] = "open"
                  THEN [i \in 1 .. Len(wire[k]) |->
                          IF wire[k][i].txn = t THEN [wire[k][i] EXCEPT !.code = v]
                                                ELSE wire[k][i]]
                  ELSE wire[k]]
    /\ UNCHANGED <<poolVars, handlerVars, dbVars, merchantVars, asked>>

IssuerFails(k) ==
    /\ Pool!PeerCloses(k) \/ Pool!PeerResets(k)
    /\ UNCHANGED <<handlerVars, dbVars, merchantVars, issuerVars>>

-----------------------------------------------------------------------------

HandlerStep(m) ==
    \/ Receive(m) \/ EndOfLink(m)
    \/ InsertOK(m) \/ InsertFails(m)
    \/ MarkOK(m) \/ MarkFails(m)
    \/ AcquireProceeds(m) \/ ConnectFails(m)
    \/ ReadReply(m) \/ ReadReset(m) \/ ReadEof(m) \/ ReleaseProceeds(m)
    \/ SettleOK(m) \/ SettleFails(m)
    \/ Fallback(m)

Done == \A m \in Links : pc[m] = "closed"

Next ==
    \/ \E m \in Links : HandlerStep(m)
    \/ \E m \in Links, t \in Txn : MerchantSends(m, t)
    \/ \E m \in Links, s \in {"eof", "lost"} : LinkFails(m, s)
    \/ \E t \in Txn, v \in Verdict : IssuerDecides(t, v)
    \/ \E k \in Conn : IssuerFails(k)

Spec == Init /\ [][Next]_vars

\* A handler runs when what it waits for is there, database calls and
\* connects come to an end, and the issuer answers a request it got (a pause
\* is lifted at last) or its connection breaks.
Fairness ==
    /\ \A m \in Links : WF_vars(HandlerStep(m))
    /\ \A t \in Txn : WF_vars(\E v \in Verdict : IssuerDecides(t, v))

FairSpec == Spec /\ Fairness
-----------------------------------------------------------------------------
(* Properties *)

\* t was read from its connection and its handler is done with it.
Handled(t) == t \in sent /\ \A m \in Links : inbox[m] # t /\ txn[m] # t

Completions(t) == {i \in 1 .. Len(fired[t]) : fired[t][i] \in {"approved", "declined"}}

\* handle_merchant's docstring: whatever raises on the way, a transaction that
\* was read ends with a "completed" event after its "received" one, its row
\* (the database willing) with a response code, and its merchant (the
\* connection willing) with a response.
HandledIsSettled ==
    \A t \in Txn : Handled(t) =>
        /\ Completions(t) # {}
        /\ \A i \in 1 .. Len(fired[t]) : fired[t][i] = "received" => i = 1
        /\ dbFaults[t] = 0 => row[t] \in Code
        /\ (\A m \in Links : link[m] = "open") => told[t] # <<>>

Begun(t) == fired[t] # <<>> /\ fired[t][1] = "received"

\* app.py:244-246, as far as it is so: a transaction completes twice at most,
\* and twice only if the reply could not be written, never by a failing
\* database call; it completes without having been received only if its
\* insert failed.
CompletedOnce ==
    \A t \in Txn :
        /\ Cardinality(Completions(t)) <= 2
        /\ Cardinality(Completions(t)) = 2 => Begun(t) /\ told[t] = <<>>
        /\ Completions(t) # {} /\ dbFaults[t] = 0 => Begun(t)

\* What the database says of a transaction is what its merchant was told (the
\* database willing), and no code of the issuer's that it did not decide for
\* this very transaction ever gets there, whatever connections it shared.
RowIsTrue ==
    \A t \in Txn :
        /\ row[t] \in {"absent", "PENDING", decided[t]} \cup AcquirerCode
        /\ told[t] # <<>> /\ dbFaults[t] = 0 => row[t] = told[t][1]

\* An approval is announced at most once, and only for an approved
\* transaction: what the dashboard counts as approved was approved.
ApprovedOnce ==
    \A t \in Txn :
        LET approvals == {i \in 1 .. Len(fired[t]) : fired[t][i] = "approved"}
        IN  Cardinality(approvals) <= 1 /\ (approvals # {} => decided[t] = "00")

\* pool.py:13-15, the ground under RowIsTrue: an idle connection carries
\* nothing, and one in use only its borrower's own exchange, so a response
\* that is late finds no reader.
OneExchange ==
    /\ \A i \in 1 .. Len(idle) : wire[idle[i]] = <<>>
    /\ \A m \in Links : phase[m] = "using" =>
          /\ Len(wire[held[m]]) = 1
          /\ wire[held[m]][1].txn = txn[m]

\* app.py:201-204: the semaphore admits no more handlers than the pool has
\* connections, those it is still closing included, so no handler that holds
\* a slot waits for another to return a connection.
SlotsCoverPool ==
    /\ Cardinality({m \in Links : phase[m] # "out"}) <= Limit
    /\ \A m \in Links : phase[m] # "parked"

\* What the merchant was told stays on record: the 96 of the except clause
\* never overwrites the row of a transaction that was answered.
ToldIsFinal ==
    [][\A t \in Txn : told[t] # <<>> => row'[t] = row[t]]_vars

\* The merchants and the issuer see an authorization protocol.
Protocol == INSTANCE Authorization WITH submitted <- sent

FollowsProtocol == Protocol!Spec

\* Every handler gets out of the transaction it works on, through the slots,
\* the pool, every failure and every retry of nothing.
HandlersReturn ==
    \A m \in Links : pc[m] \notin {"read", "closed"} ~> pc[m] \in {"read", "closed"}

\* app.py:210-214: of an issuer that is down in its connect or its read the
\* merchant learns by code 91 (the transactions here meet no other fault).
IssuerDownIs91 ==
    \A t \in Txn \ WithPin :
        dbFaults[t] = 0 /\ told[t] # <<>> => told[t][1] \in {"91", decided[t]}
=============================================================================
