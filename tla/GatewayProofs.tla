----------------------------- MODULE GatewayProofs -----------------------------
(***************************************************************************)
(* The handlers of Gateway share slots, connections and the streams on     *)
(* them without mixing up whose is whose, for every number of merchants,   *)
(* transactions, connections and every concurrency limit.  Structure is    *)
(* the inductive invariant; GatewayOutcomeProofs builds on it what becomes *)
(* of each transaction.                                                    *)
(***************************************************************************)
EXTENDS Gateway, FiniteSetTheorems, SequenceTheorems, TLAPS

\* The proofs about the pool, for the handlers as its callers.
PP == INSTANCE ConnectionPoolProofs WITH Callers <- Links, MaxSize <- Limit

\* A handler is in the pool exactly while it forwards, except that it may
\* still close a connection it has given up.
PhaseMatchesPc ==
    \A m \in Links :
        /\ pc[m] = "forward" <=> phase[m] \in {"locking", "connecting", "using"}
        /\ phase[m] \in {"closing", "uncounting"} => pc[m] \in {"settle", "fallback"}
        /\ phase[m] # "parked"

InLine(m) == \E i \in 1 .. Len(slotQ) : slotQ[i] = m

\* The line of _concurrency is the handlers with a transaction, each once, and
\* those past its insert hold a slot.
SlotLine ==
    /\ \A i, j \in 1 .. Len(slotQ) : slotQ[i] = slotQ[j] => i = j
    /\ \A m \in Links :
          /\ pc[m] \notin {"read", "closed"} <=> InLine(m)
          /\ pc[m] \in {"mark", "forward", "settle", "fallback"} => HasSlot(m)

\* A transaction that was sent is in one place: one inbox, or one handler.
OwnTask ==
    /\ \A m \in Links : txn[m] = NoTxn <=> pc[m] \in {"read", "closed"}
    /\ \A m \in Links : txn[m] # NoTxn =>
          /\ txn[m] \in sent
          /\ \A n \in Links : inbox[n] # txn[m] /\ (txn[n] = txn[m] => n = m)
    /\ \A m \in Links : inbox[m] # NoTxn =>
          /\ inbox[m] \in sent
          /\ \A n \in Links : inbox[n] = inbox[m] => n = m

\* A connection that is not there carries nothing, and the response on one in
\* use is the issuer's decision for the transaction of its borrower.
WireMatches ==
    /\ asked \subseteq sent
    /\ \A k \in Conn : conn[k] = "none" => wire[k] = <<>>
    /\ \A m \in Links : phase[m] = "using" =>
          wire[held[m]][1].code \in {NoCode, decided[txn[m]]}

\* The code a transaction is settled with is 91 or the issuer's own.
CodeIsOwn ==
    \A m \in Links : pc[m] = "settle" =>
        code[m] # NoCode /\ code[m] \in {"91", decided[txn[m]]}

Structure ==
    /\ TypeOK
    /\ PP!IndInv
    /\ PhaseMatchesPc
    /\ SlotLine
    /\ OwnTask
    /\ OneExchange
    /\ WireMatches
    /\ CodeIsOwn

-----------------------------------------------------------------------------
(* The pool under the gateway *)

\* The gateway's constants are fit for a pool of its own.
LEMMA PoolAssumed == PP!PoolAssumption
BY GatewayAssumption DEF PP!PoolAssumption, PP!IsFiniteSet, IsFiniteSet

\* The two instances of the pool are the same pool.
LEMMA SamePool ==
    /\ PP!TypeOK <=> Pool!TypeOK
    /\ PP!Holding <=> Pool!Holding
    /\ PP!Exclusive <=> Pool!Exclusive
    /\ PP!Accounted <=> Pool!Accounted
    /\ PP!Counted = Pool!Counted
<1>1. PP!Counted = Pool!Counted
  BY DEF PP!Counted, Pool!Counted
<1>2. PP!TypeOK <=> Pool!TypeOK
  BY DEF PP!TypeOK, Pool!TypeOK, PP!Phases, Pool!Phases, PP!ConnStates, Pool!ConnStates
<1>3. PP!Holding <=> Pool!Holding
  BY DEF PP!Holding, Pool!Holding
<1>4. PP!Exclusive <=> Pool!Exclusive
  BY DEF PP!Exclusive, Pool!Exclusive
<1>5. PP!Accounted <=> Pool!Accounted
  BY <1>1 DEF PP!Accounted, Pool!Accounted, PP!Cardinality, Pool!Cardinality
<1> QED
  BY <1>1, <1>2, <1>3, <1>4, <1>5

\* The actions a step is one of, for the case splits below.
LEMMA GatewayCases ==
    ASSUME [Next]_vars
    PROVE  \/ UNCHANGED vars
           \/ \E m \in Links : HandlerStep(m)
           \/ \E m \in Links, t \in Txn : MerchantSends(m, t)
           \/ \E m \in Links, s \in {"eof", "lost"} : LinkFails(m, s)
           \/ \E t \in Txn, v \in Verdict : IssuerDecides(t, v)
           \/ \E k \in Conn : IssuerFails(k)
BY DEF Next

\* What a step does to the pool is a step of the pool.
LEMMA PoolSteps ==
    ASSUME [Next]_vars
    PROVE  [PP!Next]_(PP!poolVars)
<1> DEFINE Kept == UNCHANGED poolVars
           Steps == PP!Next
<1>1. Kept => UNCHANGED PP!poolVars
  BY DEF poolVars, PP!poolVars
<1>2. ASSUME NEW m \in Links, Pool!Acquire(m) PROVE Steps
  BY <1>2 DEF Pool!Acquire, PP!Acquire, PP!Next,
     Pool!AcquireIdle, Pool!AcquireWaitLock, Pool!AcquireCreate, Pool!AcquirePark,
     PP!AcquireIdle, PP!AcquireWaitLock, PP!AcquireCreate, PP!AcquirePark
<1>3. ASSUME NEW m \in Links, Pool!Locked(m) PROVE Steps
  BY <1>3 DEF Pool!Locked, PP!Locked, PP!Progress, PP!Next,
     Pool!LockedCreate, Pool!LockedTake, Pool!LockedPark, Pool!Owns,
     PP!LockedCreate, PP!LockedTake, PP!LockedPark, PP!Owns
<1>4. ASSUME NEW m \in Links, Pool!TakeReturned(m) \/ Pool!ConnectFail(m) PROVE Steps
  BY <1>4 DEF Pool!TakeReturned, PP!TakeReturned, Pool!ConnectFail, PP!ConnectFail,
     PP!Progress, PP!Next
<1>5. ASSUME NEW m \in Links, Pool!ConnectOK(m) PROVE Steps
  BY <1>5 DEF Pool!ConnectOK, PP!ConnectOK, PP!Progress, PP!Next
<1>6. ASSUME NEW m \in Links, Pool!Release(m, TRUE) \/ Pool!Release(m, FALSE) PROVE Steps
  BY <1>6 DEF Pool!Release, PP!Release, PP!Next, Pool!ReleaseToIdle, PP!ReleaseToIdle,
     Pool!ReleaseClose, PP!ReleaseClose, Pool!Reusable, PP!Reusable
<1>7. ASSUME NEW m \in Links, Pool!Closed(m) \/ Pool!Uncount(m) PROVE Steps
  BY <1>7 DEF Pool!Closed, PP!Closed, Pool!Uncount, PP!Uncount, PP!Progress, PP!Next,
     Pool!ClosedUncount, PP!ClosedUncount, Pool!ClosedWaitLock, PP!ClosedWaitLock,
     Pool!Owns, PP!Owns
<1>8. ASSUME NEW k \in Conn, IssuerFails(k) PROVE Steps
  BY <1>8 DEF IssuerFails, Pool!PeerCloses, PP!PeerCloses, Pool!PeerResets, PP!PeerResets,
     PP!Next
<1>9. ASSUME NEW m \in Links, HandlerStep(m) PROVE Kept \/ Steps
  BY <1>2, <1>3, <1>4, <1>5, <1>6, <1>7, <1>9 DEF HandlerStep, Receive, EndOfLink,
     InsertOK, InsertFails, MarkOK, MarkFails, AcquireProceeds, ConnectFails, ReadReply,
     ReadReset, GiveUp, ReadEof, ReleaseProceeds, SettleOK, SettleFails, Fallback
<1> QED
  BY <1>1, <1>8, <1>9, GatewayCases DEF vars, MerchantSends, LinkFails, IssuerDecides

-----------------------------------------------------------------------------
(* The line of _concurrency *)

\* A handler that leaves the line does so once, and whoever has a slot keeps it.
LEMMA LineLeft ==
    ASSUME TypeOK, SlotLine, NEW m \in Links, LeaveSlot(m)
    PROVE  /\ slotQ' \in Seq(Links)
           /\ \A i, j \in 1 .. Len(slotQ)' : slotQ'[i] = slotQ'[j] => i = j
           /\ \A n \in Links : InLine(n)' <=> InLine(n) /\ n # m
           /\ \A n \in Links : HasSlot(n) /\ n # m => HasSlot(n)'
<1>1. PICK i \in 1 .. Len(slotQ) :
         /\ slotQ[i] = m
         /\ slotQ' = [j \in 1 .. Len(slotQ) - 1 |-> IF j < i THEN slotQ[j] ELSE slotQ[j + 1]]
  BY DEF LeaveSlot
<1>2. Len(slotQ) \in Nat /\ \A j \in 1 .. Len(slotQ) : slotQ[j] \in Links
  BY DEF TypeOK
<1>3. Len(slotQ) - 1 \in Nat
  BY <1>1, <1>2
<1>4. \A j \in 1 .. Len(slotQ) - 1 :
         (IF j < i THEN slotQ[j] ELSE slotQ[j + 1]) \in Links
  BY <1>2
<1>5. slotQ' \in Seq(Links)
  BY <1>1, <1>3, <1>4
<1>6. /\ Len(slotQ)' = Len(slotQ) - 1
      /\ \A j \in 1 .. Len(slotQ)' : slotQ'[j] = IF j < i THEN slotQ[j] ELSE slotQ[j + 1]
  BY <1>1, <1>3
<1>7. \A j, k \in 1 .. Len(slotQ) : slotQ[j] = slotQ[k] => j = k
  BY DEF SlotLine
<1>8. \A j, k \in 1 .. Len(slotQ)' : slotQ'[j] = slotQ'[k] => j = k
  BY <1>2, <1>6, <1>7
<1>9. ASSUME NEW j \in 1 .. Len(slotQ), j # i
      PROVE  LET k == IF j < i THEN j ELSE j - 1
             IN  k \in 1 .. Len(slotQ)' /\ k <= j /\ slotQ'[k] = slotQ[j]
  BY <1>2, <1>6, <1>9
<1>10. ASSUME NEW j \in 1 .. Len(slotQ)'
       PROVE  \E k \in 1 .. Len(slotQ) : slotQ[k] = slotQ'[j] /\ slotQ[k] # m
  <2>1. CASE j < i
    <3>1. j \in 1 .. Len(slotQ) /\ j # i /\ slotQ[j] = slotQ'[j]
      BY <1>1, <1>2, <1>6, <2>1
    <3> QED
      BY <1>1, <1>7, <3>1
  <2>2. CASE ~(j < i)
    <3>1. j + 1 \in 1 .. Len(slotQ) /\ j + 1 # i /\ slotQ[j + 1] = slotQ'[j]
      BY <1>1, <1>2, <1>6, <2>2
    <3> QED
      BY <1>1, <1>7, <3>1
  <2> QED
    BY <2>1, <2>2
<1>11. ASSUME NEW n \in Links, InLine(n), n # m PROVE InLine(n)'
  BY <1>1, <1>9, <1>11 DEF InLine
<1>12. ASSUME NEW n \in Links, InLine(n)' PROVE InLine(n) /\ n # m
  BY <1>10, <1>12 DEF InLine
<1>13. ASSUME NEW n \in Links, HasSlot(n), n # m PROVE HasSlot(n)'
  <2>1. PICK j \in 1 .. Len(slotQ) : j <= Limit /\ slotQ[j] = n
    BY <1>13 DEF HasSlot
  <2>2. PICK k \in 1 .. Len(slotQ)' : k <= j /\ slotQ'[k] = n
    BY <1>1, <1>9, <1>13, <2>1
  <2>3. k <= Limit
    <3>1. j \in Nat /\ k \in Nat /\ Limit \in Nat
      BY <1>2, <1>6, GatewayAssumption
    <3> QED
      BY <2>1, <2>2, <3>1
  <2> QED
    BY <2>2, <2>3 DEF HasSlot
<1> QED
  BY <1>5, <1>8, <1>11, <1>12, <1>13

\* A newcomer waits behind everybody.
LEMMA LineJoined ==
    ASSUME TypeOK, SlotLine, NEW m \in Links, ~InLine(m), slotQ' = Append(slotQ, m)
    PROVE  /\ slotQ' \in Seq(Links)
           /\ \A i, j \in 1 .. Len(slotQ)' : slotQ'[i] = slotQ'[j] => i = j
           /\ \A n \in Links : InLine(n)' <=> InLine(n) \/ n = m
           /\ \A n \in Links : HasSlot(n) => HasSlot(n)'
<1>1. /\ Len(slotQ) \in Nat
      /\ Len(slotQ)' = Len(slotQ) + 1
      /\ \A i \in 1 .. Len(slotQ) : slotQ'[i] = slotQ[i]
      /\ slotQ'[Len(slotQ) + 1] = m
      /\ slotQ' \in Seq(Links)
  BY DEF TypeOK
<1>2. \A i, j \in 1 .. Len(slotQ) : slotQ[i] = slotQ[j] => i = j
  BY DEF SlotLine
<1>3. \A i, j \in 1 .. Len(slotQ)' : slotQ'[i] = slotQ'[j] => i = j
  BY <1>1, <1>2 DEF InLine
<1>4. \A n \in Links : InLine(n)' <=> InLine(n) \/ n = m
  BY <1>1 DEF InLine
<1>5. \A n \in Links : HasSlot(n) => HasSlot(n)'
  BY <1>1 DEF HasSlot
<1> QED
  BY <1>1, <1>3, <1>4, <1>5

SlotHolders == {m \in Links : HasSlot(m)}

\* No more than Limit handlers hold a slot.
LEMMA SlotBound ==
    ASSUME TypeOK
    PROVE  /\ IsFiniteSet(SlotHolders)
           /\ Cardinality(SlotHolders) \in Nat
           /\ Cardinality(SlotHolders) <= Limit
<1> DEFINE first == {i \in 1 .. Limit : i <= Len(slotQ)}
           who == [i \in first |-> slotQ[i]]
<1>0. Len(slotQ) \in Nat /\ Limit \in Nat /\ \A i \in 1 .. Len(slotQ) : slotQ[i] \in Links
  BY GatewayAssumption DEF TypeOK
<1>1. IsFiniteSet(1 .. Limit) /\ Cardinality(1 .. Limit) = Limit
  <2>1. /\ IsFiniteSet(1 .. Limit)
        /\ Cardinality(1 .. Limit) = IF 1 > Limit THEN 0 ELSE Limit - 1 + 1
    BY <1>0, FS_Interval
  <2> QED
    BY <1>0, <2>1
<1>2. IsFiniteSet(first) /\ Cardinality(first) <= Limit
  BY <1>1, FS_Subset, first \subseteq 1 .. Limit
<1>3. ASSUME NEW m \in SlotHolders PROVE \E i \in first : who[i] = m
  BY <1>0, <1>3 DEF SlotHolders, HasSlot
<1>4. ASSUME NEW i \in first PROVE who[i] \in SlotHolders
  BY <1>0, <1>4 DEF SlotHolders, HasSlot
<1>5. who \in Surjection(first, SlotHolders)
  BY <1>3, <1>4 DEF Surjection
<1>6. /\ IsFiniteSet(SlotHolders)
      /\ Cardinality(SlotHolders) <= Cardinality(first)
  BY <1>2, <1>5, FS_Surjection
<1> QED
  BY <1>0, <1>2, <1>6, FS_CardinalityType

\* The instance of the pool counts with the same Cardinality.
LEMMA SameCardinality ==
    ASSUME NEW S
    PROVE  PP!Cardinality(S) = Cardinality(S)
BY DEF PP!Cardinality, Cardinality

\* Whoever is in the pool holds a slot.
LEMMA InPoolHasSlot ==
    ASSUME PhaseMatchesPc, SlotLine, TypeOK, NEW m \in Links, phase[m] # "out"
    PROVE  HasSlot(m)
BY DEF PhaseMatchesPc, SlotLine, TypeOK, Pool!TypeOK, Pool!Phases

\* A handler with a slot that is not counted yet finds the pool below capacity
\* or a connection idle: the slots are no more than the connections.
LEMMA SlotMeansRoom ==
    ASSUME Structure, NEW m \in Links, HasSlot(m), m \notin PP!Counted, idle = <<>>
    PROVE  created < Limit
<1>1. PP!Counted \subseteq SlotHolders \ {m}
  BY InPoolHasSlot DEF Structure, PP!Counted, SlotHolders
<1>2. /\ IsFiniteSet(SlotHolders \ {m})
      /\ Cardinality(SlotHolders \ {m}) = Cardinality(SlotHolders) - 1
  BY SlotBound, FS_RemoveElement DEF Structure, SlotHolders
<1>3. /\ Cardinality(PP!Counted) <= Cardinality(SlotHolders \ {m})
      /\ IsFiniteSet(PP!Counted)
  BY <1>1, <1>2, FS_Subset
<1>4. Cardinality(PP!Counted) \in Nat
  BY <1>3, FS_CardinalityType
<1>5. created = Len(idle) + Cardinality(PP!Counted) /\ Len(idle) = 0
  BY SameCardinality DEF Structure, PP!IndInv, PP!Accounted
<1> QED
  BY <1>2, <1>3, <1>4, <1>5, SlotBound, GatewayAssumption DEF Structure

-----------------------------------------------------------------------------
(* Types *)

\* A handler past the top of its loop has a transaction, one that was sent.
LEMMA Busy ==
    ASSUME TypeOK, OwnTask, NEW m \in Links, pc[m] \notin {"read", "closed"}
    PROVE  txn[m] \in Txn /\ txn[m] \in sent /\ txn[m] # NoTxn
BY DEF TypeOK, OwnTask

\* A database call that fails counts as one, and may have had its effect.
LEMMA DbFailure ==
    ASSUME NEW t, NEW new, DbFails(t, new)
    PROVE  /\ dbFaults' = [dbFaults EXCEPT ![t] = @ + 1]
           /\ row' \in {row, [row EXCEPT ![t] = new]}
BY DEF DbFails

\* A database call keeps the types of the rows, whether it fails or not.
LEMMA DbTypes ==
    ASSUME TypeOK, NEW t \in Txn, NEW new \in Code \cup {"absent", "PENDING"},
           DbOK(t, new) \/ DbFails(t, new)
    PROVE  /\ row' \in [Txn -> Code \cup {"absent", "PENDING"}]
           /\ dbFaults' \in [Txn -> Nat]
<1>1. /\ row' = row \/ row' = [row EXCEPT ![t] = new]
      /\ dbFaults' = dbFaults \/ dbFaults' = [dbFaults EXCEPT ![t] = @ + 1]
  BY DbFailure DEF DbOK
<1>2. row' \in [Txn -> Code \cup {"absent", "PENDING"}]
  BY <1>1 DEF TypeOK
<1>3. dbFaults' \in [Txn -> Nat]
  BY <1>1 DEF TypeOK
<1> QED
  BY <1>2, <1>3

\* An event fired keeps the type of the events fired.
LEMMA EventTypes ==
    ASSUME TypeOK, NEW m \in Links, txn[m] \in Txn, NEW e \in Event, Fire(m, e)
    PROVE  fired' \in [Txn -> Seq(Event)]
BY DEF Fire, TypeOK

\* What completes a transaction is an event.
LEMMA CompletedType == \A c : Completed(c) \in Event
BY DEF Completed, Event

\* A reply keeps the type of the replies.
LEMMA ReplyTypes ==
    ASSUME TypeOK, NEW m \in Links, txn[m] \in Txn, NEW c \in Code, Told(m, c)
    PROVE  told' \in [Txn -> Seq(Code)]
BY DEF Told, TypeOK

\* What is written is one exchange more at the end of a stream.
LEMMA WriteTypes ==
    ASSUME TypeOK, Pool!TypeOK', NEW m \in Links, txn[m] \in Txn, Write(m)
    PROVE  wire' \in [Conn -> Seq(Exchange)] /\ asked' \subseteq Txn
<1> DEFINE k == held'[m]
           x == [txn |-> txn[m], code |-> NoCode]
<1>1. x \in Exchange /\ k \in Conn \cup {NoConn}
  BY DEF Exchange, Pool!TypeOK
<1>2. CASE k = NoConn
  BY <1>2 DEF Write, TypeOK
<1>3. CASE k # NoConn
  <2>1. /\ wire' = [wire EXCEPT ![k] = Append(@, x)]
        /\ asked' = IF conn'[k] = "open" THEN asked \cup {txn[m]} ELSE asked
    BY <1>3 DEF Write
  <2>2. Append(wire[k], x) \in Seq(Exchange)
    BY <1>1, <1>3 DEF TypeOK
  <2> QED
    BY <2>1, <2>2 DEF TypeOK
<1> QED
  BY <1>2, <1>3

\* A stream of one message, and what is left once it is read.
LEMMA OneElement ==
    ASSUME NEW S, NEW s \in Seq(S), Len(s) = 1
    PROVE  s[1] \in S /\ Head(s) = s[1] /\ Tail(s) = <<>>
<1>1. s[1] \in S /\ Head(s) = s[1]
  OBVIOUS
<1>2. Tail(s) \in Seq(S) /\ Len(Tail(s)) = 0
  <2>1. s # <<>>
    OBVIOUS
  <2> QED
    BY <2>1
<1>3. Tail(s) = <<>>
  BY <1>2, EmptySeq
<1> QED
  BY <1>1, <1>3

\* A connection in use has the borrower's exchange on its stream.
LEMMA UsedWire ==
    ASSUME Structure, NEW m \in Links, phase[m] = "using"
    PROVE  /\ held[m] \in Conn /\ held[m] # NoConn
           /\ wire[held[m]] \in Seq(Exchange) /\ Len(wire[held[m]]) = 1
           /\ Head(wire[held[m]]) = wire[held[m]][1]
           /\ wire[held[m]][1] \in Exchange
           /\ wire[held[m]][1].txn = txn[m]
           /\ wire[held[m]][1].code \in {NoCode, decided[txn[m]]}
           /\ Tail(wire[held[m]]) = <<>>
<1>1. held[m] \in Conn /\ held[m] # NoConn
  BY SamePool DEF Structure, PP!IndInv, Pool!Holding, TypeOK, Pool!TypeOK
<1>2. wire[held[m]] \in Seq(Exchange) /\ Len(wire[held[m]]) = 1
  BY <1>1 DEF Structure, TypeOK, OneExchange
<1>3. /\ wire[held[m]][1].txn = txn[m]
      /\ wire[held[m]][1].code \in {NoCode, decided[txn[m]]}
  BY DEF Structure, OneExchange, WireMatches
<1>4. /\ wire[held[m]][1] \in Exchange
      /\ Head(wire[held[m]]) = wire[held[m]][1]
      /\ Tail(wire[held[m]]) = <<>>
  BY <1>2, OneElement
<1> QED
  BY <1>1, <1>2, <1>3, <1>4

\* A decision fills in the exchanges about its transaction, on the connections
\* that are open, and neither adds nor takes any.
LEMMA DecisionArrives ==
    ASSUME TypeOK, NEW t \in Txn, NEW v \in Verdict, IssuerDecides(t, v)
    PROVE  /\ wire' \in [Conn -> Seq(Exchange)]
           /\ \A k \in Conn :
                 /\ Len(wire'[k]) = Len(wire[k])
                 /\ wire[k] = <<>> => wire'[k] = <<>>
                 /\ \A i \in 1 .. Len(wire[k]) :
                       /\ wire'[k][i].txn = wire[k][i].txn
                       /\ \/ wire'[k][i].code = wire[k][i].code
                          \/ wire[k][i].txn = t /\ wire'[k][i].code = v
<1> DEFINE fill(k) == [i \in 1 .. Len(wire[k]) |->
                          IF wire[k][i].txn = t THEN [wire[k][i] EXCEPT !.code = v]
                                                ELSE wire[k][i]]
<1>1. wire' = [k \in Conn |-> IF conn[k] = "open" THEN fill(k) ELSE wire[k]]
  BY DEF IssuerDecides
<1>2. ASSUME NEW k \in Conn
      PROVE  /\ wire[k] \in Seq(Exchange) /\ Len(wire[k]) \in Nat
             /\ \A i \in 1 .. Len(wire[k]) : wire[k][i] \in Exchange
  BY DEF TypeOK
<1>3. ASSUME NEW k \in Conn
      PROVE  /\ fill(k) \in Seq(Exchange)
             /\ Len(fill(k)) = Len(wire[k])
             /\ \A i \in 1 .. Len(wire[k]) :
                   /\ fill(k)[i].txn = wire[k][i].txn
                   /\ \/ fill(k)[i].code = wire[k][i].code
                      \/ wire[k][i].txn = t /\ fill(k)[i].code = v
  <2>1. ASSUME NEW x \in Exchange
        PROVE  /\ [x EXCEPT !.code = v] \in Exchange
               /\ [x EXCEPT !.code = v].txn = x.txn
               /\ [x EXCEPT !.code = v].code = v
    BY DEF Exchange
  <2>2. \A i \in 1 .. Len(wire[k]) :
           (IF wire[k][i].txn = t THEN [wire[k][i] EXCEPT !.code = v] ELSE wire[k][i])
              \in Exchange
    BY <1>2, <2>1
  <2>3. fill(k) \in Seq(Exchange) /\ Len(fill(k)) = Len(wire[k])
    BY <1>2, <2>2
  <2> QED
    BY <1>2, <2>1, <2>3
<1>4. wire' \in [Conn -> Seq(Exchange)]
  BY <1>1, <1>2, <1>3
<1>5. ASSUME NEW k \in Conn
      PROVE  /\ Len(wire'[k]) = Len(wire[k])
             /\ \A i \in 1 .. Len(wire[k]) :
                   /\ wire'[k][i].txn = wire[k][i].txn
                   /\ \/ wire'[k][i].code = wire[k][i].code
                      \/ wire[k][i].txn = t /\ wire'[k][i].code = v
  BY <1>1, <1>3
<1>6. ASSUME NEW k \in Conn, wire[k] = <<>> PROVE wire'[k] = <<>>
  BY <1>4, <1>5, <1>6, EmptySeq
<1> QED
  BY <1>4, <1>5, <1>6

\* Types are kept by every step.
LEMMA TypeStep ==
    ASSUME Structure, Pool!TypeOK', [Next]_vars
    PROVE  TypeOK'
<1> USE DEF Structure
<1>0. \A m \in Links : pc[m] \notin {"read", "closed"} => txn[m] \in Txn
  BY Busy
<1>1. CASE UNCHANGED vars
  BY <1>1 DEF TypeOK, vars, handlerVars, dbVars, merchantVars, issuerVars
<1>2. ASSUME NEW m \in Links, Receive(m) PROVE TypeOK'
  <2>1. ~InLine(m)
    BY <1>2 DEF Receive, SlotLine
  <2>2. slotQ' \in Seq(Links)
    BY <1>2, <2>1, LineJoined DEF Receive
  <2> QED
    BY <1>2, <2>2 DEF Receive, Goto, TypeOK, dbVars, issuerVars
<1>3. ASSUME NEW m \in Links, EndOfLink(m) PROVE TypeOK'
  BY <1>3 DEF EndOfLink, Goto, TypeOK, dbVars, merchantVars, issuerVars
<1>4. ASSUME NEW m \in Links, InsertOK(m) PROVE TypeOK'
  <2>1. row' \in [Txn -> Code \cup {"absent", "PENDING"}] /\ dbFaults' \in [Txn -> Nat]
    BY <1>0, <1>4, DbTypes DEF InsertOK
  <2>2. fired' \in [Txn -> Seq(Event)]
    BY <1>0, <1>4, EventTypes DEF InsertOK, Event
  <2> QED
    BY <1>4, <2>1, <2>2 DEF InsertOK, Goto, TypeOK, merchantVars, issuerVars
<1>5. ASSUME NEW m \in Links, InsertFails(m) PROVE TypeOK'
  <2>1. row' \in [Txn -> Code \cup {"absent", "PENDING"}] /\ dbFaults' \in [Txn -> Nat]
    BY <1>0, <1>5, DbTypes DEF InsertFails
  <2> QED
    BY <1>5, <2>1 DEF InsertFails, Goto, TypeOK, merchantVars, issuerVars
<1>6. ASSUME NEW m \in Links, MarkOK(m) PROVE TypeOK'
  <2>0. txn[m] \in Txn /\ row[txn[m]] \in Code \cup {"absent", "PENDING"}
    BY <1>0, <1>6 DEF MarkOK, TypeOK
  <2>1. row' \in [Txn -> Code \cup {"absent", "PENDING"}] /\ dbFaults' \in [Txn -> Nat]
    BY <1>6, <2>0, DbTypes DEF MarkOK
  <2>2. fired' \in [Txn -> Seq(Event)]
    BY <1>6, <2>0, EventTypes DEF MarkOK, Event
  <2>3. wire' \in [Conn -> Seq(Exchange)] /\ asked' \subseteq Txn
    BY <1>6, <2>0, WriteTypes DEF MarkOK
  <2> QED
    BY <1>6, <2>1, <2>2, <2>3 DEF MarkOK, Goto, TypeOK, merchantVars
<1>7. ASSUME NEW m \in Links, MarkFails(m) PROVE TypeOK'
  <2>0. txn[m] \in Txn /\ row[txn[m]] \in Code \cup {"absent", "PENDING"}
    BY <1>0, <1>7 DEF MarkFails, TypeOK
  <2>1. row' \in [Txn -> Code \cup {"absent", "PENDING"}] /\ dbFaults' \in [Txn -> Nat]
    BY <1>7, <2>0, DbTypes DEF MarkFails
  <2> QED
    BY <1>7, <2>1 DEF MarkFails, Goto, TypeOK, merchantVars, issuerVars
<1>8. ASSUME NEW m \in Links, AcquireProceeds(m) PROVE TypeOK'
  <2>1. pc[m] = "forward"
    BY <1>8 DEF AcquireProceeds, PhaseMatchesPc, Pool!Locked, Pool!LockedCreate,
       Pool!LockedTake, Pool!LockedPark, Pool!TakeReturned, Pool!ConnectOK
  <2>2. wire' \in [Conn -> Seq(Exchange)] /\ asked' \subseteq Txn
    BY <1>0, <1>8, <2>1, WriteTypes DEF AcquireProceeds
  <2> QED
    BY <1>8, <2>2 DEF AcquireProceeds, TypeOK, handlerVars, dbVars, merchantVars
<1>9. ASSUME NEW m \in Links, ConnectFails(m) PROVE TypeOK'
  BY <1>9 DEF ConnectFails, Goto, TypeOK, Code, AcquirerCode, dbVars, merchantVars, issuerVars
<1>10. ASSUME NEW m \in Links, ReadReply(m) PROVE TypeOK'
  <2>1. /\ Head(wire[held[m]]).code \in Code \cup {NoCode}
        /\ held[m] \in Conn /\ Tail(wire[held[m]]) \in Seq(Exchange)
    BY <1>10, UsedWire, EmptySeq DEF ReadReply, Exchange, Code
  <2> QED
    BY <1>10, <2>1 DEF ReadReply, Response, Goto, TypeOK, dbVars, merchantVars
<1>11. ASSUME NEW m \in Links, ReadReset(m) PROVE TypeOK'
  BY <1>11 DEF ReadReset, Goto, TypeOK, Code, AcquirerCode, dbVars, merchantVars, issuerVars
<1>12. ASSUME NEW m \in Links, ReadEof(m) PROVE TypeOK'
  BY <1>12 DEF ReadEof, Goto, TypeOK, dbVars, merchantVars, issuerVars
<1>13. ASSUME NEW m \in Links, ReleaseProceeds(m) PROVE TypeOK'
  <2>1. wire' \in [Conn -> Seq(Exchange)]
    BY <1>13, EmptySeq DEF ReleaseProceeds, TypeOK
  <2> QED
    BY <1>13, <2>1 DEF ReleaseProceeds, TypeOK, handlerVars, dbVars, merchantVars
<1>14. ASSUME NEW m \in Links, SettleOK(m) PROVE TypeOK'
  <2>0. txn[m] \in Txn /\ code[m] \in Code
    BY <1>0, <1>14 DEF SettleOK, CodeIsOwn, TypeOK
  <2>1. Updated(txn[m], code[m]) \in Code \cup {"absent", "PENDING"}
    BY <2>0 DEF Updated
  <2>2. row' \in [Txn -> Code \cup {"absent", "PENDING"}] /\ dbFaults' \in [Txn -> Nat]
    BY <1>14, <2>0, <2>1, DbTypes DEF SettleOK
  <2>3. fired' \in [Txn -> Seq(Event)]
    BY <1>14, <2>0, EventTypes, CompletedType DEF SettleOK
  <2>4. told' \in [Txn -> Seq(Code)]
    BY <1>14, <2>0, ReplyTypes DEF SettleOK
  <2>5. LeaveSlot(m) => slotQ' \in Seq(Links)
    BY LineLeft
  <2> QED
    BY <1>14, <2>2, <2>3, <2>4, <2>5 DEF SettleOK, Finish, Goto, TypeOK, issuerVars
<1>15. ASSUME NEW m \in Links, SettleFails(m) PROVE TypeOK'
  <2>0. txn[m] \in Txn /\ code[m] \in Code
    BY <1>0, <1>15 DEF SettleFails, CodeIsOwn, TypeOK
  <2>1. Updated(txn[m], code[m]) \in Code \cup {"absent", "PENDING"}
    BY <2>0 DEF Updated
  <2>2. row' \in [Txn -> Code \cup {"absent", "PENDING"}] /\ dbFaults' \in [Txn -> Nat]
    BY <1>15, <2>0, <2>1, DbTypes DEF SettleFails
  <2> QED
    BY <1>15, <2>2 DEF SettleFails, Goto, TypeOK, merchantVars, issuerVars
<1>16. ASSUME NEW m \in Links, Fallback(m) PROVE TypeOK'
  <2>0. txn[m] \in Txn /\ "96" \in Code
    BY <1>0, <1>16 DEF Fallback, Code, AcquirerCode
  <2>1. Updated(txn[m], "96") \in Code \cup {"absent", "PENDING"}
    BY <2>0 DEF Updated
  <2>2. row' \in [Txn -> Code \cup {"absent", "PENDING"}] /\ dbFaults' \in [Txn -> Nat]
    BY <1>16, <2>0, <2>1, DbTypes DEF Fallback, FallbackDb
  <2>3. fired' \in [Txn -> Seq(Event)]
    BY <1>16, <2>0, EventTypes, CompletedType DEF Fallback, FallbackEvent
  <2>4. told' \in [Txn -> Seq(Code)]
    BY <1>16, <2>0, ReplyTypes DEF Fallback
  <2>5. slotQ' \in Seq(Links)
    BY <1>16, LineLeft DEF Fallback, Finish
  <2> QED
    BY <1>16, <2>2, <2>3, <2>4, <2>5 DEF Fallback, Finish, Goto, TypeOK, issuerVars
<1>17. ASSUME NEW m \in Links, NEW t \in Txn, MerchantSends(m, t) PROVE TypeOK'
  BY <1>17 DEF MerchantSends, TypeOK, handlerVars, dbVars, issuerVars
<1>18. ASSUME NEW m \in Links, NEW s \in {"eof", "lost"}, LinkFails(m, s) PROVE TypeOK'
  BY <1>18 DEF LinkFails, TypeOK, handlerVars, dbVars, issuerVars
<1>19. ASSUME NEW t \in Txn, NEW v \in Verdict, IssuerDecides(t, v) PROVE TypeOK'
  <2>1. wire' \in [Conn -> Seq(Exchange)]
    BY <1>19, DecisionArrives
  <2> QED
    BY <1>19, <2>1 DEF IssuerDecides, TypeOK, handlerVars, dbVars, merchantVars
<1>20. ASSUME NEW k \in Conn, IssuerFails(k) PROVE TypeOK'
  BY <1>20 DEF IssuerFails, TypeOK, handlerVars, dbVars, merchantVars, issuerVars
<1> QED
  BY <1>1, <1>2, <1>3, <1>4, <1>5, <1>6, <1>7, <1>8, <1>9, <1>10, <1>11, <1>12, <1>13,
     <1>14, <1>15, <1>16, <1>17, <1>18, <1>19, <1>20, GatewayCases DEF HandlerStep

-----------------------------------------------------------------------------
(* The handlers, the pool and the line of slots *)

\* Where a handler is in the pool goes with where it is in its transaction,
\* and nobody parks.
LEMMA PhaseStep ==
    ASSUME Structure, [Next]_vars
    PROVE  PhaseMatchesPc'
<1> DEFINE P(p, q) == /\ p = "forward" <=> q \in {"locking", "connecting", "using"}
                      /\ q \in {"closing", "uncounting"} => p \in {"settle", "fallback"}
                      /\ q # "parked"
<1>0. /\ \A n \in Links : P(pc[n], phase[n])
      /\ \A n \in Links : phase[n] \in Pool!Phases
      /\ DOMAIN pc = Links /\ DOMAIN phase = Links
  BY DEF Structure, PhaseMatchesPc, TypeOK, Pool!TypeOK
<1>1. ASSUME NEW m \in Links, NEW p, NEW q, P(p, q),
             pc' = [pc EXCEPT ![m] = p] \/ (pc' = pc /\ p = pc[m]),
             phase' = [phase EXCEPT ![m] = q] \/ (phase' = phase /\ q = phase[m])
      PROVE  PhaseMatchesPc'
  BY <1>0, <1>1 DEF PhaseMatchesPc
<1>2. ASSUME UNCHANGED <<pc, phase>> PROVE PhaseMatchesPc'
  BY <1>0, <1>2 DEF PhaseMatchesPc
<1>3. ASSUME NEW m \in Links,
             \/ Receive(m) \/ EndOfLink(m) \/ InsertOK(m) \/ InsertFails(m)
             \/ MarkFails(m) \/ SettleFails(m) \/ SettleOK(m) \/ Fallback(m)
      PROVE  PhaseMatchesPc'
  <2>1. UNCHANGED phase
    BY <1>3 DEF Receive, EndOfLink, InsertOK, InsertFails, MarkFails, SettleFails,
       SettleOK, Fallback, poolVars
  <2>2. phase[m] = "out"
    BY <1>0, <1>3 DEF Receive, EndOfLink, InsertOK, InsertFails, MarkFails, SettleFails,
       SettleOK, Fallback, Pool!Phases
  <2>3. PICK p \in {"read", "closed", "insert", "mark", "fallback"} : pc' = [pc EXCEPT ![m] = p]
    BY <1>3 DEF Receive, EndOfLink, InsertOK, InsertFails, MarkFails, SettleFails,
       SettleOK, Fallback, Finish, Goto
  <2> QED
    BY <1>1, <2>1, <2>2, <2>3
<1>4. ASSUME NEW m \in Links, MarkOK(m) PROVE PhaseMatchesPc'
  <2>1. phase[m] = "out" /\ HasSlot(m)
    BY <1>0, <1>4 DEF MarkOK, Pool!Phases, Structure, SlotLine
  <2>2. ~Pool!AcquirePark(m)
    BY <2>1, SlotMeansRoom DEF Pool!AcquirePark, PP!Counted
  <2>3. PICK q \in {"locking", "connecting", "using"} : phase' = [phase EXCEPT ![m] = q]
    BY <1>4, <2>2 DEF MarkOK, Pool!Acquire, Pool!AcquireIdle, Pool!AcquireWaitLock,
       Pool!AcquireCreate
  <2> QED
    BY <1>1, <1>4, <2>3 DEF MarkOK, Goto
<1>5. ASSUME NEW m \in Links, AcquireProceeds(m) PROVE PhaseMatchesPc'
  <2>1. phase[m] \in {"locking", "connecting"} /\ pc[m] = "forward"
    BY <1>0, <1>5 DEF AcquireProceeds, Pool!Locked, Pool!LockedCreate, Pool!LockedTake,
       Pool!LockedPark, Pool!TakeReturned, Pool!ConnectOK
  <2>2. HasSlot(m)
    BY <2>1 DEF Structure, SlotLine
  <2>3. ~Pool!LockedPark(m)
    BY <2>2, SlotMeansRoom DEF Pool!LockedPark, PP!Counted
  <2>4. PICK q \in {"connecting", "using"} : phase' = [phase EXCEPT ![m] = q]
    BY <1>5, <2>3 DEF AcquireProceeds, Pool!Locked, Pool!LockedCreate, Pool!LockedTake,
       Pool!TakeReturned, Pool!ConnectOK
  <2> QED
    BY <1>1, <1>5, <2>1, <2>4 DEF AcquireProceeds, handlerVars
<1>6. ASSUME NEW m \in Links, ConnectFails(m) PROVE PhaseMatchesPc'
  <2>1. pc' = [pc EXCEPT ![m] = "settle"] /\ phase' = [phase EXCEPT ![m] = "out"]
    BY <1>6 DEF ConnectFails, Pool!ConnectFail, Goto
  <2>2. P("settle", "out")
    OBVIOUS
  <2> QED
    BY <1>1, <2>1, <2>2
<1>7. ASSUME NEW m \in Links, ReadReply(m) \/ ReadReset(m) \/ ReadEof(m)
      PROVE  PhaseMatchesPc'
  <2>1. PICK q \in {"out", "closing"} : phase' = [phase EXCEPT ![m] = q]
    BY <1>7 DEF ReadReply, ReadReset, ReadEof, GiveUp, Pool!Release, Pool!ReleaseToIdle,
       Pool!ReleaseClose
  <2>2. PICK p \in {"settle", "fallback"} : pc' = [pc EXCEPT ![m] = p]
    BY <1>7 DEF ReadReply, ReadReset, ReadEof, Goto
  <2> QED
    BY <1>1, <2>1, <2>2
<1>8. ASSUME NEW m \in Links, ReleaseProceeds(m) PROVE PhaseMatchesPc'
  <2>1. phase[m] \in {"closing", "uncounting"}
    BY <1>8 DEF ReleaseProceeds, Pool!Closed, Pool!ClosedUncount, Pool!ClosedWaitLock,
       Pool!Uncount
  <2>2. PICK q \in {"out", "uncounting"} : phase' = [phase EXCEPT ![m] = q]
    BY <1>8 DEF ReleaseProceeds, Pool!Closed, Pool!ClosedUncount, Pool!ClosedWaitLock,
       Pool!Uncount
  <2> QED
    BY <1>0, <1>1, <1>8, <2>1, <2>2 DEF ReleaseProceeds, handlerVars
<1>9. CASE UNCHANGED vars
  BY <1>2, <1>9 DEF vars, handlerVars, poolVars
<1>10. ASSUME NEW m \in Links, NEW t \in Txn, MerchantSends(m, t) PROVE PhaseMatchesPc'
  BY <1>2, <1>10 DEF MerchantSends, handlerVars, poolVars
<1>11. ASSUME NEW m \in Links, NEW s \in {"eof", "lost"}, LinkFails(m, s) PROVE PhaseMatchesPc'
  BY <1>2, <1>11 DEF LinkFails, handlerVars, poolVars
<1>12. ASSUME NEW t \in Txn, NEW v \in Verdict, IssuerDecides(t, v) PROVE PhaseMatchesPc'
  BY <1>2, <1>12 DEF IssuerDecides, handlerVars, poolVars
<1>13. ASSUME NEW k \in Conn, IssuerFails(k) PROVE PhaseMatchesPc'
  BY <1>2, <1>13 DEF IssuerFails, handlerVars, Pool!PeerCloses, Pool!PeerResets
<1> QED
  BY <1>3, <1>4, <1>5, <1>6, <1>7, <1>8, <1>9, <1>10, <1>11, <1>12, <1>13, GatewayCases
     DEF HandlerStep

\* A handler joins the line when it receives and leaves it when it finishes;
\* otherwise the line stays, and nobody passes the insert without a slot.
LEMMA SlotStep ==
    ASSUME Structure, [Next]_vars
    PROVE  SlotLine'
<1> DEFINE Out == {"read", "closed"}
           Inside == {"mark", "forward", "settle", "fallback"}
           Distinct == \A i, j \in 1 .. Len(slotQ) : slotQ[i] = slotQ[j] => i = j
<1>0. /\ Distinct
      /\ \A n \in Links : pc[n] \notin Out <=> InLine(n)
      /\ \A n \in Links : pc[n] \in Inside => HasSlot(n)
      /\ DOMAIN pc = Links
  BY DEF Structure, SlotLine, TypeOK
<1>1. ASSUME UNCHANGED slotQ, NEW m \in Links, NEW p, pc' = [pc EXCEPT ![m] = p],
             p \in Out <=> pc[m] \in Out, p \in Inside => HasSlot(m)
      PROVE  SlotLine'
  BY <1>0, <1>1 DEF SlotLine, InLine, HasSlot
<1>2. ASSUME UNCHANGED <<slotQ, pc>> PROVE SlotLine'
  BY <1>0, <1>2 DEF SlotLine, InLine, HasSlot
<1>3. ASSUME NEW m \in Links, NEW p \in Out, pc' = [pc EXCEPT ![m] = p], LeaveSlot(m)
      PROVE  SlotLine'
  <2>1. /\ \A i, j \in 1 .. Len(slotQ)' : slotQ'[i] = slotQ'[j] => i = j
        /\ \A n \in Links : InLine(n)' <=> InLine(n) /\ n # m
        /\ \A n \in Links : HasSlot(n) /\ n # m => HasSlot(n)'
    BY <1>3, LineLeft DEF Structure
  <2>2. \A n \in Links : pc'[n] = IF n = m THEN p ELSE pc[n]
    BY <1>0, <1>3
  <2> QED
    BY <1>0, <2>1, <2>2 DEF SlotLine
<1>4. ASSUME NEW m \in Links, Receive(m) PROVE SlotLine'
  <2>1. ~InLine(m)
    BY <1>0, <1>4 DEF Receive
  <2>2. /\ \A i, j \in 1 .. Len(slotQ)' : slotQ'[i] = slotQ'[j] => i = j
        /\ \A n \in Links : InLine(n)' <=> InLine(n) \/ n = m
        /\ \A n \in Links : HasSlot(n) => HasSlot(n)'
    BY <1>4, <2>1, LineJoined DEF Structure, Receive
  <2>3. \A n \in Links : pc'[n] = IF n = m THEN "insert" ELSE pc[n]
    BY <1>0, <1>4 DEF Receive, Goto
  <2> QED
    BY <1>0, <2>2, <2>3 DEF SlotLine
<1>5. ASSUME NEW m \in Links, EndOfLink(m) PROVE SlotLine'
  BY <1>1, <1>5 DEF EndOfLink, Goto
<1>6. ASSUME NEW m \in Links, InsertOK(m) \/ InsertFails(m) PROVE SlotLine'
  <2>1. PICK p \in Inside : pc' = [pc EXCEPT ![m] = p]
    BY <1>6 DEF InsertOK, InsertFails, Goto
  <2>2. UNCHANGED slotQ /\ pc[m] = "insert" /\ HasSlot(m)
    BY <1>6 DEF InsertOK, InsertFails
  <2> QED
    BY <1>1, <2>1, <2>2
<1>7. ASSUME NEW m \in Links, MarkOK(m) \/ MarkFails(m) \/ ConnectFails(m) \/ ReadReply(m)
                                \/ ReadReset(m) \/ ReadEof(m) \/ SettleFails(m)
      PROVE  SlotLine'
  <2>1. PICK p \in Inside : pc' = [pc EXCEPT ![m] = p]
    BY <1>7 DEF MarkOK, MarkFails, ConnectFails, ReadReply, ReadReset, ReadEof, SettleFails, Goto
  <2>2. UNCHANGED slotQ
    BY <1>7 DEF MarkOK, MarkFails, ConnectFails, ReadReply, ReadReset, ReadEof, SettleFails
  <2>3. pc[m] \in Inside
    BY <1>7 DEF MarkOK, MarkFails, ConnectFails, ReadReply, ReadReset, ReadEof, SettleFails,
       Structure, PhaseMatchesPc, Pool!ConnectFail
  <2> QED
    BY <1>0, <1>1, <2>1, <2>2, <2>3
<1>8. ASSUME NEW m \in Links, SettleOK(m) PROVE SlotLine'
  <2>1. CASE link[m] = "lost"
    BY <1>0, <1>1, <1>8, <2>1 DEF SettleOK, Goto
  <2>2. CASE link[m] # "lost"
    BY <1>3, <1>8, <2>2 DEF SettleOK, Finish, Goto
  <2> QED
    BY <2>1, <2>2
<1>9. ASSUME NEW m \in Links, Fallback(m) PROVE SlotLine'
  BY <1>3, <1>9 DEF Fallback, Finish, Goto
<1>10. ASSUME NEW m \in Links, AcquireProceeds(m) \/ ReleaseProceeds(m) PROVE SlotLine'
  BY <1>2, <1>10 DEF AcquireProceeds, ReleaseProceeds, handlerVars
<1>11. CASE UNCHANGED vars
  BY <1>2, <1>11 DEF vars, handlerVars
<1>12. ASSUME NEW m \in Links, NEW t \in Txn, MerchantSends(m, t) PROVE SlotLine'
  BY <1>2, <1>12 DEF MerchantSends, handlerVars
<1>13. ASSUME NEW m \in Links, NEW s \in {"eof", "lost"}, LinkFails(m, s) PROVE SlotLine'
  BY <1>2, <1>13 DEF LinkFails, handlerVars
<1>14. ASSUME NEW t \in Txn, NEW v \in Verdict, IssuerDecides(t, v) PROVE SlotLine'
  BY <1>2, <1>14 DEF IssuerDecides, handlerVars
<1>15. ASSUME NEW k \in Conn, IssuerFails(k) PROVE SlotLine'
  BY <1>2, <1>15 DEF IssuerFails, handlerVars
<1> QED
  BY <1>4, <1>5, <1>6, <1>7, <1>8, <1>9, <1>10, <1>11, <1>12, <1>13, <1>14, <1>15,
     GatewayCases DEF HandlerStep

\* A transaction moves from an inbox to its handler and then to nobody.
LEMMA TaskStep ==
    ASSUME Structure, [Next]_vars
    PROVE  OwnTask'
<1> DEFINE Out == {"read", "closed"}
<1>0. /\ OwnTask /\ NoTxn \notin Txn
      /\ pc \in [Links -> {"read", "insert", "mark", "forward", "settle", "fallback", "closed"}]
      /\ txn \in [Links -> Txn \cup {NoTxn}] /\ inbox \in [Links -> Txn \cup {NoTxn}]
      /\ \A m \in Links : phase[m] = "connecting" => pc[m] = "forward"
  BY GatewayAssumption DEF Structure, TypeOK, PhaseMatchesPc
<1>1. ASSUME UNCHANGED <<txn, inbox, sent>>, NEW m \in Links, NEW p,
             pc' = [pc EXCEPT ![m] = p], p \in Out <=> pc[m] \in Out
      PROVE  OwnTask'
  BY <1>0, <1>1 DEF OwnTask
<1>2. ASSUME UNCHANGED <<txn, inbox, sent, pc>> PROVE OwnTask'
  BY <1>0, <1>2 DEF OwnTask
<1>3. ASSUME UNCHANGED <<inbox, sent>>, NEW m \in Links, NEW p \in Out,
             pc' = [pc EXCEPT ![m] = p], txn' = [txn EXCEPT ![m] = NoTxn]
      PROVE  OwnTask'
  BY <1>0, <1>3 DEF OwnTask
<1>4. ASSUME NEW m \in Links, Receive(m) PROVE OwnTask'
  BY <1>0, <1>4 DEF OwnTask, Receive, Goto
<1>5. ASSUME NEW m \in Links, NEW t \in Txn, MerchantSends(m, t) PROVE OwnTask'
  BY <1>0, <1>5 DEF OwnTask, MerchantSends, handlerVars
<1>6. ASSUME NEW m \in Links, EndOfLink(m) PROVE OwnTask'
  BY <1>1, <1>6 DEF EndOfLink, Goto, merchantVars
<1>7. ASSUME NEW m \in Links,
             \/ InsertOK(m) \/ InsertFails(m) \/ MarkOK(m) \/ MarkFails(m) \/ ConnectFails(m)
             \/ ReadReply(m) \/ ReadReset(m) \/ ReadEof(m) \/ SettleFails(m)
      PROVE  OwnTask'
  <2>1. PICK p : pc' = [pc EXCEPT ![m] = p] /\ p \notin Out
    BY <1>7 DEF InsertOK, InsertFails, MarkOK, MarkFails, ConnectFails, ReadReply, ReadReset,
       ReadEof, SettleFails, Goto
  <2>2. UNCHANGED <<txn, inbox, sent>>
    BY <1>7 DEF InsertOK, InsertFails, MarkOK, MarkFails, ConnectFails, ReadReply, ReadReset,
       ReadEof, SettleFails, merchantVars
  <2>3. pc[m] \notin Out
    BY <1>0, <1>7 DEF InsertOK, InsertFails, MarkOK, MarkFails, ConnectFails, ReadReply,
       ReadReset, ReadEof, SettleFails, Pool!ConnectFail
  <2> QED
    BY <1>1, <2>1, <2>2, <2>3
<1>8. ASSUME NEW m \in Links, SettleOK(m) PROVE OwnTask'
  <2>1. CASE link[m] = "lost"
    BY <1>1, <1>8, <2>1 DEF SettleOK, Goto
  <2>2. CASE link[m] # "lost"
    BY <1>3, <1>8, <2>2 DEF SettleOK, Finish, Goto
  <2> QED
    BY <2>1, <2>2
<1>9. ASSUME NEW m \in Links, Fallback(m) PROVE OwnTask'
  BY <1>3, <1>9 DEF Fallback, Finish, Goto
<1>10. ASSUME NEW m \in Links, AcquireProceeds(m) \/ ReleaseProceeds(m) PROVE OwnTask'
  BY <1>2, <1>10 DEF AcquireProceeds, ReleaseProceeds, handlerVars, merchantVars
<1>11. CASE UNCHANGED vars
  BY <1>2, <1>11 DEF vars, handlerVars, merchantVars
<1>12. ASSUME NEW m \in Links, NEW s \in {"eof", "lost"}, LinkFails(m, s) PROVE OwnTask'
  BY <1>2, <1>12 DEF LinkFails, handlerVars
<1>13. ASSUME NEW t \in Txn, NEW v \in Verdict, IssuerDecides(t, v) PROVE OwnTask'
  BY <1>2, <1>13 DEF IssuerDecides, handlerVars, merchantVars
<1>14. ASSUME NEW k \in Conn, IssuerFails(k) PROVE OwnTask'
  BY <1>2, <1>14 DEF IssuerFails, handlerVars, merchantVars
<1> QED
  BY <1>4, <1>5, <1>6, <1>7, <1>8, <1>9, <1>10, <1>11, <1>12, <1>13, <1>14, GatewayCases
     DEF HandlerStep

-----------------------------------------------------------------------------
(* What is on the connections *)

\* What the pool tells of a step's two states, in the gateway's names.
LEMMA PoolFacts ==
    ASSUME Structure
    PROVE  /\ \A m \in Links : held[m] # NoConn <=> phase[m] \in {"using", "closing"}
           /\ \A m \in Links : held[m] # NoConn => held[m] \in Conn /\ conn[held[m]] # "none"
           /\ \A i \in 1 .. Len(idle) : idle[i] \in Conn /\ conn[idle[i]] # "none"
           /\ \A i, j \in 1 .. Len(idle) : idle[i] = idle[j] => i = j
           /\ \A m \in Links : held[m] # NoConn =>
                 /\ \A i \in 1 .. Len(idle) : idle[i] # held[m]
                 /\ \A n \in Links : held[n] = held[m] => n = m
           /\ Len(idle) \in Nat
           /\ NoConn \notin Conn
<1>1. Pool!TypeOK /\ Pool!Holding /\ Pool!Exclusive
  BY SamePool DEF Structure, PP!IndInv
<1> QED
  BY <1>1, GatewayAssumption DEF Pool!TypeOK, Pool!Holding, Pool!Exclusive

\* A handler that gets a connection nothing is on writes its own request there.
LEMMA WireTaken ==
    ASSUME Structure, NEW m \in Links, NEW k \in Conn,
           pc[m] \in {"mark", "forward"},
           wire[k] = <<>>,
           \A n \in Links : held[n] # k,
           \A i \in 1 .. Len(idle)' : idle'[i] # k /\ \E j \in 1 .. Len(idle) : idle'[i] = idle[j],
           held' = [held EXCEPT ![m] = k],
           phase' = [phase EXCEPT ![m] = "using"],
           conn'[k] # "none",
           \A l \in Conn : l # k => conn'[l] = conn[l],
           Write(m),
           UNCHANGED <<txn, sent, decided>>
    PROVE  OneExchange' /\ WireMatches'
<1> USE DEF Structure
<1>1. held'[m] = k /\ k # NoConn
  BY GatewayAssumption DEF TypeOK, Pool!TypeOK
<1>2. /\ wire' = [wire EXCEPT ![k] = Append(@, [txn |-> txn[m], code |-> NoCode])]
      /\ asked' \subseteq asked \cup {txn[m]}
  BY <1>1 DEF Write
<1>3. wire'[k] = <<[txn |-> txn[m], code |-> NoCode]>>
  BY <1>2 DEF TypeOK
<1>4. \A l \in Conn : l # k => wire'[l] = wire[l]
  BY <1>2 DEF TypeOK
<1>5. \A n \in Links : n # m => held'[n] = held[n] /\ phase'[n] = phase[n]
  BY DEF TypeOK, Pool!TypeOK
<1>6. asked' \subseteq sent'
  BY <1>2, Busy DEF WireMatches
<1>7. ASSUME NEW i \in 1 .. Len(idle)' PROVE wire'[idle'[i]] = <<>>
  BY <1>4, <1>7, PoolFacts DEF OneExchange
<1>8. ASSUME NEW l \in Conn, conn'[l] = "none" PROVE wire'[l] = <<>>
  BY <1>4, <1>8 DEF WireMatches
<1>9. ASSUME NEW n \in Links, phase'[n] = "using"
      PROVE  /\ Len(wire'[held'[n]]) = 1
             /\ wire'[held'[n]][1].txn = txn'[n]
             /\ wire'[held'[n]][1].code \in {NoCode, decided'[txn'[n]]}
  <2>1. CASE n = m
    <3>1. /\ Len(wire'[k]) = 1
          /\ wire'[k][1].txn = txn[m]
          /\ wire'[k][1].code = NoCode
      BY <1>3
    <3> QED
      BY <1>1, <2>1, <3>1
  <2>2. CASE n # m
    <3>1. phase[n] = "using" /\ held'[n] = held[n] /\ held[n] \in Conn /\ held[n] # k
      BY <1>5, <1>9, <2>2, PoolFacts
    <3> QED
      BY <1>4, <3>1 DEF OneExchange, WireMatches
  <2> QED
    BY <2>1, <2>2
<1> QED
  BY <1>6, <1>7, <1>8, <1>9 DEF OneExchange, WireMatches

\* A handler that keeps its connection keeps its exchange, if nobody writes there.
LEMMA UseKept ==
    ASSUME Structure, NEW n \in Links, phase[n] = "using",
           held'[n] = held[n], txn'[n] = txn[n], wire'[held[n]] = wire[held[n]],
           UNCHANGED decided
    PROVE  /\ Len(wire'[held'[n]]) = 1
           /\ wire'[held'[n]][1].txn = txn'[n]
           /\ wire'[held'[n]][1].code \in {NoCode, decided'[txn'[n]]}
BY DEF Structure, OneExchange, WireMatches

\* Where no handler gets a connection and nothing on the streams changes.
LEMMA WireKept ==
    ASSUME Structure, asked' \subseteq sent', UNCHANGED <<decided, wire, idle>>,
           \A l \in Conn : conn'[l] = "none" => conn[l] = "none",
           \A n \in Links : phase'[n] = "using" =>
              phase[n] = "using" /\ held'[n] = held[n] /\ txn'[n] = txn[n]
    PROVE  OneExchange' /\ WireMatches'
<1>1. ASSUME NEW n \in Links, phase'[n] = "using"
      PROVE  /\ Len(wire'[held'[n]]) = 1
             /\ wire'[held'[n]][1].txn = txn'[n]
             /\ wire'[held'[n]][1].code \in {NoCode, decided'[txn'[n]]}
  BY <1>1, UseKept
<1>2. ASSUME NEW i \in 1 .. Len(idle)' PROVE wire'[idle'[i]] = <<>>
  BY <1>2 DEF Structure, OneExchange
<1>3. ASSUME NEW l \in Conn, conn'[l] = "none" PROVE wire'[l] = <<>>
  BY <1>3 DEF Structure, WireMatches
<1> QED
  BY <1>1, <1>2, <1>3 DEF OneExchange, WireMatches

\* Where no handler gets a connection and one that is given back is cleared.
LEMMA WireCleared ==
    ASSUME Structure, NEW k \in Conn, wire'[k] = <<>>,
           asked' \subseteq sent', UNCHANGED decided,
           \A l \in Conn \ {k} : wire'[l] = wire[l],
           \A l \in Conn \ {k} : conn'[l] = "none" => conn[l] = "none",
           \A i \in 1 .. Len(idle)' : idle'[i] = k \/ \E j \in 1 .. Len(idle) : idle'[i] = idle[j],
           \A n \in Links : phase'[n] = "using" =>
              phase[n] = "using" /\ held'[n] = held[n] /\ held[n] # k /\ txn'[n] = txn[n]
    PROVE  OneExchange' /\ WireMatches'
<1>1. ASSUME NEW n \in Links, phase'[n] = "using"
      PROVE  /\ Len(wire'[held'[n]]) = 1
             /\ wire'[held'[n]][1].txn = txn'[n]
             /\ wire'[held'[n]][1].code \in {NoCode, decided'[txn'[n]]}
  <2>1. held[n] \in Conn \ {k}
    BY <1>1, PoolFacts
  <2> QED
    BY <1>1, <2>1, UseKept
<1>2. ASSUME NEW i \in 1 .. Len(idle)', idle'[i] # k PROVE wire'[idle'[i]] = <<>>
  <2>1. PICK j \in 1 .. Len(idle) : idle'[i] = idle[j]
    BY <1>2
  <2>2. idle[j] \in Conn \ {k} /\ wire[idle[j]] = <<>>
    BY <1>2, <2>1, PoolFacts DEF Structure, OneExchange
  <2> QED
    BY <2>1, <2>2
<1>3. ASSUME NEW l \in Conn, conn'[l] = "none" PROVE wire'[l] = <<>>
  BY <1>3 DEF Structure, WireMatches
<1> QED
  BY <1>1, <1>2, <1>3 DEF OneExchange, WireMatches

\* The tail of a line is the line without its first.
LEMMA TailWithin ==
    ASSUME NEW S, NEW s \in Seq(S), s # <<>>
    PROVE  /\ Head(s) = s[1] /\ 1 \in 1 .. Len(s)
           /\ \A i \in 1 .. Len(Tail(s)) : i + 1 \in 1 .. Len(s) /\ Tail(s)[i] = s[i + 1]
OBVIOUS

\* A connection taken from _idle carries nothing.
LEMMA WireOfIdle ==
    ASSUME Structure, NEW m \in Links, pc[m] \in {"mark", "forward"}, Write(m),
           idle # <<>>, idle' = Tail(idle), held' = [held EXCEPT ![m] = Head(idle)],
           phase' = [phase EXCEPT ![m] = "using"],
           UNCHANGED <<conn, txn, sent, decided>>
    PROVE  OneExchange' /\ WireMatches'
<1> DEFINE k == Head(idle)
<1>1. /\ k = idle[1] /\ 1 \in 1 .. Len(idle)
      /\ \A i \in 1 .. Len(idle)' : i + 1 \in 1 .. Len(idle) /\ idle'[i] = idle[i + 1]
  BY TailWithin DEF Structure, TypeOK, Pool!TypeOK
<1>2. k \in Conn /\ wire[k] = <<>> /\ conn'[k] # "none" /\ k # NoConn
  BY <1>1, PoolFacts DEF Structure, OneExchange
<1>3. \A n \in Links : held[n] # k
  BY <1>1, <1>2, PoolFacts
<1>4. ASSUME NEW i \in 1 .. Len(idle)'
      PROVE  idle'[i] # k /\ \E j \in 1 .. Len(idle) : idle'[i] = idle[j]
  <2>1. i + 1 \in 1 .. Len(idle) /\ idle'[i] = idle[i + 1] /\ i + 1 # 1
    BY <1>1, <1>4, PoolFacts
  <2> QED
    BY <1>1, <2>1, PoolFacts
<1> HIDE DEF k
<1> QED
  BY <1>2, <1>3, <1>4, WireTaken DEF k

\* A handler that waits for the lock or its connect has nothing to write on.
LEMMA WireOfWait ==
    ASSUME Structure, NEW m \in Links, phase[m] \in {"out", "locking"}, Write(m),
           NEW q \in {"locking", "connecting"}, phase' = [phase EXCEPT ![m] = q],
           UNCHANGED <<idle, held, conn, txn, sent, decided>>
    PROVE  OneExchange' /\ WireMatches'
<1>1. held'[m] = NoConn
  BY PoolFacts
<1>2. UNCHANGED <<wire, asked>>
  BY <1>1 DEF Write
<1>3. \A n \in Links : phase'[n] = "using" => phase[n] = "using"
  BY DEF Structure, TypeOK, Pool!TypeOK
<1> QED
  BY <1>2, <1>3, WireKept DEF Structure, WireMatches

\* A handler gives its connection up, or is out of it already.
LEMMA WireGivenUp ==
    ASSUME Structure, NEW m \in Links, NEW q, q # "using",
           phase' = [phase EXCEPT ![m] = q],
           held' = held \/ held' = [held EXCEPT ![m] = NoConn],
           UNCHANGED <<idle, wire, txn, asked, sent, decided>>,
           \A l \in Conn : conn'[l] = "none" => conn[l] = "none"
    PROVE  OneExchange' /\ WireMatches'
<1>1. \A n \in Links : phase'[n] = "using" => phase[n] = "using" /\ held'[n] = held[n]
  BY DEF Structure, TypeOK, Pool!TypeOK
<1> QED
  BY <1>1, WireKept DEF Structure, WireMatches

\* An idle connection carries nothing, and one in use its borrower's exchange.
LEMMA WireStep ==
    ASSUME Structure, [Next]_vars
    PROVE  OneExchange' /\ WireMatches'
<1> DEFINE Goal == OneExchange' /\ WireMatches'
<1>0. /\ asked \subseteq sent
      /\ \A m \in Links : phase[m] = "using" => pc[m] = "forward"
      /\ \A m \in Links : phase[m] \in {"locking", "connecting"} => pc[m] = "forward"
      /\ \A m \in Links : phase[m] # "parked"
      /\ \A m \in Links : pc[m] \in {"read", "insert", "mark"} => phase[m] = "out"
  BY DEF Structure, WireMatches, PhaseMatchesPc, TypeOK, Pool!TypeOK, Pool!Phases
<1>1. ASSUME UNCHANGED <<poolVars, wire, asked, decided>>, sent \subseteq sent',
             NEW m \in Links, phase[m] = "out", \A n \in Links : n # m => txn'[n] = txn[n]
      PROVE  Goal
  BY <1>0, <1>1, WireKept DEF poolVars
<1>2. ASSUME UNCHANGED <<poolVars, wire, asked, decided, txn>>, sent \subseteq sent' PROVE Goal
  BY <1>0, <1>2, WireKept DEF poolVars
<1>3. ASSUME NEW m \in Links,
             \/ Receive(m) \/ EndOfLink(m) \/ InsertOK(m) \/ InsertFails(m) \/ MarkFails(m)
             \/ SettleOK(m) \/ SettleFails(m) \/ Fallback(m)
      PROVE  Goal
  <2>1. phase[m] = "out"
    BY <1>0, <1>3 DEF Receive, EndOfLink, InsertOK, InsertFails, MarkFails, SettleOK,
       SettleFails, Fallback
  <2>2. UNCHANGED <<poolVars, wire, asked, decided, sent>>
    BY <1>3 DEF Receive, EndOfLink, InsertOK, InsertFails, MarkFails, SettleOK,
       SettleFails, Fallback, merchantVars, issuerVars
  <2>3. txn' = txn \/ \E t : txn' = [txn EXCEPT ![m] = t]
    BY <1>3 DEF Receive, EndOfLink, InsertOK, InsertFails, MarkFails, SettleOK,
       SettleFails, Fallback, Finish
  <2>4. \A n \in Links : n # m => txn'[n] = txn[n]
    BY <2>3 DEF Structure, TypeOK
  <2> QED
    BY <1>1, <2>1, <2>2, <2>4
<1>4. ASSUME NEW m \in Links, MarkOK(m) PROVE Goal
  <2>0. pc[m] = "mark" /\ phase[m] = "out" /\ Write(m) /\ UNCHANGED <<txn, sent, decided>>
    BY <1>0, <1>4 DEF MarkOK, merchantVars
  <2>1. CASE Pool!AcquireIdle(m)
    BY <2>0, <2>1, WireOfIdle DEF Pool!AcquireIdle
  <2>2. CASE Pool!AcquireWaitLock(m)
    BY <2>0, <2>2, WireOfWait DEF Pool!AcquireWaitLock
  <2>3. CASE Pool!AcquireCreate(m)
    BY <2>0, <2>3, WireOfWait DEF Pool!AcquireCreate
  <2>4. ~Pool!AcquirePark(m)
    BY <2>0, SlotMeansRoom DEF Pool!AcquirePark, PP!Counted, Structure, SlotLine
  <2> QED
    BY <1>4, <2>1, <2>2, <2>3, <2>4 DEF MarkOK, Pool!Acquire
<1>5. ASSUME NEW m \in Links, AcquireProceeds(m) PROVE Goal
  <2>0. Write(m) /\ UNCHANGED <<txn, sent, decided>>
    BY <1>5 DEF AcquireProceeds, handlerVars, merchantVars
  <2>1. CASE Pool!LockedCreate(m)
    BY <2>0, <2>1, WireOfWait DEF Pool!LockedCreate
  <2>2. CASE Pool!LockedTake(m)
    <3>1. pc[m] = "forward"
      BY <1>0, <2>2 DEF Pool!LockedTake
    <3> QED
      BY <2>0, <2>2, <3>1, WireOfIdle DEF Pool!LockedTake
  <2>3. ~Pool!LockedPark(m)
    BY <1>0, SlotMeansRoom DEF Pool!LockedPark, PP!Counted, Structure, SlotLine
  <2>4. ~Pool!TakeReturned(m)
    BY <1>0 DEF Pool!TakeReturned
  <2>5. CASE Pool!ConnectOK(m)
    <3>1. PICK k \in Conn : /\ conn[k] = "none"
                            /\ conn' = [conn EXCEPT ![k] = "open"]
                            /\ held' = [held EXCEPT ![m] = k]
      BY <2>5 DEF Pool!ConnectOK
    <3>2. pc[m] = "forward" /\ UNCHANGED idle /\ phase' = [phase EXCEPT ![m] = "using"]
      BY <1>0, <2>5 DEF Pool!ConnectOK
    <3>3. wire[k] = <<>>
      BY <3>1 DEF Structure, WireMatches
    <3>4. conn'[k] = "open" /\ \A l \in Conn : l # k => conn'[l] = conn[l]
      BY <3>1 DEF Structure, TypeOK, Pool!TypeOK
    <3>5. /\ \A n \in Links : held[n] # k
          /\ \A i \in 1 .. Len(idle) : idle[i] # k
      BY <3>1, PoolFacts
    <3> QED
      BY <2>0, <3>1, <3>2, <3>3, <3>4, <3>5, WireTaken
  <2> QED
    BY <1>5, <2>1, <2>2, <2>3, <2>4, <2>5 DEF AcquireProceeds, Pool!Locked
<1>6. ASSUME NEW m \in Links, ConnectFails(m) PROVE Goal
  BY <1>6, WireGivenUp DEF ConnectFails, Pool!ConnectFail, merchantVars, issuerVars
<1>7. ASSUME NEW m \in Links, ReadReset(m) \/ ReadEof(m) PROVE Goal
  <2>1. Pool!ReleaseClose(m, FALSE) /\ UNCHANGED <<wire, txn, asked, sent, decided>>
    BY <1>7 DEF ReadReset, ReadEof, GiveUp, Pool!Release, Pool!ReleaseToIdle, Pool!Reusable,
       merchantVars, issuerVars
  <2> QED
    BY <2>1, WireGivenUp DEF Pool!ReleaseClose
<1>8. ASSUME NEW m \in Links, ReadReply(m) PROVE Goal
  <2> DEFINE k == held[m]
  <2>1. /\ phase[m] = "using" /\ k \in Conn /\ k # NoConn
        /\ wire' = [wire EXCEPT ![k] = <<>>]
        /\ UNCHANGED <<txn, asked, sent, decided>>
    BY <1>8, UsedWire DEF ReadReply, Response, merchantVars
  <2>2. /\ wire'[k] = <<>>
        /\ \A l \in Conn \ {k} : wire'[l] = wire[l]
    BY <2>1 DEF Structure, TypeOK
  <2>3. \A n \in Links : phase[n] = "using" /\ n # m => held[n] # k
    BY <2>1, PoolFacts
  <2>4. CASE Pool!ReleaseToIdle(m, TRUE)
    <3>1. /\ idle' = Append(idle, k)
          /\ held' = [held EXCEPT ![m] = NoConn]
          /\ phase' = [phase EXCEPT ![m] = "out"]
          /\ UNCHANGED conn
      BY <2>4 DEF Pool!ReleaseToIdle
    <3>2. \A n \in Links : phase'[n] = "using" =>
             n # m /\ phase[n] = "using" /\ held'[n] = held[n]
      BY <3>1 DEF Structure, TypeOK, Pool!TypeOK
    <3>3. \A i \in 1 .. Len(idle)' : idle'[i] \in {k} \/ \E j \in 1 .. Len(idle) : idle'[i] = idle[j]
      BY <2>1, <3>1 DEF Structure, TypeOK, Pool!TypeOK
    <3> QED
      BY <1>0, <2>1, <2>2, <2>3, <3>1, <3>2, <3>3, WireCleared
  <2>5. CASE Pool!ReleaseClose(m, TRUE)
    <3>1. UNCHANGED <<idle, held, conn>> /\ phase' = [phase EXCEPT ![m] = "closing"]
      BY <2>5 DEF Pool!ReleaseClose
    <3>2. \A n \in Links : phase'[n] = "using" => n # m /\ phase[n] = "using"
      BY <3>1 DEF Structure, TypeOK, Pool!TypeOK
    <3> QED
      BY <1>0, <2>1, <2>2, <2>3, <3>1, <3>2, WireCleared
  <2> QED
    BY <1>8, <2>4, <2>5 DEF ReadReply, Pool!Release
<1>9. ASSUME NEW m \in Links, ReleaseProceeds(m) PROVE Goal
  <2>0. /\ wire' = IF held[m] = NoConn THEN wire ELSE [wire EXCEPT ![held[m]] = <<>>]
        /\ UNCHANGED <<txn, asked, sent, decided>>
    BY <1>9 DEF ReleaseProceeds, handlerVars, merchantVars
  <2>1. CASE Pool!Uncount(m)
    BY <2>0, <2>1, PoolFacts, WireGivenUp DEF Pool!Uncount
  <2>2. CASE Pool!Closed(m)
    <3> DEFINE k == held[m]
    <3>1. /\ phase[m] = "closing" /\ UNCHANGED idle
          /\ conn' = [conn EXCEPT ![k] = "none"]
          /\ held' = [held EXCEPT ![m] = NoConn]
          /\ \E q \in {"out", "uncounting"} : phase' = [phase EXCEPT ![m] = q]
      BY <2>2 DEF Pool!Closed, Pool!ClosedUncount, Pool!ClosedWaitLock
    <3>2. k \in Conn /\ k # NoConn
      BY <3>1, PoolFacts
    <3>3. wire'[k] = <<>> /\ \A l \in Conn \ {k} : wire'[l] = wire[l] /\ conn'[l] = conn[l]
      BY <2>0, <3>1, <3>2 DEF Structure, TypeOK, Pool!TypeOK
    <3>4. \A n \in Links : phase'[n] = "using" =>
             n # m /\ phase[n] = "using" /\ held'[n] = held[n] /\ held[n] # k
      <4>1. \A n \in Links : phase'[n] = "using" =>
               n # m /\ phase[n] = "using" /\ held'[n] = held[n]
        BY <3>1 DEF Structure, TypeOK, Pool!TypeOK
      <4> QED
        BY <3>2, <4>1, PoolFacts
    <3> QED
      BY <1>0, <2>0, <3>1, <3>2, <3>3, <3>4, WireCleared
  <2> QED
    BY <1>9, <2>1, <2>2 DEF ReleaseProceeds
<1>10. ASSUME NEW t \in Txn, NEW v \in Verdict, IssuerDecides(t, v) PROVE Goal
  <2>0. /\ UNCHANGED <<idle, phase, held, conn, txn, asked, sent>>
        /\ decided[t] = NoCode /\ decided' = [decided EXCEPT ![t] = v]
        /\ decided \in [Txn -> Verdict \cup {NoCode}]
    BY <1>10 DEF IssuerDecides, poolVars, handlerVars, merchantVars, Structure, TypeOK
  <2>1. ASSUME NEW n \in Links, phase[n] = "using"
        PROVE  /\ Len(wire'[held[n]]) = 1
               /\ wire'[held[n]][1].txn = txn[n]
               /\ wire'[held[n]][1].code \in {NoCode, decided'[txn[n]]}
    <3>1. txn[n] \in Txn
      BY <1>0, <2>1, Busy DEF Structure
    <3>2. /\ held[n] \in Conn /\ Len(wire[held[n]]) = 1
          /\ wire[held[n]][1].txn = txn[n]
          /\ wire[held[n]][1].code \in {NoCode, decided[txn[n]]}
      BY <2>1, UsedWire
    <3>3. /\ Len(wire'[held[n]]) = 1
          /\ wire'[held[n]][1].txn = txn[n]
          /\ \/ wire'[held[n]][1].code = wire[held[n]][1].code
             \/ txn[n] = t /\ wire'[held[n]][1].code = v
      BY <1>10, <3>2, DecisionArrives DEF Structure
    <3> QED
      BY <2>0, <3>1, <3>2, <3>3
  <2>2. \A k \in Conn : wire[k] = <<>> => wire'[k] = <<>>
    BY <1>10, DecisionArrives DEF Structure
  <2>3. \A i \in 1 .. Len(idle) : idle[i] \in Conn /\ wire[idle[i]] = <<>>
    BY PoolFacts DEF Structure, OneExchange
  <2>4. \A k \in Conn : conn[k] = "none" => wire[k] = <<>>
    BY DEF Structure, WireMatches
  <2> QED
    BY <1>0, <2>0, <2>1, <2>2, <2>3, <2>4 DEF OneExchange, WireMatches
<1>11. ASSUME NEW k \in Conn, IssuerFails(k) PROVE Goal
  <2>1. /\ UNCHANGED <<idle, phase, held, txn, wire, asked, decided, sent>>
        /\ \E s \in {"eof", "lost"} : conn' = [conn EXCEPT ![k] = s]
    BY <1>11 DEF IssuerFails, Pool!PeerCloses, Pool!PeerResets, handlerVars, merchantVars,
       issuerVars
  <2>2. \A l \in Conn : conn'[l] = "none" => conn[l] = "none"
    BY <2>1 DEF Structure, TypeOK, Pool!TypeOK
  <2> QED
    BY <1>0, <2>1, <2>2, WireKept
<1>12. ASSUME NEW m \in Links, NEW t \in Txn, MerchantSends(m, t) PROVE Goal
  BY <1>2, <1>12 DEF MerchantSends, handlerVars, issuerVars
<1>13. ASSUME NEW m \in Links, NEW s \in {"eof", "lost"}, LinkFails(m, s) PROVE Goal
  BY <1>2, <1>13 DEF LinkFails, handlerVars, issuerVars
<1>14. CASE UNCHANGED vars
  BY <1>2, <1>14 DEF vars, handlerVars, merchantVars, issuerVars
<1> QED
  BY <1>3, <1>4, <1>5, <1>6, <1>7, <1>8, <1>9, <1>10, <1>11, <1>12, <1>13, <1>14,
     GatewayCases DEF HandlerStep

\* A handler settles with 91, or with what the issuer decided for it.
LEMMA CodeStep ==
    ASSUME Structure, [Next]_vars
    PROVE  CodeIsOwn'
<1> USE DEF Structure
<1>0. /\ DOMAIN pc = Links /\ DOMAIN code = Links
      /\ decided \in [Txn -> Verdict \cup {NoCode}]
      /\ \A m \in Links : pc[m] = "settle" =>
            txn[m] \in Txn /\ code[m] # NoCode /\ code[m] \in {"91", decided[txn[m]]}
  BY Busy DEF TypeOK, CodeIsOwn
<1>1. ASSUME UNCHANGED decided, NEW m \in Links,
             pc'[m] # "settle",
             \A n \in Links : n # m => pc'[n] = pc[n] /\ txn'[n] = txn[n] /\ code'[n] = code[n]
      PROVE  CodeIsOwn'
  BY <1>0, <1>1 DEF CodeIsOwn
<1>2. ASSUME UNCHANGED <<decided, txn>>, NEW m \in Links, NEW c, c # NoCode,
             c \in {"91", decided[txn[m]]},
             pc' = [pc EXCEPT ![m] = "settle"], code' = [code EXCEPT ![m] = c]
      PROVE  CodeIsOwn'
  BY <1>0, <1>2 DEF CodeIsOwn
<1>3. ASSUME UNCHANGED <<pc, txn, code, decided>> PROVE CodeIsOwn'
  BY <1>0, <1>3 DEF CodeIsOwn
<1>4. ASSUME NEW m \in Links,
             \/ Receive(m) \/ EndOfLink(m) \/ InsertOK(m) \/ InsertFails(m) \/ MarkOK(m)
             \/ MarkFails(m) \/ ReadEof(m) \/ SettleOK(m) \/ SettleFails(m) \/ Fallback(m)
      PROVE  CodeIsOwn'
  <2>1. PICK p : pc' = [pc EXCEPT ![m] = p] /\ p # "settle"
    BY <1>4 DEF Receive, EndOfLink, InsertOK, InsertFails, MarkOK, MarkFails, ReadEof,
       SettleOK, SettleFails, Fallback, Finish, Goto
  <2>2. /\ txn' = txn \/ \E t : txn' = [txn EXCEPT ![m] = t]
        /\ code' = code \/ \E c : code' = [code EXCEPT ![m] = c]
        /\ UNCHANGED decided
    BY <1>4 DEF Receive, EndOfLink, InsertOK, InsertFails, MarkOK, MarkFails, ReadEof,
       SettleOK, SettleFails, Fallback, Finish, issuerVars
  <2>3. /\ pc'[m] # "settle"
        /\ \A n \in Links : n # m => pc'[n] = pc[n] /\ txn'[n] = txn[n] /\ code'[n] = code[n]
    BY <1>0, <2>1, <2>2 DEF TypeOK
  <2> QED
    BY <1>1, <2>2, <2>3
<1>5. ASSUME NEW m \in Links, ConnectFails(m) PROVE CodeIsOwn'
  <2>1. "91" # NoCode
    BY DEF NoCode
  <2> QED
    BY <1>2, <1>5, <2>1 DEF ConnectFails, Goto, issuerVars
<1>6. ASSUME NEW m \in Links, ReadReset(m) PROVE CodeIsOwn'
  <2>1. "91" # NoCode
    BY DEF NoCode
  <2> QED
    BY <1>2, <1>6, <2>1 DEF ReadReset, Goto, issuerVars
<1>7. ASSUME NEW m \in Links, ReadReply(m) PROVE CodeIsOwn'
  BY <1>2, <1>7, UsedWire DEF ReadReply, Response, Goto
<1>8. ASSUME NEW m \in Links, AcquireProceeds(m) \/ ReleaseProceeds(m) PROVE CodeIsOwn'
  BY <1>3, <1>8 DEF AcquireProceeds, ReleaseProceeds, handlerVars
<1>9. ASSUME NEW t \in Txn, NEW v \in Verdict, IssuerDecides(t, v) PROVE CodeIsOwn'
  BY <1>0, <1>9 DEF IssuerDecides, CodeIsOwn, handlerVars
<1>10. ASSUME NEW k \in Conn, IssuerFails(k) PROVE CodeIsOwn'
  BY <1>3, <1>10 DEF IssuerFails, handlerVars, issuerVars
<1>11. ASSUME NEW m \in Links, NEW t \in Txn, MerchantSends(m, t) PROVE CodeIsOwn'
  BY <1>3, <1>11 DEF MerchantSends, handlerVars, issuerVars
<1>12. ASSUME NEW m \in Links, NEW s \in {"eof", "lost"}, LinkFails(m, s) PROVE CodeIsOwn'
  BY <1>3, <1>12 DEF LinkFails, handlerVars, issuerVars
<1>13. CASE UNCHANGED vars
  BY <1>3, <1>13 DEF vars, handlerVars, issuerVars
<1> QED
  BY <1>4, <1>5, <1>6, <1>7, <1>8, <1>9, <1>10, <1>11, <1>12, <1>13, GatewayCases
     DEF HandlerStep

-----------------------------------------------------------------------------
(* The theorems *)

\* With every handler at its first read and an empty pool all of it holds.
LEMMA StructureInit == Init => Structure
<1> SUFFICES ASSUME Init PROVE Structure
  OBVIOUS
<1>1. PP!Init
  BY DEF Init, Pool!Init, PP!Init
<1>2. PP!IndInv
  BY <1>1, PoolAssumed, PP!InitInv
<1>3. TypeOK
  BY <1>2, SamePool, EmptySeq DEF Init, TypeOK, PP!IndInv
<1>4. /\ \A m \in Links : pc[m] = "read" /\ txn[m] = NoTxn /\ inbox[m] = NoTxn
      /\ \A m \in Links : phase[m] = "out"
      /\ idle = <<>> /\ slotQ = <<>> /\ asked = {}
      /\ \A k \in Conn : wire[k] = <<>>
  BY DEF Init, Pool!Init
<1>5. PhaseMatchesPc /\ OwnTask /\ CodeIsOwn
  BY <1>4 DEF PhaseMatchesPc, OwnTask, CodeIsOwn
<1>6. SlotLine
  BY <1>4 DEF SlotLine, InLine
<1>7. OneExchange /\ WireMatches
  BY <1>4 DEF OneExchange, WireMatches
<1> QED
  BY <1>2, <1>3, <1>5, <1>6, <1>7 DEF Structure

\* Every step preserves it; the conjuncts are above.
LEMMA StructureStep == Structure /\ [Next]_vars => Structure'
<1> SUFFICES ASSUME Structure, [Next]_vars PROVE Structure'
  OBVIOUS
<1>1. PP!IndInv'
  BY PoolAssumed, PoolSteps, PP!StepInv DEF Structure
<1>2. Pool!TypeOK'
  BY <1>1 DEF PP!IndInv, PP!TypeOK, Pool!TypeOK, PP!Phases, Pool!Phases, PP!ConnStates,
     Pool!ConnStates
<1>3. TypeOK'
  BY <1>2, TypeStep
<1> QED
  BY <1>1, <1>3, PhaseStep, SlotStep, TaskStep, WireStep, CodeStep DEF Structure

\* The inductive invariant.
THEOREM StructureHolds == Spec => []Structure
BY StructureInit, StructureStep, PTL DEF Spec

\* The types of handlers, database, merchants and issuer.
THEOREM GatewayTypes == Spec => []TypeOK
<1>1. Structure => TypeOK
  BY DEF Structure
<1> QED
  BY <1>1, StructureHolds, PTL

\* pool.py:13-15: no response is read by a transaction it does not belong to,
\* however connections are shared, broken and replaced.
THEOREM ExchangesStayApart == Spec => []OneExchange
<1>1. Structure => OneExchange
  BY DEF Structure
<1> QED
  BY <1>1, StructureHolds, PTL

\* app.py:201-204: with as many slots as connections nobody in the pool waits
\* for another handler to return one, whatever the limit.
THEOREM SlotsAreEnough == Spec => []SlotsCoverPool
<1>1. ASSUME Structure PROVE SlotsCoverPool
  <2> DEFINE InPool == {m \in Links : phase[m] # "out"}
  <2>1. InPool \subseteq SlotHolders
    BY <1>1, InPoolHasSlot DEF Structure, SlotHolders
  <2>2. IsFiniteSet(InPool) /\ Cardinality(InPool) <= Cardinality(SlotHolders)
    BY <1>1, <2>1, SlotBound, FS_Subset DEF Structure
  <2>3. Cardinality(InPool) <= Limit
    BY <1>1, <2>2, SlotBound, FS_CardinalityType, GatewayAssumption DEF Structure
  <2>4. \A m \in Links : phase[m] # "parked"
    BY <1>1 DEF Structure, PhaseMatchesPc
  <2> QED
    BY <2>3, <2>4 DEF SlotsCoverPool
<1> QED
  BY <1>1, StructureHolds, PTL
=============================================================================
