------------------------- MODULE GatewayOutcomeProofs -------------------------
(***************************************************************************)
(* What becomes of a transaction that was read, for every number of        *)
(* merchants, transactions, connections and failing database calls: its    *)
(* events, its row, its reply; and that the merchants and the issuer see   *)
(* an authorization protocol.                                              *)
(***************************************************************************)
EXTENDS GatewayProofs

\* Nothing is on record of it.
Untouched(t) == fired[t] = <<>> /\ row[t] = "absent" /\ told[t] = <<>>

\* A transaction that was not read is untouched.
UnreadIsUntouched ==
    \A t \in Txn :
        t \notin sent \/ (\E m \in Links : inbox[m] = t) => Untouched(t)

\* What is on record of the transaction a handler works on: no reply, and no
\* completed event unless the handler is in its except clause.
WorkOf(m) ==
    /\ pc[m] = "insert" => Untouched(txn[m])
    /\ pc[m] \in {"mark", "forward", "settle"} =>
          row[txn[m]] = "PENDING" /\ Completions(txn[m]) = {}
    /\ pc[m] = "fallback" /\ dbFaults[txn[m]] = 0 => row[txn[m]] # "absent"
    /\ pc[m] \notin {"read", "closed"} => told[txn[m]] = <<>>

WorkIsOpen == \A m \in Links : WorkOf(m)

\* The "received" event comes first, an "approved" one at most once and only
\* of a transaction the issuer approved.
EventsOf(t) ==
    /\ \A i \in 1 .. Len(fired[t]) :
          /\ fired[t][i] = "received" => i = 1
          /\ fired[t][i] = "approved" => decided[t] = "00"
    /\ \A i, j \in 1 .. Len(fired[t]) :
          fired[t][i] = "approved" /\ fired[t][j] = "approved" => i = j

EventsInOrder == \A t \in Txn : EventsOf(t)

\* HandledIsSettled and RowIsTrue of one transaction, without the order of events.
SettledOf(t) ==
    Handled(t) =>
        /\ Completions(t) # {}
        /\ dbFaults[t] = 0 => row[t] \in Code
        /\ (\A m \in Links : link[m] = "open") => told[t] # <<>>

RowOf(t) ==
    /\ row[t] \in {"absent", "PENDING", decided[t]} \cup AcquirerCode
    /\ told[t] # <<>> /\ dbFaults[t] = 0 => row[t] = told[t][1]

Outcome ==
    /\ UnreadIsUntouched
    /\ WorkIsOpen
    /\ EventsInOrder
    /\ \A t \in Txn : SettledOf(t) /\ RowOf(t)

IInv == Structure /\ Outcome

-----------------------------------------------------------------------------
(* The steps that leave the records alone *)

\* Where no record changes, a transaction may be sent, be read, move from one
\* suspension of its handler to the next, and be decided.
LEMMA QuietStep ==
    ASSUME IInv, TypeOK', UNCHANGED <<fired, row, told, dbFaults>>,
           \A t \in Txn : t \in sent => t \in sent',
           \A t \in Txn : t \in sent' \ sent => \E m \in Links : inbox'[m] = t,
           \A t \in Txn : (\E m \in Links : inbox'[m] = t) =>
              t \notin sent \/ \E m \in Links : inbox[m] = t,
           \A t \in Txn : (\E m \in Links : inbox[m] = t \/ txn[m] = t) =>
              \E m \in Links : inbox'[m] = t \/ txn'[m] = t,
           \A m \in Links : link'[m] = "open" => link[m] = "open",
           \A t \in Txn : decided'[t] = decided[t] \/ decided[t] = NoCode,
           \A m \in Links :
              \/ pc'[m] \in {"read", "closed"}
              \/ pc'[m] = "insert" /\ txn'[m] \in {inbox[n] : n \in Links} \ {NoTxn}
              \/ txn'[m] = txn[m] /\ pc'[m] = pc[m]
              \/ txn'[m] = txn[m] /\ pc[m] = "forward" /\ pc'[m] \in {"settle", "fallback"}
    PROVE  Outcome'
<1> USE DEF IInv, Outcome
<1>0. \A m \in Links : txn'[m] \in Txn \cup {NoTxn} /\ inbox[m] \in Txn \cup {NoTxn}
  BY DEF Structure, TypeOK
<1>1. UnreadIsUntouched'
  BY DEF UnreadIsUntouched, Untouched
<1>2. ASSUME NEW m \in Links PROVE WorkOf(m)'
  <2>1. CASE pc'[m] \in {"read", "closed"}
    BY <2>1 DEF WorkOf
  <2>2. CASE pc'[m] = "insert" /\ txn'[m] \in {inbox[n] : n \in Links} \ {NoTxn}
    BY <1>0, <2>2 DEF WorkOf, UnreadIsUntouched, Untouched
  <2>3. CASE txn'[m] = txn[m] /\ pc'[m] = pc[m]
    BY <2>3 DEF WorkIsOpen, WorkOf, Untouched, Completions
  <2>4. CASE txn'[m] = txn[m] /\ pc[m] = "forward" /\ pc'[m] \in {"settle", "fallback"}
    BY <2>4 DEF WorkIsOpen, WorkOf, Untouched, Completions
  <2> QED
    BY <2>1, <2>2, <2>3, <2>4
<1>3. ASSUME NEW t \in Txn PROVE EventsOf(t)'
  <2>1. EventsOf(t)
    BY DEF EventsInOrder
  <2>2. decided[t] = "00" => decided'[t] = "00"
    BY DEF NoCode
  <2> QED
    BY <2>1, <2>2 DEF EventsOf
<1>4. ASSUME NEW t \in Txn PROVE SettledOf(t)'
  <2>1. Handled(t)' => Handled(t)
    BY DEF Handled
  <2>2. SettledOf(t)
    OBVIOUS
  <2> QED
    BY <2>1, <2>2 DEF SettledOf, Completions
<1>5. ASSUME NEW t \in Txn PROVE RowOf(t)'
  <2>1. row[t] # NoCode
    <3>1. row[t] \in Code \cup {"absent", "PENDING"}
      BY DEF Structure, TypeOK
    <3> QED
      BY <3>1 DEF Code, Verdict, AcquirerCode, NoCode
  <2>2. RowOf(t)
    OBVIOUS
  <2> QED
    BY <2>1, <2>2 DEF RowOf
<1> QED
  BY <1>1, <1>2, <1>3, <1>4, <1>5 DEF WorkIsOpen, EventsInOrder

Quiet(m) ==
    \/ Receive(m) \/ EndOfLink(m) \/ AcquireProceeds(m) \/ ConnectFails(m)
    \/ ReadReply(m) \/ ReadReset(m) \/ ReadEof(m) \/ ReleaseProceeds(m)

\* The steps of a handler that leave the records alone.
LEMMA QuietHandler ==
    ASSUME IInv, TypeOK', NEW m \in Links, Quiet(m)
    PROVE  Outcome'
<1> USE DEF IInv, Structure
<1>0. /\ DOMAIN pc = Links /\ DOMAIN txn = Links /\ DOMAIN inbox = Links
      /\ NoTxn \notin Txn
      /\ phase[m] = "connecting" => pc[m] = "forward"
  BY GatewayAssumption DEF TypeOK, PhaseMatchesPc
<1>1. UNCHANGED <<fired, row, told, dbFaults, sent, link, decided>>
  BY DEF Quiet, Receive, EndOfLink, AcquireProceeds, ConnectFails, ReadReply, ReadReset,
     ReadEof, ReleaseProceeds, handlerVars, dbVars, merchantVars, issuerVars
<1>2. CASE Receive(m)
  <2>1. /\ txn' = [txn EXCEPT ![m] = inbox[m]]
        /\ inbox' = [inbox EXCEPT ![m] = NoTxn]
        /\ pc' = [pc EXCEPT ![m] = "insert"]
        /\ inbox[m] # NoTxn /\ txn[m] = NoTxn
    BY <1>2 DEF Receive, Goto, OwnTask
  <2>2. \A n \in Links : inbox'[n] = (IF n = m THEN NoTxn ELSE inbox[n])
                         /\ txn'[n] = (IF n = m THEN inbox[m] ELSE txn[n])
                         /\ pc'[n] = IF n = m THEN "insert" ELSE pc[n]
    BY <1>0, <2>1
  <2>3. \A t \in Txn : (\E n \in Links : inbox'[n] = t) => \E n \in Links : inbox[n] = t
    BY <1>0, <2>2
  <2>4. \A t \in Txn : (\E n \in Links : inbox[n] = t \/ txn[n] = t) =>
                          \E n \in Links : inbox'[n] = t \/ txn'[n] = t
    BY <1>0, <2>1, <2>2
  <2>5. \A n \in Links :
           \/ pc'[n] = "insert" /\ txn'[n] \in {inbox[l] : l \in Links} \ {NoTxn}
           \/ txn'[n] = txn[n] /\ pc'[n] = pc[n]
    BY <2>1, <2>2
  <2> QED
    BY <1>1, <2>3, <2>4, <2>5, QuietStep
<1>3. CASE ~Receive(m)
  <2>1. UNCHANGED <<txn, inbox>>
    BY <1>3 DEF Quiet, EndOfLink, AcquireProceeds, ConnectFails, ReadReply, ReadReset,
       ReadEof, ReleaseProceeds, handlerVars, merchantVars
  <2>2. \/ UNCHANGED pc
        \/ pc' = [pc EXCEPT ![m] = "closed"]
        \/ /\ pc[m] = "forward"
           /\ \E p \in {"settle", "fallback"} : pc' = [pc EXCEPT ![m] = p]
    BY <1>0, <1>3 DEF Quiet, EndOfLink, AcquireProceeds, ConnectFails, ReadReply, ReadReset,
       ReadEof, ReleaseProceeds, handlerVars, Goto, Pool!ConnectFail
  <2>3. \A n \in Links :
           \/ pc'[n] \in {"read", "closed"}
           \/ txn'[n] = txn[n] /\ pc'[n] = pc[n]
           \/ txn'[n] = txn[n] /\ pc[n] = "forward" /\ pc'[n] \in {"settle", "fallback"}
    BY <1>0, <2>1, <2>2
  <2> QED
    BY <1>1, <2>1, <2>3, QuietStep
<1> QED
  BY <1>2, <1>3

\* The steps of the environment do too.
LEMMA QuietEnvironment ==
    ASSUME IInv, TypeOK',
           \/ UNCHANGED vars
           \/ \E m \in Links, t \in Txn : MerchantSends(m, t)
           \/ \E m \in Links, s \in {"eof", "lost"} : LinkFails(m, s)
           \/ \E t \in Txn, v \in Verdict : IssuerDecides(t, v)
           \/ \E k \in Conn : IssuerFails(k)
    PROVE  Outcome'
<1> USE DEF IInv, Structure
<1>0. DOMAIN inbox = Links /\ DOMAIN link = Links /\ NoTxn \notin Txn
      /\ decided \in [Txn -> Verdict \cup {NoCode}]
  BY GatewayAssumption DEF TypeOK
<1>1. CASE UNCHANGED vars
  BY <1>1, QuietStep DEF vars, handlerVars, dbVars, merchantVars, issuerVars
<1>2. ASSUME NEW m \in Links, NEW t \in Txn, MerchantSends(m, t) PROVE Outcome'
  <2>1. /\ UNCHANGED <<fired, row, told, dbFaults, link, decided, pc, txn>>
        /\ sent' = sent \cup {t} /\ t \notin sent
        /\ inbox' = [inbox EXCEPT ![m] = t] /\ inbox[m] = NoTxn
    BY <1>2 DEF MerchantSends, handlerVars, dbVars, issuerVars
  <2>2. \A n \in Links : inbox'[n] = IF n = m THEN t ELSE inbox[n]
    BY <1>0, <2>1
  <2>3. \A u \in Txn : (\E n \in Links : inbox'[n] = u) =>
                          u \notin sent \/ \E n \in Links : inbox[n] = u
    BY <2>1, <2>2
  <2>4. \A u \in Txn : (\E n \in Links : inbox[n] = u \/ txn[n] = u) =>
                          \E n \in Links : inbox'[n] = u \/ txn'[n] = u
    BY <1>0, <2>1, <2>2
  <2>5. \A u \in Txn : u \in sent' \ sent => \E n \in Links : inbox'[n] = u
    BY <2>1, <2>2
  <2> QED
    BY <2>1, <2>3, <2>4, <2>5, QuietStep
<1>3. ASSUME NEW m \in Links, NEW s \in {"eof", "lost"}, LinkFails(m, s) PROVE Outcome'
  <2>1. /\ UNCHANGED <<fired, row, told, dbFaults, decided, pc, txn, sent, inbox>>
        /\ link' = [link EXCEPT ![m] = s]
    BY <1>3 DEF LinkFails, handlerVars, dbVars, issuerVars
  <2>2. \A n \in Links : link'[n] = "open" => link[n] = "open"
    BY <1>0, <2>1
  <2> QED
    BY <2>1, <2>2, QuietStep
<1>4. ASSUME NEW t \in Txn, NEW v \in Verdict, IssuerDecides(t, v) PROVE Outcome'
  <2>1. /\ UNCHANGED <<fired, row, told, dbFaults, pc, txn, sent, inbox, link>>
        /\ decided[t] = NoCode /\ decided' = [decided EXCEPT ![t] = v]
    BY <1>4 DEF IssuerDecides, handlerVars, dbVars, merchantVars
  <2>2. \A u \in Txn : decided'[u] = decided[u] \/ decided[u] = NoCode
    BY <1>0, <2>1
  <2> QED
    BY <2>1, <2>2, QuietStep
<1>5. ASSUME NEW k \in Conn, IssuerFails(k) PROVE Outcome'
  BY <1>5, QuietStep DEF IssuerFails, handlerVars, dbVars, merchantVars, issuerVars
<1> QED
  BY <1>1, <1>2, <1>3, <1>4, <1>5

-----------------------------------------------------------------------------
(* The steps that write the records of a transaction *)

\* They write those of the handler's own transaction only: what is left to
\* show for each is what it makes of that one.
LEMMA OwnRecords ==
    ASSUME IInv, NEW m \in Links, NEW t \in Txn,
           txn[m] = t, pc[m] \notin {"read", "closed"},
           UNCHANGED <<link, inbox, sent, decided>>,
           \A u \in Txn \ {t} : /\ fired'[u] = fired[u] /\ row'[u] = row[u]
                                /\ told'[u] = told[u] /\ dbFaults'[u] = dbFaults[u],
           \A n \in Links \ {m} : pc'[n] = pc[n] /\ txn'[n] = txn[n],
           txn'[m] \in {t, NoTxn},
           WorkOf(m)', EventsOf(t)', SettledOf(t)', RowOf(t)'
    PROVE  Outcome'
<1> USE DEF IInv, Outcome
<1>0. /\ t \in sent /\ t # NoTxn
      /\ \A n \in Links : inbox[n] # t /\ (txn[n] = t => n = m)
      /\ \A n \in Links : pc[n] \notin {"read", "closed"} => txn[n] \in Txn
  BY Busy DEF Structure, OwnTask
<1>1. UnreadIsUntouched'
  BY <1>0 DEF UnreadIsUntouched, Untouched
<1>2. ASSUME NEW n \in Links, n # m PROVE WorkOf(n)'
  <2>1. WorkOf(n)
    BY DEF WorkIsOpen
  <2>2. CASE pc[n] \in {"read", "closed"}
    BY <1>2, <2>2 DEF WorkOf
  <2>3. CASE pc[n] \notin {"read", "closed"}
    <3>1. txn[n] \in Txn \ {t} /\ txn'[n] = txn[n] /\ pc'[n] = pc[n]
      BY <1>0, <1>2, <2>3
    <3> QED
      BY <2>1, <3>1 DEF WorkOf, Untouched, Completions
  <2> QED
    BY <2>2, <2>3
<1>3. ASSUME NEW u \in Txn, u # t PROVE EventsOf(u)' /\ SettledOf(u)' /\ RowOf(u)'
  <2>1. EventsOf(u) /\ SettledOf(u) /\ RowOf(u)
    BY DEF EventsInOrder
  <2>2. fired'[u] = fired[u] /\ row'[u] = row[u] /\ told'[u] = told[u] /\ dbFaults'[u] = dbFaults[u]
    BY <1>3
  <2>3. EventsOf(u)' /\ RowOf(u)'
    BY <2>1, <2>2 DEF EventsOf, RowOf
  <2>4. Handled(u)' => Handled(u)
    BY <1>3 DEF Handled
  <2>5. SettledOf(u)'
    BY <2>1, <2>2, <2>4 DEF SettledOf, Completions
  <2> QED
    BY <2>3, <2>5
<1> QED
  BY <1>1, <1>2, <1>3 DEF WorkIsOpen, EventsInOrder

\* An event more: "received" only as the first, "approved" only of a
\* transaction the issuer approved that has no completed event yet.
LEMMA EventAdded ==
    ASSUME IInv, NEW m \in Links, NEW t \in Txn, txn[m] = t, NEW e \in Event, Fire(m, e),
           UNCHANGED decided,
           e = "received" => fired[t] = <<>>,
           e = "approved" => decided[t] = "00" /\ Completions(t) = {}
    PROVE  /\ EventsOf(t)'
           /\ \A u \in Txn \ {t} : fired'[u] = fired[u]
           /\ e \in {"approved", "declined"} => Completions(t)' # {}
           /\ e \notin {"approved", "declined"} => Completions(t)' = Completions(t)
<1>1. fired \in [Txn -> Seq(Event)]
  BY DEF IInv, Structure, TypeOK
<1>2. fired' = [fired EXCEPT ![t] = Append(fired[t], e)]
  BY DEF Fire
<1>3. /\ Len(fired[t]) \in Nat
      /\ Len(fired'[t]) = Len(fired[t]) + 1
      /\ fired'[t][Len(fired[t]) + 1] = e
      /\ \A i \in 1 .. Len(fired[t]) : fired'[t][i] = fired[t][i]
  BY <1>1, <1>2
<1>4. EventsOf(t)
  BY DEF IInv, Outcome, EventsInOrder
<1>5. \A i \in 1 .. Len(fired'[t]) : i \in 1 .. Len(fired[t]) \/ i = Len(fired[t]) + 1
  BY <1>3
<1>6. ASSUME NEW i \in 1 .. Len(fired'[t])
      PROVE  /\ fired'[t][i] = "received" => i = 1
             /\ fired'[t][i] = "approved" => decided[t] = "00"
  <2>1. CASE i \in 1 .. Len(fired[t])
    BY <1>3, <1>4, <2>1 DEF EventsOf
  <2>2. CASE i = Len(fired[t]) + 1
    <3>1. fired[t] = <<>> => i = 1
      BY <2>2
    <3> QED
      BY <1>3, <2>2, <3>1
  <2> QED
    BY <1>5, <2>1, <2>2
<1>7. ASSUME NEW i \in 1 .. Len(fired'[t]), NEW j \in 1 .. Len(fired'[t]),
             fired'[t][i] = "approved", fired'[t][j] = "approved"
      PROVE  i = j
  <2>1. CASE e = "approved"
    <3>1. \A l \in 1 .. Len(fired[t]) : fired[t][l] # "approved"
      BY <2>1 DEF Completions
    <3> QED
      BY <1>3, <1>5, <1>7, <3>1
  <2>2. CASE e # "approved"
    BY <1>3, <1>4, <1>5, <1>7, <2>2 DEF EventsOf
  <2> QED
    BY <2>1, <2>2
<1>8. EventsOf(t)'
  BY <1>6, <1>7 DEF EventsOf
<1>9. \A u \in Txn \ {t} : fired'[u] = fired[u]
  BY <1>1, <1>2
<1>10. e \in {"approved", "declined"} => Completions(t)' # {}
  <2>1. Len(fired[t]) + 1 \in 1 .. Len(fired'[t])
    BY <1>3
  <2> QED
    BY <1>3, <2>1 DEF Completions
<1>11. e \notin {"approved", "declined"} => Completions(t)' = Completions(t)
  BY <1>3, <1>5 DEF Completions
<1> QED
  BY <1>8, <1>9, <1>10, <1>11

\* A database call writes the row of its transaction, or fails and is counted.
LEMMA DbCall ==
    ASSUME TypeOK, NEW t \in Txn, NEW new, DbOK(t, new) \/ DbFails(t, new)
    PROVE  /\ \A u \in Txn \ {t} : row'[u] = row[u] /\ dbFaults'[u] = dbFaults[u]
           /\ row'[t] \in {row[t], new}
           /\ dbFaults'[t] = 0 => dbFaults[t] = 0 /\ row'[t] = new
<1>1. row \in [Txn -> Code \cup {"absent", "PENDING"}] /\ dbFaults \in [Txn -> Nat]
  BY DEF TypeOK
<1>2. CASE DbOK(t, new)
  BY <1>1, <1>2 DEF DbOK
<1>3. CASE DbFails(t, new)
  <2>1. /\ dbFaults' = [dbFaults EXCEPT ![t] = @ + 1]
        /\ row' = row \/ row' = [row EXCEPT ![t] = new]
    BY <1>3, DbFailure
  <2>2. dbFaults'[t] = dbFaults[t] + 1 /\ dbFaults[t] \in Nat
    BY <1>1, <2>1
  <2>3. dbFaults'[t] # 0
    BY <2>2
  <2> QED
    BY <1>1, <2>1, <2>3
<1> QED
  BY <1>2, <1>3

\* The reply of a handler whose merchant can still be reached is the first one.
LEMMA FirstReply ==
    ASSUME IInv, NEW m \in Links, NEW t \in Txn, txn[m] = t, pc[m] \notin {"read", "closed"},
           NEW c \in Code, Told(m, c)
    PROVE  /\ told[t] = <<>>
           /\ \A u \in Txn \ {t} : told'[u] = told[u]
           /\ told'[t] = IF link[m] = "open" THEN <<c>> ELSE <<>>
<1>1. told \in [Txn -> Seq(Code)] /\ told[t] = <<>>
  BY DEF IInv, Structure, TypeOK, Outcome, WorkIsOpen, WorkOf
<1> QED
  BY <1>1 DEF Told

\* What every handler step below starts from.
LEMMA AtWork ==
    ASSUME IInv, NEW m \in Links, pc[m] \notin {"read", "closed"}
    PROVE  /\ txn[m] \in Txn /\ txn[m] \in sent /\ txn[m] # NoTxn
           /\ ~Handled(txn[m])
           /\ WorkOf(m) /\ RowOf(txn[m]) /\ EventsOf(txn[m])
           /\ DOMAIN pc = Links /\ DOMAIN txn = Links
           /\ TypeOK
BY Busy DEF IInv, Structure, TypeOK, Outcome, WorkIsOpen, EventsInOrder, Handled

\* The insert commits: PENDING and received, then mark or, if the PIN block
\* does not translate, the except clause.
LEMMA InsertSucceeds ==
    ASSUME IInv, NEW m \in Links, InsertOK(m)
    PROVE  Outcome'
<1> DEFINE t == txn[m]
<1>0. /\ pc[m] = "insert" /\ DbOK(t, "PENDING") /\ Fire(m, "received")
      /\ UNCHANGED <<txn, link, inbox, sent, told, decided>>
      /\ \E p \in {"mark", "fallback"} : pc' = [pc EXCEPT ![m] = p]
  BY DEF InsertOK, Goto, merchantVars, issuerVars
<1>1. t \in Txn /\ ~Handled(t) /\ Untouched(t) /\ DOMAIN pc = Links /\ TypeOK
  BY <1>0, AtWork DEF WorkOf
<1>2. /\ \A n \in Links \ {m} : pc'[n] = pc[n]
      /\ pc'[m] \in {"mark", "fallback"}
  BY <1>0, <1>1
<1>3. /\ EventsOf(t)' /\ Completions(t)' = Completions(t)
      /\ \A u \in Txn \ {t} : fired'[u] = fired[u]
  BY <1>0, <1>1, EventAdded DEF Untouched, Event
<1>4. row' = [row EXCEPT ![t] = "PENDING"] /\ UNCHANGED dbFaults
  BY <1>0 DEF DbOK
<1>5. row'[t] = "PENDING" /\ \A u \in Txn \ {t} : row'[u] = row[u]
  BY <1>1, <1>4 DEF TypeOK
<1>6. Completions(t) = {}
  BY <1>1 DEF Untouched, Completions
<1>7. WorkOf(m)'
  BY <1>0, <1>1, <1>2, <1>3, <1>5, <1>6 DEF WorkOf, Untouched
<1>8. SettledOf(t)'
  BY <1>0, <1>1 DEF SettledOf, Handled
<1>9. RowOf(t)'
  BY <1>0, <1>1, <1>5 DEF RowOf, Untouched
<1> QED
  BY <1>0, <1>1, <1>2, <1>3, <1>4, <1>5, <1>7, <1>8, <1>9, OwnRecords

\* The insert raises, committed or not: the except clause, nothing fired.
LEMMA InsertDoesNot ==
    ASSUME IInv, NEW m \in Links, InsertFails(m)
    PROVE  Outcome'
<1> DEFINE t == txn[m]
<1>0. /\ pc[m] = "insert" /\ DbFails(t, "PENDING")
      /\ UNCHANGED <<txn, link, inbox, sent, told, decided, fired>>
      /\ pc' = [pc EXCEPT ![m] = "fallback"]
  BY DEF InsertFails, Goto, merchantVars, issuerVars
<1>1. t \in Txn /\ ~Handled(t) /\ Untouched(t) /\ EventsOf(t) /\ DOMAIN pc = Links /\ TypeOK
  BY <1>0, AtWork DEF WorkOf
<1>2. pc'[m] = "fallback" /\ \A n \in Links \ {m} : pc'[n] = pc[n]
  BY <1>0, <1>1
<1>3. /\ \A u \in Txn \ {t} : row'[u] = row[u] /\ dbFaults'[u] = dbFaults[u]
      /\ row'[t] \in {"absent", "PENDING"}
      /\ dbFaults'[t] = 0 => row'[t] = "PENDING"
  BY <1>0, <1>1, DbCall DEF Untouched
<1>4. EventsOf(t)'
  BY <1>0, <1>1 DEF EventsOf
<1>5. WorkOf(m)'
  BY <1>0, <1>1, <1>2, <1>3 DEF WorkOf, Untouched
<1>6. SettledOf(t)'
  BY <1>0, <1>1 DEF SettledOf, Handled
<1>7. RowOf(t)'
  BY <1>0, <1>1, <1>3 DEF RowOf, Untouched
<1> QED
  BY <1>0, <1>1, <1>2, <1>3, <1>4, <1>5, <1>6, <1>7, OwnRecords

\* forwarded_at is recorded: the row stays PENDING, forwarded is fired.
LEMMA MarkSucceeds ==
    ASSUME IInv, NEW m \in Links, MarkOK(m)
    PROVE  Outcome'
<1> DEFINE t == txn[m]
<1>0. /\ pc[m] = "mark" /\ DbOK(t, row[t]) /\ Fire(m, "forwarded_to_issuer")
      /\ UNCHANGED <<txn, link, inbox, sent, told, decided>>
      /\ pc' = [pc EXCEPT ![m] = "forward"]
  BY DEF MarkOK, Goto, merchantVars
<1>1. /\ t \in Txn /\ ~Handled(t) /\ RowOf(t) /\ DOMAIN pc = Links /\ TypeOK
      /\ row[t] = "PENDING" /\ Completions(t) = {} /\ told[t] = <<>>
  BY <1>0, AtWork DEF WorkOf
<1>2. pc'[m] = "forward" /\ \A n \in Links \ {m} : pc'[n] = pc[n]
  BY <1>0, <1>1
<1>3. /\ EventsOf(t)' /\ Completions(t)' = {}
      /\ \A u \in Txn \ {t} : fired'[u] = fired[u]
  BY <1>0, <1>1, EventAdded DEF Event
<1>4. UNCHANGED dbFaults /\ row'[t] = "PENDING" /\ \A u \in Txn \ {t} : row'[u] = row[u]
  BY <1>0, <1>1 DEF DbOK, TypeOK
<1>5. WorkOf(m)'
  BY <1>0, <1>1, <1>2, <1>3, <1>4 DEF WorkOf
<1>6. SettledOf(t)'
  BY <1>0, <1>1 DEF SettledOf, Handled
<1>7. RowOf(t)'
  BY <1>0, <1>1, <1>4 DEF RowOf
<1> QED
  BY <1>0, <1>1, <1>2, <1>3, <1>4, <1>5, <1>6, <1>7, OwnRecords

\* Recording forwarded_at raises: the except clause, the row still PENDING.
LEMMA MarkDoesNot ==
    ASSUME IInv, NEW m \in Links, MarkFails(m)
    PROVE  Outcome'
<1> DEFINE t == txn[m]
<1>0. /\ pc[m] = "mark" /\ DbFails(t, row[t])
      /\ UNCHANGED <<txn, link, inbox, sent, told, decided, fired>>
      /\ pc' = [pc EXCEPT ![m] = "fallback"]
  BY DEF MarkFails, Goto, merchantVars, issuerVars
<1>1. /\ t \in Txn /\ ~Handled(t) /\ EventsOf(t) /\ DOMAIN pc = Links /\ TypeOK
      /\ row[t] = "PENDING" /\ told[t] = <<>>
  BY <1>0, AtWork DEF WorkOf
<1>2. pc'[m] = "fallback" /\ \A n \in Links \ {m} : pc'[n] = pc[n]
  BY <1>0, <1>1
<1>3. /\ \A u \in Txn \ {t} : row'[u] = row[u] /\ dbFaults'[u] = dbFaults[u]
      /\ row'[t] = "PENDING"
  BY <1>0, <1>1, DbCall
<1>4. EventsOf(t)'
  BY <1>0, <1>1 DEF EventsOf
<1>5. WorkOf(m)'
  BY <1>0, <1>1, <1>2, <1>3 DEF WorkOf
<1>6. SettledOf(t)'
  BY <1>0, <1>1 DEF SettledOf, Handled
<1>7. RowOf(t)'
  BY <1>0, <1>1, <1>3 DEF RowOf
<1> QED
  BY <1>0, <1>1, <1>2, <1>3, <1>4, <1>5, <1>6, <1>7, OwnRecords

\* A code in the handler's hands is one to settle with.
LEMMA CodeInHand ==
    ASSUME IInv, NEW m \in Links, pc[m] = "settle"
    PROVE  /\ code[m] \in Code
           /\ code[m] \in {"91", decided[txn[m]]}
           /\ Completed(code[m]) \in {"approved", "declined"}
           /\ Completed(code[m]) = "approved" => decided[txn[m]] = "00"
<1>1. code[m] \in Code /\ code[m] \in {"91", decided[txn[m]]}
  BY DEF IInv, Structure, TypeOK, CodeIsOwn
<1> QED
  BY <1>1 DEF Completed, Status

\* The final update commits: row, completed event and reply carry one code.
\* A reply that cannot be written leads to the except clause.
LEMMA SettleSucceeds ==
    ASSUME IInv, NEW m \in Links, SettleOK(m)
    PROVE  Outcome'
<1> SUFFICES ASSUME NEW t \in Txn, txn[m] = t, NEW c \in Code, code[m] = c
             PROVE  Outcome'
  BY AtWork, CodeInHand DEF SettleOK
<1>0. /\ pc[m] = "settle" /\ DbOK(t, Updated(t, c)) /\ Fire(m, Completed(c)) /\ Told(m, c)
      /\ UNCHANGED <<link, inbox, sent, decided>>
      /\ IF link[m] = "lost"
         THEN pc' = [pc EXCEPT ![m] = "fallback"] /\ UNCHANGED txn
         ELSE pc' = [pc EXCEPT ![m] = "read"] /\ txn' = [txn EXCEPT ![m] = NoTxn]
  BY DEF SettleOK, Finish, Goto, issuerVars
<1>1. /\ t \in sent /\ t # NoTxn /\ ~Handled(t) /\ TypeOK
      /\ DOMAIN pc = Links /\ DOMAIN txn = Links
      /\ row[t] = "PENDING" /\ Completions(t) = {}
  BY <1>0, AtWork DEF WorkOf
<1>2. /\ c \in {"91", decided[t]}
      /\ Completed(c) \in {"approved", "declined"}
      /\ Completed(c) = "approved" => decided[t] = "00"
  BY <1>0, CodeInHand
<1>3. /\ \A n \in Links \ {m} : pc'[n] = pc[n] /\ txn'[n] = txn[n]
      /\ pc'[m] = IF link[m] = "lost" THEN "fallback" ELSE "read"
      /\ txn'[m] = IF link[m] = "lost" THEN t ELSE NoTxn
  BY <1>0, <1>1
<1>4. /\ EventsOf(t)' /\ Completions(t)' # {}
      /\ \A u \in Txn \ {t} : fired'[u] = fired[u]
  <2>1. Completed(c) \in Event /\ Completed(c) # "received"
    BY <1>2 DEF Event
  <2> QED
    BY <1>0, <1>1, <1>2, <2>1, EventAdded
<1>5. UNCHANGED dbFaults /\ row'[t] = c /\ \A u \in Txn \ {t} : row'[u] = row[u]
  BY <1>0, <1>1 DEF DbOK, Updated, TypeOK
<1>6. /\ \A u \in Txn \ {t} : told'[u] = told[u]
      /\ told'[t] = IF link[m] = "open" THEN <<c>> ELSE <<>>
  BY <1>0, <1>1, <1>2, FirstReply
<1>7. WorkOf(m)'
  <2>1. "absent" \notin Code
    BY DEF Code, Verdict, AcquirerCode
  <2> QED
    BY <1>2, <1>3, <1>5, <1>6, <2>1 DEF WorkOf
<1>8. SettledOf(t)'
  <2>1. (\A n \in Links : link'[n] = "open") => told'[t] # <<>>
    BY <1>0, <1>6
  <2> QED
    BY <1>4, <1>5, <2>1 DEF SettledOf
<1>9. RowOf(t)'
  <2>1. told'[t] # <<>> => told'[t][1] = c
    BY <1>6
  <2> QED
    BY <1>0, <1>2, <1>5, <2>1 DEF RowOf, AcquirerCode
<1> QED
  BY <1>0, <1>1, <1>3, <1>4, <1>5, <1>6, <1>7, <1>8, <1>9, OwnRecords

\* The final update raises, committed or not: no completed event yet.
LEMMA SettleDoesNot ==
    ASSUME IInv, NEW m \in Links, SettleFails(m)
    PROVE  Outcome'
<1> DEFINE t == txn[m]
           c == code[m]
<1>0. /\ pc[m] = "settle" /\ DbFails(t, Updated(t, c))
      /\ UNCHANGED <<txn, link, inbox, sent, told, decided, fired>>
      /\ pc' = [pc EXCEPT ![m] = "fallback"]
  BY DEF SettleFails, Goto, merchantVars, issuerVars
<1>1. /\ t \in Txn /\ ~Handled(t) /\ EventsOf(t) /\ DOMAIN pc = Links /\ TypeOK
      /\ row[t] = "PENDING" /\ told[t] = <<>>
  BY <1>0, AtWork DEF WorkOf
<1>2. pc'[m] = "fallback" /\ \A n \in Links \ {m} : pc'[n] = pc[n]
  BY <1>0, <1>1
<1>3. c \in Code /\ c \in {"91", decided[t]} /\ Updated(t, c) = c
  BY <1>0, <1>1, CodeInHand DEF Updated
<1>4. /\ \A u \in Txn \ {t} : row'[u] = row[u] /\ dbFaults'[u] = dbFaults[u]
      /\ row'[t] \in {"PENDING", c}
  BY <1>0, <1>1, <1>3, DbCall
<1>5. EventsOf(t)'
  BY <1>0, <1>1 DEF EventsOf
<1>6. WorkOf(m)'
  <2>1. "absent" \notin Code
    BY DEF Code, Verdict, AcquirerCode
  <2> QED
    BY <1>0, <1>1, <1>2, <1>3, <1>4, <2>1 DEF WorkOf
<1>7. SettledOf(t)'
  BY <1>0, <1>1 DEF SettledOf, Handled
<1>8. RowOf(t)'
  BY <1>0, <1>1, <1>3, <1>4 DEF RowOf, AcquirerCode
<1> QED
  BY <1>0, <1>1, <1>2, <1>4, <1>5, <1>6, <1>7, <1>8, OwnRecords

\* The except clause settles the transaction with 96, whatever came before,
\* unless its update fails too, and answers it if the merchant is there.
LEMMA FallbackSettles ==
    ASSUME IInv, NEW m \in Links, Fallback(m)
    PROVE  Outcome'
<1> SUFFICES ASSUME NEW t \in Txn, txn[m] = t PROVE Outcome'
  BY AtWork DEF Fallback
<1>0. /\ pc[m] = "fallback"
      /\ DbOK(t, Updated(t, "96")) \/ DbFails(t, Updated(t, "96"))
      /\ Fire(m, "declined") /\ Told(m, "96")
      /\ UNCHANGED <<link, inbox, sent, decided>>
      /\ \E p \in {"read", "closed"} : pc' = [pc EXCEPT ![m] = p]
      /\ txn' = [txn EXCEPT ![m] = NoTxn]
  <2>1. Completed("96") = "declined"
    BY DEF Completed, Status
  <2> QED
    BY <2>1 DEF Fallback, FallbackDb, FallbackEvent, Finish, Goto, issuerVars
<1>1. /\ RowOf(t) /\ DOMAIN pc = Links /\ DOMAIN txn = Links /\ TypeOK
      /\ dbFaults[t] = 0 => row[t] # "absent"
  BY <1>0, AtWork DEF WorkOf
<1>2. /\ \A n \in Links \ {m} : pc'[n] = pc[n] /\ txn'[n] = txn[n]
      /\ pc'[m] \in {"read", "closed"} /\ txn'[m] = NoTxn
  BY <1>0, <1>1
<1>3. /\ EventsOf(t)' /\ Completions(t)' # {}
      /\ \A u \in Txn \ {t} : fired'[u] = fired[u]
  <2>1. "declined" \in Event
    BY DEF Event
  <2> QED
    BY <1>0, <2>1, EventAdded
<1>4. /\ \A u \in Txn \ {t} : row'[u] = row[u] /\ dbFaults'[u] = dbFaults[u]
      /\ row'[t] \in {row[t], "absent", "96"}
      /\ dbFaults'[t] = 0 => row'[t] = "96"
  BY <1>0, <1>1, DbCall DEF Updated
<1>5. /\ \A u \in Txn \ {t} : told'[u] = told[u]
      /\ told'[t] = IF link[m] = "open" THEN <<"96">> ELSE <<>>
  BY <1>0, <1>1, FirstReply DEF Code, AcquirerCode
<1>6. WorkOf(m)'
  BY <1>2 DEF WorkOf
<1>7. SettledOf(t)'
  <2>1. (\A n \in Links : link'[n] = "open") => told'[t] # <<>>
    BY <1>0, <1>5
  <2> QED
    BY <1>3, <1>4, <2>1 DEF SettledOf, Code, AcquirerCode
<1>8. RowOf(t)'
  <2>1. told'[t] # <<>> => told'[t][1] = "96"
    BY <1>5
  <2> QED
    BY <1>0, <1>1, <1>4, <2>1 DEF RowOf, AcquirerCode
<1> QED
  BY <1>0, <1>1, <1>2, <1>3, <1>4, <1>5, <1>6, <1>7, <1>8, OwnRecords

-----------------------------------------------------------------------------
(* The theorems *)

\* Before anything is sent nothing is on record.
LEMMA OutcomeInit == Init => Outcome
<1> SUFFICES ASSUME Init PROVE Outcome
  OBVIOUS
<1>1. /\ \A t \in Txn : Untouched(t) /\ t \notin sent
      /\ \A m \in Links : pc[m] = "read"
  BY DEF Init, Untouched
<1>2. UnreadIsUntouched /\ WorkIsOpen
  BY <1>1 DEF UnreadIsUntouched, WorkIsOpen, WorkOf
<1>3. EventsInOrder
  BY <1>1 DEF EventsInOrder, EventsOf, Untouched
<1>4. \A t \in Txn : SettledOf(t) /\ RowOf(t)
  BY <1>1 DEF SettledOf, RowOf, Handled, Untouched
<1> QED
  BY <1>2, <1>3, <1>4 DEF Outcome

\* Every step of the gateway and its surroundings preserves the invariant.
LEMMA InvStep == IInv /\ [Next]_vars => IInv'
<1> SUFFICES ASSUME IInv, [Next]_vars PROVE IInv'
  OBVIOUS
<1>1. Structure'
  BY StructureStep DEF IInv
<1>2. TypeOK'
  BY <1>1 DEF Structure
<1>3. ASSUME NEW m \in Links, HandlerStep(m) PROVE Outcome'
  BY <1>2, <1>3, QuietHandler, InsertSucceeds, InsertDoesNot, MarkSucceeds, MarkDoesNot,
     SettleSucceeds, SettleDoesNot, FallbackSettles DEF HandlerStep, Quiet
<1>4. Outcome'
  BY <1>2, <1>3, QuietEnvironment, GatewayCases
<1> QED
  BY <1>1, <1>4 DEF IInv

\* The inductive invariant.
THEOREM InvHolds == Spec => []IInv
<1>1. Init => IInv
  BY StructureInit, OutcomeInit DEF IInv
<1> QED
  BY <1>1, InvStep, PTL DEF Spec

\* An approval is announced at most once, and only for an approved transaction.
THEOREM ApprovalsAreTrue == Spec => []ApprovedOnce
<1>1. ASSUME IInv PROVE ApprovedOnce
  <2>1. ASSUME NEW t \in Txn, NEW A, A = {i \in 1 .. Len(fired[t]) : fired[t][i] = "approved"}
        PROVE  Cardinality(A) <= 1 /\ (A # {} => decided[t] = "00")
    <3>1. EventsOf(t)
      BY <1>1 DEF IInv, Outcome, EventsInOrder
    <3>2. A # {} => decided[t] = "00"
      BY <2>1, <3>1 DEF EventsOf
    <3>3. CASE A = {}
      BY <3>2, <3>3, FS_EmptySet
    <3>4. CASE A # {}
      <4>1. PICK i \in A : TRUE
        BY <3>4
      <4>2. A = {i}
        BY <2>1, <3>1, <4>1 DEF EventsOf
      <4>3. Cardinality(A) = 1
        BY <4>2, FS_Singleton
      <4> QED
        BY <3>2, <4>3
    <3> QED
      BY <3>3, <3>4
  <2> QED
    BY <2>1 DEF ApprovedOnce
<1> QED
  BY <1>1, InvHolds, PTL

\* Whatever raises on the way, a transaction that was read ends with its
\* events, its row and its reply.
THEOREM ReadIsSettled == Spec => []HandledIsSettled
<1>1. ASSUME IInv PROVE HandledIsSettled
  <2>1. \A t \in Txn : SettledOf(t) /\ EventsOf(t)
    BY <1>1 DEF IInv, Outcome, EventsInOrder
  <2> QED
    BY <2>1 DEF HandledIsSettled, SettledOf, EventsOf
<1> QED
  BY <1>1, InvHolds, PTL

\* The database says what the merchant was told, and no code of the issuer's
\* but its decision for this very transaction.
THEOREM RowsAreTrue == Spec => []RowIsTrue
<1>1. IInv => RowIsTrue
  BY DEF IInv, Outcome, RowOf, RowIsTrue
<1> QED
  BY <1>1, InvHolds, PTL

-----------------------------------------------------------------------------
(* What a step may do to an answered transaction, and to an answer *)

\* A handler writes the row of its own transaction, which is not answered yet.
LEMMA AnsweredRowKept ==
    ASSUME IInv, NEW m \in Links, HandlerStep(m), NEW t \in Txn, told[t] # <<>>
    PROVE  row'[t] = row[t]
<1>1. CASE pc[m] \in {"read", "closed"} \/ UNCHANGED row
  <2>1. UNCHANGED row
    BY <1>1 DEF HandlerStep, Receive, EndOfLink, InsertOK, InsertFails, MarkOK, MarkFails,
       AcquireProceeds, ConnectFails, ReadReply, ReadReset, ReadEof, ReleaseProceeds,
       SettleOK, SettleFails, Fallback, dbVars
  <2> QED
    BY <2>1
<1>2. CASE pc[m] \notin {"read", "closed"} /\ row' # row
  <2>1. txn[m] \in Txn /\ TypeOK /\ told[txn[m]] = <<>>
    BY <1>2, AtWork DEF WorkOf
  <2>2. \E new : DbOK(txn[m], new) \/ DbFails(txn[m], new)
    BY <1>2 DEF HandlerStep, Receive, EndOfLink, InsertOK, InsertFails, MarkOK, MarkFails,
       AcquireProceeds, ConnectFails, ReadReply, ReadReset, ReadEof, ReleaseProceeds,
       SettleOK, SettleFails, Fallback, FallbackDb, dbVars
  <2>3. t \in Txn \ {txn[m]}
    BY <2>1
  <2> QED
    BY <2>1, <2>2, <2>3, DbCall
<1> QED
  BY <1>1, <1>2

\* The 96 of the except clause never overwrites the row of a transaction that
\* was answered, nor does any other step.
THEOREM AnswersAreFinal == Spec => ToldIsFinal
<1>1. ASSUME IInv, [Next]_vars, NEW t \in Txn, told[t] # <<>> PROVE row'[t] = row[t]
  <2>1. CASE \E m \in Links : HandlerStep(m)
    BY <1>1, <2>1, AnsweredRowKept
  <2>2. CASE ~\E m \in Links : HandlerStep(m)
    BY <1>1, <2>2, GatewayCases DEF vars, dbVars, MerchantSends, LinkFails, IssuerDecides,
       IssuerFails
  <2> QED
    BY <2>1, <2>2
<1>2. IInv /\ [Next]_vars => [\A t \in Txn : told[t] # <<>> => row'[t] = row[t]]_vars
  BY <1>1
<1> QED
  BY <1>2, InvHolds, PTL DEF Spec, ToldIsFinal

-----------------------------------------------------------------------------
(* The gateway implements Authorization *)

\* Nothing is submitted, decided or answered at first.
LEMMA InitFollows == Init => Protocol!Init
BY DEF Init, Protocol!Init

\* An answer is the first to a transaction that was sent, and the issuer's
\* decision or one of the acquirer's own codes.
LEMMA AnswerFollows ==
    ASSUME IInv, NEW m \in Links, pc[m] \notin {"read", "closed"},
           NEW c \in AcquirerCode \cup {decided[txn[m]]}, c \in Code, Told(m, c),
           UNCHANGED <<sent, decided>>
    PROVE  [Protocol!Next]_(Protocol!vars)
<1> DEFINE t == txn[m]
<1>1. t \in Txn /\ t \in sent /\ told[t] = <<>> /\ told \in [Txn -> Seq(Code)]
  BY AtWork DEF WorkOf, TypeOK
<1>2. CASE link[m] = "open"
  <2>1. told' = [told EXCEPT ![t] = <<c>>]
    BY <1>1, <1>2 DEF Told
  <2>2. c \in AcquirerCode \/ (decided[t] # NoCode /\ c = decided[t])
    BY DEF Code, Verdict, AcquirerCode, NoCode
  <2>3. Protocol!Tell(t, c)
    BY <1>1, <2>1, <2>2 DEF Protocol!Tell
  <2> QED
    BY <1>1, <2>3 DEF Protocol!Next, Code
<1>3. CASE link[m] # "open"
  BY <1>3 DEF Told, Protocol!vars
<1> QED
  BY <1>2, <1>3

\* Every step of the gateway is one of the protocol or does not concern it.
LEMMA StepFollows == IInv /\ [Next]_vars => [Protocol!Next]_(Protocol!vars)
<1> SUFFICES ASSUME IInv, [Next]_vars PROVE [Protocol!Next]_(Protocol!vars)
  OBVIOUS
<1>1. CASE UNCHANGED <<sent, decided, told>>
  BY <1>1 DEF Protocol!vars
<1>2. ASSUME NEW m \in Links, SettleOK(m) PROVE [Protocol!Next]_(Protocol!vars)
  <2>1. /\ code[m] \in Code /\ code[m] \in AcquirerCode \cup {decided[txn[m]]}
        /\ Told(m, code[m]) /\ UNCHANGED <<sent, decided>>
        /\ pc[m] \notin {"read", "closed"}
    BY <1>2, CodeInHand DEF SettleOK, AcquirerCode, issuerVars
  <2> QED
    BY <2>1, AnswerFollows
<1>3. ASSUME NEW m \in Links, Fallback(m) PROVE [Protocol!Next]_(Protocol!vars)
  <2>1. /\ "96" \in Code /\ "96" \in AcquirerCode
        /\ Told(m, "96") /\ UNCHANGED <<sent, decided>>
        /\ pc[m] \notin {"read", "closed"}
    BY <1>3 DEF Fallback, Code, AcquirerCode, issuerVars
  <2> QED
    BY <2>1, AnswerFollows
<1>4. ASSUME NEW m \in Links, NEW t \in Txn, MerchantSends(m, t)
      PROVE  [Protocol!Next]_(Protocol!vars)
  <2>1. Protocol!Submit(t)
    BY <1>4 DEF MerchantSends, Protocol!Submit, issuerVars
  <2> QED
    BY <2>1 DEF Protocol!Next
<1>5. ASSUME NEW t \in Txn, NEW v \in Verdict, IssuerDecides(t, v)
      PROVE  [Protocol!Next]_(Protocol!vars)
  <2>1. t \in sent
    BY <1>5 DEF IssuerDecides, IInv, Structure, WireMatches
  <2>2. Protocol!Decide(t, v)
    BY <1>5, <2>1 DEF IssuerDecides, Protocol!Decide, merchantVars
  <2> QED
    BY <2>2 DEF Protocol!Next
<1>6. ASSUME NEW m \in Links, HandlerStep(m), ~SettleOK(m), ~Fallback(m)
      PROVE  UNCHANGED <<sent, decided, told>>
  BY <1>6 DEF HandlerStep, Receive, EndOfLink, InsertOK, InsertFails, MarkOK, MarkFails,
     AcquireProceeds, ConnectFails, ReadReply, ReadReset, ReadEof, ReleaseProceeds,
     SettleFails, merchantVars, issuerVars
<1>7. ASSUME \/ UNCHANGED vars
             \/ \E m \in Links, s \in {"eof", "lost"} : LinkFails(m, s)
             \/ \E k \in Conn : IssuerFails(k)
      PROVE  UNCHANGED <<sent, decided, told>>
  BY <1>7 DEF vars, LinkFails, IssuerFails, merchantVars, issuerVars
<1> QED
  BY <1>1, <1>2, <1>3, <1>4, <1>5, <1>6, <1>7, GatewayCases

\* What merchants and issuer see is an authorization protocol: each request
\* decided at most once, and answered at most once with that decision or a
\* decline of the acquirer's own.
THEOREM GatewayFollowsProtocol == Spec => FollowsProtocol
BY InitFollows, StepFollows, InvHolds, PTL DEF FollowsProtocol, Spec, Protocol!Spec
=============================================================================
