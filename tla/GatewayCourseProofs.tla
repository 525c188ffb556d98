------------------------- MODULE GatewayCourseProofs -------------------------
(***************************************************************************)
(* How often a transaction completes, for every number of merchants,       *)
(* transactions, connections and failing database calls.  An exception     *)
(* after the completed event is the only way to a second one, and only the *)
(* write to a lost merchant connection raises there.                       *)
(***************************************************************************)
EXTENDS GatewayOutcomeProofs

Over == {"approved", "declined"}

CourseOf(t) ==
    /\ Cardinality(Completions(t)) <= 2
    /\ Cardinality(Completions(t)) = 2 =>
          Begun(t) /\ told[t] = <<>> /\ \E m \in Links : link[m] = "lost"
    /\ Completions(t) # {} /\ ~Begun(t) =>
          Cardinality(Completions(t)) = 1 /\ dbFaults[t] # 0

\* Where the handler's transaction stands when the except clause is entered:
\* open, not received, or completed before a reply that could not be written.
WayOf(m) ==
    /\ pc[m] \in {"mark", "forward", "settle"} => Begun(txn[m])
    /\ pc[m] = "fallback" =>
          \/ Begun(txn[m]) /\ Completions(txn[m]) = {}
          \/ fired[txn[m]] = <<>> /\ dbFaults[txn[m]] # 0
          \/ Begun(txn[m]) /\ Cardinality(Completions(txn[m])) = 1 /\ link[m] = "lost"

Course == (\A t \in Txn : CourseOf(t)) /\ \A m \in Links : WayOf(m)

\* Handler m fires event e.
Fires(m, e) ==
    /\ Fire(m, e)
    /\ \/ InsertOK(m) /\ e = "received"
       \/ MarkOK(m) /\ e = "forwarded_to_issuer"
       \/ SettleOK(m) /\ e = Completed(code[m])
       \/ Fallback(m) /\ e = "declined"

\* A step fires no event, or one.
LEMMA FiresOrNot ==
    ASSUME IInv, [Next]_vars
    PROVE  \/ UNCHANGED <<fired, told>>
           \/ \E m \in Links, e \in Event : Fires(m, e)
<1>1. ASSUME NEW m \in Links, HandlerStep(m)
      PROVE  UNCHANGED <<fired, told>> \/ \E e \in Event : Fires(m, e)
  <2>1. CASE InsertOK(m) \/ MarkOK(m) \/ SettleOK(m) \/ Fallback(m)
    <3>1. Completed("96") = "declined" /\ \A c : Completed(c) \in Event
      BY DEF Completed, Status, Event
    <3> QED
      BY <2>1, <3>1 DEF Fires, InsertOK, MarkOK, SettleOK, Fallback, FallbackEvent, Event
  <2>2. CASE ~(InsertOK(m) \/ MarkOK(m) \/ SettleOK(m) \/ Fallback(m))
    BY <1>1, <2>2 DEF HandlerStep, Receive, EndOfLink, InsertFails, MarkFails, AcquireProceeds,
       ConnectFails, ReadReply, ReadReset, ReadEof, ReleaseProceeds, SettleFails, handlerVars,
       merchantVars
  <2> QED
    BY <2>1, <2>2
<1>2. ASSUME \/ UNCHANGED vars
             \/ \E m \in Links, t \in Txn : MerchantSends(m, t)
             \/ \E m \in Links, s \in {"eof", "lost"} : LinkFails(m, s)
             \/ \E t \in Txn, v \in Verdict : IssuerDecides(t, v)
             \/ \E k \in Conn : IssuerFails(k)
      PROVE  UNCHANGED <<fired, told>>
  BY <1>2 DEF vars, handlerVars, merchantVars, MerchantSends, LinkFails, IssuerDecides,
     IssuerFails
<1> QED
  BY <1>1, <1>2, GatewayCases

\* The completions are finitely many.
LEMMA CompletionsFinite ==
    ASSUME TypeOK, NEW t \in Txn
    PROVE  /\ IsFiniteSet(Completions(t)) /\ Cardinality(Completions(t)) \in Nat
           /\ Cardinality(Completions(t)) = 0 <=> Completions(t) = {}
<1>1. fired[t] \in Seq(Event)
  BY DEF TypeOK
<1>2. Len(fired[t]) \in Nat
  BY <1>1
<1>3. IsFiniteSet(1 .. Len(fired[t])) /\ Completions(t) \subseteq 1 .. Len(fired[t])
  BY <1>2, FS_Interval DEF Completions
<1>4. IsFiniteSet(Completions(t))
  BY <1>3, FS_Subset
<1> QED
  BY <1>4, FS_CardinalityType, FS_EmptySet

\* What an event does to its transaction, and that it leaves the others alone.
LEMMA EventCourse ==
    ASSUME IInv, NEW m \in Links, NEW e \in Event, Fires(m, e), NEW t \in Txn, t = txn[m]
    PROVE  /\ \A u \in Txn \ {t} : /\ fired'[u] = fired[u]
                                   /\ Completions(u)' = Completions(u)
                                   /\ Begun(u)' <=> Begun(u)
           /\ Begun(t)' <=> Begun(t) \/ (fired[t] = <<>> /\ e = "received")
           /\ fired'[t] # <<>>
           /\ e \notin Over => Completions(t)' = Completions(t)
           /\ Cardinality(Completions(t)') =
                 Cardinality(Completions(t)) + IF e \in Over THEN 1 ELSE 0
<1>1. TypeOK /\ fired \in [Txn -> Seq(Event)] /\ fired[t] \in Seq(Event)
  BY DEF IInv, Structure, TypeOK
<1>2. fired' = [fired EXCEPT ![t] = Append(fired[t], e)]
  BY DEF Fires, Fire
<1>3. /\ Len(fired[t]) \in Nat
      /\ Len(fired'[t]) = Len(fired[t]) + 1
      /\ fired'[t][Len(fired[t]) + 1] = e
      /\ \A i \in 1 .. Len(fired[t]) : fired'[t][i] = fired[t][i]
  BY <1>1, <1>2
<1>4. \A u \in Txn \ {t} : fired'[u] = fired[u]
  BY <1>1, <1>2
<1>5. \A u \in Txn \ {t} : Completions(u)' = Completions(u) /\ (Begun(u)' <=> Begun(u))
  BY <1>4 DEF Completions, Begun
<1>6. fired'[t] # <<>>
  BY <1>3
<1>7. Begun(t)' <=> Begun(t) \/ (fired[t] = <<>> /\ e = "received")
  <2>1. CASE fired[t] = <<>>
    BY <1>3, <1>6, <2>1 DEF Begun
  <2>2. CASE fired[t] # <<>>
    <3>1. Len(fired[t]) # 0
      BY <1>1, <2>2, EmptySeq
    <3>2. 1 \in 1 .. Len(fired[t])
      BY <1>3, <3>1
    <3> QED
      BY <1>3, <1>6, <2>2, <3>2 DEF Begun
  <2> QED
    BY <2>1, <2>2
<1>8. Completions(t)' = IF e \in Over THEN Completions(t) \cup {Len(fired[t]) + 1}
                                      ELSE Completions(t)
  <2>1. \A i : i \in 1 .. Len(fired'[t]) <=> i \in 1 .. Len(fired[t]) \/ i = Len(fired[t]) + 1
    BY <1>3
  <2> QED
    BY <1>3, <2>1 DEF Completions, Over
<1>9. Len(fired[t]) + 1 \notin Completions(t)
  BY <1>3 DEF Completions
<1>10. Cardinality(Completions(t)') =
          Cardinality(Completions(t)) + IF e \in Over THEN 1 ELSE 0
  <2>1. IsFiniteSet(Completions(t)) /\ Cardinality(Completions(t)) \in Nat
    BY <1>1, CompletionsFinite
  <2>2. Cardinality(Completions(t) \cup {Len(fired[t]) + 1}) = Cardinality(Completions(t)) + 1
    BY <1>9, <2>1, FS_AddElement
  <2>3. CASE e \in Over
    BY <1>8, <2>2, <2>3
  <2>4. CASE e \notin Over
    BY <1>8, <2>1, <2>4
  <2> QED
    BY <2>3, <2>4
<1> QED
  BY <1>4, <1>5, <1>6, <1>7, <1>8, <1>10

\* Nothing gets better: a database fault stays counted, a lost link lost.
LEMMA FaultsStay ==
    ASSUME IInv, [Next]_vars
    PROVE  /\ \A t \in Txn : dbFaults[t] # 0 => dbFaults'[t] # 0
           /\ \A m \in Links : link[m] = "lost" => link'[m] = "lost"
<1>1. link \in [Links -> {"open", "eof", "lost"}]
  BY DEF IInv, Structure, TypeOK
<1>2. UNCHANGED link \/ \E n \in Links, s \in {"eof", "lost"} : LinkFails(n, s)
  BY GatewayCases DEF vars, merchantVars, HandlerStep, Receive, EndOfLink, InsertOK,
     InsertFails, MarkOK, MarkFails, AcquireProceeds, ConnectFails, ReadReply, ReadReset,
     ReadEof, ReleaseProceeds, SettleOK, SettleFails, Fallback, MerchantSends,
     IssuerDecides, IssuerFails
<1>3. \/ UNCHANGED dbFaults
      \/ \E m \in Links : /\ pc[m] \notin {"read", "closed"}
                           /\ \E new : DbOK(txn[m], new) \/ DbFails(txn[m], new)
  BY GatewayCases DEF vars, dbVars, HandlerStep, Receive, EndOfLink, InsertOK,
     InsertFails, MarkOK, MarkFails, AcquireProceeds, ConnectFails, ReadReply, ReadReset,
     ReadEof, ReleaseProceeds, SettleOK, SettleFails, Fallback, FallbackDb, MerchantSends,
     LinkFails, IssuerDecides, IssuerFails
<1>4. ASSUME NEW m \in Links, NEW new, pc[m] \notin {"read", "closed"},
             DbOK(txn[m], new) \/ DbFails(txn[m], new), NEW t \in Txn, dbFaults[t] # 0
      PROVE  dbFaults'[t] # 0
  <2>1. txn[m] \in Txn /\ TypeOK
    BY <1>4, AtWork
  <2> QED
    BY <1>4, <2>1, DbCall
<1>5. \A m \in Links : link[m] = "lost" => link'[m] = "lost"
  BY <1>1, <1>2 DEF LinkFails
<1> QED
  BY <1>3, <1>4, <1>5

-----------------------------------------------------------------------------
(* The steps *)

\* Where a handler is after a step.
LEMMA HandlerMoves ==
    ASSUME IInv, [Next]_vars, NEW n \in Links
    PROVE  \/ pc'[n] \in {"read", "insert", "closed"}
           \/ /\ txn'[n] = txn[n]
              /\ \/ pc'[n] = pc[n]
                 \/ /\ pc[n] \in {"mark", "forward", "settle"}
                    /\ pc'[n] \in {"mark", "forward", "settle", "fallback"}
                 \/ InsertOK(n) \/ InsertFails(n)
<1> DEFINE Moves == \/ pc'[n] \in {"read", "insert", "closed"}
                    \/ /\ txn'[n] = txn[n]
                       /\ \/ pc'[n] = pc[n]
                          \/ /\ pc[n] \in {"mark", "forward", "settle"}
                             /\ pc'[n] \in {"mark", "forward", "settle", "fallback"}
                          \/ InsertOK(n) \/ InsertFails(n)
<1>0. DOMAIN pc = Links /\ DOMAIN txn = Links
  BY DEF IInv, Structure, TypeOK
<1>1. ASSUME NEW m \in Links, HandlerStep(m), m # n PROVE Moves
  <2>1. pc'[n] = pc[n] /\ txn'[n] = txn[n]
    BY <1>0, <1>1 DEF HandlerStep, Receive, EndOfLink, InsertOK, InsertFails, MarkOK,
       MarkFails, AcquireProceeds, ConnectFails, ReadReply, ReadReset, ReadEof,
       ReleaseProceeds, SettleOK, SettleFails, Fallback, Finish, Goto, handlerVars
  <2> QED
    BY <2>1
<1>2. ASSUME HandlerStep(n) PROVE Moves
  <2>1. CASE Receive(n) \/ EndOfLink(n) \/ Fallback(n)
    BY <1>0, <2>1 DEF Receive, EndOfLink, Fallback, Finish, Goto
  <2>2. CASE MarkOK(n) \/ MarkFails(n) \/ ReadReply(n) \/ ReadReset(n) \/ ReadEof(n)
    BY <1>0, <2>2 DEF MarkOK, MarkFails, ReadReply, ReadReset, ReadEof, Goto
  <2>3. CASE SettleOK(n) \/ SettleFails(n)
    BY <1>0, <2>3 DEF SettleOK, SettleFails, Finish, Goto
  <2>4. CASE ConnectFails(n)
    <3>1. phase[n] = "connecting" /\ UNCHANGED txn /\ pc' = [pc EXCEPT ![n] = "settle"]
      BY <2>4 DEF ConnectFails, Pool!ConnectFail, Goto
    <3>2. pc[n] = "forward"
      BY <3>1 DEF IInv, Structure, PhaseMatchesPc
    <3> QED
      BY <1>0, <3>1, <3>2
  <2>5. CASE AcquireProceeds(n) \/ ReleaseProceeds(n)
    BY <2>5 DEF AcquireProceeds, ReleaseProceeds, handlerVars
  <2>6. CASE InsertOK(n) \/ InsertFails(n)
    BY <2>6 DEF InsertOK, InsertFails
  <2> QED
    BY <1>2, <2>1, <2>2, <2>3, <2>4, <2>5, <2>6 DEF HandlerStep
<1>3. CASE ~\E m \in Links : HandlerStep(m)
  <2>1. UNCHANGED <<pc, txn>>
    BY <1>3, GatewayCases DEF vars, handlerVars, MerchantSends, LinkFails, IssuerDecides,
       IssuerFails
  <2> QED
    BY <2>1
<1> QED
  BY <1>1, <1>2, <1>3

\* Without an event, what was completed stays completed and no more is.
LEMMA CourseQuiet ==
    ASSUME IInv, Course, [Next]_vars, UNCHANGED <<fired, told>>
    PROVE  Course'
<1>1. /\ \A t \in Txn : dbFaults[t] # 0 => dbFaults'[t] # 0
      /\ \A m \in Links : link[m] = "lost" => link'[m] = "lost"
  BY FaultsStay
<1>2. \A t : /\ Completions(t)' = Completions(t) /\ (Begun(t)' <=> Begun(t))
             /\ fired'[t] = fired[t] /\ told'[t] = told[t]
  BY DEF Completions, Begun
<1>3. ASSUME NEW t \in Txn PROVE CourseOf(t)'
  <2>1. CourseOf(t)
    BY DEF Course
  <2> QED
    BY <1>1, <1>2, <2>1 DEF CourseOf
<1>4. ASSUME NEW n \in Links PROVE WayOf(n)'
  <2>0. WayOf(n)
    BY DEF Course
  <2>1. CASE pc'[n] \in {"read", "insert", "closed"}
    BY <2>1 DEF WayOf
  <2>2. CASE txn'[n] = txn[n] /\ pc'[n] = pc[n] /\ pc[n] \notin {"read", "insert", "closed"}
    <3>1. txn[n] \in Txn
      BY <2>2, AtWork
    <3> QED
      BY <1>1, <1>2, <2>0, <2>2, <3>1 DEF WayOf
  <2>3. CASE /\ txn'[n] = txn[n]
             /\ pc[n] \in {"mark", "forward", "settle"}
             /\ pc'[n] \in {"mark", "forward", "settle", "fallback"}
    <3>1. PICK t \in Txn : t = txn[n]
      BY <2>3, AtWork
    <3>2. Begun(t) /\ Completions(t) = {}
      BY <2>0, <2>3, <3>1, AtWork DEF WayOf, WorkOf
    <3>3. Begun(t)' /\ Completions(t)' = {} /\ txn'[n] = t
      BY <1>2, <2>3, <3>1, <3>2
    <3> QED
      BY <2>3, <3>3 DEF WayOf
  <2>4. CASE InsertOK(n)
    <3>1. Fires(n, "received") /\ "received" \in Event
      BY <2>4 DEF InsertOK, Fires, Event
    <3>2. PICK t \in Txn : t = txn[n]
      BY <2>4, AtWork DEF InsertOK
    <3>3. fired[t] = <<>>
      BY <2>4, <3>2, AtWork DEF InsertOK, WorkOf, Untouched
    <3>4. fired'[t] # <<>>
      BY <3>1, <3>2, EventCourse
    <3> QED
      BY <1>2, <3>3, <3>4
  <2>5. CASE InsertFails(n)
    <3>1. PICK t \in Txn : t = txn[n]
      BY <2>5, AtWork DEF InsertFails
    <3>2. fired[t] = <<>> /\ TypeOK
      BY <2>5, <3>1, AtWork DEF InsertFails, WorkOf, Untouched
    <3>3. dbFaults' = [dbFaults EXCEPT ![t] = @ + 1]
      BY <2>5, <3>1, DbFailure DEF InsertFails
    <3>4. dbFaults \in [Txn -> Nat]
      BY <3>2 DEF TypeOK
    <3>5. dbFaults'[t] # 0
      BY <3>3, <3>4
    <3>6. txn'[n] = t /\ pc'[n] = "fallback"
      BY <2>5, <3>1, <3>2 DEF InsertFails, Goto, TypeOK
    <3> QED
      BY <1>2, <3>2, <3>5, <3>6 DEF WayOf
  <2> QED
    BY <2>1, <2>2, <2>3, <2>4, <2>5, HandlerMoves
<1> QED
  BY <1>3, <1>4 DEF Course

\* The event of a handler, by where the handler was.
LEMMA CourseFires ==
    ASSUME IInv, Course, [Next]_vars, NEW m \in Links, NEW e \in Event, Fires(m, e)
    PROVE  Course'
<1>0. pc[m] \in {"insert", "mark", "settle", "fallback"}
  BY DEF Fires, InsertOK, MarkOK, SettleOK, Fallback
<1>1. PICK t \in Txn : t = txn[m]
  BY <1>0, AtWork
<1>2. /\ TypeOK /\ DOMAIN pc = Links /\ DOMAIN txn = Links /\ WorkOf(m) /\ WayOf(m)
      /\ CourseOf(t) /\ told[t] = <<>> /\ told \in [Txn -> Seq(Code)]
  BY <1>0, <1>1, AtWork DEF Course, WorkOf, TypeOK
<1>3. /\ \A u \in Txn : dbFaults[u] # 0 => dbFaults'[u] # 0
      /\ \A n \in Links : link[n] = "lost" => link'[n] = "lost"
  BY FaultsStay
<1>4. /\ \A u \in Txn \ {t} : /\ fired'[u] = fired[u]
                              /\ Completions(u)' = Completions(u)
                              /\ Begun(u)' <=> Begun(u)
      /\ Begun(t)' <=> Begun(t) \/ (fired[t] = <<>> /\ e = "received")
      /\ e \notin Over => Completions(t)' = Completions(t)
      /\ Cardinality(Completions(t)') =
            Cardinality(Completions(t)) + IF e \in Over THEN 1 ELSE 0
  BY <1>1, EventCourse
<1>5. /\ \A u \in Txn \ {t} : told'[u] = told[u]
      /\ link[m] = "lost" => told'[t] = <<>>
  <2>1. told' = told \/ \E c : Told(m, c)
    BY DEF Fires, InsertOK, MarkOK, SettleOK, Fallback, merchantVars
  <2> QED
    BY <1>1, <1>2, <2>1 DEF Told
<1>6. Completions(t) = {} => Cardinality(Completions(t)) = 0
  BY FS_EmptySet
<1>7. fired[t] = <<>> => Completions(t) = {} /\ ~Begun(t)
  BY DEF Completions, Begun
<1>8. ASSUME NEW u \in Txn, u # t PROVE CourseOf(u)'
  <2>1. CourseOf(u)
    BY DEF Course
  <2> QED
    BY <1>3, <1>4, <1>5, <1>8, <2>1 DEF CourseOf
<1>9. ASSUME NEW n \in Links, n # m PROVE WayOf(n)'
  <2>0. WayOf(n)
    BY DEF Course
  <2>1. pc'[n] = pc[n] /\ txn'[n] = txn[n]
    BY <1>2, <1>9 DEF Fires, InsertOK, MarkOK, SettleOK, Fallback, Finish, Goto
  <2>2. CASE pc[n] \in {"read", "closed", "insert"}
    BY <2>1, <2>2 DEF WayOf
  <2>3. CASE pc[n] \notin {"read", "closed", "insert"}
    <3>1. txn[n] \in Txn /\ txn[n] # NoTxn /\ t # NoTxn
      BY <1>0, <1>1, <2>3, AtWork
    <3>2. txn[n] # t
      BY <1>1, <1>9, <3>1 DEF IInv, Structure, OwnTask
    <3> QED
      BY <1>3, <1>4, <2>0, <2>1, <3>1, <3>2 DEF WayOf
  <2> QED
    BY <2>2, <2>3
<1>10. CASE InsertOK(m)
  <2>1. e = "received" /\ pc'[m] \in {"mark", "fallback"} /\ UNCHANGED txn
    BY <1>2, <1>10 DEF Fires, InsertOK, MarkOK, SettleOK, Fallback, Goto
  <2>2. fired[t] = <<>>
    BY <1>1, <1>2, <1>10 DEF InsertOK, WorkOf, Untouched
  <2>3. Begun(t)' /\ Completions(t)' = {} /\ Cardinality(Completions(t)') = 0
    BY <1>4, <1>6, <1>7, <2>1, <2>2 DEF Over
  <2>4. CourseOf(t)'
    BY <2>3 DEF CourseOf
  <2>5. WayOf(m)'
    BY <1>1, <2>1, <2>3 DEF WayOf
  <2> QED
    BY <1>8, <1>9, <2>4, <2>5 DEF Course
<1>11. CASE MarkOK(m)
  <2>1. e = "forwarded_to_issuer" /\ pc'[m] = "forward" /\ UNCHANGED txn /\ pc[m] = "mark"
    BY <1>2, <1>11 DEF Fires, InsertOK, MarkOK, SettleOK, Fallback, Goto
  <2>2. Begun(t) /\ Completions(t) = {}
    BY <1>1, <1>2, <2>1 DEF WorkOf, WayOf
  <2>3. Begun(t)' /\ Completions(t)' = {} /\ Cardinality(Completions(t)') = 0
    BY <1>4, <1>6, <2>1, <2>2 DEF Over
  <2>4. CourseOf(t)'
    BY <2>3 DEF CourseOf
  <2>5. WayOf(m)'
    BY <1>1, <2>1, <2>3 DEF WayOf
  <2> QED
    BY <1>8, <1>9, <2>4, <2>5 DEF Course
<1>12. CASE SettleOK(m)
  <2>1. /\ e \in Over /\ pc[m] = "settle"
        /\ IF link[m] = "lost" THEN pc'[m] = "fallback" /\ txn'[m] = t ELSE pc'[m] = "read"
    BY <1>1, <1>2, <1>12, CodeInHand
       DEF Fires, InsertOK, MarkOK, SettleOK, Fallback, Finish, Goto, Over
  <2>2. Begun(t) /\ Completions(t) = {}
    BY <1>1, <1>2, <2>1 DEF WorkOf, WayOf
  <2>3. Begun(t)' /\ Cardinality(Completions(t)') = 1
    BY <1>4, <1>6, <2>1, <2>2
  <2>4. CourseOf(t)'
    BY <2>3 DEF CourseOf
  <2>5. WayOf(m)'
    BY <1>3, <2>1, <2>3 DEF WayOf
  <2> QED
    BY <1>8, <1>9, <2>4, <2>5 DEF Course
<1>13. CASE Fallback(m)
  <2>1. e \in Over /\ pc[m] = "fallback" /\ pc'[m] \in {"read", "closed"}
    BY <1>2, <1>13 DEF Fires, InsertOK, MarkOK, SettleOK, Fallback, Finish, Goto, Over
  <2>2. WayOf(m)'
    BY <2>1 DEF WayOf
  <2>3. CASE Begun(t) /\ Completions(t) = {}
    <3>1. Begun(t)' /\ Cardinality(Completions(t)') = 1
      BY <1>4, <1>6, <2>1, <2>3
    <3> QED
      BY <1>8, <1>9, <2>2, <3>1 DEF Course, CourseOf
  <2>4. CASE fired[t] = <<>> /\ dbFaults[t] # 0
    <3>1. dbFaults'[t] # 0 /\ Cardinality(Completions(t)') = 1
      BY <1>3, <1>4, <1>6, <1>7, <2>1, <2>4
    <3> QED
      BY <1>8, <1>9, <2>2, <3>1 DEF Course, CourseOf
  <2>5. CASE Begun(t) /\ Cardinality(Completions(t)) = 1 /\ link[m] = "lost"
    <3>1. Begun(t)' /\ Cardinality(Completions(t)') = 2 /\ told'[t] = <<>>
          /\ link'[m] = "lost"
      BY <1>3, <1>4, <1>5, <2>1, <2>5
    <3> QED
      BY <1>8, <1>9, <2>2, <3>1 DEF Course, CourseOf
  <2> QED
    BY <1>1, <1>2, <2>1, <2>3, <2>4, <2>5 DEF WayOf
<1> QED
  BY <1>10, <1>11, <1>12, <1>13 DEF Fires

\* Every step preserves the invariant.
LEMMA CourseStep == IInv /\ Course /\ [Next]_vars => Course'
BY FiresOrNot, CourseQuiet, CourseFires

\* Nothing is fired at first.
LEMMA CourseInit == Init => Course
<1> SUFFICES ASSUME Init PROVE Course
  OBVIOUS
<1>1. /\ \A t \in Txn : Completions(t) = {}
      /\ \A m \in Links : pc[m] = "read"
  BY DEF Init, Completions
<1>2. \A t \in Txn : Cardinality(Completions(t)) = 0
  BY <1>1, FS_EmptySet
<1> QED
  BY <1>1, <1>2 DEF Course, CourseOf, WayOf

\* The inductive invariant.
THEOREM CourseHolds == Spec => []Course
BY CourseInit, CourseStep, InvHolds, PTL DEF Spec

\* A transaction completes twice at most, and twice only over a reply that
\* could not be written; unreceived only if its insert failed.
THEOREM CompletesOnce == Spec => []CompletedOnce
<1>1. Course => CompletedOnce
  BY DEF Course, CourseOf, CompletedOnce
<1> QED
  BY <1>1, CourseHolds, PTL
=============================================================================
