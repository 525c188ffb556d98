------------------------- MODULE ObservedGatewayProofs -------------------------
(***************************************************************************)
(* What the dashboard counts of the gateway's events, for every number of  *)
(* transactions, of posts at a time and of posts that fail.                *)
(***************************************************************************)
EXTENDS ObservedGateway, GatewayCourseProofs

\* How many of the first n elements of s are in S.
CountUpTo(s, n, S) == Cardinality({i \in 1 .. n : s[i] \in S})

-----------------------------------------------------------------------------
(* Counting in a sequence *)

\* A count is a number.
LEMMA CountType ==
    ASSUME NEW s, NEW n \in Nat, NEW S
    PROVE  CountUpTo(s, n, S) \in Nat
<1> DEFINE C == {i \in 1 .. n : s[i] \in S}
<1>1. IsFiniteSet(1 .. n)
  BY FS_Interval
<1>2. C \in SUBSET (1 .. n)
  OBVIOUS
<1> HIDE DEF C
<1>3. IsFiniteSet(C)
  BY <1>1, <1>2, FS_Subset
<1>4. Cardinality(C) \in Nat
  BY <1>3, FS_CardinalityType
<1> QED
  BY <1>4 DEF CountUpTo, C

\* Nothing is counted among no elements.
LEMMA CountNone ==
    ASSUME NEW s, NEW S
    PROVE  CountUpTo(s, 0, S) = 0
<1>1. {i \in 1 .. 0 : s[i] \in S} = {}
  OBVIOUS
<1> QED
  BY <1>1, FS_EmptySet DEF CountUpTo

\* One element more counts if it is in S.
LEMMA CountNext ==
    ASSUME NEW s, NEW n \in Nat, NEW S
    PROVE  CountUpTo(s, n + 1, S) = CountUpTo(s, n, S) + IF s[n + 1] \in S THEN 1 ELSE 0
<1> DEFINE C == {i \in 1 .. n : s[i] \in S}
           D == {i \in 1 .. n + 1 : s[i] \in S}
<1>1. IsFiniteSet(1 .. n)
  BY FS_Interval
<1>2. C \in SUBSET (1 .. n) /\ n + 1 \notin C
  OBVIOUS
<1>3. D = IF s[n + 1] \in S THEN C \cup {n + 1} ELSE C
  OBVIOUS
<1> HIDE DEF C, D
<1>4. IsFiniteSet(C)
  BY <1>1, <1>2, FS_Subset
<1>5. Cardinality(C) \in Nat /\ Cardinality(C \cup {n + 1}) = Cardinality(C) + 1
  BY <1>2, <1>4, FS_AddElement, FS_CardinalityType
<1>6. Cardinality(D) = Cardinality(C) + IF s[n + 1] \in S THEN 1 ELSE 0
  BY <1>3, <1>5
<1> QED
  BY <1>6 DEF CountUpTo, C, D

\* r is s without its k-th element.
Without(s, k, r) ==
    /\ Len(s) = Len(r) + 1
    /\ \A i \in 1 .. Len(r) : r[i] = IF i < k THEN s[i] ELSE s[i + 1]

\* What is left counts one less if the element was in S.
LEMMA CountWithout ==
    ASSUME NEW s, NEW r, Len(r) \in Nat, NEW k \in Nat \ {0}, Without(s, k, r),
           NEW n \in Nat, k <= n, n <= Len(s), NEW S
    PROVE  CountUpTo(r, n - 1, S) = CountUpTo(s, n, S) - IF s[k] \in S THEN 1 ELSE 0
<1> DEFINE C == {i \in 1 .. n : s[i] \in S}
           D == {i \in 1 .. n - 1 : r[i] \in S}
           f == [i \in D |-> IF i < k THEN i ELSE i + 1]
<1>1. IsFiniteSet(1 .. n) /\ C \in SUBSET (1 .. n)
  BY FS_Interval
<1>2. \A i \in D : f[i] \in C \ {k}
  BY DEF Without
<1>3. \A i, j \in D : f[i] = f[j] => i = j
  OBVIOUS
<1>4. \A j \in C \ {k} : \E i \in D : f[i] = j
  <2> SUFFICES ASSUME NEW j \in C \ {k} PROVE \E i \in D : f[i] = j
    OBVIOUS
  <2>1. CASE j < k
    <3>1. j \in D
      BY <2>1 DEF Without
    <3> QED
      BY <2>1, <3>1
  <2>2. CASE j > k
    <3>1. j - 1 \in D
      BY <2>2 DEF Without
    <3> QED
      BY <2>2, <3>1
  <2> QED
    BY <2>1, <2>2
<1>5. f \in Bijection(D, C \ {k})
  BY <1>2, <1>3, <1>4 DEF Bijection, Injection, Surjection, IsInjective
<1>6. k \in C <=> s[k] \in S
  OBVIOUS
<1> HIDE DEF C, D, f
<1>7. IsFiniteSet(C) /\ Cardinality(C) \in Nat
  BY <1>1, FS_Subset, FS_CardinalityType
<1>8. /\ IsFiniteSet(C \ {k})
      /\ Cardinality(C \ {k}) = Cardinality(C) - IF s[k] \in S THEN 1 ELSE 0
  BY <1>6, <1>7, FS_RemoveElement
<1>9. Cardinality(D) = Cardinality(C \ {k})
  <2>1. f \in Injection(D, C \ {k}) /\ f \in Surjection(D, C \ {k})
    BY <1>5 DEF Bijection
  <2> QED
    BY <1>8, <2>1, FS_Injection
<1> QED
  BY <1>8, <1>9 DEF CountUpTo, C, D

-----------------------------------------------------------------------------
(* The events of a step, and their tasks *)

\* A step fires no event, or one.
LEMMA EventFired ==
    ASSUME IInv, [Next]_vars
    PROVE  \/ fired' = fired /\ NewEvents = <<>>
           \/ \E m \in Links, e \in Event : Fires(m, e) /\ NewEvents = <<e>>
<1>1. CASE fired' = fired
  BY <1>1 DEF NewEvents
<1>2. CASE fired' # fired
  <2>1. PICK m \in Links : InsertOK(m) \/ MarkOK(m) \/ SettleOK(m) \/ Fallback(m)
    BY <1>2, GatewayCases DEF vars, handlerVars, HandlerStep, Receive, EndOfLink,
       InsertFails, MarkFails, AcquireProceeds, ConnectFails, ReadReply, ReadReset, ReadEof,
       ReleaseProceeds, SettleFails, MerchantSends, LinkFails, IssuerDecides, IssuerFails
  <2>2. PICK e \in Event : Fires(m, e)
    <3>1. Completed("96") = "declined" /\ \A c : Completed(c) \in Event
      BY DEF Completed, Status, Event
    <3> QED
      BY <2>1, <3>1 DEF Fires, InsertOK, MarkOK, SettleOK, Fallback, FallbackEvent, Event
  <2>3. pc[m] \notin {"read", "closed"}
    BY <2>1 DEF InsertOK, MarkOK, SettleOK, Fallback
  <2>4. txn[m] \in Txn /\ fired \in [Txn -> Seq(Event)]
    BY <2>3, AtWork DEF TypeOK
  <2>5. fired' = [fired EXCEPT ![txn[m]] = Append(@, e)]
    BY <2>2 DEF Fires, Fire
  <2>6. /\ \A u \in Txn \ {txn[m]} : fired'[u] = fired[u]
        /\ fired'[txn[m]] = Append(fired[txn[m]], e)
    BY <2>4, <2>5
  <2>7. /\ Len(fired'[txn[m]]) = Len(fired[txn[m]]) + 1
        /\ fired'[txn[m]][Len(fired'[txn[m]])] = e
        /\ Len(fired[txn[m]]) \in Nat
    BY <2>4, <2>6
  <2>8. \A u \in Txn : fired'[u] # fired[u] <=> u = txn[m]
    BY <2>4, <2>6, <2>7
  <2>9. (CHOOSE u \in Txn : fired'[u] # fired[u]) = txn[m]
    BY <2>4, <2>8
  <2>10. NewEvents = <<e>>
    BY <1>2, <2>7, <2>9 DEF NewEvents
  <2> QED
    BY <2>2, <2>10
<1> QED
  BY <1>1, <1>2

\* A new task is the last one.
LEMMA TaskAdded ==
    ASSUME Board!TypeOK, NEW e \in Event, tasks' = tasks \o <<e>>
    PROVE  /\ tasks' \in Seq(Board!Stage)
           /\ Len(tasks) \in Nat /\ Len(tasks') = Len(tasks) + 1
           /\ tasks'[Len(tasks) + 1] = e
           /\ \A i \in 1 .. Len(tasks) : tasks'[i] = tasks[i]
<1>1. e \in Board!Stage /\ tasks \in Seq(Board!Stage)
  BY DEF Event, Board!Stage, Board!TypeOK
<1> QED
  BY <1>1

\* A post takes its task out of the others.
LEMMA TaskPosted ==
    ASSUME Board!TypeOK, NEW i \in 1 .. Len(tasks), tasks' = Board!RemoveAt(tasks, i)
    PROVE  /\ tasks' \in Seq(Board!Stage)
           /\ Len(tasks) \in Nat \ {0} /\ Len(tasks') = Len(tasks) - 1
           /\ Without(tasks, i, tasks')
<1>1. tasks \in Seq(Board!Stage) /\ Len(tasks) \in Nat \ {0} /\ i \in Nat \ {0}
  BY DEF Board!TypeOK
<1> DEFINE before == SubSeq(tasks, 1, i - 1)
           after == SubSeq(tasks, i + 1, Len(tasks))
<1>2. /\ before \in Seq(Board!Stage) /\ Len(before) = i - 1
      /\ \A j \in 1 .. i - 1 : before[j] = tasks[j]
  BY <1>1
<1>3. /\ after \in Seq(Board!Stage) /\ Len(after) = Len(tasks) - i
      /\ \A j \in 1 .. Len(tasks) - i : after[j] = tasks[i + j]
  BY <1>1
<1>4. tasks' = before \o after
  BY DEF Board!RemoveAt
<1> HIDE DEF before, after
<1>5. /\ tasks' \in Seq(Board!Stage)
      /\ Len(tasks') = Len(tasks) - 1
      /\ \A j \in 1 .. Len(tasks') :
            tasks'[j] = IF j <= i - 1 THEN before[j] ELSE after[j - (i - 1)]
  <2>1. /\ before \o after \in Seq(Board!Stage)
        /\ Len(before \o after) = Len(before) + Len(after)
        /\ \A j \in 1 .. Len(before) + Len(after) :
              (before \o after)[j] = IF j <= Len(before) THEN before[j]
                                                        ELSE after[j - Len(before)]
    <3>1. before \in Seq(Board!Stage) /\ after \in Seq(Board!Stage)
      BY <1>2, <1>3
    <3> QED
      BY <3>1, ConcatProperties
  <2>2. Len(before) + Len(after) = Len(tasks) - 1
    BY <1>1, <1>2, <1>3
  <2> QED
    BY <1>2, <1>4, <2>1, <2>2
<1>6. ASSUME NEW j \in 1 .. Len(tasks')
      PROVE  tasks'[j] = IF j < i THEN tasks[j] ELSE tasks[j + 1]
  <2>1. CASE j <= i - 1
    BY <1>1, <1>2, <1>5, <2>1
  <2>2. CASE ~(j <= i - 1)
    <3>1. j - (i - 1) \in 1 .. Len(tasks) - i /\ i + (j - (i - 1)) = j + 1
      BY <1>1, <1>5, <2>2
    <3> QED
      BY <1>1, <1>3, <1>5, <2>2, <3>1
  <2> QED
    BY <2>1, <2>2
<1> QED
  BY <1>1, <1>5, <1>6 DEF Without

\* The tasks of a step of the gateway: those of before, and the event it fired.
LEMMA GatewayTasks ==
    ASSUME IInv, Board!TypeOK, GatewayStep
    PROVE  /\ UNCHANGED <<failedPosts, late, outstanding, approved, declined>>
           /\ \/ UNCHANGED <<fired, tasks>>
              \/ \E m \in Links, e \in Event : Fires(m, e) /\ tasks' = tasks \o <<e>>
<1>1. tasks' = tasks \o NewEvents /\ UNCHANGED <<failedPosts, late, outstanding, approved, declined>>
  BY DEF GatewayStep, Board!FireAll
<1>2. tasks \o <<>> = tasks
  BY DEF Board!TypeOK
<1> QED
  BY <1>1, <1>2, EventFired DEF GatewayStep

\* The queued events of a kind are a count over the whole of tasks.
LEMMA QueuedIsCount == \A S : Queued(S) = CountUpTo(tasks, Len(tasks), S)
BY DEF Queued, CountUpTo

\* A task more, among all and among the first n of them.
LEMMA CountAdded ==
    ASSUME Board!TypeOK, NEW e \in Event, tasks' = tasks \o <<e>>, NEW S
    PROVE  /\ CountUpTo(tasks', Len(tasks'), S)
                 = CountUpTo(tasks, Len(tasks), S) + IF e \in S THEN 1 ELSE 0
           /\ \A n \in 0 .. Len(tasks) : CountUpTo(tasks', n, S) = CountUpTo(tasks, n, S)
<1>1. /\ Len(tasks) \in Nat /\ Len(tasks') = Len(tasks) + 1
      /\ tasks'[Len(tasks) + 1] = e
      /\ \A i \in 1 .. Len(tasks) : tasks'[i] = tasks[i]
  BY TaskAdded
<1>2. ASSUME NEW n \in 0 .. Len(tasks) PROVE CountUpTo(tasks', n, S) = CountUpTo(tasks, n, S)
  <2>1. PICK s, r : s = tasks /\ r = tasks'
    OBVIOUS
  <2>2. n \in Nat /\ \A i \in 1 .. n : s[i] = r[i]
    BY <1>1, <2>1
  <2>3. {i \in 1 .. n : r[i] \in S} = {i \in 1 .. n : s[i] \in S}
    BY <2>2
  <2> QED
    BY <2>1, <2>3 DEF CountUpTo
<1>3. CountUpTo(tasks', Len(tasks) + 1, S)
         = CountUpTo(tasks', Len(tasks), S) + IF tasks'[Len(tasks) + 1] \in S THEN 1 ELSE 0
  <2>1. PICK s : s = tasks'
    OBVIOUS
  <2>2. PICK n \in Nat : n = Len(tasks)
    BY <1>1
  <2>3. CountUpTo(s, n + 1, S) = CountUpTo(s, n, S) + IF s[n + 1] \in S THEN 1 ELSE 0
    BY CountNext
  <2> QED
    BY <2>1, <2>2, <2>3
<1> QED
  BY <1>1, <1>2, <1>3

\* A task less, among all and among the first n that include it.
LEMMA CountPosted ==
    ASSUME Board!TypeOK, NEW i \in 1 .. Len(tasks), tasks' = Board!RemoveAt(tasks, i), NEW S
    PROVE  /\ CountUpTo(tasks', Len(tasks'), S)
                 = CountUpTo(tasks, Len(tasks), S) - IF tasks[i] \in S THEN 1 ELSE 0
           /\ \A n \in i .. Len(tasks) :
                 CountUpTo(tasks', n - 1, S)
                    = CountUpTo(tasks, n, S) - IF tasks[i] \in S THEN 1 ELSE 0
<1>1. Len(tasks) \in Nat \ {0} /\ Len(tasks') = Len(tasks) - 1 /\ Without(tasks, i, tasks')
  BY TaskPosted
<1>2. i \in Nat \ {0} /\ Len(tasks') \in Nat
  BY <1>1
<1>3. ASSUME NEW n \in i .. Len(tasks)
      PROVE  CountUpTo(tasks', n - 1, S)
                = CountUpTo(tasks, n, S) - IF tasks[i] \in S THEN 1 ELSE 0
  <2>1. n \in Nat /\ i <= n /\ n <= Len(tasks)
    BY <1>1, <1>2
  <2> QED
    BY <1>1, <1>2, <2>1, CountWithout
<1>4. Len(tasks) \in i .. Len(tasks)
  BY <1>1
<1> QED
  BY <1>1, <1>3, <1>4

-----------------------------------------------------------------------------
(* The approvals on the board *)

\* Transactions whose approval was fired.
Announced == {t \in Txn : \E i \in 1 .. Len(fired[t]) : fired[t][i] = "approved"}

DecidedWasSent ==
    /\ IsFiniteSet(sent)
    /\ \A t \in Txn : decided[t] # NoCode => t \in sent

\* Every approval counted or on its way is one of these, each once.
AnnouncedCovers ==
    approved + Queued({"approved"}) + late["approved"] <= Cardinality(Announced)

ApprovalInv == IInv /\ Board!TypeOK /\ DecidedWasSent /\ AnnouncedCovers

\* A transaction is approved before that is announced, and sent before.
LEMMA AnnouncedApproved ==
    ASSUME IInv, DecidedWasSent
    PROVE  /\ Announced \subseteq {t \in Txn : decided[t] = "00"}
           /\ IsFiniteSet({t \in Txn : decided[t] = "00"})
           /\ IsFiniteSet(Announced) /\ Cardinality(Announced) \in Nat
<1> DEFINE Approved == {t \in Txn : decided[t] = "00"}
<1>1. Announced \subseteq Approved
  BY DEF IInv, Outcome, EventsInOrder, EventsOf, Announced
<1>2. Approved \subseteq sent
  BY DEF DecidedWasSent, NoCode
<1> HIDE DEF Approved
<1>3. IsFiniteSet(Approved)
  BY <1>2, FS_Subset DEF DecidedWasSent
<1>4. IsFiniteSet(Announced)
  BY <1>1, <1>3, FS_Subset
<1> QED
  BY <1>1, <1>3, <1>4, FS_CardinalityType DEF Approved

\* Sending and deciding.
LEMMA DecidedStep ==
    ASSUME IInv, DecidedWasSent, [Next]_vars
    PROVE  DecidedWasSent'
<1> DEFINE Kept == UNCHANGED <<sent, decided>>
<1>1. CASE Kept
  BY <1>1 DEF DecidedWasSent
<1>2. ASSUME NEW m \in Links, NEW t \in Txn, MerchantSends(m, t) PROVE DecidedWasSent'
  <2>1. sent' = sent \cup {t} /\ UNCHANGED decided
    BY <1>2 DEF MerchantSends, issuerVars
  <2>2. IsFiniteSet(sent \cup {t})
    BY FS_AddElement DEF DecidedWasSent
  <2> QED
    BY <2>1, <2>2 DEF DecidedWasSent
<1>3. ASSUME NEW t \in Txn, NEW v \in Verdict, IssuerDecides(t, v) PROVE DecidedWasSent'
  <2>1. t \in sent /\ UNCHANGED sent /\ decided' = [decided EXCEPT ![t] = v]
    BY <1>3 DEF IssuerDecides, IInv, Structure, WireMatches, merchantVars
  <2> QED
    BY <2>1 DEF DecidedWasSent, IInv, Structure, TypeOK
<1>4. ASSUME NEW m \in Links, HandlerStep(m) PROVE Kept
  BY <1>4 DEF HandlerStep, Receive, EndOfLink, InsertOK, InsertFails, MarkOK, MarkFails,
     AcquireProceeds, ConnectFails, ReadReply, ReadReset, ReadEof, ReleaseProceeds, SettleOK,
     SettleFails, Fallback, merchantVars, issuerVars
<1>5. ASSUME \/ UNCHANGED vars
             \/ \E m \in Links, s \in {"eof", "lost"} : LinkFails(m, s)
             \/ \E k \in Conn : IssuerFails(k)
      PROVE  Kept
  BY <1>5 DEF vars, LinkFails, IssuerFails, merchantVars, issuerVars
<1> QED
  BY <1>1, <1>2, <1>3, <1>4, <1>5, GatewayCases

\* An event makes a completion of the first, and an approval only then.
LEMMA EventOutcome ==
    ASSUME IInv, NEW m \in Links, NEW e \in Event, Fires(m, e)
    PROVE  /\ txn[m] \in Txn /\ txn[m] \in sent
           /\ fired' = [fired EXCEPT ![txn[m]] = Append(fired[txn[m]], e)]
           /\ fired \in [Txn -> Seq(Event)]
           /\ e = "approved" => txn[m] \notin Announced
<1>1. pc[m] \in {"insert", "mark", "settle", "fallback"}
  BY DEF Fires, InsertOK, MarkOK, SettleOK, Fallback
<1>2. txn[m] \in Txn /\ txn[m] \in sent /\ fired \in [Txn -> Seq(Event)]
  BY <1>1, AtWork DEF TypeOK
<1>3. e = "approved" => Completions(txn[m]) = {}
  BY AtWork DEF Fires, SettleOK, WorkOf
<1> QED
  BY <1>2, <1>3 DEF Fires, Fire, Announced, Completions

\* An approval that is fired is queued once and announced for the first time.
LEMMA ApprovalGateway ==
    ASSUME ApprovalInv, GatewayStep
    PROVE  ApprovalInv'
<1> USE DEF ApprovalInv
<1>1. IInv' /\ DecidedWasSent'
  BY InvStep, DecidedStep DEF GatewayStep
<1>2. Cardinality(Announced) \in Nat /\ IsFiniteSet(Announced)
  BY AnnouncedApproved
<1>3. /\ approved \in Nat /\ late["approved"] \in Nat /\ Len(tasks) \in Nat
      /\ Queued({"approved"}) = CountUpTo(tasks, Len(tasks), {"approved"})
      /\ CountUpTo(tasks, Len(tasks), {"approved"}) \in Nat
  <2>1. approved \in Nat /\ late["approved"] \in Nat /\ Len(tasks) \in Nat
    BY DEF Board!TypeOK, Board!Stage
  <2> QED
    BY <2>1, CountType, QueuedIsCount
<1>4. UNCHANGED <<failedPosts, late, outstanding, approved, declined>>
  BY GatewayTasks
<1>5. CASE UNCHANGED <<fired, tasks>>
  BY <1>1, <1>4, <1>5 DEF Board!TypeOK, AnnouncedCovers, Queued, Announced
<1>6. CASE \E m \in Links, e \in Event : Fires(m, e) /\ tasks' = tasks \o <<e>>
  <2>1. PICK m \in Links, e \in Event : Fires(m, e) /\ tasks' = tasks \o <<e>>
    BY <1>6
  <2> DEFINE t == txn[m]
  <2>2. /\ t \in Txn /\ fired \in [Txn -> Seq(Event)]
        /\ fired' = [fired EXCEPT ![t] = Append(fired[t], e)]
        /\ e = "approved" => t \notin Announced
    BY <2>1, EventOutcome
  <2>3. Announced' = IF e = "approved" THEN Announced \cup {t} ELSE Announced
    <3>1. /\ Len(fired[t]) \in Nat /\ Len(fired'[t]) = Len(fired[t]) + 1
          /\ fired'[t][Len(fired[t]) + 1] = e
          /\ \A i \in 1 .. Len(fired[t]) : fired'[t][i] = fired[t][i]
      BY <2>2
    <3>2. \A u \in Txn \ {t} : fired'[u] = fired[u]
      BY <2>2
    <3>3. t \in Announced' <=> e = "approved" \/ t \in Announced
      BY <2>2, <3>1 DEF Announced
    <3>4. \A u \in Txn \ {t} : u \in Announced' <=> u \in Announced
      BY <3>2 DEF Announced
    <3> QED
      BY <2>2, <3>3, <3>4 DEF Announced
  <2>4. Cardinality(Announced') = Cardinality(Announced) + IF e = "approved" THEN 1 ELSE 0
    <3>1. t \notin Announced =>
             Cardinality(Announced \cup {t}) = Cardinality(Announced) + 1
      BY <1>2, FS_AddElement
    <3>2. CASE e = "approved"
      BY <2>2, <2>3, <3>1, <3>2
    <3>3. CASE e # "approved"
      BY <1>2, <2>3, <3>3
    <3> QED
      BY <3>2, <3>3
  <2>5. CountUpTo(tasks', Len(tasks'), {"approved"})
           = CountUpTo(tasks, Len(tasks), {"approved"}) + IF e = "approved" THEN 1 ELSE 0
    <3>1. CountUpTo(tasks', Len(tasks'), {"approved"})
             = CountUpTo(tasks, Len(tasks), {"approved"})
                  + IF e \in {"approved"} THEN 1 ELSE 0
      BY <2>1, CountAdded
    <3> QED
      BY <3>1
  <2>6. AnnouncedCovers'
    BY <1>2, <1>3, <1>4, <2>4, <2>5 DEF AnnouncedCovers, Queued, CountUpTo
  <2>7. Board!TypeOK'
    BY <1>4, <2>1, TaskAdded DEF Board!TypeOK
  <2> QED
    BY <1>1, <2>6, <2>7
<1> QED
  BY <1>5, <1>6, GatewayTasks

\* What a step of the board is: a post of one of the first tasks, or the
\* arrival of an event that was given up.
LEMMA BoardCases ==
    ASSUME Board!TypeOK, BoardStep
    PROVE  /\ UNCHANGED vars
           /\ \/ \E i \in 1 .. Len(tasks) :
                    /\ i <= EventLimit
                    /\ tasks' = Board!RemoveAt(tasks, i)
                    /\ Board!PostHandled(i) \/ Board!PostFails(i)
              \/ \E e \in Board!Stage : Board!LateHandled(e)
BY DEF BoardStep, Board!Post, Board!Arrive, Board!Posting, Board!PostHandled, Board!PostFails

\* What the dashboard does with an event.
LEMMA Counted ==
    ASSUME Board!TypeOK, NEW e \in Board!Stage, Board!Count(e)
    PROVE  /\ outstanding' \in Nat /\ approved' \in Nat /\ declined' \in Nat
           /\ approved' = approved + IF e = "approved" THEN 1 ELSE 0
           /\ approved' + declined' = approved + declined + IF e \in Over THEN 1 ELSE 0
           /\ e = "received" => outstanding' = outstanding + 1
           /\ e \in Over => outstanding' = IF outstanding = 0 THEN 0 ELSE outstanding - 1
           /\ e \notin Over /\ e # "received" => outstanding' = outstanding
<1>1. outstanding \in Nat /\ approved \in Nat /\ declined \in Nat
  BY DEF Board!TypeOK
<1>2. e \in {"received", "forwarded_to_issuer", "approved", "declined"}
  BY DEF Board!Stage
<1> QED
  BY <1>1, <1>2 DEF Board!Count, Board!CountDown, Over

\* One event more, or one less, that may arrive late.
LEMMA LateChanged ==
    ASSUME Board!TypeOK, NEW e \in Board!Stage
    PROVE  /\ \A f \in Board!Stage : late[f] \in Nat
           /\ late' = [late EXCEPT ![e] = @ + 1] =>
                 /\ late' \in [Board!Stage -> Nat]
                 /\ \A f \in Board!Stage : late'[f] = late[f] + IF f = e THEN 1 ELSE 0
           /\ late[e] > 0 /\ late' = [late EXCEPT ![e] = @ - 1] =>
                 /\ late' \in [Board!Stage -> Nat]
                 /\ \A f \in Board!Stage : late'[f] = late[f] - IF f = e THEN 1 ELSE 0
BY DEF Board!TypeOK

\* A step of the board keeps the types.
LEMMA BoardTypes ==
    ASSUME Board!TypeOK, BoardStep
    PROVE  Board!TypeOK'
<1>1. ASSUME NEW i \in 1 .. Len(tasks), Board!PostHandled(i) PROVE Board!TypeOK'
  <2>1. tasks' \in Seq(Board!Stage) /\ tasks[i] \in Board!Stage
    BY <1>1, TaskPosted DEF Board!PostHandled, Board!TypeOK
  <2> QED
    BY <1>1, <2>1, Counted DEF Board!PostHandled, Board!TypeOK
<1>2. ASSUME NEW i \in 1 .. Len(tasks), Board!PostFails(i) PROVE Board!TypeOK'
  <2>1. tasks' \in Seq(Board!Stage) /\ tasks[i] \in Board!Stage
    BY <1>2, TaskPosted DEF Board!PostFails, Board!TypeOK
  <2>2. late' \in [Board!Stage -> Nat]
    BY <1>2, <2>1, LateChanged DEF Board!PostFails
  <2>3. failedPosts' \in 0 .. MaxFailedPosts
    BY <1>2, TelemetryAssumption DEF Board!PostFails, Board!TypeOK
  <2> QED
    BY <1>2, <2>1, <2>2, <2>3 DEF Board!PostFails, Board!TypeOK
<1>3. ASSUME NEW e \in Board!Stage, Board!LateHandled(e) PROVE Board!TypeOK'
  <2>1. late' \in [Board!Stage -> Nat]
    BY <1>3, LateChanged DEF Board!LateHandled
  <2> QED
    BY <1>3, <2>1, Counted DEF Board!LateHandled, Board!TypeOK
<1> QED
  BY <1>1, <1>2, <1>3, BoardCases

\* The events of some kinds among the tasks, after one of them was taken out.
LEMMA QueuedPosted ==
    ASSUME Board!TypeOK, NEW i \in 1 .. Len(tasks), tasks' = Board!RemoveAt(tasks, i), NEW S
    PROVE  /\ Queued(S) \in Nat
           /\ Queued(S)' = Queued(S) - IF tasks[i] \in S THEN 1 ELSE 0
<1>1. Len(tasks) \in Nat
  BY DEF Board!TypeOK
<1>2. Queued(S) \in Nat
  BY <1>1, CountType, QueuedIsCount
<1>3. CountUpTo(tasks', Len(tasks'), S) = CountUpTo(tasks, Len(tasks), S)
                                             - IF tasks[i] \in S THEN 1 ELSE 0
  BY CountPosted
<1> QED
  BY <1>2, <1>3 DEF Queued, CountUpTo

\* The dashboard counts an approval that was on its way, each once.
LEMMA ApprovalBoard ==
    ASSUME ApprovalInv, BoardStep
    PROVE  ApprovalInv'
<1> USE DEF ApprovalInv
<1>1. UNCHANGED vars
  BY BoardCases
<1>2. IInv' /\ DecidedWasSent' /\ Board!TypeOK'
  BY <1>1, InvStep, DecidedStep, BoardTypes
<1>3. Announced' = Announced /\ Cardinality(Announced) \in Nat
  BY <1>1, AnnouncedApproved DEF vars, handlerVars, Announced
<1> DEFINE Q == Queued({"approved"})
<1>4. approved \in Nat /\ late["approved"] \in Nat /\ Q \in Nat /\ "approved" \in Board!Stage
  <2>1. approved \in Nat /\ late["approved"] \in Nat /\ Len(tasks) \in Nat
    BY DEF Board!TypeOK, Board!Stage
  <2> QED
    BY <2>1, CountType, QueuedIsCount DEF Board!Stage
<1>5. approved' + Q' + late'["approved"] <= approved + Q + late["approved"]
  <2>1. ASSUME NEW i \in 1 .. Len(tasks), Board!PostHandled(i)
        PROVE  approved' + Q' + late'["approved"] = approved + Q + late["approved"]
    <3>1. tasks[i] \in Board!Stage /\ UNCHANGED late
      BY <2>1 DEF Board!PostHandled, Board!TypeOK
    <3>2. Q' = Q - IF tasks[i] = "approved" THEN 1 ELSE 0
      <4>1. Q' = Q - IF tasks[i] \in {"approved"} THEN 1 ELSE 0
        BY <2>1, QueuedPosted DEF Board!PostHandled
      <4> QED
        BY <4>1
    <3>3. approved' = approved + IF tasks[i] = "approved" THEN 1 ELSE 0
      BY <2>1, <3>1, Counted DEF Board!PostHandled
    <3> HIDE DEF Q
    <3> QED
      BY <1>4, <3>1, <3>2, <3>3
  <2>2. ASSUME NEW i \in 1 .. Len(tasks), Board!PostFails(i)
        PROVE  approved' + Q' + late'["approved"] = approved + Q + late["approved"]
    <3>1. tasks[i] \in Board!Stage /\ UNCHANGED approved
      BY <2>2 DEF Board!PostFails, Board!TypeOK
    <3>2. Q' = Q - IF tasks[i] = "approved" THEN 1 ELSE 0
      <4>1. Q' = Q - IF tasks[i] \in {"approved"} THEN 1 ELSE 0
        BY <2>2, QueuedPosted DEF Board!PostFails
      <4> QED
        BY <4>1
    <3>3. late'["approved"] = late["approved"] + IF tasks[i] = "approved" THEN 1 ELSE 0
      BY <1>4, <2>2, <3>1, LateChanged DEF Board!PostFails
    <3> HIDE DEF Q
    <3> QED
      BY <1>4, <3>1, <3>2, <3>3
  <2>3. ASSUME NEW e \in Board!Stage, Board!LateHandled(e)
        PROVE  approved' + Q' + late'["approved"] = approved + Q + late["approved"]
    <3>1. Q' = Q
      BY <2>3 DEF Board!LateHandled, Queued
    <3>2. approved' = approved + IF e = "approved" THEN 1 ELSE 0
      BY <2>3, Counted DEF Board!LateHandled
    <3>3. late'["approved"] = late["approved"] - IF e = "approved" THEN 1 ELSE 0
      BY <1>4, <2>3, LateChanged DEF Board!LateHandled
    <3> HIDE DEF Q
    <3> QED
      BY <1>4, <3>1, <3>2, <3>3
  <2>4. approved + Q + late["approved"] \in Int
    BY <1>4
  <2> QED
    BY <2>1, <2>2, <2>3, <2>4, BoardCases
<1>6. AnnouncedCovers'
  <2>1. approved' \in Nat /\ late'["approved"] \in Nat /\ Q' \in Nat
    <3>1. approved' \in Nat /\ late'["approved"] \in Nat /\ Len(tasks') \in Nat
      BY <1>2 DEF Board!TypeOK, Board!Stage
    <3>2. CountUpTo(tasks', Len(tasks'), {"approved"}) \in Nat
      BY <3>1, CountType
    <3> QED
      BY <3>1, <3>2 DEF Queued, CountUpTo
  <2> HIDE DEF Q
  <2>2. approved + Q + late["approved"] <= Cardinality(Announced)
    BY DEF AnnouncedCovers, Q
  <2>3. approved' + Q' + late'["approved"] <= Cardinality(Announced)
    BY <1>3, <1>4, <1>5, <2>1, <2>2
  <2> QED
    BY <1>3, <2>3 DEF AnnouncedCovers, Q
<1> QED
  BY <1>2, <1>6

\* Nothing is announced, queued or counted at first.
LEMMA ApprovalInit == ObservedInit => ApprovalInv
<1> SUFFICES ASSUME ObservedInit PROVE ApprovalInv
  OBVIOUS
<1>1. Init /\ Board!Init
  BY DEF ObservedInit
<1>2. IInv
  BY <1>1, StructureInit, OutcomeInit DEF IInv
<1>3. Board!TypeOK
  BY <1>1, EmptySeq, TelemetryAssumption DEF Board!Init, Board!TypeOK
<1>4. DecidedWasSent
  BY <1>1, FS_EmptySet DEF Init, DecidedWasSent
<1>5. AnnouncedCovers
  <2>1. /\ approved = 0 /\ late["approved"] = 0
        /\ Len(tasks) = 0 /\ CountUpTo(tasks, 0, {"approved"}) = 0
    BY <1>1, CountNone DEF Board!Init, Board!Stage
  <2>2. Cardinality(Announced) \in Nat
    BY <1>2, <1>4, AnnouncedApproved
  <2> QED
    BY <2>1, <2>2, QueuedIsCount DEF AnnouncedCovers
<1> QED
  BY <1>2, <1>3, <1>4, <1>5 DEF ApprovalInv

\* The inductive invariant.
THEOREM ApprovalInvHolds == ObservedSpec => []ApprovalInv
<1>1. ASSUME ApprovalInv, [GatewayStep \/ BoardStep]_observedVars PROVE ApprovalInv'
  <2>1. CASE UNCHANGED observedVars
    <3>1. UNCHANGED vars /\ UNCHANGED <<tasks, failedPosts, late, outstanding, approved, declined>>
      BY <2>1 DEF observedVars, telemetryVars
    <3>2. IInv' /\ DecidedWasSent'
      BY <1>1, <3>1, InvStep, DecidedStep DEF ApprovalInv
    <3>3. Board!TypeOK' /\ AnnouncedCovers'
      BY <1>1, <3>1 DEF ApprovalInv, Board!TypeOK, AnnouncedCovers, Announced, Queued, vars,
         handlerVars
    <3> QED
      BY <3>2, <3>3 DEF ApprovalInv
  <2> QED
    BY <1>1, <2>1, ApprovalGateway, ApprovalBoard
<1>2. ApprovalInv /\ [GatewayStep \/ BoardStep]_observedVars => ApprovalInv'
  BY <1>1
<1> QED
  BY <1>2, ApprovalInit, PTL DEF ObservedSpec

\* The dashboard's variables keep their types; OUTSTANDING is never negative.
THEOREM BoardTypeCorrect == ObservedSpec => []BoardTypeOK
<1>1. ApprovalInv => BoardTypeOK
  BY DEF ApprovalInv, BoardTypeOK
<1> QED
  BY <1>1, ApprovalInvHolds, PTL

\* The dashboard never counts more approvals than the issuer made.
THEOREM ApprovalsAreNoMore == ObservedSpec => []ApprovalsAreReal
<1>1. ASSUME ApprovalInv PROVE ApprovalsAreReal
  <2> DEFINE Approved == {t \in Txn : decided[t] = "00"}
  <2>1. /\ Announced \subseteq Approved /\ IsFiniteSet(Approved)
        /\ Cardinality(Announced) \in Nat
    BY <1>1, AnnouncedApproved DEF ApprovalInv
  <2> HIDE DEF Approved
  <2>2. Cardinality(Announced) <= Cardinality(Approved) /\ Cardinality(Approved) \in Nat
    BY <2>1, FS_Subset, FS_CardinalityType
  <2>3. approved \in Nat /\ late["approved"] \in Nat /\ Queued({"approved"}) \in Nat
    <3>1. approved \in Nat /\ late["approved"] \in Nat /\ Len(tasks) \in Nat
      BY <1>1 DEF ApprovalInv, Board!TypeOK, Board!Stage
    <3> QED
      BY <3>1, CountType, QueuedIsCount
  <2>4. approved <= Cardinality(Approved)
    BY <1>1, <2>1, <2>2, <2>3 DEF ApprovalInv, AnnouncedCovers
  <2> QED
    BY <2>4 DEF ApprovalsAreReal, Approved
<1> QED
  BY <1>1, ApprovalInvHolds, PTL

-----------------------------------------------------------------------------
(* How far OUTSTANDING drifts *)

Finished == {t \in Txn : Completions(t) # {}}
Twice == {t \in Txn : Cardinality(Completions(t)) = 2}

LateEvents == late["received"] + late["approved"] + late["declined"]

\* Of the received events queued behind the first n tasks, those whose
\* transaction is over are followed by the event that says so.
SuffixBalance ==
    \A n \in EventLimit .. Len(tasks) :
        CountUpTo(tasks, Len(tasks), {"received"}) - CountUpTo(tasks, n, {"received"})
           <= Cardinality(Open) + (CountUpTo(tasks, Len(tasks), Over) - CountUpTo(tasks, n, Over))

FinishedCount == approved + declined + CompletedPending = Cardinality(Finished) + Cardinality(Twice)

DriftInv ==
    /\ LateEvents <= failedPosts
    /\ SuffixBalance
    /\ DriftIsBounded
    /\ FinishedCount

\* Every completed transaction was sent.
LEMMA OpenFinite ==
    ASSUME IInv, DecidedWasSent
    PROVE  /\ IsFiniteSet(Open) /\ IsFiniteSet(Strays)
           /\ IsFiniteSet(Finished) /\ IsFiniteSet(Twice)
           /\ Cardinality(Open) \in Nat /\ Cardinality(Strays) \in Nat
           /\ Cardinality(Finished) \in Nat /\ Cardinality(Twice) \in Nat
<1>1. \A t \in Txn : t \notin sent => fired[t] = <<>>
  BY DEF IInv, Outcome, UnreadIsUntouched, Untouched
<1>2. \A t \in Txn : fired[t] = <<>> => Completions(t) = {} /\ ~Begun(t)
  BY DEF Completions, Begun
<1>3. \A t \in Txn : fired[t] = <<>> => Cardinality(Completions(t)) = 0
  BY <1>2, FS_EmptySet
<1>4. Open \subseteq sent /\ Strays \subseteq sent /\ Finished \subseteq sent /\ Twice \subseteq sent
  BY <1>1, <1>2, <1>3 DEF Open, Strays, Finished, Twice
<1>5. /\ IsFiniteSet(Open) /\ IsFiniteSet(Strays)
      /\ IsFiniteSet(Finished) /\ IsFiniteSet(Twice)
  BY <1>4, FS_Subset DEF DecidedWasSent
<1> QED
  BY <1>5, FS_CardinalityType

\* What the counts are, as numbers.
LEMMA CountTypes ==
    ASSUME ApprovalInv
    PROVE  /\ outstanding \in Nat /\ approved \in Nat /\ declined \in Nat
           /\ Len(tasks) \in Nat /\ failedPosts \in Nat
           /\ late["received"] \in Nat /\ late["approved"] \in Nat /\ late["declined"] \in Nat
           /\ Cardinality(Open) \in Nat /\ Cardinality(Strays) \in Nat
           /\ Cardinality(Finished) \in Nat /\ Cardinality(Twice) \in Nat
           /\ \A S : \A n \in Nat : CountUpTo(tasks, n, S) \in Nat
           /\ \A S : Queued(S) = CountUpTo(tasks, Len(tasks), S)
           /\ ReceivedPending \in Nat /\ CompletedPending \in Nat
<1>1. /\ outstanding \in Nat /\ approved \in Nat /\ declined \in Nat
      /\ Len(tasks) \in Nat /\ failedPosts \in Nat
      /\ late["received"] \in Nat /\ late["approved"] \in Nat /\ late["declined"] \in Nat
  BY TelemetryAssumption DEF ApprovalInv, Board!TypeOK, Board!Stage
<1>2. /\ \A S : \A n \in Nat : CountUpTo(tasks, n, S) \in Nat
      /\ \A S : Queued(S) = CountUpTo(tasks, Len(tasks), S)
  BY CountType, QueuedIsCount
<1>3. \A S : Queued(S) \in Nat
  BY <1>1, <1>2
<1>4. ReceivedPending \in Nat /\ CompletedPending \in Nat
  BY <1>1, <1>3 DEF ReceivedPending, CompletedPending
<1> QED
  BY <1>1, <1>2, <1>4, OpenFinite DEF ApprovalInv

\* Where the transaction of an event stands before it.
LEMMA BeforeEvent ==
    ASSUME IInv, Course, NEW m \in Links, NEW e \in Event, Fires(m, e), NEW t \in Txn, t = txn[m]
    PROVE  /\ e = "received" => fired[t] = <<>>
           /\ e = "forwarded_to_issuer" => Begun(t) /\ Completions(t) = {}
           /\ e \in Over => \/ Begun(t) /\ Completions(t) = {}
                            \/ fired[t] = <<>>
                            \/ Begun(t) /\ Cardinality(Completions(t)) = 1
<1>1. pc[m] \in {"insert", "mark", "settle", "fallback"}
  BY DEF Fires, InsertOK, MarkOK, SettleOK, Fallback
<1>2. WorkOf(m) /\ WayOf(m)
  BY <1>1, AtWork DEF Course
<1>3. CASE InsertOK(m)
  <2>1. e = "received"
    BY <1>3 DEF Fires, InsertOK, MarkOK, SettleOK, Fallback
  <2>2. fired[t] = <<>>
    BY <1>2, <1>3 DEF InsertOK, WorkOf, Untouched
  <2> QED
    BY <2>1, <2>2 DEF Over
<1>4. CASE MarkOK(m)
  <2>1. e = "forwarded_to_issuer" /\ pc[m] = "mark"
    BY <1>4 DEF Fires, InsertOK, MarkOK, SettleOK, Fallback
  <2> QED
    BY <1>2, <2>1 DEF WorkOf, WayOf, Over
<1>5. CASE SettleOK(m)
  <2>1. e \in Over /\ pc[m] = "settle"
    BY <1>5 DEF Fires, InsertOK, MarkOK, SettleOK, Fallback, Completed, Over
  <2> QED
    BY <1>2, <2>1 DEF WorkOf, WayOf, Over
<1>6. CASE Fallback(m)
  <2>1. e \in Over /\ pc[m] = "fallback"
    BY <1>6 DEF Fires, InsertOK, MarkOK, SettleOK, Fallback, Over
  <2> QED
    BY <1>2, <2>1 DEF WayOf, Over
<1> QED
  BY <1>3, <1>4, <1>5, <1>6 DEF Fires

\* An event opens its transaction, or leaves it as it is, or ends it, or is
\* one that its transaction had not to expect.
LEMMA EventOpens ==
    ASSUME IInv, Course, NEW m \in Links, NEW e \in Event, Fires(m, e), NEW t \in Txn, t = txn[m]
    PROVE  /\ e = "received" =>
                 /\ t \notin Open /\ Open' = Open \cup {t}
                 /\ Strays' = Strays /\ Finished' = Finished /\ Twice' = Twice
           /\ e = "forwarded_to_issuer" =>
                 Open' = Open /\ Strays' = Strays /\ Finished' = Finished /\ Twice' = Twice
           /\ e \in Over =>
                 \/ /\ t \in Open /\ Open' = Open \ {t} /\ Strays' = Strays
                    /\ t \notin Finished /\ Finished' = Finished \cup {t} /\ Twice' = Twice
                 \/ /\ Open' = Open /\ t \notin Strays /\ Strays' = Strays \cup {t}
                    /\ t \notin Finished /\ Finished' = Finished \cup {t} /\ Twice' = Twice
                 \/ /\ Open' = Open /\ t \notin Strays /\ Strays' = Strays \cup {t}
                    /\ Finished' = Finished /\ t \notin Twice /\ Twice' = Twice \cup {t}
<1> DEFINE n == Cardinality(Completions(t))
           d == Cardinality(Completions(t)')
<1>1. /\ \A u \in Txn \ {t} : Completions(u)' = Completions(u) /\ (Begun(u)' <=> Begun(u))
      /\ Begun(t)' <=> Begun(t) \/ (fired[t] = <<>> /\ e = "received")
      /\ e \notin Over => Completions(t)' = Completions(t)
      /\ d = n + IF e \in Over THEN 1 ELSE 0
  BY EventCourse
<1>2. /\ n \in Nat /\ (n = 0 <=> Completions(t) = {})
      /\ Completions(t)' = {} => d = 0
  BY CompletionsFinite, FS_EmptySet DEF IInv, Structure
<1>3. fired[t] = <<>> => Completions(t) = {} /\ ~Begun(t)
  BY DEF Completions, Begun
<1>4. \A u \in Txn \ {t} : /\ u \in Open' <=> u \in Open
                           /\ u \in Strays' <=> u \in Strays
                           /\ u \in Finished' <=> u \in Finished
                           /\ u \in Twice' <=> u \in Twice
  BY <1>1 DEF Open, Strays, Finished, Twice
<1>5. /\ Open \subseteq Txn /\ Strays \subseteq Txn /\ Finished \subseteq Txn /\ Twice \subseteq Txn
      /\ Open' \subseteq Txn /\ Strays' \subseteq Txn /\ Finished' \subseteq Txn /\ Twice' \subseteq Txn
  BY DEF Open, Strays, Finished, Twice
<1>6. /\ t \in Open <=> Begun(t) /\ Completions(t) = {}
      /\ t \in Strays <=> n > IF Begun(t) THEN 1 ELSE 0
      /\ t \in Finished <=> Completions(t) # {}
      /\ t \in Twice <=> n = 2
      /\ t \in Open' <=> Begun(t)' /\ Completions(t)' = {}
      /\ t \in Strays' <=> d > IF Begun(t)' THEN 1 ELSE 0
      /\ t \in Finished' <=> Completions(t)' # {}
      /\ t \in Twice' <=> d = 2
  BY DEF Open, Strays, Finished, Twice
<1>7. CASE e = "received"
  <2>1. fired[t] = <<>> /\ e \notin Over
    BY <1>7, BeforeEvent DEF Over
  <2>2. /\ Completions(t) = {} /\ ~Begun(t) /\ n = 0
        /\ Completions(t)' = {} /\ Begun(t)' /\ d = 0
    BY <1>1, <1>2, <1>3, <1>7, <2>1
  <2>3. /\ t \notin Open /\ t \in Open' /\ t \notin Strays /\ t \notin Strays'
        /\ t \notin Finished /\ t \notin Finished' /\ t \notin Twice /\ t \notin Twice'
    BY <1>6, <2>2
  <2>4. Open' = Open \cup {t} /\ Strays' = Strays /\ Finished' = Finished /\ Twice' = Twice
    BY <1>4, <1>5, <2>3
  <2>5. e # "forwarded_to_issuer"
    BY <1>7
  <2> QED
    BY <2>1, <2>3, <2>4, <2>5
<1>8. CASE e = "forwarded_to_issuer"
  <2>1. e \notin Over /\ e # "received"
    BY <1>8 DEF Over
  <2>2. /\ Completions(t)' = Completions(t) /\ (Begun(t)' <=> Begun(t)) /\ d = n
    BY <1>1, <1>2, <2>1
  <2>3. /\ t \in Open' <=> t \in Open
        /\ t \in Strays' <=> t \in Strays
        /\ t \in Finished' <=> t \in Finished
        /\ t \in Twice' <=> t \in Twice
    BY <1>6, <2>2
  <2>4. Open' = Open /\ Strays' = Strays /\ Finished' = Finished /\ Twice' = Twice
    BY <1>4, <1>5, <2>3
  <2> QED
    BY <2>1, <2>4
<1>9. CASE e \in Over
  <2>1. e # "received" /\ e # "forwarded_to_issuer"
    BY <1>9 DEF Over
  <2>2. (Begun(t)' <=> Begun(t)) /\ d = n + 1 /\ Completions(t)' # {}
    BY <1>1, <1>2, <1>9, <2>1
  <2>3. CASE Begun(t) /\ Completions(t) = {}
    <3>1. n = 0 /\ d = 1
      BY <1>2, <2>2, <2>3
    <3>2. /\ t \in Open /\ t \notin Open' /\ t \notin Strays /\ t \notin Strays'
          /\ t \notin Finished /\ t \in Finished' /\ t \notin Twice /\ t \notin Twice'
      BY <1>6, <2>2, <2>3, <3>1
    <3>3. /\ Open' = Open \ {t} /\ Strays' = Strays
          /\ Finished' = Finished \cup {t} /\ Twice' = Twice
      BY <1>4, <1>5, <3>2
    <3> QED
      BY <2>1, <3>2, <3>3
  <2>4. CASE fired[t] = <<>>
    <3>1. n = 0 /\ d = 1 /\ ~Begun(t) /\ Completions(t) = {}
      BY <1>2, <1>3, <2>2, <2>4
    <3>2. /\ t \notin Open /\ t \notin Open' /\ t \notin Strays /\ t \in Strays'
          /\ t \notin Finished /\ t \in Finished' /\ t \notin Twice /\ t \notin Twice'
      BY <1>6, <2>2, <3>1
    <3>3. /\ Open' = Open /\ Strays' = Strays \cup {t}
          /\ Finished' = Finished \cup {t} /\ Twice' = Twice
      BY <1>4, <1>5, <3>2
    <3> QED
      BY <2>1, <3>2, <3>3
  <2>5. CASE Begun(t) /\ n = 1
    <3>1. d = 2 /\ Completions(t) # {}
      BY <1>2, <2>2, <2>5
    <3>2. /\ t \notin Open /\ t \notin Open' /\ t \notin Strays /\ t \in Strays'
          /\ t \in Finished /\ t \in Finished' /\ t \notin Twice /\ t \in Twice'
      BY <1>6, <2>2, <2>5, <3>1
    <3>3. /\ Open' = Open /\ Strays' = Strays \cup {t}
          /\ Finished' = Finished /\ Twice' = Twice \cup {t}
      BY <1>4, <1>5, <3>2
    <3> QED
      BY <2>1, <3>2, <3>3
  <2> QED
    BY <1>9, <2>3, <2>4, <2>5, BeforeEvent
<1> QED
  BY <1>7, <1>8, <1>9 DEF Event, Over

\* The same in numbers; s is 1 when the event was not expected.
LEMMA EventNumbers ==
    ASSUME IInv, DecidedWasSent, Course, NEW m \in Links, NEW e \in Event, Fires(m, e)
    PROVE  \E s \in {0, 1} :
              /\ s <= IF e \in Over THEN 1 ELSE 0
              /\ Cardinality(Open') \in Nat
              /\ Cardinality(Open') = Cardinality(Open) + (IF e = "received" THEN 1 ELSE 0)
                                         - (IF e \in Over THEN 1 ELSE 0) + s
              /\ Cardinality(Strays') = Cardinality(Strays) + s
              /\ Cardinality(Finished') + Cardinality(Twice')
                    = Cardinality(Finished) + Cardinality(Twice) + IF e \in Over THEN 1 ELSE 0
<1>1. PICK t \in Txn : t = txn[m]
  BY EventOutcome
<1>2. /\ IsFiniteSet(Open) /\ IsFiniteSet(Strays) /\ IsFiniteSet(Finished) /\ IsFiniteSet(Twice)
      /\ Cardinality(Open) \in Nat /\ Cardinality(Strays) \in Nat
      /\ Cardinality(Finished) \in Nat /\ Cardinality(Twice) \in Nat
  BY OpenFinite
<1>3. /\ t \notin Open => Cardinality(Open \cup {t}) = Cardinality(Open) + 1
      /\ t \in Open => /\ Cardinality(Open \ {t}) = Cardinality(Open) - 1
                       /\ Cardinality(Open \ {t}) \in Nat
      /\ t \notin Strays => Cardinality(Strays \cup {t}) = Cardinality(Strays) + 1
      /\ t \notin Finished => Cardinality(Finished \cup {t}) = Cardinality(Finished) + 1
      /\ t \notin Twice => Cardinality(Twice \cup {t}) = Cardinality(Twice) + 1
  BY <1>2, FS_AddElement, FS_RemoveElement, FS_CardinalityType
<1>4. CASE e = "received"
  <2>1. /\ Cardinality(Open') = Cardinality(Open) + 1
        /\ Cardinality(Strays') = Cardinality(Strays)
        /\ Cardinality(Finished') = Cardinality(Finished)
        /\ Cardinality(Twice') = Cardinality(Twice)
    BY <1>1, <1>3, <1>4, EventOpens
  <2>2. e \notin Over
    BY <1>4 DEF Over
  <2> WITNESS 0 \in {0, 1}
  <2> QED
    BY <1>2, <1>4, <2>1, <2>2
<1>5. CASE e = "forwarded_to_issuer"
  <2>1. /\ Cardinality(Open') = Cardinality(Open)
        /\ Cardinality(Strays') = Cardinality(Strays)
        /\ Cardinality(Finished') = Cardinality(Finished)
        /\ Cardinality(Twice') = Cardinality(Twice)
    BY <1>1, <1>5, EventOpens
  <2>2. e \notin Over /\ e # "received"
    BY <1>5 DEF Over
  <2> WITNESS 0 \in {0, 1}
  <2> QED
    BY <1>2, <2>1, <2>2
<1>6. CASE e \in Over
  <2>1. e # "received"
    BY <1>6 DEF Over
  <2>2. CASE /\ t \in Open /\ Open' = Open \ {t} /\ Strays' = Strays
             /\ t \notin Finished /\ Finished' = Finished \cup {t} /\ Twice' = Twice
    <3>1. /\ Cardinality(Open') = Cardinality(Open) - 1 /\ Cardinality(Open') \in Nat
          /\ Cardinality(Strays') = Cardinality(Strays)
          /\ Cardinality(Finished') = Cardinality(Finished) + 1
          /\ Cardinality(Twice') = Cardinality(Twice)
      BY <1>3, <2>2
    <3> WITNESS 0 \in {0, 1}
    <3> QED
      BY <1>2, <1>6, <2>1, <3>1
  <2>3. CASE /\ Open' = Open /\ t \notin Strays /\ Strays' = Strays \cup {t}
             /\ t \notin Finished /\ Finished' = Finished \cup {t} /\ Twice' = Twice
    <3>1. /\ Cardinality(Open') = Cardinality(Open)
          /\ Cardinality(Strays') = Cardinality(Strays) + 1
          /\ Cardinality(Finished') = Cardinality(Finished) + 1
          /\ Cardinality(Twice') = Cardinality(Twice)
      BY <1>3, <2>3
    <3> WITNESS 1 \in {0, 1}
    <3> QED
      BY <1>2, <1>6, <2>1, <3>1
  <2>4. CASE /\ Open' = Open /\ t \notin Strays /\ Strays' = Strays \cup {t}
             /\ Finished' = Finished /\ t \notin Twice /\ Twice' = Twice \cup {t}
    <3>1. /\ Cardinality(Open') = Cardinality(Open)
          /\ Cardinality(Strays') = Cardinality(Strays) + 1
          /\ Cardinality(Finished') = Cardinality(Finished)
          /\ Cardinality(Twice') = Cardinality(Twice) + 1
      BY <1>3, <2>4
    <3> WITNESS 1 \in {0, 1}
    <3> QED
      BY <1>2, <1>6, <2>1, <3>1
  <2> QED
    BY <1>1, <1>6, <2>2, <2>3, <2>4, EventOpens
<1> QED
  BY <1>4, <1>5, <1>6 DEF Event, Over

\* An event more is pending.
LEMMA PendingAdded ==
    ASSUME ApprovalInv, NEW e \in Event, tasks' = tasks \o <<e>>, UNCHANGED late
    PROVE  /\ ReceivedPending' = ReceivedPending + IF e = "received" THEN 1 ELSE 0
           /\ CompletedPending' = CompletedPending + IF e \in Over THEN 1 ELSE 0
<1>1. \A S : /\ Queued(S) \in Nat
             /\ Queued(S)' = Queued(S) + IF e \in S THEN 1 ELSE 0
  <2> SUFFICES ASSUME NEW S PROVE /\ Queued(S) \in Nat
                                  /\ Queued(S)' = Queued(S) + IF e \in S THEN 1 ELSE 0
    OBVIOUS
  <2>1. CountUpTo(tasks', Len(tasks'), S)
           = CountUpTo(tasks, Len(tasks), S) + IF e \in S THEN 1 ELSE 0
    BY CountAdded DEF ApprovalInv
  <2>2. Queued(S) \in Nat
    BY CountTypes
  <2> QED
    BY <2>1, <2>2 DEF Queued, CountUpTo
<1>2. /\ Queued({"received"}) \in Nat /\ Queued(Over) \in Nat
      /\ Queued({"received"})' = Queued({"received"}) + IF e = "received" THEN 1 ELSE 0
      /\ Queued(Over)' = Queued(Over) + IF e \in Over THEN 1 ELSE 0
  <2>1. Queued({"received"})' = Queued({"received"}) + IF e \in {"received"} THEN 1 ELSE 0
    BY <1>1
  <2> QED
    BY <1>1, <2>1
<1>3. late["received"] \in Nat /\ late["approved"] \in Nat /\ late["declined"] \in Nat
  BY CountTypes
<1>4. /\ ReceivedPending = Queued({"received"}) + late["received"]
      /\ CompletedPending = Queued(Over) + late["approved"] + late["declined"]
      /\ ReceivedPending' = Queued({"received"})' + late["received"]
      /\ CompletedPending' = Queued(Over)' + late["approved"] + late["declined"]
  BY DEF ReceivedPending, CompletedPending, Over
<1>5. PICK x, y \in {0, 1} : x = (IF e = "received" THEN 1 ELSE 0) /\ y = IF e \in Over THEN 1 ELSE 0
  OBVIOUS
<1>6. PICK g, h, r, u, v \in Nat :
         /\ g = Queued({"received"}) /\ h = Queued(Over)
         /\ r = late["received"] /\ u = late["approved"] /\ v = late["declined"]
  BY <1>2, <1>3
<1>7. Queued({"received"})' = g + x /\ Queued(Over)' = h + y
  BY <1>2, <1>5, <1>6
<1>8. ReceivedPending = g + r /\ CompletedPending = h + u + v
  BY <1>4, <1>6
<1>9. ReceivedPending' = (g + x) + r /\ CompletedPending' = (h + y) + u + v
  BY <1>4, <1>6, <1>7
<1>10. ReceivedPending' = ReceivedPending + x /\ CompletedPending' = CompletedPending + y
  BY <1>8, <1>9
<1> QED
  BY <1>5, <1>10

\* Tasks that are queued behind the first n, before and after one more is.
LEMMA SuffixAdded ==
    ASSUME ApprovalInv, SuffixBalance, NEW e \in Event, tasks' = tasks \o <<e>>,
           NEW s \in {0, 1}, NEW p \in Nat,
           p = Cardinality(Open) + (IF e = "received" THEN 1 ELSE 0)
                  - (IF e \in Over THEN 1 ELSE 0) + s
    PROVE  \A n \in EventLimit .. Len(tasks') :
              CountUpTo(tasks', Len(tasks'), {"received"}) - CountUpTo(tasks', n, {"received"})
                 <= p + (CountUpTo(tasks', Len(tasks'), Over) - CountUpTo(tasks', n, Over))
<1>1. /\ Len(tasks) \in Nat /\ Cardinality(Open) \in Nat /\ EventLimit \in Nat
      /\ \A S : \A n \in Nat : CountUpTo(tasks, n, S) \in Nat
      /\ Len(tasks') = Len(tasks) + 1
  BY CountTypes, TaskAdded, TelemetryAssumption DEF ApprovalInv
<1> SUFFICES ASSUME NEW n \in EventLimit .. Len(tasks')
             PROVE  CountUpTo(tasks', Len(tasks'), {"received"})
                       - CountUpTo(tasks', n, {"received"})
                    <= p + (CountUpTo(tasks', Len(tasks'), Over) - CountUpTo(tasks', n, Over))
  OBVIOUS
<1>2. CASE n = Len(tasks')
  <2>1. /\ CountUpTo(tasks', n, {"received"}) \in Nat
        /\ CountUpTo(tasks', n, Over) \in Nat
    <3>1. n \in Nat
      BY <1>1, <1>2
    <3> QED
      BY <3>1, CountType
  <2> QED
    BY <1>2, <2>1
<1>3. CASE n # Len(tasks')
  <2>1. n \in EventLimit .. Len(tasks) /\ n \in 0 .. Len(tasks) /\ n \in Nat
    BY <1>1, <1>3
  <2>2. /\ CountUpTo(tasks', Len(tasks'), {"received"})
              = CountUpTo(tasks, Len(tasks), {"received"})
                   + IF e \in {"received"} THEN 1 ELSE 0
        /\ CountUpTo(tasks', n, {"received"}) = CountUpTo(tasks, n, {"received"})
        /\ CountUpTo(tasks', Len(tasks'), Over)
              = CountUpTo(tasks, Len(tasks), Over) + IF e \in Over THEN 1 ELSE 0
        /\ CountUpTo(tasks', n, Over) = CountUpTo(tasks, n, Over)
    BY <2>1, CountAdded DEF ApprovalInv
  <2>3. CountUpTo(tasks, Len(tasks), {"received"}) - CountUpTo(tasks, n, {"received"})
           <= Cardinality(Open)
                 + (CountUpTo(tasks, Len(tasks), Over) - CountUpTo(tasks, n, Over))
    BY <2>1 DEF SuffixBalance
  <2>4. PICK a, b, c, d \in Nat :
           /\ a = CountUpTo(tasks, Len(tasks), {"received"})
           /\ b = CountUpTo(tasks, n, {"received"})
           /\ c = CountUpTo(tasks, Len(tasks), Over)
           /\ d = CountUpTo(tasks, n, Over)
    BY <1>1, <2>1
  <2>5. PICK q \in Nat : q = Cardinality(Open)
    BY <1>1
  <2>6. PICK x, y \in {0, 1} : /\ x = IF e = "received" THEN 1 ELSE 0
                               /\ y = IF e \in Over THEN 1 ELSE 0
    OBVIOUS
  <2>7. /\ CountUpTo(tasks', Len(tasks'), {"received"}) = a + x
        /\ CountUpTo(tasks', n, {"received"}) = b
        /\ CountUpTo(tasks', Len(tasks'), Over) = c + y
        /\ CountUpTo(tasks', n, Over) = d
    BY <2>2, <2>4, <2>6
  <2>8. a - b <= q + (c - d) /\ p = q + x - y + s
    BY <2>3, <2>4, <2>5, <2>6
  <2>9. (a + x) - b <= p + ((c + y) - d)
    BY <2>8
  <2> QED
    BY <2>7, <2>9
<1> QED
  BY <1>2, <1>3

\* An event that was not expected lets the count fall behind, no other moves it.
LEMMA DriftGateway ==
    ASSUME ApprovalInv, Course, DriftInv, GatewayStep
    PROVE  DriftInv'
<1>1. UNCHANGED <<failedPosts, late, outstanding, approved, declined>>
  BY GatewayTasks DEF ApprovalInv
<1>2. (LateEvents <= failedPosts)'
  BY <1>1 DEF DriftInv, LateEvents
<1>3. CASE UNCHANGED <<fired, tasks>>
  <2>1. SuffixBalance' /\ DriftIsBounded' /\ FinishedCount'
    BY <1>1, <1>3 DEF DriftInv, SuffixBalance, DriftIsBounded, FinishedCount, Drift, Strays,
       ReceivedPending, CompletedPending, Queued, CountUpTo, Open, Finished, Twice,
       Completions, Begun
  <2> QED
    BY <1>2, <2>1 DEF DriftInv
<1>4. ASSUME NEW m \in Links, NEW e \in Event, Fires(m, e), tasks' = tasks \o <<e>>
      PROVE  DriftInv'
  <2>1. PICK x, y \in {0, 1} : /\ x = IF e = "received" THEN 1 ELSE 0
                               /\ y = IF e \in Over THEN 1 ELSE 0
    OBVIOUS
  <2>2. PICK s \in {0, 1} :
           /\ s <= IF e \in Over THEN 1 ELSE 0
           /\ Cardinality(Open') \in Nat
           /\ Cardinality(Open') = Cardinality(Open) + (IF e = "received" THEN 1 ELSE 0)
                                      - (IF e \in Over THEN 1 ELSE 0) + s
           /\ Cardinality(Strays') = Cardinality(Strays) + s
           /\ Cardinality(Finished') + Cardinality(Twice')
                 = Cardinality(Finished) + Cardinality(Twice) + IF e \in Over THEN 1 ELSE 0
    BY <1>4, EventNumbers DEF ApprovalInv
  <2>3. /\ ReceivedPending' = ReceivedPending + x
        /\ CompletedPending' = CompletedPending + y
    BY <1>1, <1>4, <2>1, PendingAdded
  <2>4. SuffixBalance'
    <3>1. PICK p \in Nat : p = Cardinality(Open')
      BY <2>2
    <3>2. p = Cardinality(Open) + (IF e = "received" THEN 1 ELSE 0)
                 - (IF e \in Over THEN 1 ELSE 0) + s
      BY <2>2, <3>1
    <3>3. SuffixBalance
      BY DEF DriftInv
    <3>4. \A n \in EventLimit .. Len(tasks') :
             CountUpTo(tasks', Len(tasks'), {"received"}) - CountUpTo(tasks', n, {"received"})
                <= p + (CountUpTo(tasks', Len(tasks'), Over) - CountUpTo(tasks', n, Over))
      BY <1>4, <3>2, <3>3, SuffixAdded
    <3> QED
      BY <3>1, <3>4 DEF SuffixBalance, CountUpTo
  <2>5. PICK a, b, c, d, f, g \in Nat :
           /\ a = outstanding /\ b = ReceivedPending /\ c = Cardinality(Open)
           /\ d = CompletedPending /\ f = failedPosts /\ g = Cardinality(Strays)
    BY CountTypes
  <2>6. (a + b) - (c + d) <= EventLimit - 1 + f /\ (a + b) - (c + d) >= -g
    BY <2>5 DEF DriftInv, DriftIsBounded, Drift
  <2>7. /\ outstanding' = a /\ ReceivedPending' = b + x /\ Cardinality(Open') = c + x - y + s
        /\ CompletedPending' = d + y /\ failedPosts' = f /\ Cardinality(Strays') = g + s
    BY <1>1, <2>1, <2>2, <2>3, <2>5
  <2>8. (a + (b + x)) - ((c + x - y + s) + (d + y)) = (a + b) - (c + d) - s
    OBVIOUS
  <2>9. /\ (a + b) - (c + d) - s <= EventLimit - 1 + f
        /\ (a + b) - (c + d) - s >= -(g + s)
    BY <2>6, TelemetryAssumption
  <2>10. DriftIsBounded'
    BY <2>7, <2>8, <2>9 DEF DriftIsBounded, Drift
  <2>11. FinishedCount'
    <3>1. approved + declined + CompletedPending = Cardinality(Finished) + Cardinality(Twice)
      BY DEF DriftInv, FinishedCount
    <3>2. approved \in Nat /\ declined \in Nat /\ CompletedPending \in Nat
      BY CountTypes
    <3>3. approved' + declined' + CompletedPending' = Cardinality(Finished') + Cardinality(Twice')
      BY <1>1, <2>1, <2>2, <2>3, <3>1, <3>2
    <3> QED
      BY <3>3 DEF FinishedCount
  <2> QED
    BY <1>2, <2>4, <2>10, <2>11 DEF DriftInv
<1> QED
  BY <1>3, <1>4, GatewayTasks DEF ApprovalInv

\* One of an event's kind can be first to post, or arrive late.
Near(S) ==
    \/ \E i \in 1 .. Len(tasks) : i <= EventLimit /\ tasks[i] \in S
    \/ \E e \in S : late[e] # 0

\* What is still to come of an event, before and after a step of the board.
Pending(e) == Queued({e}) + late[e]

\* The pending events of two kinds are those of the one and of the other.
LEMMA PendingSum ==
    ASSUME NEW s, NEW n \in Nat
    PROVE  /\ CountUpTo(s, n, Over) = CountUpTo(s, n, {"approved"}) + CountUpTo(s, n, {"declined"})
           /\ CountUpTo(s, n, {"received"}) + CountUpTo(s, n, Over) <= n
<1> DEFINE C(S) == {i \in 1 .. n : s[i] \in S}
<1>1. IsFiniteSet(1 .. n) /\ Cardinality(1 .. n) = n
  BY FS_Interval
<1>2. \A S : IsFiniteSet(C(S)) /\ Cardinality(C(S)) \in Nat
  BY <1>1, FS_Subset, FS_CardinalityType
<1>3. /\ C({"approved"}) \cap C({"declined"}) = {}
      /\ C({"approved"}) \cup C({"declined"}) = C(Over)
      /\ C({"received"}) \cap C(Over) = {}
      /\ C({"received"}) \cup C(Over) \subseteq 1 .. n
  BY DEF Over
<1>4. \A S : CountUpTo(s, n, S) = Cardinality(C(S))
  BY DEF CountUpTo
<1> HIDE DEF C
<1>5. Cardinality(C(Over)) = Cardinality(C({"approved"})) + Cardinality(C({"declined"}))
  <2>1. Cardinality(C({"approved"}) \cup C({"declined"}))
           = Cardinality(C({"approved"})) + Cardinality(C({"declined"}))
                - Cardinality(C({"approved"}) \cap C({"declined"}))
    BY <1>2, FS_Union
  <2>2. Cardinality(C({"approved"}) \cap C({"declined"})) = 0
    BY <1>3, FS_EmptySet
  <2>3. PICK a, b \in Nat : a = Cardinality(C({"approved"})) /\ b = Cardinality(C({"declined"}))
    BY <1>2
  <2>4. Cardinality(C({"approved"}) \cup C({"declined"})) = a + b
    BY <2>1, <2>2, <2>3
  <2> QED
    BY <1>3, <2>3, <2>4
<1>6. Cardinality(C({"received"})) + Cardinality(C(Over)) <= n
  <2>1. Cardinality(C({"received"}) \cup C(Over))
           = Cardinality(C({"received"})) + Cardinality(C(Over))
                - Cardinality(C({"received"}) \cap C(Over))
    BY <1>2, FS_Union
  <2>2. Cardinality(C({"received"}) \cap C(Over)) = 0
    BY <1>3, FS_EmptySet
  <2>3. Cardinality(C({"received"}) \cup C(Over)) <= n
    BY <1>1, <1>3, FS_Subset
  <2>4. Cardinality(C({"received"})) \in Nat /\ Cardinality(C(Over)) \in Nat
    BY <1>2
  <2> QED
    BY <2>1, <2>2, <2>3, <2>4
<1> QED
  BY <1>4, <1>5, <1>6

\* One that is among them is counted.
LEMMA CountOne ==
    ASSUME NEW s, NEW n \in Nat, NEW i \in 1 .. n, NEW S, s[i] \in S
    PROVE  CountUpTo(s, n, S) >= 1
<1> DEFINE C == {j \in 1 .. n : s[j] \in S}
<1>1. IsFiniteSet(1 .. n) /\ C \in SUBSET (1 .. n) /\ i \in C
  BY FS_Interval
<1> HIDE DEF C
<1>2. IsFiniteSet(C)
  BY <1>1, FS_Subset
<1>3. Cardinality(C) \in Nat /\ Cardinality(C) # 0
  BY <1>1, <1>2, FS_CardinalityType, FS_EmptySet
<1> QED
  BY <1>3 DEF CountUpTo, C

\* The pending counts of the properties, kind by kind.
LEMMA PendingKinds ==
    Board!TypeOK => /\ \A e \in Board!Stage : Pending(e) \in Nat
                    /\ ReceivedPending = Pending("received")
                    /\ CompletedPending = Pending("approved") + Pending("declined")
<1> SUFFICES ASSUME Board!TypeOK
             PROVE  /\ \A e \in Board!Stage : Pending(e) \in Nat
                    /\ ReceivedPending = Pending("received")
                    /\ CompletedPending = Pending("approved") + Pending("declined")
  OBVIOUS
<1>1. Len(tasks) \in Nat /\ \A e \in Board!Stage : late[e] \in Nat
  BY DEF Board!TypeOK
<1>2. \A S : Queued(S) = CountUpTo(tasks, Len(tasks), S) /\ Queued(S) \in Nat
  BY <1>1, CountType, QueuedIsCount
<1>3. Queued(Over) = Queued({"approved"}) + Queued({"declined"})
  BY <1>1, <1>2, PendingSum
<1>4. late["approved"] \in Nat /\ late["declined"] \in Nat
  BY <1>1 DEF Board!Stage
<1>5. /\ \A e \in Board!Stage : Pending(e) \in Nat
      /\ ReceivedPending = Pending("received")
  BY <1>1, <1>2 DEF Pending, ReceivedPending
<1>6. /\ CompletedPending = Queued(Over) + late["approved"] + late["declined"]
      /\ Pending("approved") = Queued({"approved"}) + late["approved"]
      /\ Pending("declined") = Queued({"declined"}) + late["declined"]
  BY DEF CompletedPending, Pending, Over
<1>7. CompletedPending = Pending("approved") + Pending("declined")
  <2>1. Queued({"approved"}) \in Nat /\ Queued({"declined"}) \in Nat
    BY <1>2
  <2> QED
    BY <1>3, <1>4, <1>6, <2>1
<1> QED
  BY <1>5, <1>7

\* A step of the board gives up one post, or counts one event that was near.
LEMMA BoardPending ==
    ASSUME Board!TypeOK, BoardStep
    PROVE  \/ /\ failedPosts' = failedPosts + 1
              /\ LateEvents' <= LateEvents + 1
              /\ UNCHANGED <<outstanding, approved, declined>>
              /\ \A e \in Board!Stage : Pending(e)' = Pending(e)
           \/ \E e \in Board!Stage :
                 /\ failedPosts' = failedPosts
                 /\ LateEvents' <= LateEvents
                 /\ Board!Count(e)
                 /\ \A f \in Board!Stage : Pending(f)' = Pending(f) - IF f = e THEN 1 ELSE 0
                 /\ \A S : e \in S => Near(S)
<1> DEFINE Kinds == {"received", "approved", "declined"}
<1>0. /\ Len(tasks) \in Nat /\ Kinds \subseteq Board!Stage
      /\ \A f \in Board!Stage : late[f] \in Nat
  BY DEF Board!TypeOK, Board!Stage
<1>1. \A f : Queued({f}) \in Nat
  BY <1>0, CountType, QueuedIsCount
<1>2. ASSUME NEW i \in 1 .. Len(tasks), i <= EventLimit, Board!PostHandled(i)
      PROVE  \E e \in Board!Stage :
                 /\ failedPosts' = failedPosts
                 /\ LateEvents' <= LateEvents
                 /\ Board!Count(e)
                 /\ \A f \in Board!Stage : Pending(f)' = Pending(f) - IF f = e THEN 1 ELSE 0
                 /\ \A S : e \in S => Near(S)
  <2>1. PICK e \in Board!Stage : e = tasks[i]
    BY DEF Board!TypeOK
  <2>2. Board!Count(e) /\ UNCHANGED <<failedPosts, late>> /\ tasks' = Board!RemoveAt(tasks, i)
    BY <1>2, <2>1 DEF Board!PostHandled
  <2>3. LateEvents' = LateEvents /\ LateEvents \in Int
    BY <1>0, <2>2 DEF LateEvents, Board!Stage
  <2>4. ASSUME NEW f \in Board!Stage PROVE Pending(f)' = Pending(f) - IF f = e THEN 1 ELSE 0
    <3>1. Queued({f})' = Queued({f}) - IF e \in {f} THEN 1 ELSE 0
      BY <2>1, <2>2, QueuedPosted
    <3>2. Queued({f}) \in Nat /\ late[f] \in Nat
      BY <1>0, <1>1
    <3> QED
      BY <2>2, <3>1, <3>2 DEF Pending
  <2>5. \A S : e \in S => Near(S)
    BY <1>2, <2>1 DEF Near
  <2> QED
    BY <2>2, <2>3, <2>4, <2>5
<1>3. ASSUME NEW i \in 1 .. Len(tasks), Board!PostFails(i)
      PROVE  /\ failedPosts' = failedPosts + 1
             /\ LateEvents' <= LateEvents + 1
             /\ UNCHANGED <<outstanding, approved, declined>>
             /\ \A e \in Board!Stage : Pending(e)' = Pending(e)
  <2>1. PICK e \in Board!Stage : e = tasks[i]
    BY DEF Board!TypeOK
  <2>2. \A f \in Board!Stage : late'[f] = late[f] + IF f = e THEN 1 ELSE 0
    BY <1>3, <2>1, LateChanged DEF Board!PostFails
  <2>3. LateEvents' <= LateEvents + 1
    BY <1>0, <2>2 DEF LateEvents, Board!Stage
  <2>4. ASSUME NEW f \in Board!Stage PROVE Pending(f)' = Pending(f)
    <3>1. Queued({f})' = Queued({f}) - IF e \in {f} THEN 1 ELSE 0
      BY <1>3, <2>1, QueuedPosted DEF Board!PostFails
    <3>2. Queued({f}) \in Nat /\ late[f] \in Nat
      BY <1>0, <1>1
    <3> QED
      BY <2>2, <3>1, <3>2 DEF Pending
  <2> QED
    BY <1>3, <2>3, <2>4 DEF Board!PostFails
<1>4. ASSUME NEW e \in Board!Stage, Board!LateHandled(e)
      PROVE  /\ failedPosts' = failedPosts
             /\ LateEvents' <= LateEvents
             /\ Board!Count(e)
             /\ \A f \in Board!Stage : Pending(f)' = Pending(f) - IF f = e THEN 1 ELSE 0
             /\ \A S : e \in S => Near(S)
  <2>1. \A f \in Board!Stage : late'[f] = late[f] - IF f = e THEN 1 ELSE 0
    BY <1>4, LateChanged DEF Board!LateHandled
  <2>2. LateEvents' <= LateEvents
    BY <1>0, <2>1 DEF LateEvents, Board!Stage
  <2>3. ASSUME NEW f \in Board!Stage PROVE Pending(f)' = Pending(f) - IF f = e THEN 1 ELSE 0
    <3>1. Queued({f})' = Queued({f})
      BY <1>4 DEF Board!LateHandled, Queued
    <3>2. Queued({f}) \in Nat /\ late[f] \in Nat
      BY <1>0, <1>1
    <3> QED
      BY <2>1, <3>1, <3>2 DEF Pending
  <2>4. \A S : e \in S => Near(S)
    BY <1>0, <1>4 DEF Board!LateHandled, Near
  <2> QED
    BY <1>4, <2>2, <2>3, <2>4 DEF Board!LateHandled
<1> QED
  BY <1>2, <1>3, <1>4, BoardCases

\* When a completed event is near and OUTSTANDING is zero, the received ones
\* still to come are few: those near, and those of open transactions.
LEMMA DriftAtZero ==
    ASSUME ApprovalInv, DriftInv, Near(Over), outstanding = 0
    PROVE  Drift <= EventLimit - 2 + failedPosts
<1>1. /\ Len(tasks) \in Nat /\ EventLimit \in Nat \ {0} /\ failedPosts \in Nat
      /\ late["received"] \in Nat /\ late["approved"] \in Nat /\ late["declined"] \in Nat
      /\ Cardinality(Open) \in Nat
      /\ \A S : \A n \in Nat : CountUpTo(tasks, n, S) \in Nat
  BY CountTypes, TelemetryAssumption
<1>2. PICK k \in Nat : k = IF Len(tasks) < EventLimit THEN Len(tasks) ELSE EventLimit
  BY <1>1
<1>3. PICK a, b, c, d \in Nat :
         /\ a = CountUpTo(tasks, Len(tasks), {"received"})
         /\ b = CountUpTo(tasks, k, {"received"})
         /\ c = CountUpTo(tasks, Len(tasks), Over)
         /\ d = CountUpTo(tasks, k, Over)
  BY <1>1
<1>4. PICK q \in Nat : q = Cardinality(Open)
  BY <1>1
<1>5. a - b <= q + (c - d)
  <2>1. CASE Len(tasks) < EventLimit
    <3>1. a = b /\ c = d
      BY <1>2, <1>3, <2>1
    <3> QED
      BY <3>1
  <2>2. CASE ~(Len(tasks) < EventLimit)
    <3>1. k \in EventLimit .. Len(tasks)
      BY <1>1, <1>2, <2>2
    <3>2. CountUpTo(tasks, Len(tasks), {"received"}) - CountUpTo(tasks, k, {"received"})
             <= Cardinality(Open)
                   + (CountUpTo(tasks, Len(tasks), Over) - CountUpTo(tasks, k, Over))
      BY <3>1 DEF DriftInv, SuffixBalance
    <3> QED
      BY <1>3, <1>4, <3>2
  <2> QED
    BY <2>1, <2>2
<1>6. b + d <= k /\ k <= EventLimit
  BY <1>1, <1>2, <1>3, PendingSum
<1>7. PICK r, u, v, f \in Nat :
         /\ r = late["received"] /\ u = late["approved"] /\ v = late["declined"]
         /\ f = failedPosts
  BY <1>1
<1>8. r + u + v <= f
  BY <1>7 DEF DriftInv, LateEvents
<1>9. d >= 1 \/ u + v >= 1
  <2>1. ASSUME NEW i \in 1 .. Len(tasks), i <= EventLimit, tasks[i] \in Over
        PROVE  d >= 1
    <3>1. i \in 1 .. k
      BY <1>1, <1>2, <2>1
    <3>2. CountUpTo(tasks, k, Over) >= 1
      BY <2>1, <3>1, CountOne
    <3> QED
      BY <1>3, <3>2
  <2>2. ASSUME NEW e \in Over, late[e] # 0
        PROVE  u + v >= 1
    <3>1. u # 0 \/ v # 0
      BY <1>7, <2>2 DEF Over
    <3> QED
      BY <3>1
  <2> QED
    BY <2>1, <2>2 DEF Near
<1>10. Drift = (0 + (a + r)) - (q + (c + u + v))
  <2>1. /\ ReceivedPending = a + r
        /\ CompletedPending = c + u + v
    BY <1>3, <1>7, QueuedIsCount DEF ReceivedPending, CompletedPending, Over
  <2> QED
    BY <1>4, <2>1 DEF Drift
<1>11. (0 + (a + r)) - (q + (c + u + v)) <= EventLimit - 2 + f
  BY <1>1, <1>5, <1>6, <1>8, <1>9
<1> QED
  BY <1>7, <1>10, <1>11

\* A step of the board keeps the balance of the tasks behind the first ones.
LEMMA SuffixBoard ==
    ASSUME ApprovalInv, SuffixBalance, BoardStep
    PROVE  SuffixBalance'
<1>1. Open' = Open
  BY BoardCases DEF ApprovalInv, vars, handlerVars, Open, Completions, Begun
<1>2. CASE UNCHANGED tasks
  BY <1>1, <1>2 DEF SuffixBalance, CountUpTo
<1>3. ASSUME NEW i \in 1 .. Len(tasks), i <= EventLimit, tasks' = Board!RemoveAt(tasks, i)
      PROVE  SuffixBalance'
  <2>1. /\ Len(tasks) \in Nat /\ Len(tasks') = Len(tasks) - 1 /\ EventLimit \in Nat \ {0}
        /\ \A S : \A n \in Nat : CountUpTo(tasks, n, S) \in Nat
        /\ Cardinality(Open) \in Nat
    BY <1>3, CountTypes, TaskPosted, TelemetryAssumption DEF ApprovalInv
  <2>2. ASSUME NEW n \in EventLimit .. Len(tasks')
        PROVE  CountUpTo(tasks', Len(tasks'), {"received"}) - CountUpTo(tasks', n, {"received"})
                  <= Cardinality(Open)
                        + (CountUpTo(tasks', Len(tasks'), Over) - CountUpTo(tasks', n, Over))
    <3>1. /\ n + 1 \in EventLimit .. Len(tasks) /\ n + 1 \in i .. Len(tasks)
          /\ (n + 1) - 1 = n /\ n + 1 \in Nat
      BY <1>3, <2>1
    <3>2. ASSUME NEW S
          PROVE  /\ CountUpTo(tasks', Len(tasks'), S) = CountUpTo(tasks, Len(tasks), S)
                                                          - IF tasks[i] \in S THEN 1 ELSE 0
                 /\ CountUpTo(tasks', n, S) = CountUpTo(tasks, n + 1, S)
                                                - IF tasks[i] \in S THEN 1 ELSE 0
      <4>1. \A k \in i .. Len(tasks) :
               CountUpTo(tasks', k - 1, S)
                  = CountUpTo(tasks, k, S) - IF tasks[i] \in S THEN 1 ELSE 0
        BY <1>3, CountPosted DEF ApprovalInv
      <4>2. CountUpTo(tasks', Len(tasks'), S)
               = CountUpTo(tasks, Len(tasks), S) - IF tasks[i] \in S THEN 1 ELSE 0
        BY <1>3, CountPosted DEF ApprovalInv
      <4>3. CountUpTo(tasks', (n + 1) - 1, S)
               = CountUpTo(tasks, n + 1, S) - IF tasks[i] \in S THEN 1 ELSE 0
        BY <3>1, <4>1
      <4> QED
        BY <3>1, <4>2, <4>3
    <3>3. PICK a, b, c, d, q \in Nat :
             /\ a = CountUpTo(tasks, Len(tasks), {"received"})
             /\ b = CountUpTo(tasks, n + 1, {"received"})
             /\ c = CountUpTo(tasks, Len(tasks), Over)
             /\ d = CountUpTo(tasks, n + 1, Over)
             /\ q = Cardinality(Open)
      BY <2>1, <3>1
    <3>4. a - b <= q + (c - d)
      BY <3>1, <3>3 DEF SuffixBalance
    <3>5. PICK x, y \in {0, 1} : /\ x = IF tasks[i] \in {"received"} THEN 1 ELSE 0
                                 /\ y = IF tasks[i] \in Over THEN 1 ELSE 0
      OBVIOUS
    <3>6. /\ CountUpTo(tasks', Len(tasks'), {"received"}) = a - x
          /\ CountUpTo(tasks', n, {"received"}) = b - x
          /\ CountUpTo(tasks', Len(tasks'), Over) = c - y
          /\ CountUpTo(tasks', n, Over) = d - y
      BY <3>2, <3>3, <3>5
    <3>7. (a - x) - (b - x) <= q + ((c - y) - (d - y))
      BY <3>4
    <3> QED
      BY <3>3, <3>6, <3>7
  <2> QED
    BY <1>1, <2>2 DEF SuffixBalance, CountUpTo
<1> QED
  BY <1>2, <1>3, BoardCases DEF ApprovalInv, Board!LateHandled

\* The count gets out of step by one where a completed event finds it at zero,
\* and where a post fails it may.
LEMMA DriftBoard ==
    ASSUME ApprovalInv, DriftInv, BoardStep
    PROVE  DriftInv'
<1>1. /\ Open' = Open /\ Strays' = Strays /\ Finished' = Finished /\ Twice' = Twice
  BY BoardCases DEF ApprovalInv, vars, handlerVars, Open, Strays, Finished, Twice, Completions,
     Begun
<1>2. SuffixBalance'
  BY SuffixBoard DEF DriftInv
<1>3. PICK w, b, c, d, f, g \in Nat :
         /\ w = outstanding /\ b = ReceivedPending /\ c = Cardinality(Open)
         /\ d = CompletedPending /\ f = failedPosts /\ g = Cardinality(Strays)
  BY CountTypes
<1>4. /\ (w + b) - (c + d) <= EventLimit - 1 + f /\ (w + b) - (c + d) >= -g
      /\ LateEvents <= f /\ EventLimit \in Nat
  BY <1>3, TelemetryAssumption DEF DriftInv, DriftIsBounded, Drift
<1>5. /\ approved + declined + d = Cardinality(Finished) + Cardinality(Twice)
      /\ approved \in Nat /\ declined \in Nat
  BY <1>3, CountTypes DEF DriftInv, FinishedCount
<1>6. LateEvents \in Nat /\ LateEvents' \in Nat
  <2>1. Board!TypeOK /\ Board!TypeOK'
    BY BoardTypes DEF ApprovalInv
  <2>2. /\ late["received"] \in Nat /\ late["approved"] \in Nat /\ late["declined"] \in Nat
        /\ late'["received"] \in Nat /\ late'["approved"] \in Nat /\ late'["declined"] \in Nat
    BY <2>1 DEF Board!TypeOK, Board!Stage
  <2> QED
    BY <2>2 DEF LateEvents
<1>7. /\ \A e \in Board!Stage : Pending(e) \in Nat
      /\ b = Pending("received") /\ d = Pending("approved") + Pending("declined")
      /\ ReceivedPending' = Pending("received")'
      /\ CompletedPending' = Pending("approved")' + Pending("declined")'
  <2>1. Board!TypeOK /\ Board!TypeOK'
    BY BoardTypes DEF ApprovalInv
  <2>2. /\ \A e \in Board!Stage : Pending(e) \in Nat
        /\ b = Pending("received") /\ d = Pending("approved") + Pending("declined")
    BY <1>3, <2>1, PendingKinds
  <2>3. /\ ReceivedPending' = Pending("received")'
        /\ CompletedPending' = Pending("approved")' + Pending("declined")'
    <3>1. (/\ \A e \in Board!Stage : Pending(e) \in Nat
           /\ ReceivedPending = Pending("received")
           /\ CompletedPending = Pending("approved") + Pending("declined"))'
      BY <2>1, PendingKinds, PTL
    <3> QED
      BY <3>1
  <2> QED
    BY <2>2, <2>3
<1>8. CASE /\ failedPosts' = failedPosts + 1
           /\ LateEvents' <= LateEvents + 1
           /\ UNCHANGED <<outstanding, approved, declined>>
           /\ \A e \in Board!Stage : Pending(e)' = Pending(e)
  <2>1. ReceivedPending' = b /\ CompletedPending' = d
    BY <1>7, <1>8 DEF Board!Stage
  <2>2. (LateEvents <= failedPosts)'
    BY <1>3, <1>4, <1>6, <1>8
  <2>3. Drift' = (w + b) - (c + d) /\ failedPosts' = f + 1 /\ Cardinality(Strays') = g
    BY <1>1, <1>3, <1>8, <2>1 DEF Drift
  <2>4. DriftIsBounded'
    BY <1>4, <2>3 DEF DriftIsBounded
  <2>5. FinishedCount'
    BY <1>1, <1>5, <1>8, <2>1 DEF FinishedCount
  <2> QED
    BY <1>2, <2>2, <2>4, <2>5 DEF DriftInv
<1>9. ASSUME NEW e \in Board!Stage,
             failedPosts' = failedPosts,
             LateEvents' <= LateEvents,
             Board!Count(e),
             \A h \in Board!Stage : Pending(h)' = Pending(h) - IF h = e THEN 1 ELSE 0,
             \A S : e \in S => Near(S)
      PROVE  DriftInv'
  <2>1. PICK x, y \in {0, 1} : /\ x = IF e = "received" THEN 1 ELSE 0
                               /\ y = IF e \in Over THEN 1 ELSE 0
    OBVIOUS
  <2>2. ReceivedPending' = b - x /\ CompletedPending' = d - y
    <3>1. PICK p, q \in Nat : p = Pending("approved") /\ q = Pending("declined")
      BY <1>7 DEF Board!Stage
    <3>2. /\ Pending("received")' = b - x
          /\ Pending("approved")' = p - IF e = "approved" THEN 1 ELSE 0
          /\ Pending("declined")' = q - IF e = "declined" THEN 1 ELSE 0
      BY <1>7, <1>9, <2>1, <3>1 DEF Board!Stage
    <3>3. y = (IF e = "approved" THEN 1 ELSE 0) + IF e = "declined" THEN 1 ELSE 0
      BY <2>1 DEF Over
    <3> QED
      BY <1>7, <3>1, <3>2, <3>3
  <2>3. (LateEvents <= failedPosts)'
    BY <1>3, <1>4, <1>6, <1>9
  <2>4. /\ approved' + declined' = approved + declined + y
        /\ e = "received" => outstanding' = w + 1
        /\ e \in Over => outstanding' = IF w = 0 THEN 0 ELSE w - 1
        /\ e \notin Over /\ e # "received" => outstanding' = w
        /\ outstanding' \in Nat /\ approved' \in Nat /\ declined' \in Nat
    BY <1>3, <1>9, <2>1, Counted DEF ApprovalInv
  <2>5. FinishedCount'
    <3>0. approved + declined \in Nat
      BY <1>5
    <3>1. approved' + declined' = approved + declined + y
      BY <2>4
    <3>2. PICK p \in Nat : p = approved + declined
      BY <3>0
    <3>3. approved' + declined' + (d - y) = approved + declined + d
      BY <3>1, <3>2
    <3> QED
      BY <1>1, <1>5, <2>2, <3>3 DEF FinishedCount
  <2>6. Drift' = (outstanding' + (b - x)) - (c + (d - y))
    BY <1>1, <1>3, <2>2 DEF Drift
  <2>7. failedPosts' = f /\ Cardinality(Strays') = g
    BY <1>1, <1>3, <1>9
  <2>8. CASE e \in Over /\ w = 0
    <3>1. Drift <= EventLimit - 2 + failedPosts
      BY <1>3, <1>9, <2>8, DriftAtZero
    <3>2. (w + b) - (c + d) <= EventLimit - 2 + f
      BY <1>3, <3>1 DEF Drift
    <3>3. x = 0 /\ y = 1 /\ outstanding' = 0
      BY <2>1, <2>4, <2>8 DEF Over
    <3>4. Drift' = (w + b) - (c + d) + 1
      BY <2>6, <2>8, <3>3
    <3> QED
      BY <1>2, <1>4, <2>3, <2>5, <2>7, <3>2, <3>4 DEF DriftInv, DriftIsBounded
  <2>9. CASE ~(e \in Over /\ w = 0)
    <3>1. outstanding' = w + x - y
      <4>1. CASE e = "received"
        BY <2>1, <2>4, <4>1 DEF Over
      <4>2. CASE e \in Over
        BY <2>1, <2>4, <2>9, <4>2 DEF Over
      <4>3. CASE e \notin Over /\ e # "received"
        BY <2>1, <2>4, <4>3
      <4> QED
        BY <4>1, <4>2, <4>3
    <3>2. Drift' = (w + b) - (c + d)
      BY <2>6, <3>1
    <3> QED
      BY <1>2, <1>4, <2>3, <2>5, <2>7, <3>2 DEF DriftInv, DriftIsBounded
  <2> QED
    BY <2>8, <2>9
<1> QED
  BY <1>8, <1>9, BoardPending DEF ApprovalInv

\* Nothing is open, finished or queued at first.
LEMMA DriftInit == ObservedInit => DriftInv
<1> SUFFICES ASSUME ObservedInit PROVE DriftInv
  OBVIOUS
<1>1. /\ \A t \in Txn : fired[t] = <<>>
      /\ tasks = <<>> /\ outstanding = 0 /\ approved = 0 /\ declined = 0 /\ failedPosts = 0
      /\ late["received"] = 0 /\ late["approved"] = 0 /\ late["declined"] = 0
  BY DEF ObservedInit, Init, Board!Init, Board!Stage
<1>2. \A t \in Txn : Completions(t) = {} /\ ~Begun(t)
  BY <1>1 DEF Completions, Begun
<1>3. \A t \in Txn : Cardinality(Completions(t)) = 0
  BY <1>2, FS_EmptySet
<1>4. Open = {} /\ Strays = {} /\ Finished = {} /\ Twice = {}
  BY <1>2, <1>3 DEF Open, Strays, Finished, Twice
<1>5. /\ Cardinality(Open) = 0 /\ Cardinality(Strays) = 0
      /\ Cardinality(Finished) = 0 /\ Cardinality(Twice) = 0
  BY <1>4, FS_EmptySet
<1>6. Len(tasks) = 0 /\ \A S : CountUpTo(tasks, 0, S) = 0 /\ Queued(S) = 0
  BY <1>1, CountNone, QueuedIsCount
<1>7. ReceivedPending = 0 /\ CompletedPending = 0 /\ LateEvents = 0
  BY <1>1, <1>6 DEF ReceivedPending, CompletedPending, LateEvents
<1>8. SuffixBalance
  <2>1. EventLimit \in Nat \ {0}
    BY TelemetryAssumption
  <2>2. \A n : n \notin EventLimit .. Len(tasks)
    BY <1>6, <2>1
  <2> QED
    BY <2>2 DEF SuffixBalance
<1>9. Drift = 0
  BY <1>1, <1>5, <1>7 DEF Drift
<1>10. DriftIsBounded
  BY <1>1, <1>5, <1>9, TelemetryAssumption DEF DriftIsBounded
<1> QED
  BY <1>1, <1>5, <1>7, <1>8, <1>10 DEF DriftInv, FinishedCount

\* The inductive invariant for OUTSTANDING.
THEOREM DriftInvHolds == ObservedSpec => [](ApprovalInv /\ Course /\ DriftInv)
<1>1. ObservedInit => Course /\ DriftInv
  BY CourseInit, DriftInit DEF ObservedInit
<1>2. ASSUME ApprovalInv, Course, DriftInv, [GatewayStep \/ BoardStep]_observedVars
      PROVE  Course' /\ DriftInv'
  <2>1. Course'
    <3>1. [Next]_vars
      BY <1>2, BoardCases DEF GatewayStep, observedVars, ApprovalInv
    <3> QED
      BY <1>2, <3>1, CourseStep DEF ApprovalInv
  <2>2. CASE UNCHANGED observedVars
    <3>1. UNCHANGED vars /\ UNCHANGED telemetryVars
      BY <2>2 DEF observedVars
    <3>2. /\ Open' = Open /\ Strays' = Strays /\ Finished' = Finished /\ Twice' = Twice
          /\ ReceivedPending' = ReceivedPending /\ CompletedPending' = CompletedPending
      BY <3>1 DEF vars, handlerVars, telemetryVars, Open, Strays, Finished, Twice, Completions,
         Begun, ReceivedPending, CompletedPending, Queued
    <3>3. DriftInv'
      BY <1>2, <3>1, <3>2 DEF telemetryVars, DriftInv, SuffixBalance, DriftIsBounded,
         FinishedCount, Drift, CountUpTo, LateEvents
    <3> QED
      BY <2>1, <3>3
  <2> QED
    BY <1>2, <2>1, <2>2, DriftGateway, DriftBoard
<1>3. ApprovalInv /\ Course /\ DriftInv /\ [GatewayStep \/ BoardStep]_observedVars
         => Course' /\ DriftInv'
  BY <1>2
<1> QED
  BY <1>1, <1>3, ApprovalInvHolds, PTL DEF ObservedSpec

\* OUTSTANDING is off by the events under way, by less than a full house of
\* posts and by the failed ones upwards, and by the unexpected completions
\* downwards, however the events overtake each other.
THEOREM TheDriftIsBounded == ObservedSpec => []DriftIsBounded
<1>1. DriftInv => DriftIsBounded
  BY DEF DriftInv
<1> QED
  BY <1>1, DriftInvHolds, PTL
=============================================================================
