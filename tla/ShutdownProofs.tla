---------------------------- MODULE ShutdownProofs ----------------------------
(***************************************************************************)
(* The gateway's way down finishes what it accepted, for every number of   *)
(* merchants, transactions, slots and posts at a time.  Shutdown is        *)
(* ObservedGateway with a main that may stop it, so everything proved of   *)
(* the running gateway holds here too; what is new is the drain.           *)
(***************************************************************************)
EXTENDS Shutdown, ObservedGatewayProofs

\* serve_task is over, and in_flight collected.
Down == main \in {"draining", "exited"}

\* Whoever is not waited for had ended, and who has a merchant left ended too.
NobodyForgotten ==
    Down => /\ \A m \in Links \ waitH : pc[m] = "closed"
            /\ \A m \in Links : link[m] = "lost" \/ pc[m] = "closed"

\* A drain that was not given up saw everything end.
WaitedForAll ==
    main = "exited" /\ ~cutOff => waitE = 0 /\ \A m \in Links : pc[m] = "closed"

\* If no merchant was lost, the events to wait for are all there are.
EventsWaitedFor ==
    Down /\ (\A m \in Links : link[m] # "lost") => waitE = Len(tasks)

DrainInv == ShutdownTypeOK /\ NobodyForgotten /\ WaitedForAll /\ EventsWaitedFor

-----------------------------------------------------------------------------
(* The gateway under serve_until_signal is the gateway *)

\* What goes on until main returns is a step of the gateway, of the posts, or
\* of neither.
LEMMA StepObserved ==
    ASSUME [ShutdownNext]_allVars
    PROVE  [GatewayStep \/ BoardStep]_observedVars
<1>1. CASE \E m \in Links : HandlerGoesOn(m)
  BY <1>1 DEF HandlerGoesOn, GoesOn, GatewayStep, Next
<1>2. CASE \E t \in Txn : IssuerGoesOn(t)
  BY <1>2 DEF IssuerGoesOn, GoesOn, GatewayStep, Next
<1>3. CASE PostGoesOn
  BY <1>3 DEF PostGoesOn, BoardStep, Board!Post
<1>4. CASE \E m \in Links : \/ GoesOn(\E t \in Txn : MerchantSends(m, t))
                            \/ GoesOn(\E s \in {"eof", "lost"} : LinkFails(m, s))
  BY <1>4 DEF GoesOn, GatewayStep, Next
<1>5. CASE \E k \in Conn : GoesOn(IssuerFails(k))
  BY <1>5 DEF GoesOn, GatewayStep, Next
<1>6. CASE Joined \/ Drained \/ Signal \/ CutOff \/ UNCHANGED allVars
  BY <1>6 DEF Joined, Drained, Signal, CutOff, allVars
<1>7. CASE LateArrives
  BY <1>7 DEF LateArrives, BoardStep
<1> QED
  BY <1>1, <1>2, <1>3, <1>4, <1>5, <1>6, <1>7 DEF ShutdownNext, Progress

\* Until it is down, the process is the gateway with its posts.
THEOREM ShutdownIsObserved == ShutdownSpec => ObservedSpec
<1>1. ShutdownInit => ObservedInit
  BY DEF ShutdownInit
<1>2. [ShutdownNext]_allVars => [GatewayStep \/ BoardStep]_observedVars
  BY StepObserved
<1> QED
  BY <1>1, <1>2, PTL DEF ShutdownSpec, ObservedSpec

-----------------------------------------------------------------------------
(* The drain *)

\* A handler that has ended stays so, fires nothing, and its merchant's end no
\* longer matters; a lost merchant stays lost.
LEMMA EndedStays ==
    ASSUME IInv, [Next]_vars
    PROVE  /\ \A n \in Links : pc[n] = "closed" => pc'[n] = "closed" /\ link'[n] = link[n]
           /\ \A n \in Links : link[n] = "lost" => link'[n] = "lost"
           /\ (\A n \in Links : pc[n] = "closed") => fired' = fired
<1>0. DOMAIN pc = Links /\ DOMAIN link = Links
  BY DEF IInv, Structure, TypeOK
<1>1. ASSUME NEW m \in Links, HandlerStep(m)
      PROVE  /\ pc[m] = "closed" => UNCHANGED <<pc, fired>>
             /\ \A n \in Links \ {m} : pc'[n] = pc[n]
             /\ UNCHANGED link
  <2>1. phase[m] = "connecting" => pc[m] = "forward"
    BY DEF IInv, Structure, PhaseMatchesPc
  <2>2. pc[m] = "closed" => UNCHANGED <<pc, fired>>
    BY <1>1, <2>1 DEF HandlerStep, Receive, EndOfLink, InsertOK, InsertFails, MarkOK,
       MarkFails, AcquireProceeds, ConnectFails, Pool!ConnectFail, ReadReply, ReadReset,
       ReadEof, ReleaseProceeds, SettleOK, SettleFails, Fallback, handlerVars
  <2>3. \A n \in Links \ {m} : pc'[n] = pc[n]
    BY <1>0, <1>1 DEF HandlerStep, Receive, EndOfLink, InsertOK, InsertFails, MarkOK,
       MarkFails, AcquireProceeds, ConnectFails, ReadReply, ReadReset, ReadEof,
       ReleaseProceeds, SettleOK, SettleFails, Fallback, Finish, Goto, handlerVars
  <2>4. UNCHANGED link
    BY <1>1 DEF HandlerStep, Receive, EndOfLink, InsertOK, InsertFails, MarkOK, MarkFails,
       AcquireProceeds, ConnectFails, ReadReply, ReadReset, ReadEof, ReleaseProceeds,
       SettleOK, SettleFails, Fallback, merchantVars
  <2> QED
    BY <2>2, <2>3, <2>4
<1>2. ASSUME NEW m \in Links, NEW s \in {"eof", "lost"}, LinkFails(m, s)
      PROVE  /\ UNCHANGED <<pc, fired>> /\ link' = [link EXCEPT ![m] = s]
             /\ pc[m] # "closed" /\ link[m] # "lost"
  BY <1>2 DEF LinkFails, handlerVars
<1>3. CASE \E m \in Links : HandlerStep(m)
  BY <1>1, <1>3
<1>4. CASE \E m \in Links, s \in {"eof", "lost"} : LinkFails(m, s)
  BY <1>0, <1>2, <1>4
<1>5. ASSUME \/ UNCHANGED vars
             \/ \E m \in Links, t \in Txn : MerchantSends(m, t)
             \/ \E t \in Txn, v \in Verdict : IssuerDecides(t, v)
             \/ \E k \in Conn : IssuerFails(k)
      PROVE  UNCHANGED <<pc, fired, link>>
  BY <1>5 DEF vars, handlerVars, merchantVars, MerchantSends, IssuerDecides, IssuerFails
<1> QED
  BY <1>3, <1>4, <1>5, GatewayCases

\* The process goes on, and with it the gateway.
LEMMA GatewayDrain ==
    ASSUME IInv, Board!TypeOK, DrainInv, GatewayStep, main # "exited", UNCHANGED shutdownVars
    PROVE  DrainInv'
<1> USE DEF DrainInv
<1>1. UNCHANGED <<main, waitH, waitE, cutOff>>
  BY DEF shutdownVars
<1>2. /\ \A n \in Links : pc[n] = "closed" => pc'[n] = "closed" /\ link'[n] = link[n]
      /\ \A n \in Links : link[n] = "lost" => link'[n] = "lost"
      /\ (\A n \in Links : pc[n] = "closed") => fired' = fired
  BY EndedStays DEF GatewayStep
<1>3. Len(tasks) \in Nat /\ Len(tasks') \in Nat /\ Len(tasks') >= Len(tasks)
  <2>1. tasks \in Seq(Board!Stage)
    BY DEF Board!TypeOK
  <2>2. ASSUME NEW m \in Links, NEW e \in Event, Fires(m, e), tasks' = tasks \o <<e>>
        PROVE  Len(tasks') = Len(tasks) + 1
    BY <2>2, TaskAdded
  <2>3. Len(tasks) \in Nat
    BY <2>1
  <2>4. Len(tasks') = Len(tasks) \/ Len(tasks') = Len(tasks) + 1
    BY <2>2, GatewayTasks
  <2> QED
    BY <2>3, <2>4
<1>4. ShutdownTypeOK'
  BY <1>1, <1>3 DEF ShutdownTypeOK
<1>5. NobodyForgotten'
  BY <1>1, <1>2 DEF NobodyForgotten, Down
<1>6. WaitedForAll'
  BY <1>1 DEF WaitedForAll
<1>7. EventsWaitedFor'
  <2> SUFFICES ASSUME Down, \A m \in Links : link'[m] # "lost"
               PROVE  waitE' = Len(tasks')
    BY <1>1 DEF EventsWaitedFor, Down
  <2>1. \A m \in Links : link[m] # "lost" /\ pc[m] = "closed"
    BY <1>2 DEF NobodyForgotten
  <2>2. tasks' = tasks
    <3>1. NewEvents = <<>>
      BY <1>2, <2>1 DEF NewEvents
    <3>2. tasks' = tasks \o <<>> /\ tasks \in Seq(Board!Stage)
      BY <3>1 DEF GatewayStep, Board!FireAll, Board!TypeOK
    <3> QED
      BY <3>2
  <2> QED
    BY <1>1, <2>1, <2>2 DEF EventsWaitedFor
<1> QED
  BY <1>4, <1>5, <1>6, <1>7

\* A post ends, one that is waited for or not.
LEMMA PostDrain ==
    ASSUME Board!TypeOK, DrainInv, PostGoesOn
    PROVE  DrainInv'
<1> USE DEF DrainInv
<1>1. PICK i \in 1 .. Len(tasks) : /\ tasks' = Board!RemoveAt(tasks, i)
                                   /\ waitE' = Remaining(i)
  BY DEF PostGoesOn, Board!Posting, Board!PostHandled, Board!PostFails
<1>2. main # "exited" /\ UNCHANGED <<pc, link, main, waitH, cutOff>>
  BY DEF PostGoesOn, vars, handlerVars, merchantVars
<1>3. /\ Len(tasks) \in Nat \ {0} /\ Len(tasks') = Len(tasks) - 1
      /\ i \in Nat \ {0} /\ i <= Len(tasks)
      /\ waitE \in Nat /\ waitE <= Len(tasks)
      /\ waitE' = IF i <= waitE THEN waitE - 1 ELSE waitE
  <2>1. Len(tasks) \in Nat \ {0} /\ Len(tasks') = Len(tasks) - 1
    BY <1>1, TaskPosted
  <2> QED
    BY <1>1, <2>1 DEF ShutdownTypeOK, Remaining
<1>4. ShutdownTypeOK'
  <2>1. waitE' \in 0 .. Len(tasks')
    BY <1>3
  <2> QED
    BY <1>2, <2>1 DEF ShutdownTypeOK
<1>5. NobodyForgotten' /\ WaitedForAll'
  BY <1>2 DEF NobodyForgotten, WaitedForAll, Down
<1>6. EventsWaitedFor'
  BY <1>2, <1>3 DEF EventsWaitedFor, Down
<1> QED
  BY <1>4, <1>5, <1>6

\* main collects what to wait for, and returns when it is done or given up.
LEMMA MainDrain ==
    ASSUME Board!TypeOK, DrainInv, Joined \/ Drained \/ Signal \/ CutOff
    PROVE  DrainInv'
<1> USE DEF DrainInv
<1>1. UNCHANGED <<pc, link, tasks>> /\ Len(tasks) \in Nat
  BY DEF Joined, Drained, Signal, CutOff, observedVars, vars, handlerVars, merchantVars,
     telemetryVars, Board!TypeOK
<1>2. CASE Joined
  <2>1. /\ main' = "draining" /\ waitH' = Running /\ waitE' = Len(tasks) /\ Attached = {}
        /\ UNCHANGED cutOff
    BY <1>2 DEF Joined
  <2>2. ShutdownTypeOK'
    BY <1>1, <2>1 DEF ShutdownTypeOK, Running
  <2>3. NobodyForgotten'
    BY <1>1, <2>1 DEF NobodyForgotten, Running, Attached
  <2>4. WaitedForAll' /\ EventsWaitedFor'
    BY <1>1, <2>1 DEF WaitedForAll, EventsWaitedFor
  <2> QED
    BY <2>2, <2>3, <2>4
<1>3. CASE Drained
  <2>1. /\ main = "draining" /\ main' = "exited" /\ WaitIsOver
        /\ UNCHANGED <<waitH, waitE, cutOff>>
    BY <1>3 DEF Drained
  <2>2. \A m \in Links : pc[m] = "closed"
    BY <2>1 DEF WaitIsOver, NobodyForgotten, Down
  <2> QED
    BY <1>1, <2>1, <2>2 DEF ShutdownTypeOK, NobodyForgotten, WaitedForAll, EventsWaitedFor,
       Down, WaitIsOver
<1>4. CASE CutOff
  BY <1>1, <1>4 DEF CutOff, ShutdownTypeOK, NobodyForgotten, WaitedForAll, EventsWaitedFor, Down
<1>5. CASE Signal
  BY <1>1, <1>5 DEF Signal, ShutdownTypeOK, NobodyForgotten, WaitedForAll, EventsWaitedFor, Down
<1> QED
  BY <1>2, <1>3, <1>4, <1>5

\* A step of the gateway, of a post, or of main around them.
LEMMA DrainStep ==
    ASSUME IInv, Board!TypeOK, DrainInv, [ShutdownNext]_allVars
    PROVE  DrainInv'
<1>1. CASE UNCHANGED allVars
  BY <1>1 DEF allVars, observedVars, vars, handlerVars, merchantVars, telemetryVars,
     shutdownVars, DrainInv, ShutdownTypeOK, NobodyForgotten, WaitedForAll, EventsWaitedFor,
     Down
<1>2. CASE PostGoesOn \/ Joined \/ Drained \/ Signal \/ CutOff
  BY <1>2, PostDrain, MainDrain
<1>3. CASE main # "exited" /\ GatewayStep /\ UNCHANGED shutdownVars
  BY <1>3, GatewayDrain
<1>4. CASE \/ \E m \in Links : HandlerGoesOn(m)
           \/ \E t \in Txn : IssuerGoesOn(t)
           \/ \E m \in Links : \/ GoesOn(\E t \in Txn : MerchantSends(m, t))
                               \/ GoesOn(\E s \in {"eof", "lost"} : LinkFails(m, s))
           \/ \E k \in Conn : GoesOn(IssuerFails(k))
  <2>1. main # "exited" /\ GatewayStep /\ UNCHANGED shutdownVars
    BY <1>4 DEF HandlerGoesOn, IssuerGoesOn, GoesOn, GatewayStep, Next
  <2> QED
    BY <1>3, <2>1
<1>5. CASE LateArrives
  <2>1. UNCHANGED <<tasks, pc, link, main, waitH, waitE, cutOff>>
    BY <1>5 DEF LateArrives, Board!Arrive, Board!LateHandled, vars, handlerVars, merchantVars,
       shutdownVars
  <2> QED
    BY <2>1 DEF DrainInv, ShutdownTypeOK, NobodyForgotten, WaitedForAll, EventsWaitedFor, Down
<1> QED
  BY <1>1, <1>2, <1>4, <1>5 DEF ShutdownNext, Progress

\* Nothing is waited for yet.
LEMMA DrainInit == ShutdownInit => DrainInv
<1> SUFFICES ASSUME ShutdownInit PROVE DrainInv
  OBVIOUS
<1>1. main = "serving" /\ waitH = {} /\ waitE = 0 /\ cutOff = FALSE /\ tasks = <<>>
  BY DEF ShutdownInit, ObservedInit, Board!Init
<1>2. Len(tasks) = 0
  BY <1>1
<1>3. ShutdownTypeOK
  <2>1. waitE \in 0 .. Len(tasks)
    BY <1>1, <1>2
  <2> QED
    BY <1>1, <2>1 DEF ShutdownTypeOK
<1> QED
  BY <1>1, <1>3 DEF DrainInv, NobodyForgotten, WaitedForAll, EventsWaitedFor, Down

\* The inductive invariant of the drain, with those of the running gateway.
THEOREM DrainInvHolds == ShutdownSpec => [](DrainInv /\ ApprovalInv /\ Course /\ DriftInv)
<1>1. IInv /\ Board!TypeOK /\ DrainInv /\ [ShutdownNext]_allVars => DrainInv'
  BY DrainStep
<1>2. ApprovalInv => IInv /\ Board!TypeOK
  BY DEF ApprovalInv
<1> QED
  BY <1>1, <1>2, DrainInit, ShutdownIsObserved, DriftInvHolds, PTL
     DEF ShutdownSpec

-----------------------------------------------------------------------------
(* The theorems *)

\* What main waits for are handlers and events there are.
THEOREM ShutdownTypes == ShutdownSpec => []ShutdownTypeOK
<1>1. DrainInv => ShutdownTypeOK
  BY DEF DrainInv
<1> QED
  BY <1>1, DrainInvHolds, PTL

\* Once every handler has ended, what was accepted was handled.
LEMMA AcceptedHandled ==
    ASSUME IInv, \A m \in Links : pc[m] = "closed", NEW t \in Accepted
    PROVE  t \in Txn /\ Handled(t)
<1>1. sent \subseteq Txn /\ NoTxn \notin Txn
  BY GatewayAssumption DEF IInv, Structure, TypeOK
<1>2. \A m \in Links : txn[m] = NoTxn
  BY DEF IInv, Structure, OwnTask
<1> QED
  BY <1>1, <1>2 DEF Accepted, Handled

\* After a drain that was not given up every handler is at its end, so none
\* of them holds a transaction that was read.
LEMMA CompleteFinished ==
    ASSUME DrainInv, ApprovalInv
    PROVE  AcceptedIsFinished
<1> SUFFICES ASSUME Complete, NEW t \in Accepted
             PROVE  (dbFaults[t] = 0 => row[t] \in Code) /\ Completions(t) # {}
  BY DEF AcceptedIsFinished
<1>1. \A m \in Links : pc[m] = "closed"
  BY DEF DrainInv, WaitedForAll, Complete
<1>2. t \in Txn /\ Handled(t)
  BY <1>1, AcceptedHandled DEF ApprovalInv
<1> QED
  BY <1>2 DEF ApprovalInv, IInv, Outcome, SettledOf

\* serve_until_signal's docstring: unless it is cut off, the process has
\* completed every transaction it accepted.
THEOREM NothingAcceptedIsLost == ShutdownSpec => []AcceptedIsFinished
<1>1. DrainInv /\ ApprovalInv => AcceptedIsFinished
  BY CompleteFinished
<1> QED
  BY <1>1, DrainInvHolds, PTL

\* With no merchant lost every event is waited for, so none is left; with no
\* post failed none is late either, and every count has been made.
LEMMA CompleteEvents ==
    ASSUME DrainInv, ApprovalInv, Course, DriftInv
    PROVE  EventsAreFinished
<1> SUFFICES ASSUME Complete, \A m \in Links : link[m] # "lost"
             PROVE  /\ tasks = <<>>
                    /\ failedPosts = 0 => /\ approved + declined = Cardinality(Accepted)
                                          /\ outstanding <= EventLimit - 1
  BY DEF EventsAreFinished
<1>1. tasks = <<>>
  <2>1. Len(tasks) = 0
    BY DEF DrainInv, WaitedForAll, EventsWaitedFor, Complete, Down
  <2>2. tasks \in Seq(Board!Stage)
    BY DEF ApprovalInv, Board!TypeOK
  <2> QED
    BY <2>1, <2>2, EmptySeq
<1>2. /\ outstanding \in Nat /\ approved \in Nat /\ declined \in Nat
      /\ late["received"] \in Nat /\ late["approved"] \in Nat /\ late["declined"] \in Nat
  BY CountTypes
<1>3. \A t \in Accepted : Completions(t) # {}
  BY CompleteFinished DEF AcceptedIsFinished
<1>4. \A t \in Txn : fired[t] # <<>> => t \in Accepted
  BY DEF ApprovalInv, IInv, Outcome, UnreadIsUntouched, Untouched, Accepted
<1>5. \A t \in Txn : Completions(t) # {} \/ Begun(t) => fired[t] # <<>>
  BY DEF Completions, Begun
<1>6. Cardinality(Open) = 0
  <2>1. Open = {}
    BY <1>3, <1>4, <1>5 DEF Open
  <2> QED
    BY <2>1, FS_EmptySet
<1>7. Cardinality(Twice) = 0
  <2>1. Twice = {}
    BY DEF Twice, Course, CourseOf
  <2> QED
    BY <2>1, FS_EmptySet
<1>8. Finished = Accepted
  <2>1. Accepted \subseteq Txn
    BY DEF ApprovalInv, IInv, Structure, TypeOK, Accepted
  <2> QED
    BY <1>3, <1>4, <1>5, <2>1 DEF Finished
<1>9. ASSUME failedPosts = 0 PROVE ReceivedPending = 0 /\ CompletedPending = 0
  <2>1. \A S : Queued(S) = 0
    <3>1. Len(tasks) = 0
      BY <1>1
    <3> QED
      BY <3>1, CountNone, QueuedIsCount
  <2>2. LateEvents <= 0
    BY <1>9 DEF DriftInv
  <2>3. late["received"] = 0 /\ late["approved"] = 0 /\ late["declined"] = 0
    BY <1>2, <2>2 DEF LateEvents
  <2> QED
    BY <2>1, <2>3 DEF ReceivedPending, CompletedPending
<1>10. ASSUME failedPosts = 0
       PROVE  approved + declined = Cardinality(Accepted) /\ outstanding <= EventLimit - 1
  <2>1. approved + declined + 0 = Cardinality(Finished) + 0
    BY <1>7, <1>9, <1>10 DEF DriftInv, FinishedCount
  <2>2. Cardinality(Finished) \in Nat
    BY CountTypes
  <2>3. (outstanding + 0) - (0 + 0) <= EventLimit - 1 + 0
    BY <1>6, <1>9, <1>10 DEF DriftInv, DriftIsBounded, Drift
  <2> QED
    BY <1>2, <1>8, <2>1, <2>2, <2>3, TelemetryAssumption
<1> QED
  BY <1>1, <1>10

\* If every merchant waited for its answers, no event dies with the process;
\* with no post failed each transaction was counted once, and OUTSTANDING is
\* left at no more than the events that can overtake another.
THEOREM NoEventIsLost == ShutdownSpec => []EventsAreFinished
<1>1. DrainInv /\ ApprovalInv /\ Course /\ DriftInv => EventsAreFinished
  BY CompleteEvents
<1> QED
  BY <1>1, DrainInvHolds, PTL
=============================================================================
