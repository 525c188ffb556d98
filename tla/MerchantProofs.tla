---------------------------- MODULE MerchantProofs ----------------------------
(***************************************************************************)
(* The drain of the merchant simulator misses no transaction, for any      *)
(* number of merchants, transactions and slots, whatever the poller does;  *)
(* and a pause takes effect within the cache's time and one poll.          *)
(***************************************************************************)
EXTENDS Merchant, SequenceTheorems, TLAPS

Shapes ==
    /\ mpc \in [Merchants -> Phases]
    /\ send \in [Sends -> {"unborn", "preparing", "sending", "over"}]

\* gather has returned only after the last task that could originate a send.
NoMoreOrigins == main # "gathering" => AllEnded

\* So the snapshot taken then stays an upper bound of what is running.
SnapshotCovers == main # "gathering" => Background \subseteq waitingFor

DrainInv == Shapes /\ NoMoreOrigins /\ SnapshotCovers /\ NothingIsCutOff

-----------------------------------------------------------------------------

\* At first gather has not returned.
LEMMA InitDrain == Init => DrainInv
BY DEF Init, DrainInv, Shapes, Phases, NoMoreOrigins, SnapshotCovers, NothingIsCutOff

\* What get leads to keeps the shapes.
LEMMA AfterGetShapes ==
    ASSUME Shapes, NEW m \in Merchants, NEW at, AfterGet(m, at)
    PROVE  Shapes'
BY DEF Shapes, Phases, AfterGet, Onward, Goto, Originate

\* A merchant that has ended takes no step, so one that takes a step shows
\* that main still gathers.
LEMMA MerchantStepDrain ==
    ASSUME DrainInv, NEW m \in Merchants, MerchantStep(m)
    PROVE  DrainInv'
<1>1. mpc[m] # "ended" /\ UNCHANGED mainVars
  BY DEF MerchantStep, Awake, Interrupted, InGet
<1>2. main = "gathering" /\ main' = "gathering"
  BY <1>1 DEF DrainInv, NoMoreOrigins, AllEnded, mainVars
<1>3. Shapes'
  <2>1. CASE Awake(m)
    <3>1. ASSUME NEW at \in {"top", "check"}, Get(m, at)
          PROVE  Shapes'
      BY <3>1, AfterGetShapes DEF DrainInv, Get, Goto, Shapes, Phases
    <3> QED
      BY <2>1, <3>1 DEF Awake
  <2>2. CASE Interrupted(m)
    BY <2>2 DEF DrainInv, Interrupted, Goto, Shapes, Phases, sendVars
  <2>3. CASE InGet(m)
    BY <2>3, AfterGetShapes DEF DrainInv, InGet, Shapes
  <2> QED
    BY <2>1, <2>2, <2>3 DEF MerchantStep
<1> QED
  BY <1>2, <1>3 DEF DrainInv, NoMoreOrigins, SnapshotCovers, NothingIsCutOff

\* A send under way only ends.
LEMMA SendStepDrain ==
    ASSUME DrainInv, main # "exited", NEW s \in Sends, Prepared(s) \/ Sent(s)
    PROVE  DrainInv'
<1>1. Shapes'
  BY DEF DrainInv, Shapes, Prepared, Sent
<1>2. Background' \subseteq Background
  BY DEF DrainInv, Shapes, Background, Prepared, Sent
<1>3. UNCHANGED <<mpc, main, waitingFor, gaveUp>>
  BY DEF Prepared, Sent, mainVars
<1> QED
  BY <1>1, <1>2, <1>3
     DEF DrainInv, NoMoreOrigins, AllEnded, SnapshotCovers, NothingIsCutOff

\* main takes its snapshot when nothing can be added to it, and returns when
\* nothing is left of it, or when it gives up.
LEMMA MainStepDrain ==
    ASSUME DrainInv, Gathered \/ Drained \/ DrainTimesOut
    PROVE  DrainInv'
<1>1. UNCHANGED <<mpc, send>> /\ Background' = Background
  BY DEF Gathered, Drained, DrainTimesOut, sendVars, Background
<1>2. Shapes'
  BY <1>1 DEF DrainInv, Shapes
<1>3. CASE Gathered
  BY <1>1, <1>2, <1>3
     DEF DrainInv, Gathered, NoMoreOrigins, AllEnded, SnapshotCovers, NothingIsCutOff
<1>4. CASE Drained
  <2>1. Background = {}
    BY <1>4 DEF DrainInv, Drained, SnapshotCovers, Background
  <2> QED
    BY <1>1, <1>2, <1>4, <2>1
       DEF DrainInv, Drained, NoMoreOrigins, AllEnded, SnapshotCovers, NothingIsCutOff
<1>5. CASE DrainTimesOut
  BY <1>1, <1>2, <1>5
     DEF DrainInv, DrainTimesOut, NoMoreOrigins, AllEnded, SnapshotCovers, NothingIsCutOff
<1> QED
  BY <1>3, <1>4, <1>5

\* Whoever takes the step: the surroundings, a merchant, a send or main.
LEMMA StepDrain ==
    ASSUME DrainInv, [Next]_vars
    PROVE  DrainInv'
<1>1. CASE Signal \/ Environment \/ UNCHANGED vars
  <2>1. UNCHANGED <<mpc, send, main, waitingFor, gaveUp>>
    BY <1>1 DEF Signal, Environment, vars, merchantVars, sendVars, mainVars
  <2> QED
    BY <2>1 DEF DrainInv, Shapes, NoMoreOrigins, AllEnded, SnapshotCovers,
                NothingIsCutOff, Background
<1> QED
  BY <1>1, MerchantStepDrain, SendStepDrain, MainStepDrain DEF Next

\* merchant_simulator/app.py:297-307: unless the drain gives up after its 25
\* seconds, main returns with no transaction under way: gather has waited for
\* every task that could originate one before the snapshot is taken.
THEOREM DrainMissesNothing == Spec => []NothingIsCutOff
<1>1. Init => DrainInv
  BY InitDrain
<1>2. DrainInv /\ [Next]_vars => DrainInv'
  BY StepDrain
<1>3. DrainInv => NothingIsCutOff
  BY DEF DrainInv
<1> QED
  BY <1>1, <1>2, <1>3, PTL DEF Spec

-----------------------------------------------------------------------------
(* The poller, for every cache and poll time *)

\* An answer that the flag has left behind was taken after its poll was sent.
AnswerIsRecent == poll \in Switch /\ poll # flag => sinceChange <= pollAge

\* What the cache holds, while it holds, is no older than a poll takes.
CacheIsRecent ==
    Fresh /\ ~missed /\ state # flag => sinceChange <= cacheAge + PollTime

ControlInv == ControlTypeOK /\ AnswerIsRecent /\ CacheIsRecent

\* The steps of one task in get that the others can see.
PollerStep(c) == GetWaits(c) \/ LockedPoll(c) \/ GetReturns(c)

\* What a step of the simulator does to the poller and the dashboard.
LEMMA ControlSteps ==
    ASSUME [Next]_vars
    PROVE  \/ UNCHANGED controlVars
           \/ \E m \in Merchants : PollerStep(m)
           \/ Answer \/ Tick \/ \E s \in Switch : SetSwitch(s)
<1>1. ASSUME NEW m \in Merchants, MerchantStep(m) PROVE UNCHANGED controlVars \/ PollerStep(m)
  BY <1>1 DEF MerchantStep, Awake, Get, GetCached, Interrupted, InGet, PollerStep
<1>2. CASE \/ \E s \in Sends : Prepared(s) \/ Sent(s)
           \/ Gathered \/ Drained \/ DrainTimesOut \/ Signal \/ UNCHANGED vars
  BY <1>2 DEF Prepared, Sent, Gathered, Drained, DrainTimesOut, Signal, vars
<1> QED
  BY <1>1, <1>2 DEF Next, Environment

\* Without its oldest element a line is a line.
LEMMA LineMovesUp ==
    ASSUME NEW S, NEW q \in Seq(S), q # <<>>
    PROVE  Tail(q) \in Seq(S)
OBVIOUS

\* A task in get: a poll it starts is new, an answer it takes is one.
LEMMA PollerControl ==
    ASSUME ControlInv, NEW c \in Merchants, PollerStep(c)
    PROVE  ControlInv'
<1> USE DEF ControlInv
<1>1. /\ Cache \in Nat \ {0} /\ PollTime \in Nat /\ MaxMisses \in Nat /\ Settled \in Nat
      /\ cacheAge \in 0 .. Cache /\ pollAge \in 0 .. PollTime /\ sinceChange \in 0 .. Settled
      /\ getQ \in Seq(Pollers) /\ misses \in 0 .. MaxMisses
  BY ControlAssumption DEF ControlTypeOK, Settled
<1>2. CASE GetWaits(c)
  <2>1. getQ' \in Seq(Pollers)
    BY <1>1, <1>2 DEF GetWaits, Merchants
  <2> QED
    BY <1>1, <1>2, <2>1 DEF GetWaits, Ask, ControlTypeOK, AnswerIsRecent, CacheIsRecent, Fresh,
       Switch
<1>3. CASE LockedPoll(c)
  BY <1>1, <1>3 DEF LockedPoll, Ask, ControlTypeOK, AnswerIsRecent, CacheIsRecent, Fresh,
     Switch
<1>4. GetReturns(c) => getQ' \in Seq(Pollers)
  BY <1>1, LineMovesUp DEF GetReturns, LockedFresh, PollOK, PollFails, OwnsLock
<1>5. CASE LockedFresh(c)
  BY <1>1, <1>4, <1>5 DEF GetReturns, LockedFresh, ControlTypeOK, AnswerIsRecent,
     CacheIsRecent, Fresh
<1>6. CASE PollOK(c)
  <2>1. getQ' \in Seq(Pollers) /\ 0 \in 0 .. Cache
    BY <1>1, <1>4, <1>6 DEF GetReturns
  <2>2. poll # flag => sinceChange <= 0 + PollTime
    BY <1>1, <1>6 DEF PollOK, AnswerIsRecent
  <2>3. ControlTypeOK' /\ AnswerIsRecent'
    BY <1>6, <2>1 DEF PollOK, ControlTypeOK, AnswerIsRecent, Switch
  <2> QED
    BY <1>6, <2>2, <2>3 DEF PollOK, CacheIsRecent
<1>7. CASE PollFails(c)
  <2>1. getQ' \in Seq(Pollers) /\ 0 \in 0 .. Cache /\ misses' \in 0 .. MaxMisses
    BY <1>1, <1>4, <1>7 DEF GetReturns, PollFails
  <2> QED
    BY <1>7, <2>1 DEF PollFails, ControlTypeOK, AnswerIsRecent, CacheIsRecent, Switch
<1> QED
  BY <1>2, <1>3, <1>5, <1>6, <1>7 DEF PollerStep, GetReturns

\* Time, the dashboard's answers and its switch.
LEMMA WorldControl ==
    ASSUME ControlInv, Answer \/ Tick \/ \E s \in Switch : SetSwitch(s)
    PROVE  ControlInv'
<1> USE DEF ControlInv
<1>1. /\ Cache \in Nat \ {0} /\ PollTime \in Nat /\ MaxMisses \in Nat /\ Settled \in Nat
      /\ cacheAge \in 0 .. Cache /\ pollAge \in 0 .. PollTime /\ sinceChange \in 0 .. Settled
  BY ControlAssumption DEF ControlTypeOK, Settled
<1>2. CASE Answer
  BY <1>1, <1>2 DEF Answer, ControlTypeOK, AnswerIsRecent, CacheIsRecent, Fresh, Switch
<1>3. CASE \E s \in Switch : SetSwitch(s)
  <2>1. /\ flag' \in Switch /\ sinceChange' = 0 /\ missed' = FALSE
        /\ UNCHANGED <<state, cacheAge, getQ, poll, pollAge, misses>>
    BY <1>3 DEF SetSwitch
  <2>2. sinceChange' \in 0 .. Settled
    BY <1>1, <2>1
  <2>3. ControlTypeOK'
    BY <2>1, <2>2 DEF ControlTypeOK
  <2>4. AnswerIsRecent' /\ CacheIsRecent'
    BY <1>1, <2>1 DEF AnswerIsRecent, CacheIsRecent
  <2> QED
    BY <2>3, <2>4
<1>4. CASE Tick
  <2>1. /\ cacheAge' \in 0 .. Cache /\ pollAge' \in 0 .. PollTime
        /\ sinceChange' \in 0 .. Settled
        /\ sinceChange' <= sinceChange + 1
        /\ cacheAge' < Cache => cacheAge' = cacheAge + 1 /\ cacheAge < Cache
        /\ poll # "none" => pollAge' = pollAge + 1
        /\ UNCHANGED <<flag, state, getQ, poll, missed, misses>>
    BY <1>1, <1>4 DEF Tick, Older
  <2>2. ControlTypeOK'
    BY <2>1 DEF ControlTypeOK
  <2>3. AnswerIsRecent'
    BY <1>1, <2>1 DEF AnswerIsRecent, Switch
  <2>4. CacheIsRecent'
    BY <1>1, <2>1 DEF CacheIsRecent, Fresh
  <2> QED
    BY <2>2, <2>3, <2>4
<1> QED
  BY <1>2, <1>3, <1>4

\* At first the cache is stale and the switch has long been as it is.
LEMMA ControlStart == Init => ControlInv
<1> SUFFICES ASSUME Init PROVE ControlInv
  OBVIOUS
<1>1. Cache \in Nat \ {0} /\ PollTime \in Nat /\ MaxMisses \in Nat /\ Settled = Cache + PollTime
  BY ControlAssumption DEF Settled
<1>2. getQ = <<>> /\ getQ \in Seq(Pollers)
  BY EmptySeq DEF Init, ControlInit
<1>3. /\ Cache \in 0 .. Cache /\ 0 \in 0 .. PollTime /\ Settled \in 0 .. Settled
      /\ 0 \in 0 .. MaxMisses
  BY <1>1
<1>4. ControlTypeOK
  BY <1>2, <1>3 DEF Init, ControlInit, ControlTypeOK, Switch
<1> QED
  BY <1>4 DEF Init, ControlInit, ControlInv, AnswerIsRecent, CacheIsRecent, Switch

\* The poller's own inductive invariant.
THEOREM ControlInvHolds == Spec => []ControlInv
<1>1. ASSUME ControlInv, [Next]_vars PROVE ControlInv'
  <2>1. CASE UNCHANGED controlVars
    BY <1>1, <2>1 DEF controlVars, ControlInv, ControlTypeOK, AnswerIsRecent, CacheIsRecent,
       Fresh
  <2> QED
    BY <1>1, <2>1, ControlSteps, PollerControl, WorldControl
<1>2. ControlInv /\ [Next]_vars => ControlInv'
  BY <1>1
<1> QED
  BY <1>2, ControlStart, PTL DEF Spec

\* A transaction is originated after get, with what it returned.
LEMMA OriginatesLive ==
    ASSUME [Next]_vars, Originates
    PROVE  \E m \in Merchants :
              /\ state' = "live"
              /\ GetCached \/ GetReturns(m)
<1>1. PICK s \in Sends : send[s] = "unborn" /\ send'[s] # "unborn"
  BY DEF Originates
<1>2. ~UNCHANGED send
  BY <1>1
<1>3. ASSUME NEW r \in Sends, Prepared(r) \/ Sent(r) PROVE FALSE
  <2>1. send[r] # "unborn"
    BY <1>3 DEF Prepared, Sent
  <2>2. \E v : send' = [send EXCEPT ![r] = v]
    BY <1>3 DEF Prepared, Sent
  <2>3. send'[s] = send[s]
    BY <1>1, <2>1, <2>2
  <2> QED
    BY <1>1, <2>3
<1>4. PICK m \in Merchants : MerchantStep(m)
  BY <1>2, <1>3 DEF Next, Environment, Gathered, Drained, DrainTimesOut, Signal, vars,
     merchantVars, sendVars
<1>5. \A at : AfterGet(m, at) => state' = "live"
  BY <1>2 DEF AfterGet
<1> QED
  BY <1>2, <1>4, <1>5 DEF MerchantStep, Awake, Get, Interrupted, InGet, sendVars

\* dashboard/app.py:7-9: once the cache has expired and the poll that was
\* under way is over, a paused merchant originates nothing.
THEOREM PausesTakeEffect == Spec => PauseIsPrompt
<1>1. ASSUME ControlInv, [Next]_vars, Originates, flag = "paused", ~missed'
      PROVE  sinceChange < Settled
  <2>1. PICK m \in Merchants : state' = "live" /\ (GetCached \/ GetReturns(m))
    BY <1>1, OriginatesLive
  <2>2. /\ Cache \in Nat \ {0} /\ PollTime \in Nat /\ Settled = Cache + PollTime
        /\ cacheAge \in 0 .. Cache /\ pollAge \in 0 .. PollTime /\ sinceChange \in Nat
    BY <1>1, ControlAssumption DEF ControlInv, ControlTypeOK, Settled
  <2>3. CASE GetCached \/ LockedFresh(m)
    <3>1. Fresh /\ ~missed /\ state # flag
      BY <1>1, <2>1, <2>3 DEF GetCached, LockedFresh, controlVars
    <3> QED
      BY <1>1, <2>2, <3>1 DEF ControlInv, CacheIsRecent, Fresh
  <2>4. CASE PollOK(m)
    <3>1. poll \in Switch /\ poll # flag
      BY <1>1, <2>1, <2>4 DEF PollOK
    <3> QED
      BY <1>1, <2>2, <3>1 DEF ControlInv, AnswerIsRecent
  <2>5. CASE PollFails(m)
    BY <1>1, <2>5 DEF PollFails
  <2> QED
    BY <2>1, <2>3, <2>4, <2>5 DEF GetReturns
<1>2. ControlInv /\ [Next]_vars =>
         [Originates /\ flag = "paused" => sinceChange < Settled \/ missed']_vars
  BY <1>1
<1> QED
  BY <1>2, ControlInvHolds, PTL DEF Spec, PauseIsPrompt

-----------------------------------------------------------------------------
(* The types *)

\* What Shapes and ControlTypeOK leave.
Rest ==
    /\ stop \in BOOLEAN
    /\ outQ \in Seq(Sends)
    /\ main \in {"gathering", "draining", "exited"}
    /\ waitingFor \subseteq Sends
    /\ gaveUp \in BOOLEAN

\* A line that one leaves is a line.
LEMMA LineLeft ==
    ASSUME outQ \in Seq(Sends), NEW s \in Sends, Sent(s)
    PROVE  outQ' \in Seq(Sends)
<1>1. PICK i \in 1 .. Len(outQ) :
         outQ' = [j \in 1 .. Len(outQ) - 1 |-> IF j < i THEN outQ[j] ELSE outQ[j + 1]]
  BY DEF Sent
<1>2. Len(outQ) \in Nat /\ \A j \in 1 .. Len(outQ) : outQ[j] \in Sends
  OBVIOUS
<1>3. Len(outQ) - 1 \in Nat
  BY <1>1, <1>2
<1>4. \A j \in 1 .. Len(outQ) - 1 : (IF j < i THEN outQ[j] ELSE outQ[j + 1]) \in Sends
  BY <1>2
<1> QED
  BY <1>1, <1>3, <1>4

\* The lines for a slot and the drain's snapshot keep their types.
LEMMA RestStep ==
    ASSUME Rest, [Next]_vars
    PROVE  Rest'
<1> USE DEF Rest
<1>1. ASSUME NEW m \in Merchants, MerchantStep(m) PROVE Rest'
  BY <1>1 DEF MerchantStep, Awake, Interrupted, InGet, sendVars, mainVars
<1>2. ASSUME NEW s \in Sends, Prepared(s) PROVE Rest'
  BY <1>2 DEF Prepared, mainVars
<1>3. ASSUME NEW s \in Sends, Sent(s) PROVE Rest'
  BY <1>3, LineLeft DEF Sent, mainVars
<1>4. CASE Gathered \/ Drained \/ DrainTimesOut \/ Signal
  BY <1>4 DEF Gathered, Drained, DrainTimesOut, Signal, Background, sendVars, mainVars
<1>5. CASE Environment \/ UNCHANGED vars
  BY <1>5 DEF Environment, vars, merchantVars, sendVars, mainVars
<1> QED
  BY <1>1, <1>2, <1>3, <1>4, <1>5 DEF Next

\* The types of the pacing tasks, the sends, main and the poller.
THEOREM MerchantTypes == Spec => []TypeOK
<1>1. Init => DrainInv /\ Rest
  BY InitDrain, EmptySeq DEF Init, Rest
<1>2. DrainInv /\ Rest /\ [Next]_vars => DrainInv' /\ Rest'
  BY StepDrain, RestStep
<1>3. DrainInv /\ Rest /\ ControlInv => TypeOK
  BY DEF DrainInv, Shapes, Rest, ControlInv, TypeOK
<1> QED
  BY <1>1, <1>2, <1>3, ControlInvHolds, PTL DEF Spec
=============================================================================
