------------------------------- MODULE Merchant -------------------------------
(***************************************************************************)
(* services/merchant_simulator/app.py: a pacing task per merchant, the     *)
(* tasks that send the transactions it originates, the pause switch it     *)
(* polls, and the way out of main after SIGTERM.                           *)
(*                                                                         *)
(* A step is the code of a task between two points where it suspends: a    *)
(* sleep, the wait for the poller, for a slot of _outstanding, for the     *)
(* gateway.                                                                *)
(***************************************************************************)
EXTENDS Control, FiniteSets

CONSTANTS Sends,            \* send_one tasks that can exist
          MaxOutstanding    \* MAX_OUTSTANDING

Merchants == Pollers

ASSUME MerchantAssumption == MaxOutstanding \in Nat \ {0}

VARIABLES stop,         \* _stop_event
          mpc,          \* where each run_merchant is suspended
          send,         \* state of each send_one task
          outQ,         \* _outstanding: the first hold a slot, the rest wait
          main,         \* where main is suspended
          waitingFor,   \* the tasks its drain waits for
          gaveUp        \* the drain reached its 25 seconds

sendVars == <<send, outQ>>
mainVars == <<main, waitingFor, gaveUp>>
merchantVars == <<stop, mpc, sendVars, mainVars>>
vars == <<controlVars, merchantVars>>

Phases == {"jitter",    \* the sleep before the loop
           "top",       \* in get, at the top of the loop
           "held",      \* the sleep of a paused merchant
           "pacing",    \* the sleep in _sleep_or_interrupt
           "check",     \* in get, in _sleep_or_interrupt
           "ended"}

TypeOK ==
    /\ ControlTypeOK
    /\ stop \in BOOLEAN
    /\ mpc \in [Merchants -> Phases]
    /\ send \in [Sends -> {"unborn", "preparing", "sending", "over"}]
    /\ outQ \in Seq(Sends)
    /\ main \in {"gathering", "draining", "exited"}
    /\ waitingFor \subseteq Sends
    /\ gaveUp \in BOOLEAN

Init ==
    /\ ControlInit
    /\ stop = FALSE
    /\ mpc = [m \in Merchants |-> "jitter"]
    /\ send = [s \in Sends |-> "unborn"]
    /\ outQ = <<>>
    /\ main = "gathering" /\ waitingFor = {} /\ gaveUp = FALSE

-----------------------------------------------------------------------------
(* run_merchant *)

Goto(m, p) == mpc' = [mpc EXCEPT ![m] = p]

\* Once a stop is set every further test of it, and every further sleep,
\* leads out of the loop at once.
Onward(m, s) == Goto(m, IF stop THEN "ended" ELSE IF s = "paused" THEN "held" ELSE "pacing")

\* create_task(send_one(...)).
Originate == \E s \in Sends :
    /\ send[s] = "unborn"
    /\ send' = [send EXCEPT ![s] = "preparing"]

\* What follows get: at the top of the loop a sleep, in _sleep_or_interrupt
\* too, unless the merchant's time has come and it is not paused.
AfterGet(m, at) ==
    /\ Onward(m, state')
    /\ \/ UNCHANGED send
       \/ at = "check" /\ state' = "live" /\ Originate

Get(m, at) ==
    \/ GetCached /\ AfterGet(m, at)
    \/ GetWaits(m) /\ Goto(m, at) /\ UNCHANGED send

\* _sleep_or_stop runs into its timeout.
Awake(m) ==
    /\ ~stop
    /\ \/ mpc[m] \in {"jitter", "held"} /\ Get(m, "top")
       \/ mpc[m] = "pacing" /\ Get(m, "check")
    /\ UNCHANGED <<stop, outQ, mainVars>>

\* _sleep_or_stop returns early.
Interrupted(m) ==
    /\ stop
    /\ mpc[m] \in {"jitter", "held", "pacing"}
    /\ Goto(m, "ended")
    /\ UNCHANGED <<controlVars, stop, sendVars, mainVars>>

InGet(m) ==
    /\ mpc[m] \in {"top", "check"}
    /\ \/ GetReturns(m) /\ AfterGet(m, mpc[m])
       \/ LockedPoll(m) /\ UNCHANGED <<mpc, send>>
    /\ UNCHANGED <<stop, outQ, mainVars>>

MerchantStep(m) == Awake(m) \/ Interrupted(m) \/ InGet(m)

-----------------------------------------------------------------------------
(* send_one *)

\* The message is built and a slot asked for, whatever happened meanwhile.
Prepared(s) ==
    /\ send[s] = "preparing"
    /\ send' = [send EXCEPT ![s] = "sending"]
    /\ outQ' = Append(outQ, s)
    /\ UNCHANGED <<controlVars, stop, mpc, mainVars>>

\* send_transaction, with a slot, ends with a response or an exception; those
\* behind it in the line move up.
Sent(s) ==
    /\ send[s] = "sending"
    /\ send' = [send EXCEPT ![s] = "over"]
    /\ \E i \in 1 .. Len(outQ) :
          /\ i <= MaxOutstanding /\ outQ[i] = s
          /\ outQ' = [j \in 1 .. Len(outQ) - 1 |-> IF j < i THEN outQ[j] ELSE outQ[j + 1]]
    /\ UNCHANGED <<controlVars, stop, mpc, mainVars>>

-----------------------------------------------------------------------------
(* main *)

Background == {s \in Sends : send[s] \in {"preparing", "sending"}}

\* Mutant: main waits for the stop, not for its merchants.
AllEndedOrStop == stop

AllEnded == \A m \in Merchants : mpc[m] = "ended"

\* gather returns: collect the tasks that run, if there are any.
Gathered ==
    /\ main = "gathering"
    /\ AllEnded
    /\ main' = IF Background = {} THEN "exited" ELSE "draining"
    /\ waitingFor' = Background
    /\ UNCHANGED <<controlVars, stop, mpc, sendVars, gaveUp>>

Drained ==
    /\ main = "draining"
    /\ \A s \in waitingFor : send[s] = "over"
    /\ main' = "exited"
    /\ UNCHANGED <<controlVars, stop, mpc, sendVars, waitingFor, gaveUp>>

DrainTimesOut ==
    /\ main = "draining"
    /\ main' = "exited"
    /\ gaveUp' = TRUE
    /\ UNCHANGED <<controlVars, stop, mpc, sendVars, waitingFor>>

\* SIGTERM or SIGINT.
Signal ==
    /\ ~stop
    /\ stop' = TRUE
    /\ UNCHANGED <<controlVars, mpc, sendVars, mainVars>>

-----------------------------------------------------------------------------

Environment ==
    /\ Answer \/ Tick \/ \E s \in Switch : SetSwitch(s)
    /\ UNCHANGED merchantVars

\* Nothing of the process moves once main has returned.
Next ==
    \/ /\ main # "exited"
       /\ \/ \E m \in Merchants : MerchantStep(m)
          \/ \E s \in Sends : Prepared(s) \/ Sent(s)
          \/ Gathered \/ Drained \/ DrainTimesOut \/ Signal
    \/ Environment

Spec == Init /\ [][Next]_vars

\* Tasks that can run do, sleeps end, the dashboard answers a poll, time goes
\* on and with it the 25 seconds of the drain.  No transaction need ever be
\* answered, and no signal need ever come.
Fairness ==
    /\ \A m \in Merchants : WF_vars(main # "exited" /\ MerchantStep(m))
    /\ WF_vars(Gathered \/ Drained \/ DrainTimesOut)
    /\ WF_vars(Answer /\ UNCHANGED merchantVars)
    /\ WF_vars(Tick /\ UNCHANGED merchantVars)

FairSpec == Spec /\ Fairness
-----------------------------------------------------------------------------
(* Properties *)

Originates == \E s \in Sends : send[s] = "unborn" /\ send'[s] # "unborn"

\* dashboard/app.py:7-9: a paused merchant originates nothing, once the cache
\* has expired and the poll that was under way is over (unless polls fail),
\* however many merchants wait for the poller meanwhile.
PauseIsPrompt ==
    [][Originates /\ flag = "paused" => sinceChange < Settled \/ missed']_vars

\* main, lines 297-307: gather waits for every task that can originate a
\* send, so the snapshot of the drain misses none: unless it gives up, main
\* returns with no transaction in the middle.
NothingIsCutOff == main = "exited" /\ ~gaveUp => Background = {}

\* A resume is noticed: no merchant stays held, whatever polls failed before.
ResumeIsSeen ==
    <>[](flag = "live") => \A m \in Merchants : <>[](mpc[m] # "held")

\* A stop ends the process, wherever each merchant is, whatever the dashboard
\* and the gateway do.
StopEnds == stop ~> main = "exited"

\* Line 87: "stop *originating* new sends".
StopStopsOriginating == [][stop => ~Originates]_vars
=============================================================================
