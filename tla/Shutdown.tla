------------------------------- MODULE Shutdown -------------------------------
(***************************************************************************)
(* The gateway process under serve_until_signal (services/common/util.py): *)
(* a signal arrives, no new connection is accepted, main waits for what is *)
(* under way and returns, which ends every task that is left.  Until then  *)
(* handlers and event posts go on as in ObservedGateway: the connections   *)
(* of before the signal are served, new requests on them included.         *)
(*                                                                         *)
(* The services run on Python 3.12 (their Dockerfiles), where serve_task,  *)
(* once it is cancelled, waits for every connection to be closed before it *)
(* ends; only then are the tasks to wait for collected.                    *)
(***************************************************************************)
EXTENDS ObservedGateway

VARIABLES
    main,       \* where serve_until_signal is
    waitH,      \* in_flight: the handlers in it
    waitE,      \* in_flight: as many of the oldest event tasks
    cutOff      \* the drain was given up

shutdownVars == <<main, waitH, waitE, cutOff>>
allVars == <<observedVars, shutdownVars>>

ShutdownTypeOK ==
    /\ main \in {"serving", "joining", "draining", "exited"}
    /\ waitH \subseteq Links
    /\ waitE \in 0 .. Len(tasks)
    /\ cutOff \in BOOLEAN

ShutdownInit ==
    /\ ObservedInit
    /\ main = "serving"
    /\ waitH = {}
    /\ waitE = 0
    /\ cutOff = FALSE

-----------------------------------------------------------------------------
(* serve_until_signal *)

\* SIGTERM or SIGINT: the server is closed and serve_task cancelled.
Signal ==
    /\ main = "serving"
    /\ main' = "joining"
    /\ UNCHANGED <<observedVars, waitH, waitE, cutOff>>

\* Mutant: a connection whose handler is reading counts as closed.
AttachedBusy == {m \in Links : link[m] # "lost" /\ pc[m] \notin {"read", "closed"}}

\* Connections the server still knows: the merchant may be gone without a
\* reset, what counts is that the handler closes its side.
Attached == {m \in Links : link[m] # "lost" /\ pc[m] # "closed"}

\* Mutant: only those that hold a slot.
RunningInSlot == {m \in Links : HasSlot(m)}

\* Handler tasks that have not ended.
Running == {m \in Links : pc[m] # "closed"}

\* serve_task is over, and all_tasks() is asked once for what to wait for.
Joined ==
    /\ main = "joining"
    /\ Attached = {}
    /\ main' = "draining"
    /\ waitH' = Running
    /\ waitE' = Len(tasks)
    /\ UNCHANGED <<observedVars, cutOff>>

\* asyncio.wait returns: all of them are done.
WaitIsOver == waitE = 0 /\ \A m \in waitH : pc[m] = "closed"

\* "shutdown complete": main returns, and its loop cancels the rest.
Drained ==
    /\ main = "draining"
    /\ WaitIsOver
    /\ main' = "exited"
    /\ UNCHANGED <<observedVars, waitH, waitE, cutOff>>

\* drain_timeout has passed.  It does not bound the wait for serve_task: that
\* one only ends by itself, or by SIGKILL after compose's stop_grace_period,
\* after which nothing is left to take a step.
CutOff ==
    /\ main = "draining"
    /\ main' = "exited"
    /\ cutOff' = TRUE
    /\ UNCHANGED <<observedVars, waitH, waitE>>

-----------------------------------------------------------------------------
(* The process while main has not returned *)

GoesOn(A) ==
    /\ main # "exited"
    /\ A
    /\ Board!FireAll(NewEvents)
    /\ UNCHANGED shutdownVars

HandlerGoesOn(m) == GoesOn(HandlerStep(m))

IssuerGoesOn(t) == GoesOn(\E v \in Verdict : IssuerDecides(t, v))

\* Mutant: a post that is done is still waited for.
RemainingSame(i) == waitE

\* The event tasks to wait for once the i-th of all is done.
Remaining(i) == IF i <= waitE THEN waitE - 1 ELSE waitE

PostGoesOn ==
    /\ main # "exited"
    /\ \E i \in Board!Posting :
          /\ Board!PostHandled(i) \/ Board!PostFails(i)
          /\ waitE' = Remaining(i)
    /\ UNCHANGED <<vars, main, waitH, cutOff>>

\* The dashboard's, so whether or not the process is still there.
LateArrives ==
    /\ Board!Arrive
    /\ UNCHANGED <<vars, shutdownVars>>

\* What the process, the posts and the issuer do by themselves.
Progress ==
    \/ \E m \in Links : HandlerGoesOn(m)
    \/ \E t \in Txn : IssuerGoesOn(t)
    \/ PostGoesOn
    \/ Joined \/ Drained

ShutdownNext ==
    \/ Progress
    \/ Signal \/ CutOff
    \/ LateArrives
    \/ \E m \in Links :
          \/ GoesOn(\E t \in Txn : MerchantSends(m, t))
          \/ GoesOn(\E s \in {"eof", "lost"} : LinkFails(m, s))
    \/ \E k \in Conn : GoesOn(IssuerFails(k))

ShutdownSpec == ShutdownInit /\ [][ShutdownNext]_allVars

\* Something goes on while something can: with as many requests as there are
\* transactions, a handler that can go on is not passed over forever.  Nobody
\* need give a signal or close a connection, and no drain need be given up.
ShutdownFairSpec == ShutdownSpec /\ WF_allVars(Progress)
-----------------------------------------------------------------------------
(* Properties *)

Accepted == {t \in sent : \A m \in Links : inbox[m] # t}

Complete == main = "exited" /\ ~cutOff

\* serve_until_signal's docstring: unless it was cut off, the process has
\* completed every transaction it accepted, those that came in after the
\* signal or whose merchant has gone included: no row (the database willing)
\* is left pending, and the completed event was given to fire_event.
AcceptedIsFinished ==
    Complete => \A t \in Accepted :
                    /\ dbFaults[t] = 0 => row[t] \in Code
                    /\ Completions(t) # {}

\* The same docstring of the dashboard: if every merchant waited for its
\* answers, no event dies with the process.  With no post failed either, each
\* transaction was counted once as approved or declined, and OUTSTANDING is
\* left at no more than the events that can overtake another.
EventsAreFinished ==
    Complete /\ (\A m \in Links : link[m] # "lost") =>
        /\ tasks = <<>>
        /\ failedPosts = 0 => /\ approved + declined = Cardinality(Accepted)
                              /\ outstanding <= EventLimit - 1

\* Once the merchants have closed their connections, the process comes to its
\* end by itself, through the slot, the pool, the issuer and the posts.
ShutdownEnds ==
    main = "joining" /\ (\A m \in Links : link[m] # "open") ~> main = "exited"
=============================================================================
