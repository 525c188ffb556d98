------------------------------ MODULE Telemetry ------------------------------
(***************************************************************************)
(* The way of an event from fire_event (services/gateway/app.py) to the    *)
(* counters of the dashboard (services/dashboard/app.py).  Every event is  *)
(* a task; EventLimit of them post at a time, the rest wait their turn at  *)
(* _event_semaphore.  The gateway gives a post one try, ignores every      *)
(* failure and goes on to the next: what it gave up on may still reach the *)
(* dashboard, later than newer events, or never.                           *)
(*                                                                         *)
(* A post that succeeds is counted and over in one step: one counted       *)
(* earlier would only hold its place a little longer.                      *)
(***************************************************************************)
EXTENDS Naturals, Sequences, SequencesExt

CONSTANTS EventLimit,     \* _event_semaphore, 30 in the code
          MaxFailedPosts  \* bound: posts the gateway gave up on

VARIABLES tasks,        \* _event_tasks: events not posted yet, oldest first
          failedPosts,
          late,         \* per kind, events given up on that may still arrive
          outstanding,  \* OUTSTANDING
          approved,     \* COUNTS["approved"]
          declined      \* COUNTS["declined"]

telemetryVars == <<tasks, failedPosts, late, outstanding, approved, declined>>

Stage == {"received", "forwarded_to_issuer", "approved", "declined"}

TypeOK ==
    /\ tasks \in Seq(Stage)
    /\ failedPosts \in 0 .. MaxFailedPosts
    /\ late \in [Stage -> Nat]
    /\ outstanding \in Nat
    /\ approved \in Nat
    /\ declined \in Nat

Init ==
    /\ tasks = <<>>
    /\ failedPosts = 0
    /\ late = [e \in Stage |-> 0]
    /\ outstanding = 0
    /\ approved = 0
    /\ declined = 0

\* fire_event, for each event of es.
FireAll(es) ==
    /\ tasks' = tasks \o es
    /\ UNCHANGED <<failedPosts, late, outstanding, approved, declined>>

\* Mutant: every task posts at once.
PostingAll == 1 .. Len(tasks)

Posting == {i \in 1 .. Len(tasks) : i <= EventLimit}

\* Mutant: the counter goes down without the guard at zero.
CountDownAlways(n) == n - 1

CountDown(n) == IF n = 0 THEN 0 ELSE n - 1

\* post_event; a "completed" event goes by its response_status here.
Count(e) ==
    /\ outstanding' = CASE e = "received" -> outstanding + 1
                        [] e \in {"approved", "declined"} -> CountDown(outstanding)
                        [] OTHER -> outstanding
    /\ approved' = IF e = "approved" THEN approved + 1 ELSE approved
    /\ declined' = IF e = "declined" THEN declined + 1 ELSE declined

PostHandled(i) ==
    /\ tasks' = RemoveAt(tasks, i)
    /\ Count(tasks[i])
    /\ UNCHANGED <<failedPosts, late>>

\* No connection, or no answer within two seconds.
PostFails(i) ==
    /\ failedPosts < MaxFailedPosts
    /\ failedPosts' = failedPosts + 1
    /\ tasks' = RemoveAt(tasks, i)
    /\ late' = [late EXCEPT ![tasks[i]] = @ + 1]
    /\ UNCHANGED <<outstanding, approved, declined>>

\* The dashboard handles an event whose post has failed.
LateHandled(e) ==
    /\ late[e] > 0
    /\ late' = [late EXCEPT ![e] = @ - 1]
    /\ Count(e)
    /\ UNCHANGED <<tasks, failedPosts>>

Post == \E i \in Posting : PostHandled(i) \/ PostFails(i)

Arrive == \E e \in Stage : LateHandled(e)
=============================================================================
