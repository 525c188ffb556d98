--------------------------- MODULE ObservedGateway ---------------------------
(***************************************************************************)
(* Gateway and Telemetry together: every event a handler fires becomes a   *)
(* task of its own, which reaches the dashboard later, or never, while the *)
(* handlers go on.                                                         *)
(***************************************************************************)
EXTENDS Gateway, Integers

CONSTANTS EventLimit, MaxFailedPosts

ASSUME TelemetryAssumption ==
    /\ EventLimit \in Nat \ {0}
    /\ MaxFailedPosts \in Nat

VARIABLES tasks, failedPosts, late, outstanding, approved, declined

Board == INSTANCE Telemetry

telemetryVars == <<tasks, failedPosts, late, outstanding, approved, declined>>

observedVars == <<vars, telemetryVars>>

\* A step of the gateway fires one event at most.
NewEvents ==
    LET t == CHOOSE u \in Txn : fired'[u] # fired[u]
    IN  IF fired' = fired THEN <<>> ELSE <<fired'[t][Len(fired'[t])]>>

ObservedInit == Init /\ Board!Init

GatewayStep == Next /\ Board!FireAll(NewEvents)

BoardStep == (Board!Post \/ Board!Arrive) /\ UNCHANGED vars

ObservedSpec == ObservedInit /\ [][GatewayStep \/ BoardStep]_observedVars

-----------------------------------------------------------------------------
(* Properties *)

BoardTypeOK == Board!TypeOK

\* Received and not completed: what OUTSTANDING is meant to count.
Open == {t \in Txn : Begun(t) /\ Completions(t) = {}}

Queued(S) == Cardinality({i \in 1 .. Len(tasks) : tasks[i] \in S})

\* The dashboard never counts more approvals than the issuer made, though
\* transactions may complete twice and their events overtake each other.
ApprovalsAreReal == approved <= Cardinality({t \in Txn : decided[t] = "00"})

\* Events that are not counted and still may be.
ReceivedPending == Queued({"received"}) + late["received"]
CompletedPending == Queued({"approved", "declined"}) + late["approved"] + late["declined"]

\* How far OUTSTANDING is from the open transactions, beyond the events that
\* are on their way.
Drift == (outstanding + ReceivedPending) - (Cardinality(Open) + CompletedPending)

\* Completed without having been received, or a second time: OUTSTANDING goes
\* down once for nothing.
Strays == {t \in Txn : Cardinality(Completions(t)) > (IF Begun(t) THEN 1 ELSE 0)}

\* A count is lost for good when a completed event finds OUTSTANDING at zero,
\* because it overtook received ones: of those, no more than post beside it or
\* failed before.
DriftIsBounded ==
    /\ Drift <= EventLimit - 1 + failedPosts
    /\ Drift >= -Cardinality(Strays)

\* gateway/app.py:244-246: "so the dashboard's outstanding-auth count never
\* drifts from reality", once the events fired so far have arrived.
OutstandingNeverDrifts ==
    tasks = <<>> /\ failedPosts = 0 => outstanding = Cardinality(Open)
=============================================================================
