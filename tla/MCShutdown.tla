------------------------------ MODULE MCShutdown ------------------------------
(***************************************************************************)
(* Shutdown for TLC.  Of behaviours that no property can tell apart one is *)
(* kept, by constraints on the sending of transactions, and two faults are *)
(* bounded.  No fairness condition speaks of what is constrained: a post   *)
(* that may not fail can still be handled (SYMMETRY is not sound with      *)
(* liveness).                                                              *)
(***************************************************************************)
EXTENDS Shutdown

\* Links and transactions are interchangeable: transactions are sent in the
\* order of their numbers, the first of them on link 1.
SentInOrder ==
    \A m \in Links, t \in sent' \ sent :
        inbox'[m] = t => t = Cardinality(sent') /\ (t = 1 => m = 1)

\* Before Joined nothing depends on whether the signal has come, so it may as
\* well come before the last transaction is sent.
SignalInTime == main = "serving" => sent' # Txn

\* Bound: the first transaction may lose its connection to the issuer.
IssuerFaultBound ==
    \A k \in Conn : conn'[k] \in {"eof", "lost"} /\ conn'[k] # conn[k] =>
        \E m \in Links : phase[m] = "using" /\ held[m] = k /\ txn[m] = 1

\* Bound: an approval's post may fail.
PostFaultBound == failedPosts' # failedPosts => late'["approved"] > 0
=============================================================================
