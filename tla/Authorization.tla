---------------------------- MODULE Authorization ----------------------------
(***************************************************************************)
(* What a merchant may rely on, whatever happens between it and the        *)
(* issuer: an authorization is decided at most once and only if it was     *)
(* submitted, it is answered at most once, and the answer is the issuer's  *)
(* own decision for this authorization or one of the codes by which the    *)
(* acquirer declines on its own account.  Gateway implements this.         *)
(***************************************************************************)
EXTENDS Sequences

CONSTANTS Txn,          \* authorizations, by transaction_id
          Verdict,      \* response codes the issuer decides
          AcquirerCode, \* response codes of the acquirer itself
          NoCode        \* not decided

VARIABLES submitted,    \* the authorizations a merchant has sent
          decided,      \* the issuer's decision, or NoCode
          told          \* the answers the merchant has received

vars == <<submitted, decided, told>>

Init ==
    /\ submitted = {}
    /\ decided = [t \in Txn |-> NoCode]
    /\ told = [t \in Txn |-> <<>>]

Submit(t) ==
    /\ t \notin submitted
    /\ submitted' = submitted \cup {t}
    /\ UNCHANGED <<decided, told>>

Decide(t, v) ==
    /\ t \in submitted
    /\ decided[t] = NoCode
    /\ decided' = [decided EXCEPT ![t] = v]
    /\ UNCHANGED <<submitted, told>>

Tell(t, c) ==
    /\ t \in submitted
    /\ told[t] = <<>>
    /\ c \in AcquirerCode \/ (decided[t] # NoCode /\ c = decided[t])
    /\ told' = [told EXCEPT ![t] = <<c>>]
    /\ UNCHANGED <<submitted, decided>>

Next ==
    \E t \in Txn :
       \/ Submit(t)
       \/ \E v \in Verdict : Decide(t, v)
       \/ \E c \in Verdict \cup AcquirerCode : Tell(t, c)

Spec == Init /\ [][Next]_vars
=============================================================================
