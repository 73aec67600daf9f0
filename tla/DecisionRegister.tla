-------------------------- MODULE DecisionRegister --------------------------
(***************************************************************************)
(* What a confirmation is to the people on both of its ends: the operator  *)
(* is acknowledged at most one answer per request, the mission is told one *)
(* outcome, once, and the outcome is that answer.  It is a timeout only if *)
(* there was no answer, and it disregards an answer only if the mission    *)
(* withdrew the request.  ConfirmationServer implements this.              *)
(***************************************************************************)
CONSTANT Requests

VARIABLES
  answer,       \* what an operator was acknowledged, "UNKNOWN" before
  outcome,      \* what the mission is told, "UNKNOWN" before
  withdrawn     \* the requests that were canceled

Answers == {"APPROVED", "DENIED", "CANCELED"}

Init ==
  /\ answer = [r \in Requests |-> "UNKNOWN"]
  /\ outcome = [r \in Requests |-> "UNKNOWN"]
  /\ withdrawn = {}

Acknowledge(r, decision) ==
  /\ answer[r] = "UNKNOWN" /\ outcome[r] = "UNKNOWN"
  /\ answer' = [answer EXCEPT ![r] = decision]
  /\ UNCHANGED <<outcome, withdrawn>>

Withdraw(r) ==
  /\ withdrawn' = withdrawn \cup {r}
  /\ UNCHANGED <<answer, outcome>>

Settle(r, decision) ==
  /\ outcome[r] = "UNKNOWN"
  /\ \/ decision = answer[r] /\ decision # "UNKNOWN"
     \/ decision = "TIMEOUT" /\ answer[r] = "UNKNOWN"
     \/ decision = "CANCELED" /\ r \in withdrawn
  /\ outcome' = [outcome EXCEPT ![r] = decision]
  /\ UNCHANGED <<answer, withdrawn>>

Next ==
  \E r \in Requests :
    \/ \E decision \in Answers : Acknowledge(r, decision)
    \/ Withdraw(r)
    \/ \E decision \in Answers \cup {"TIMEOUT"} : Settle(r, decision)

Spec == Init /\ [][Next]_<<answer, outcome, withdrawn>>

=============================================================================
