--------------------------- MODULE DeploymentOutcome ---------------------------
(***************************************************************************)
(* What the deployment transaction of a game release promises: its request *)
(* to change the production service is either taken, or ruled out for      *)
(* good, and the publisher reports one or the other only when it is true.  *)
(***************************************************************************)
CONSTANT Txn  \* the releases

VARIABLES submitted,  \* releases whose request Swarm has taken
          closed,     \* releases that can no longer be submitted
          verdict     \* what the publisher reports of each release

vars == <<submitted, closed, verdict>>

Verdicts == {"open", "not_submitted", "attempted"}

Init == submitted = {} /\ closed = {} /\ verdict = [t \in Txn |-> "open"]

Submit(t) ==
  /\ t \notin closed
  /\ submitted' = submitted \cup {t}
  /\ UNCHANGED <<closed, verdict>>

Close(t) ==
  /\ t \notin submitted
  /\ closed' = closed \cup {t}
  /\ UNCHANGED <<submitted, verdict>>

Report(t, v) ==
  /\ verdict[t] = "open"
  /\ v = "not_submitted" => t \in closed
  /\ v = "attempted" => t \in submitted
  /\ verdict' = [verdict EXCEPT ![t] = v]
  /\ UNCHANGED <<submitted, closed>>

Next == \E t \in Txn : Submit(t) \/ Close(t) \/ \E v \in Verdicts \ {"open"} : Report(t, v)

Spec == Init /\ [][Next]_vars
================================================================================
