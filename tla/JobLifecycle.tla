---------------------------- MODULE JobLifecycle ----------------------------
(***************************************************************************)
(* What the system promises about a job, whatever the controllers, agents  *)
(* and API processes do: a job is claimed at most once, for one agent; its *)
(* playbook is started at most once, and only after the claim; it reaches  *)
(* a terminal status and stays in one; and only a job that was started can *)
(* be a success.  Which terminal status is shown last is not promised.     *)
(***************************************************************************)
EXTENDS JobTypes, Naturals

CONSTANTS Jobs, AgentIds, None

VARIABLES status, agentOf, starts

vars == <<status, agentOf, starts>>

Init ==
  /\ status = [j \in Jobs |-> "absent"]
  /\ agentOf = [j \in Jobs |-> None]
  /\ starts = [j \in Jobs |-> 0]

Create(j) ==
  /\ status[j] = "absent"
  /\ status' = [status EXCEPT ![j] = "pending"]
  /\ UNCHANGED <<agentOf, starts>>

Claim(j, a) ==
  /\ status[j] = "pending"
  /\ status' = [status EXCEPT ![j] = "dispatched"]
  /\ agentOf' = [agentOf EXCEPT ![j] = a]
  /\ UNCHANGED starts

Start(j) ==
  /\ agentOf[j] # None
  /\ starts[j] = 0
  /\ starts' = [starts EXCEPT ![j] = 1]
  /\ UNCHANGED <<status, agentOf>>

\* A final status, or another one in its place.
Finish(j, s) ==
  /\ status[j] # "absent"
  /\ s = "success" => starts[j] = 1
  /\ status' = [status EXCEPT ![j] = s]
  /\ UNCHANGED <<agentOf, starts>>

Next ==
  \E j \in Jobs :
    \/ Create(j)
    \/ \E a \in AgentIds : Claim(j, a)
    \/ Start(j)
    \/ \E s \in Terminal : Finish(j, s)

\* Every job that exists is finished some day.
Fairness == \A j \in Jobs : (status[j] = "pending") ~> IsTerminal(status[j])

SafetySpec == Init /\ [][Next]_vars

Spec == SafetySpec /\ Fairness
=============================================================================
