------------------------------ MODULE JobStore ------------------------------
(***************************************************************************)
(* The jobs table and the statements that write it.  Two stores share the  *)
(* table: the controller's (TransitionJob, a compare-and-set on the status *)
(* column) and the API's (UpdateJobStatus, unconditional).  Each statement *)
(* is one transaction, so each is one step.                                *)
(*                                                                         *)
(* Jobs are numbered in the order of created_at.  updated_at is abstracted *)
(* to overdue: whether it is further back than the stuck-job timeout of    *)
(* the row's status.  Every UPDATE resets it (the set_updated_at trigger). *)
(***************************************************************************)
EXTENDS JobTypes, AgentRegistry, Naturals

CONSTANT NJobs        \* how many rows a behaviour may insert

ASSUME NJobsAssumption == NJobs \in Nat
ASSUME NoneJobAssumption == None \notin Nat

Jobs == 1 .. NJobs

VARIABLES status,     \* jobs.status
          agentOf,    \* jobs.agent_id
          reason,     \* jobs.failure_reason
          overdue     \* jobs.updated_at < now() - timeout

jobVars == <<status, agentOf, reason, overdue>>

JobStoreTypeOK ==
  /\ status \in [Jobs -> RowStatus]
  /\ agentOf \in [Jobs -> AgentIds \cup {None}]
  /\ reason \in [Jobs -> Reasons]
  /\ overdue \in [Jobs -> BOOLEAN]

JobStoreInit ==
  /\ status = [j \in Jobs |-> "absent"]
  /\ agentOf = [j \in Jobs |-> None]
  /\ reason = [j \in Jobs |-> "none"]
  /\ overdue = [j \in Jobs |-> FALSE]

-----------------------------------------------------------------------------
\* One UPDATE of row j: COALESCE keeps the agent and the reason that are not given.
UpdateRow(j, to, agent, why) ==
  /\ status' = [status EXCEPT ![j] = to]
  /\ agentOf' = [agentOf EXCEPT ![j] = IF agent = None THEN @ ELSE agent]
  /\ reason' = [reason EXCEPT ![j] = IF why = "none" THEN @ ELSE why]
  /\ overdue' = [overdue EXCEPT ![j] = FALSE]

\* Mutant: the WHERE clause loses its status column.
TransitionJobBlind(j, from, to, agent, why) == UpdateRow(j, to, agent, why)

TransitionJob(j, from, to, agent, why) ==
  \/ status[j] = from /\ UpdateRow(j, to, agent, why)
  \/ status[j] # from /\ UNCHANGED jobVars

\* The statement returned an error: it may or may not have been committed.
TransitionJobError(j, from, to, agent, why) ==
  \/ TransitionJob(j, from, to, agent, why)
  \/ UNCHANGED jobVars

UpdateJobStatus(j, to, why) == UpdateRow(j, to, None, why)

\* INSERT INTO jobs, from the API's CreateJob and from a cron entry.  Jobs are numbered by
\* created_at; that two inserts may commit in the other order is left out.
CreateJob(j) ==
  /\ status[j] = "absent"
  /\ \A i \in Jobs : i < j => status[i] # "absent"
  /\ status' = [status EXCEPT ![j] = "pending"]
  /\ UNCHANGED <<agentOf, reason, overdue>>

\* The clock passes updated_at plus the timeout of the row's status.
JobOverdue(j) ==
  /\ status[j] \in {"dispatched", "running"}
  /\ ~overdue[j]
  /\ overdue' = [overdue EXCEPT ![j] = TRUE]
  /\ UNCHANGED <<status, agentOf, reason>>

\* Mutant: only running jobs can be stuck.
StuckOnlyRunning(s) == {j \in Jobs : status[j] = s /\ s = "running" /\ overdue[j]}

\* Rows the two stuck-job queries return.
Stuck(s) == {j \in Jobs : status[j] = s /\ overdue[j]}

Pending == {j \in Jobs : status[j] = "pending"}
=============================================================================
