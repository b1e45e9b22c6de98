------------------------------- MODULE JobAPI -------------------------------
(***************************************************************************)
(* The API's job handlers.  CancelJob and AgentPostResult read the row,    *)
(* check it, and write it with a second statement that does not repeat the *)
(* check.  A slot is one request in flight between the two statements.     *)
(***************************************************************************)
EXTENDS AgentServer

CONSTANT Slots        \* requests the API has in flight at once

VARIABLE api

Idle == [op |-> "idle", job |-> None, status |-> "absent"]

Request == [op : {"cancel", "result"}, job : Jobs, status : Terminal] \cup {Idle}

ApiTypeOK == api \in [Slots -> Request]

ApiInit == api = [r \in Slots |-> Idle]

Occupy(r, op, j, s) ==
  /\ api[r] = Idle
  /\ api' = [api EXCEPT ![r] = [op |-> op, job |-> j, status |-> s]]

Release(r) == api' = [api EXCEPT ![r] = Idle]

\* GetJob and the IsTerminal check; 409 otherwise.
CancelJobCheck(r, j) ==
  /\ status[j] # "absent"
  /\ ~IsTerminal(status[j])
  /\ Occupy(r, "cancel", j, "cancelled")
  /\ UNCHANGED jobVars

\* Mutant: any registered agent may post a result.
ForbiddenNever(e) == FALSE

\* The token names the agent row of the posting process; 403 unless it is the job's agent.
Forbidden(e) == agentOf[e.job] # idOf[e.proc]

\* Mutant: the result is posted before the run has ended.
PostResultEarly(e, r) ==
  /\ e.stage \in {"run", "post"}
  /\ exec' = (exec \ {e}) \cup {[e EXCEPT !.stage = "posted"]}
  /\ IF Forbidden(e)
       THEN UNCHANGED api
       ELSE Occupy(r, "result", e.job, e.result)
  /\ UNCHANGED <<jobVars, registryVars, idOf, count, exch, histVars>>

\* GetJob and the ownership check.
PostResultCheck(e, r) ==
  /\ e.stage = "post"
  /\ exec' = (exec \ {e}) \cup {[e EXCEPT !.stage = "posted"]}
  /\ IF Forbidden(e)
       THEN UNCHANGED api
       ELSE Occupy(r, "result", e.job, e.result)
  /\ UNCHANGED <<jobVars, registryVars, idOf, count, exch, histVars>>

\* The second statement of either handler.
UpdateStatus(r) ==
  /\ api[r] # Idle
  /\ UpdateJobStatus(api[r].job, api[r].status,
                     IF api[r].op = "cancel" THEN "cancelled by user" ELSE "none")
  /\ Release(r)

\* The statement fails, the client goes away (its context ends the statement), or the API dies.
RequestFails(r) ==
  /\ api[r] # Idle
  /\ Release(r)
  /\ UNCHANGED jobVars
=============================================================================
