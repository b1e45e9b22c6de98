----------------------------- MODULE AgentServer -----------------------------
(***************************************************************************)
(* The agent processes: registration, heartbeats, the dispatch handler and *)
(* the goroutine that executes a job.  The handler compares the counter    *)
(* with the capacity and increments it later, and handlers run             *)
(* concurrently, so it is two steps.                                       *)
(*                                                                         *)
(* starts and outcome are history: how often executeJob was started for a  *)
(* job, and with which results, under which agent id, runs ended.          *)
(***************************************************************************)
EXTENDS Reconciler, Integers

VARIABLES idOf,       \* the id a process registered under; None: not running
          count,      \* Server.count
          exec,       \* executeJob goroutines
          starts, outcome

agentVars == <<idOf, count, exec>>
histVars == <<starts, outcome>>

\* What runner.Run returns when nobody cancels its context: nothing in the
\* system posts to the agent's cancel endpoint.
RunResults == {"success", "failed"}

Execution == [job : Jobs, proc : Procs, stage : {"run", "post", "posted"},
              result : RunResults \cup {None}]

AgentTypeOK ==
  /\ idOf \in [Procs -> AgentIds \cup {None}]
  /\ count \in [Procs -> Int]
  /\ exec \subseteq Execution
  /\ starts \in [Jobs -> Nat]
  /\ outcome \in [Jobs -> SUBSET (AgentIds \X RunResults)]

AgentInit ==
  /\ idOf = [p \in Procs |-> None]
  /\ count = [p \in Procs |-> 0]
  /\ exec = {}
  /\ starts = [j \in Jobs |-> 0]
  /\ outcome = [j \in Jobs |-> {}]

Up == {p \in Procs : idOf[p] # None}

-----------------------------------------------------------------------------
\* main: register, then listen.  The counter and the running map start empty.
AgentStart(p, a) ==
  /\ idOf[p] = None
  /\ RegisterAgent(a, p)
  /\ idOf' = [idOf EXCEPT ![p] = a]
  /\ UNCHANGED <<count, exec, exch, histVars>>

Heartbeat(p) ==
  /\ idOf[p] # None
  /\ UpdateAgentHeartbeat(idOf[p])
  /\ UNCHANGED <<agentVars, exch, histVars>>

\* The process ends: connections break and executions stop.  Nothing waits for running jobs.
AgentStop(p) ==
  /\ idOf[p] # None
  /\ idOf' = [idOf EXCEPT ![p] = None]
  /\ count' = [count EXCEPT ![p] = 0]
  /\ exec' = {e \in exec : e.proc # p}
  /\ exch' = {x \in exch : x.proc # p}
  /\ UNCHANGED <<registryVars, histVars>>

-----------------------------------------------------------------------------
\* handleDispatch.

\* The answer, if anybody still waits for it.
Answer(x, code) ==
  exch' = (exch \ {x}) \cup (IF x.by = None THEN {} ELSE {[x EXCEPT !.st = code]})

CheckCapacity(x) ==
  /\ x.st = "arrived"
  /\ IF count[x.proc] >= Capacity
       THEN Answer(x, "rejected")
       ELSE exch' = (exch \ {x}) \cup {[x EXCEPT !.st = "admitted"]}
  /\ UNCHANGED <<registryVars, agentVars, histVars>>

StartJob(x) ==
  /\ x.st = "admitted"
  /\ count' = [count EXCEPT ![x.proc] = @ + 1]
  /\ exec' = exec \cup {[job |-> x.job, proc |-> x.proc, stage |-> "run", result |-> None]}
  /\ starts' = [starts EXCEPT ![x.job] = @ + 1]
  /\ Answer(x, "accepted")
  /\ UNCHANGED <<registryVars, idOf, outcome>>

-----------------------------------------------------------------------------
\* executeJob.

RunEnds(e, result) ==
  /\ e.stage = "run"
  /\ exec' = (exec \ {e}) \cup {[e EXCEPT !.stage = "post", !.result = result]}
  /\ outcome' = [outcome EXCEPT ![e.job] = @ \cup {<<idOf[e.proc], result>>}]
  /\ UNCHANGED <<registryVars, idOf, count, starts, exch>>

\* The one attempt to post the result never reached the API.
PostResultLost(e) ==
  /\ e.stage = "post"
  /\ exec' = (exec \ {e}) \cup {[e EXCEPT !.stage = "posted"]}
  /\ UNCHANGED <<registryVars, idOf, count, exch, histVars>>

\* Mutant: the deferred function forgets the counter.
ExecuteJobReturnsKeepsCount(e) ==
  /\ e.stage = "posted"
  /\ exec' = exec \ {e}
  /\ UNCHANGED <<registryVars, idOf, count, exch, histVars>>

\* The deferred function: leave the running map, decrement the counter.
ExecuteJobReturns(e) ==
  /\ e.stage = "posted"
  /\ exec' = exec \ {e}
  /\ count' = [count EXCEPT ![e.proc] = @ - 1]
  /\ UNCHANGED <<registryVars, idOf, exch, histVars>>
=============================================================================
