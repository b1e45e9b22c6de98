----------------------------- MODULE Reconciler -----------------------------
(***************************************************************************)
(* The controllers.  Every controller process runs the same loop, tick     *)
(* after tick: dispatchPending, then failStuck.  One step per database     *)
(* statement and per end of the HTTP call, because another controller, an  *)
(* API handler or an agent can run between any two of them.                *)
(*                                                                         *)
(*   pc               where the tick is                                    *)
(*   "idle"           waiting for the ticker                               *)
(*   "agents"         has a batch, about to read the available agents      *)
(*   "dispatch"       head of the loop over the batch                      *)
(*   "send", "wait"   inside Dispatch, after the claim                     *)
(*   "revert"         Dispatch failed, about to fail the claimed job       *)
(*   "failPending"    dispatchOne returned an error                        *)
(*   "stuckX","failX" failStuckJobs for status X: query, loop              *)
(*                                                                         *)
(* exch is the set of open POST /dispatch exchanges, each with the         *)
(* controller that waits for the answer (None once it gave up).            *)
(***************************************************************************)
EXTENDS JobStore, FiniteSets

CONSTANTS Controllers,
          Capacity,     \* agents.capacity, and the agents' own configuration
          BatchLimit,   \* LIMIT of GetPendingJobs (50 in the code)
          MaxFaults     \* bound on database errors and controller crashes

ASSUME CapacityAssumption == Capacity \in Nat \ {0}
ASSUME BatchLimitAssumption == BatchLimit \in Nat \ {0}
ASSUME MaxFaultsAssumption == MaxFaults \in Nat
ASSUME NoneControllerAssumption == None \notin Controllers

VARIABLES pc, batch, cur, target, faults, exch

ctlVars == <<pc, batch, cur, target>>

PcValues == {"idle", "agents", "dispatch", "send", "wait", "revert", "failPending",
             "stuckDispatched", "failDispatched", "stuckRunning", "failRunning"}

Exchange == [job : Jobs, by : Controllers \cup {None}, proc : Procs,
             st : {"arrived", "admitted", "accepted", "rejected"}]

ReconcilerTypeOK ==
  /\ pc \in [Controllers -> PcValues]
  /\ batch \in [Controllers -> SUBSET Jobs]
  /\ cur \in [Controllers -> Jobs \cup {None}]
  /\ target \in [Controllers -> AgentIds \cup {None}]
  /\ faults \in 0 .. MaxFaults
  /\ exch \subseteq Exchange

ReconcilerInit ==
  /\ pc = [c \in Controllers |-> "idle"]
  /\ batch = [c \in Controllers |-> {}]
  /\ cur = [c \in Controllers |-> None]
  /\ target = [c \in Controllers |-> None]
  /\ faults = 0
  /\ exch = {}

-----------------------------------------------------------------------------
\* Local moves.

Goto(c, l) == pc' = [pc EXCEPT ![c] = l]

\* A database error or a crash; bounded so that they do not go on for ever.
Fault == faults < MaxFaults /\ faults' = faults + 1

\* Start of failStuck, and the end of the tick.
EnterFailStuck(c) ==
  /\ Goto(c, "stuckDispatched")
  /\ batch' = [batch EXCEPT ![c] = {}]
  /\ cur' = [cur EXCEPT ![c] = None]
  /\ target' = [target EXCEPT ![c] = None]

\* "continue" of the loop over the batch.
NextJob(c, j) ==
  IF batch[c] = {j}
    THEN EnterFailStuck(c)
    ELSE /\ Goto(c, "dispatch")
         /\ batch' = [batch EXCEPT ![c] = @ \ {j}]
         /\ cur' = [cur EXCEPT ![c] = None]
         /\ UNCHANGED target

\* Mutant: ORDER BY created_at DESC.
OldestIsNewest(c, j) == j \in batch[c] /\ \A k \in batch[c] : j >= k

Oldest(c, j) == j \in batch[c] /\ \A k \in batch[c] : j <= k

-----------------------------------------------------------------------------
\* dispatchPending.

\* Rows another controller's SELECT ... FOR UPDATE still holds when this one runs.  A row that
\* an UPDATE holds is skipped too; it is taken here as updated before the SELECT, which differs
\* only when the UPDATE is then rolled back.
Locked(c) ==
  UNION {batch[d] : d \in {d \in Controllers \ {c} : pc[d] = "agents"}}

\* ORDER BY created_at LIMIT BatchLimit over the rows that are not skipped.
FirstPending(skipped) ==
  LET rows == Pending \ skipped
  IN  {j \in rows : Cardinality({k \in rows : k < j}) < BatchLimit}

GetPendingJobs(c) ==
  /\ pc[c] = "idle"
  /\ \E skipped \in SUBSET Locked(c) :
       IF FirstPending(skipped) = {}
         THEN EnterFailStuck(c)
         ELSE /\ batch' = [batch EXCEPT ![c] = FirstPending(skipped)]
              /\ Goto(c, "agents")
              /\ UNCHANGED <<cur, target>>
  /\ UNCHANGED <<jobVars, faults, exch>>

RunningJobs(a) ==
  Cardinality({j \in Jobs : agentOf[j] = a /\ status[j] \in {"dispatched", "running"}})

GetAvailableAgents ==
  {a \in AgentIds : beat[a] = "fresh" /\ RunningJobs(a) < Capacity}

\* Select picks the fewest running jobs.  Ties go to the latest heartbeat, which may be any row.
LeastBusy(available) ==
  {a \in available : \A b \in available : RunningJobs(a) <= RunningJobs(b)}

\* The list is read once per tick and never changed, so Select returns the
\* same agent for every job of the batch: target is that agent.
ReadAgents(c) ==
  /\ pc[c] = "agents"
  /\ LET available == GetAvailableAgents
     IN  \/ available = {} /\ target' = [target EXCEPT ![c] = None]
         \/ \E a \in LeastBusy(available) : target' = [target EXCEPT ![c] = a]
  /\ Goto(c, "dispatch")
  /\ UNCHANGED <<batch, cur, jobVars, faults, exch>>

\* One of the two reads failed: the tick goes on with failStuck.
ReadFails(c) ==
  /\ pc[c] \in {"idle", "agents"}
  /\ Fault
  /\ EnterFailStuck(c)
  /\ UNCHANGED <<jobVars, exch>>

\* No agent to select, or buildPayload cannot read or decrypt what it needs.
DispatchOneFails(c, j) ==
  /\ pc[c] = "dispatch"
  /\ Oldest(c, j)
  /\ Goto(c, "failPending")
  /\ cur' = [cur EXCEPT ![c] = j]
  /\ UNCHANGED <<batch, target, jobVars, faults, exch>>

\* Mutant: the outcome of the compare-and-set is not looked at.
MarkDispatchedUnchecked(c, j) ==
  /\ pc[c] = "dispatch"
  /\ Oldest(c, j)
  /\ target[c] # None
  /\ TransitionJob(j, "pending", "dispatched", target[c], "none")
  /\ Goto(c, "send")
  /\ cur' = [cur EXCEPT ![c] = j]
  /\ UNCHANGED <<batch, target, faults, exch>>

\* The claim, pending -> dispatched; the loser of a race skips the job.
MarkDispatched(c, j) ==
  /\ pc[c] = "dispatch"
  /\ Oldest(c, j)
  /\ target[c] # None
  /\ TransitionJob(j, "pending", "dispatched", target[c], "none")
  /\ IF status[j] = "pending"
       THEN /\ Goto(c, "send")
            /\ cur' = [cur EXCEPT ![c] = j]
            /\ UNCHANGED <<batch, target>>
       ELSE NextJob(c, j)
  /\ UNCHANGED <<faults, exch>>

\* Mutant: a claim whose statement failed is treated as won.
MarkDispatchedErrorIgnored(c, j) ==
  /\ pc[c] = "dispatch"
  /\ Oldest(c, j)
  /\ target[c] # None
  /\ Fault
  /\ TransitionJobError(j, "pending", "dispatched", target[c], "none")
  /\ Goto(c, "send")
  /\ cur' = [cur EXCEPT ![c] = j]
  /\ UNCHANGED <<batch, target, exch>>

MarkDispatchedError(c, j) ==
  /\ pc[c] = "dispatch"
  /\ Oldest(c, j)
  /\ target[c] # None
  /\ Fault
  /\ TransitionJobError(j, "pending", "dispatched", target[c], "none")
  /\ Goto(c, "failPending")
  /\ cur' = [cur EXCEPT ![c] = j]
  /\ UNCHANGED <<batch, target, exch>>

\* The error branch of dispatchPending; an error of the update is only logged.
FailPending(c) ==
  /\ pc[c] = "failPending"
  /\ \/ TransitionJob(cur[c], "pending", "failed", None, "dispatch error") /\ UNCHANGED faults
     \/ TransitionJobError(cur[c], "pending", "failed", None, "dispatch error") /\ Fault
  /\ NextJob(c, cur[c])
  /\ UNCHANGED exch

-----------------------------------------------------------------------------
\* Dispatch: the address is looked up, the request posted, the answer awaited.

\* up is the set of processes that listen.
Dispatch(c, up) ==
  /\ pc[c] = "send"
  /\ addr[target[c]] \in up
  /\ exch' = exch \cup {[job |-> cur[c], by |-> c, proc |-> addr[target[c]], st |-> "arrived"]}
  /\ Goto(c, "wait")
  /\ UNCHANGED <<batch, cur, target, jobVars, faults>>

\* No address, connection refused, or the request never got there.
DispatchFails(c) ==
  /\ pc[c] = "send"
  /\ Goto(c, "revert")
  /\ UNCHANGED <<batch, cur, target, jobVars, faults, exch>>

\* The controller stops waiting for its exchange, which goes on without it.
Abandon(c) ==
  exch' = {x \in exch : x.by # c}
            \cup {[x EXCEPT !.by = None] :
                    x \in {x \in exch : x.by = c /\ x.st \in {"arrived", "admitted"}}}

\* 202: the job is the agent's.
DispatchAccepted(c) ==
  /\ pc[c] = "wait"
  /\ \E x \in exch : x.by = c /\ x.st = "accepted"
  /\ exch' = {x \in exch : x.by # c}
  /\ NextJob(c, cur[c])
  /\ UNCHANGED <<jobVars, faults>>

\* Any other answer, a lost connection, or the client's 30 second timeout.
DispatchUnanswered(c) ==
  /\ pc[c] = "wait"
  /\ Abandon(c)
  /\ Goto(c, "revert")
  /\ UNCHANGED <<batch, cur, target, jobVars, faults>>

\* Mutant: a failed dispatch puts the job back into the queue.
RevertDispatchRequeues(c) ==
  /\ pc[c] = "revert"
  /\ TransitionJob(cur[c], "dispatched", "pending", None, "none")
  /\ NextJob(c, cur[c])
  /\ UNCHANGED <<faults, exch>>

RevertDispatch(c) ==
  /\ pc[c] = "revert"
  /\ TransitionJob(cur[c], "dispatched", "failed", None, "agent dispatch error")
  /\ NextJob(c, cur[c])
  /\ UNCHANGED <<faults, exch>>

\* The update failed: dispatchOne returns the error, and dispatchPending acts on it.
RevertDispatchError(c) ==
  /\ pc[c] = "revert"
  /\ Fault
  /\ TransitionJobError(cur[c], "dispatched", "failed", None, "agent dispatch error")
  /\ Goto(c, "failPending")
  /\ UNCHANGED <<batch, cur, target, exch>>

-----------------------------------------------------------------------------
\* failStuck: the same pass for dispatched and then for running jobs.

StuckPass ==
  [dispatched |-> [query |-> "stuckDispatched", loop |-> "failDispatched", next |-> "stuckRunning"],
   running    |-> [query |-> "stuckRunning", loop |-> "failRunning", next |-> "idle"]]

GetStuckJobs(c) ==
  /\ \E s \in {"dispatched", "running"} :
       /\ pc[c] = StuckPass[s].query
       /\ batch' = [batch EXCEPT ![c] = Stuck(s)]
       /\ Goto(c, IF Stuck(s) = {} THEN StuckPass[s].next ELSE StuckPass[s].loop)
  /\ UNCHANGED <<cur, target, jobVars, faults, exch>>

\* The query failed: this pass is over.
GetStuckJobsError(c) ==
  /\ \E s \in {"dispatched", "running"} :
       pc[c] = StuckPass[s].query /\ Goto(c, StuckPass[s].next)
  /\ Fault
  /\ UNCHANGED <<batch, cur, target, jobVars, exch>>

\* One turn of the loop; an error of the update is logged and the loop goes on.
FailStuckJob(c) ==
  /\ \E s \in {"dispatched", "running"}, j \in batch[c] :
       /\ pc[c] = StuckPass[s].loop
       /\ \/ TransitionJob(j, s, "failed", None, "timeout") /\ UNCHANGED faults
          \/ TransitionJobError(j, s, "failed", None, "timeout") /\ Fault
       /\ batch' = [batch EXCEPT ![c] = @ \ {j}]
       /\ Goto(c, IF batch[c] = {j} THEN StuckPass[s].next ELSE StuckPass[s].loop)
  /\ UNCHANGED <<cur, target, exch>>

\* One step of controller c's loop.
Tick(c, up) ==
  \/ GetPendingJobs(c)
  \/ ReadAgents(c)
  \/ ReadFails(c)
  \/ \E j \in Jobs : DispatchOneFails(c, j) \/ MarkDispatched(c, j) \/ MarkDispatchedError(c, j)
  \/ FailPending(c)
  \/ Dispatch(c, up)
  \/ DispatchFails(c)
  \/ DispatchAccepted(c)
  \/ DispatchUnanswered(c)
  \/ RevertDispatch(c)
  \/ RevertDispatchError(c)
  \/ GetStuckJobs(c)
  \/ GetStuckJobsError(c)
  \/ FailStuckJob(c)

\* The controller dies, or its context is cancelled, and a new one starts ticking.
ControllerRestart(c) ==
  /\ pc[c] # "idle"
  /\ Fault
  /\ Abandon(c)
  /\ pc' = [pc EXCEPT ![c] = "idle"]
  /\ batch' = [batch EXCEPT ![c] = {}]
  /\ cur' = [cur EXCEPT ![c] = None]
  /\ target' = [target EXCEPT ![c] = None]
  /\ UNCHANGED jobVars
=============================================================================
