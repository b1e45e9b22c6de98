---------------------------- MODULE JobDispatch ----------------------------
(***************************************************************************)
(* The whole path of a job: API and scheduler insert it, controllers claim *)
(* and send it, an agent executes it and posts its result, the API writes  *)
(* that result or a cancellation, controllers fail what is overdue.        *)
(***************************************************************************)
EXTENDS JobAPI

vars == <<jobVars, registryVars, ctlVars, faults, exch, agentVars, histVars, api>>

TypeOK ==
  /\ JobStoreTypeOK
  /\ RegistryTypeOK
  /\ ReconcilerTypeOK
  /\ AgentTypeOK
  /\ ApiTypeOK

Init == JobStoreInit /\ RegistryInit /\ ReconcilerInit /\ AgentInit /\ ApiInit

-----------------------------------------------------------------------------
\* Who moves, and what the others keep.

InsertStep == \E j \in Jobs :
  CreateJob(j) /\ UNCHANGED <<registryVars, ctlVars, faults, exch, agentVars, histVars, api>>

ControllerStep(c) ==
  Tick(c, Up) /\ UNCHANGED <<registryVars, agentVars, histVars, api>>

RestartStep(c) ==
  ControllerRestart(c) /\ UNCHANGED <<registryVars, agentVars, histVars, api>>

AgentStep ==
  /\ \/ \E p \in Procs : Heartbeat(p) \/ AgentStop(p)
     \/ \E p \in Procs, a \in AgentIds : AgentStart(p, a)
     \/ \E x \in exch : CheckCapacity(x) \/ StartJob(x)
     \/ \E e \in exec : PostResultLost(e) \/ ExecuteJobReturns(e)
     \/ \E e \in exec, result \in RunResults : RunEnds(e, result)
  /\ UNCHANGED <<jobVars, ctlVars, faults, api>>

PostResultStep ==
  /\ \E e \in exec, r \in Slots : PostResultCheck(e, r)
  /\ UNCHANGED <<ctlVars, faults>>

ApiStep ==
  /\ \E r \in Slots :
       \/ \E j \in Jobs : CancelJobCheck(r, j)
       \/ UpdateStatus(r)
       \/ RequestFails(r)
  /\ UNCHANGED <<registryVars, ctlVars, faults, exch, agentVars, histVars>>

HeartbeatExpiresStep == \E a \in AgentIds :
  HeartbeatExpires(a) /\ UNCHANGED <<jobVars, ctlVars, faults, exch, agentVars, histVars, api>>

OverdueStep(j) ==
  JobOverdue(j) /\ UNCHANGED <<registryVars, ctlVars, faults, exch, agentVars, histVars, api>>

Next ==
  \/ InsertStep
  \/ \E c \in Controllers : ControllerStep(c) \/ RestartStep(c)
  \/ AgentStep
  \/ PostResultStep
  \/ ApiStep
  \/ HeartbeatExpiresStep
  \/ \E j \in Jobs : OverdueStep(j)

Spec == Init /\ [][Next]_vars

(***************************************************************************)
(* Controllers keep ticking (the ticker fires, database calls return, the  *)
(* HTTP client gives up after 30 seconds) and time passes.  Nothing is     *)
(* assumed of the agents, the network or the API.                          *)
(***************************************************************************)
Fairness ==
  /\ \A c \in Controllers : WF_vars(ControllerStep(c))
  /\ \A j \in Jobs : WF_vars(OverdueStep(j))

FairSpec == Spec /\ Fairness

-----------------------------------------------------------------------------
(* Safety. *)

\* A playbook is started at most once per job: whatever controllers race, crash,
\* time out or see database errors, handleDispatch never admits a job twice.
AtMostOneStart == \A j \in Jobs : starts[j] <= 1

\* Two controllers never hold the claim of the same job between MarkDispatched and
\* the end of dispatchOne.
Claiming(c) == pc[c] \in {"send", "wait", "revert"}
ClaimsAreExclusive ==
  \A c, d \in Controllers :
    c # d /\ Claiming(c) /\ Claiming(d) => cur[c] # cur[d]

\* A job whose failure_reason says "dispatch error" never ran and never will: no agent
\* executes it and no request for it is open, so it may be submitted again.
\* (The "agent dispatch error" of a claimed job promises no such thing.)
DispatchErrorNeverRan ==
  \A j \in Jobs : reason[j] = "dispatch error" =>
    starts[j] = 0 /\ \A x \in exch : x.job # j

\* A job shown as a success was run to success by the very agent incarnation its
\* agent_id names, although the posted result and the row are read and written in
\* separate statements and agents restart under new ids.
SuccessWasEarned ==
  \A j \in Jobs : status[j] = "success" => <<agentOf[j], "success">> \in outcome[j]

\* The admission counter of an agent equals the executeJob goroutines in flight.
CounterMatchesExecutions ==
  \A p \in Procs : count[p] = Cardinality({e \in exec : e.proc = p})

\* With one controller and no database errors, jobs are claimed in the order they were
\* created (ORDER BY created_at), across ticks and batches.
OldestFirst ==
  [][\A i, j \in Jobs : i < j /\ status[j] = "pending" /\ status'[j] = "dispatched"
                          => status[i] # "pending"]_vars

\* A row never moves back: no claim is given up, and no write of an API handler that
\* checked a stale row revives a job that has finished.
NeverBack == [][\A j \in Jobs : Rank(status[j]) <= Rank(status'[j])]_vars

\* What the system promises about a job, as a specification of its own: the row's status
\* and agent_id, and how often handleDispatch has admitted the job.
Lifecycle == INSTANCE JobLifecycle
  WITH Jobs <- Jobs, AgentIds <- AgentIds, None <- None,
       status <- status, agentOf <- agentOf, starts <- starts

\* Every step of the whole system is a step of the job lifecycle, or none.
RefinesLifecycle == Lifecycle!SafetySpec

(***************************************************************************)
(* The invariant behind the above.  A claim is a token: it is made once,   *)
(* out of pending; the controller that made it turns it into one request,  *)
(* the request becomes at most one execution, and the execution a result   *)
(* for the id it ran under.                                                *)
(***************************************************************************)
HoldersHaveAJob ==
  \A c \in Controllers : Claiming(c) \/ pc[c] = "failPending" => cur[c] \in Jobs

RowsConsistent ==
  \A j \in Jobs :
    /\ status[j] \in {"absent", "pending"} => agentOf[j] = None /\ reason[j] = "none"
    /\ status[j] = "dispatched" => agentOf[j] # None
    /\ reason[j] = "dispatch error" => agentOf[j] = None

UnclaimedUntouched ==
  \A j \in Jobs : agentOf[j] = None =>
    /\ \A c \in Controllers : Claiming(c) => cur[c] # j
    /\ \A x \in exch : x.job # j
    /\ starts[j] = 0

SendComesFirst ==
  \A c \in Controllers : pc[c] = "send" =>
    starts[cur[c]] = 0 /\ \A x \in exch : x.job # cur[c]

OneExchangePerJob == \A x, y \in exch : x.job = y.job => x = y

Open(x) == x.st \in {"arrived", "admitted"}

OpenNotStarted == \A x \in exch : Open(x) => starts[x.job] = 0

ExchangesAreUp == \A x \in exch : idOf[x.proc] # None

ExecutionsCounted == \A e \in exec : starts[e.job] = 1 /\ idOf[e.proc] # None

OneExecutionPerJob == \A e, f \in exec : e.job = f.job => e = f

\* At every moment, at most one party can still start a claimed job: the controller that holds
\* the claim, one open exchange, or the one execution there will ever be.
OwnershipInv ==
  /\ HoldersHaveAJob
  /\ RowsConsistent
  /\ UnclaimedUntouched
  /\ AtMostOneStart
  /\ ClaimsAreExclusive
  /\ SendComesFirst
  /\ OneExchangePerJob
  /\ OpenNotStarted
  /\ ExchangesAreUp
  /\ ExecutionsCounted
  /\ OneExecutionPerJob

\* A result in flight, in the agent or between the two statements of AgentPostResult, is one
\* the job's own agent incarnation produced; so the late write is never somebody else's.
ResultInv ==
  /\ \A j \in Jobs : outcome[j] # {} => starts[j] = 1
  /\ \A e \in exec : e.stage = "post" =>
       e.result \in RunResults /\ <<idOf[e.proc], e.result>> \in outcome[e.job]
  /\ \A r \in Slots : api[r].op = "result" =>
       <<agentOf[api[r].job], api[r].status>> \in outcome[api[r].job]
  /\ \A r \in Slots : api[r] # Idle => status[api[r].job] # "absent"
  /\ \A r \in Slots : api[r].op = "cancel" => api[r].status = "cancelled"

\* Every job that was inserted reaches a terminal status: a claim nobody completed
\* (controller crash, agent death, lost result) is collected by failStuck.
EveryJobFinishes == Lifecycle!Fairness
=============================================================================
