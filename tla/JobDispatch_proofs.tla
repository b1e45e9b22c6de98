------------------------- MODULE JobDispatch_proofs -------------------------
(***************************************************************************)
(* Proofs about JobDispatch, for any number of controllers, agents, jobs,  *)
(* request slots and faults.                                               *)
(***************************************************************************)
EXTENDS JobDispatch, FiniteSetTheorems, TLAPS

IInv == TypeOK /\ OwnershipInv /\ ResultInv

-----------------------------------------------------------------------------
(* Types. *)

\* An UPDATE of a row with well-typed values keeps the jobs table well-typed.
LEMMA UpdateRowType ==
  ASSUME JobStoreTypeOK,
         NEW j, NEW to \in RowStatus, NEW a \in AgentIds \cup {None}, NEW why \in Reasons,
         UpdateRow(j, to, a, why)
  PROVE  JobStoreTypeOK'
  BY DEF JobStoreTypeOK, UpdateRow

\* So does the compare-and-set, whether or not it reports an error.
LEMMA TransitionJobType ==
  ASSUME JobStoreTypeOK,
         NEW j, NEW from, NEW to \in RowStatus, NEW a \in AgentIds \cup {None},
         NEW why \in Reasons,
         TransitionJobError(j, from, to, a, why)
  PROVE  JobStoreTypeOK'
  <1>1. CASE UNCHANGED jobVars
    BY <1>1 DEF JobStoreTypeOK, jobVars
  <1>2. CASE UpdateRow(j, to, a, why)
    BY <1>2, UpdateRowType
  <1> QED
    BY <1>1, <1>2 DEF TransitionJobError, TransitionJob

\* The loop moves of a controller keep its local state well-typed.
LEMMA NextJobType ==
  ASSUME ReconcilerTypeOK, NEW c \in Controllers, NEW j,
         NextJob(c, j) \/ EnterFailStuck(c)
  PROVE  /\ pc' \in [Controllers -> PcValues]
         /\ batch' \in [Controllers -> SUBSET Jobs]
         /\ cur' \in [Controllers -> Jobs \cup {None}]
         /\ target' \in [Controllers -> AgentIds \cup {None}]
  BY DEF ReconcilerTypeOK, NextJob, EnterFailStuck, Goto, PcValues

\* Closing or orphaning an exchange keeps the set well-typed.
LEMMA AbandonType ==
  ASSUME exch \subseteq Exchange, NEW c \in Controllers, Abandon(c)
  PROVE  exch' \subseteq Exchange
  BY DEF Abandon, Exchange

\* The fault counter stays within its bound.
LEMMA FaultType ==
  ASSUME faults \in 0 .. MaxFaults, Fault
  PROVE  faults' \in 0 .. MaxFaults
  BY MaxFaultsAssumption DEF Fault

\* Every step of a controller's loop preserves the types of what it writes.
LEMMA TickType ==
  ASSUME IInv, NEW c \in Controllers, Tick(c, Up)
  PROVE  JobStoreTypeOK' /\ ReconcilerTypeOK'
  <1> USE DEF IInv, TypeOK
  <1> USE NoneAssumption, NoneJobAssumption, NoneControllerAssumption
  <1>u. UNCHANGED jobVars => JobStoreTypeOK'
    BY DEF jobVars, JobStoreTypeOK
  <1>r. {"pending", "dispatched", "failed"} \subseteq RowStatus
        /\ {"none", "dispatch error", "agent dispatch error", "timeout"} \subseteq Reasons
    BY DEF RowStatus, JobStatus, Reasons
  <1>1. CASE GetPendingJobs(c)
    <2>1. ASSUME NEW S PROVE FirstPending(S) \subseteq Jobs
      BY DEF FirstPending, Pending
    <2>2. PICK skipped \in SUBSET Locked(c) :
            IF FirstPending(skipped) = {}
              THEN EnterFailStuck(c)
              ELSE /\ batch' = [batch EXCEPT ![c] = FirstPending(skipped)]
                   /\ Goto(c, "agents")
                   /\ UNCHANGED <<cur, target>>
      BY <1>1 DEF GetPendingJobs
    <2>3. CASE EnterFailStuck(c)
      BY <1>1, <1>u, <2>3, NextJobType DEF GetPendingJobs, ReconcilerTypeOK
    <2>4. CASE FirstPending(skipped) # {}
      BY <1>1, <1>u, <2>1, <2>2, <2>4 DEF GetPendingJobs, ReconcilerTypeOK, Goto, PcValues
    <2> QED BY <2>2, <2>3, <2>4
  <1>2. CASE ReadAgents(c)
    BY <1>2, <1>u DEF ReadAgents, ReconcilerTypeOK, Goto, PcValues, LeastBusy, GetAvailableAgents
  <1>3. CASE ReadFails(c)
    BY <1>3, <1>u, NextJobType, FaultType DEF ReadFails, ReconcilerTypeOK
  <1>4. ASSUME NEW j \in Jobs, DispatchOneFails(c, j) PROVE JobStoreTypeOK' /\ ReconcilerTypeOK'
    BY <1>4, <1>u DEF DispatchOneFails, ReconcilerTypeOK, Goto, PcValues
  <1>5. ASSUME NEW j \in Jobs, MarkDispatched(c, j) PROVE JobStoreTypeOK' /\ ReconcilerTypeOK'
    <2>1. JobStoreTypeOK'
      <3>1. TransitionJobError(j, "pending", "dispatched", target[c], "none")
        BY <1>5 DEF MarkDispatched, TransitionJobError
      <3> QED BY <3>1, <1>r, TransitionJobType DEF ReconcilerTypeOK
    <2>2. CASE NextJob(c, j)
      BY <1>5, <2>1, <2>2, NextJobType DEF MarkDispatched, ReconcilerTypeOK
    <2>3. CASE status[j] = "pending"
      BY <1>5, <2>1, <2>3 DEF MarkDispatched, ReconcilerTypeOK, Goto, PcValues
    <2> QED BY <1>5, <2>2, <2>3 DEF MarkDispatched
  <1>6. ASSUME NEW j \in Jobs, MarkDispatchedError(c, j) PROVE JobStoreTypeOK' /\ ReconcilerTypeOK'
    <2>1. JobStoreTypeOK'
      BY <1>6, <1>r, TransitionJobType DEF MarkDispatchedError, ReconcilerTypeOK
    <2> QED BY <1>6, <2>1, FaultType DEF MarkDispatchedError, ReconcilerTypeOK, Goto, PcValues
  <1>7. CASE FailPending(c)
    <2>1. JobStoreTypeOK'
      <3>1. TransitionJobError(cur[c], "pending", "failed", None, "dispatch error")
        BY <1>7 DEF FailPending, TransitionJobError
      <3> QED BY <3>1, <1>r, TransitionJobType
    <2> QED BY <1>7, <2>1, FaultType, NextJobType DEF FailPending, ReconcilerTypeOK
  <1>8. CASE Dispatch(c, Up)
    <2>1. cur[c] \in Jobs
      BY <1>8 DEF Dispatch, OwnershipInv, HoldersHaveAJob, Claiming
    <2>2. [job |-> cur[c], by |-> c, proc |-> addr[target[c]], st |-> "arrived"] \in Exchange
      BY <1>8, <2>1 DEF Dispatch, Exchange, Up
    <2> QED BY <1>8, <1>u, <2>2 DEF Dispatch, ReconcilerTypeOK, Goto, PcValues
  <1>9. CASE DispatchFails(c)
    BY <1>9, <1>u DEF DispatchFails, ReconcilerTypeOK, Goto, PcValues
  <1>10. CASE DispatchAccepted(c)
    BY <1>10, <1>u, NextJobType DEF DispatchAccepted, ReconcilerTypeOK
  <1>11. CASE DispatchUnanswered(c)
    BY <1>11, <1>u, AbandonType DEF DispatchUnanswered, ReconcilerTypeOK, Goto, PcValues
  <1>12. CASE RevertDispatch(c)
    <2>1. JobStoreTypeOK'
      <3>1. TransitionJobError(cur[c], "dispatched", "failed", None, "agent dispatch error")
        BY <1>12 DEF RevertDispatch, TransitionJobError
      <3> QED BY <3>1, <1>r, TransitionJobType
    <2> QED BY <1>12, <2>1, NextJobType DEF RevertDispatch, ReconcilerTypeOK
  <1>13. CASE RevertDispatchError(c)
    <2>1. JobStoreTypeOK'
      BY <1>13, <1>r, TransitionJobType DEF RevertDispatchError
    <2> QED BY <1>13, <2>1, FaultType DEF RevertDispatchError, ReconcilerTypeOK, Goto, PcValues
  <1>14. CASE GetStuckJobs(c)
    BY <1>14, <1>u DEF GetStuckJobs, ReconcilerTypeOK, Goto, PcValues, StuckPass, Stuck
  <1>15. CASE GetStuckJobsError(c)
    BY <1>15, <1>u, FaultType DEF GetStuckJobsError, ReconcilerTypeOK, Goto, PcValues, StuckPass
  <1>16. CASE FailStuckJob(c)
    <2>1. PICK s \in {"dispatched", "running"}, j \in batch[c] :
            /\ \/ TransitionJob(j, s, "failed", None, "timeout") /\ UNCHANGED faults
               \/ TransitionJobError(j, s, "failed", None, "timeout") /\ Fault
            /\ batch' = [batch EXCEPT ![c] = @ \ {j}]
            /\ Goto(c, IF batch[c] = {j} THEN StuckPass[s].next ELSE StuckPass[s].loop)
      BY <1>16 DEF FailStuckJob
    <2>2. JobStoreTypeOK'
      <3>1. TransitionJobError(j, s, "failed", None, "timeout")
        BY <2>1 DEF TransitionJobError
      <3> QED BY <3>1, <1>r, TransitionJobType
    <2>3. faults' \in 0 .. MaxFaults
      BY <2>1, FaultType DEF ReconcilerTypeOK
    <2> QED BY <1>16, <2>1, <2>2, <2>3 DEF FailStuckJob, ReconcilerTypeOK, Goto, PcValues, StuckPass
  <1> QED
    BY <1>1, <1>2, <1>3, <1>4, <1>5, <1>6, <1>7, <1>8, <1>9, <1>10, <1>11, <1>12, <1>13,
       <1>14, <1>15, <1>16 DEF Tick

\* Every step of the system preserves the types.
LEMMA TypeStep ==
  ASSUME IInv, Next
  PROVE  TypeOK'
  <1> USE NoneAssumption, NoneJobAssumption, NoneControllerAssumption
  <1> USE DEF IInv, TypeOK
  <1>s. JobStoreTypeOK /\ RegistryTypeOK /\ ReconcilerTypeOK /\ AgentTypeOK /\ ApiTypeOK
    OBVIOUS
  <1>j. UNCHANGED jobVars => JobStoreTypeOK'
    BY DEF jobVars, JobStoreTypeOK
  <1>r. UNCHANGED registryVars => RegistryTypeOK'
    BY DEF registryVars, RegistryTypeOK
  <1>c. UNCHANGED <<ctlVars, faults, exch>> => ReconcilerTypeOK'
    BY DEF ctlVars, ReconcilerTypeOK
  <1>x. UNCHANGED <<ctlVars, faults>> /\ exch' \subseteq Exchange => ReconcilerTypeOK'
    BY DEF ctlVars, ReconcilerTypeOK
  <1>a. UNCHANGED <<agentVars, histVars>> => AgentTypeOK'
    BY DEF agentVars, histVars, AgentTypeOK
  <1>p. UNCHANGED api => ApiTypeOK'
    BY DEF ApiTypeOK
  <1>1. CASE InsertStep
    <2>1. JobStoreTypeOK'
      BY <1>1 DEF InsertStep, CreateJob, JobStoreTypeOK, RowStatus, JobStatus
    <2> QED BY <1>1, <2>1, <1>r, <1>c, <1>a, <1>p DEF InsertStep
  <1>2. ASSUME NEW c \in Controllers, ControllerStep(c) PROVE TypeOK'
    BY <1>2, TickType, <1>r, <1>a, <1>p DEF ControllerStep
  <1>3. ASSUME NEW c \in Controllers, RestartStep(c) PROVE TypeOK'
    <2>1. ReconcilerTypeOK'
      BY <1>3, FaultType, AbandonType
      DEF RestartStep, ControllerRestart, ReconcilerTypeOK, PcValues
    <2> QED BY <1>3, <2>1, <1>j, <1>r, <1>a, <1>p DEF RestartStep, ControllerRestart
  <1>4. CASE AgentStep
    <2> JobStoreTypeOK' /\ ApiTypeOK'
      BY <1>4, <1>j, <1>p DEF AgentStep
    <2>u. UNCHANGED <<ctlVars, faults>>
      BY <1>4 DEF AgentStep
    <2>1. ASSUME NEW p \in Procs, Heartbeat(p) PROVE TypeOK'
      <3>1. RegistryTypeOK'
        BY <2>1 DEF Heartbeat, UpdateAgentHeartbeat, RegistryTypeOK
      <3> QED BY <2>1, <2>u, <3>1, <1>c, <1>a DEF Heartbeat
    <2>2. ASSUME NEW p \in Procs, AgentStop(p) PROVE TypeOK'
      <3>1. AgentTypeOK'
        BY <2>2 DEF AgentStop, AgentTypeOK, histVars
      <3>2. exch' \subseteq Exchange
        BY <2>2 DEF AgentStop, ReconcilerTypeOK
      <3> QED BY <2>2, <2>u, <3>1, <3>2, <1>r, <1>x DEF AgentStop
    <2>3. ASSUME NEW p \in Procs, NEW a \in AgentIds, AgentStart(p, a) PROVE TypeOK'
      <3>1. AgentTypeOK' /\ RegistryTypeOK'
        BY <2>3 DEF AgentStart, RegisterAgent, AgentTypeOK, RegistryTypeOK, histVars
      <3> QED BY <2>3, <2>u, <3>1, <1>c DEF AgentStart
    <2>4. ASSUME NEW x \in exch, CheckCapacity(x) PROVE TypeOK'
      <3>1. exch' \subseteq Exchange
        BY <2>4 DEF CheckCapacity, Answer, ReconcilerTypeOK, Exchange
      <3> QED BY <2>4, <2>u, <3>1, <1>r, <1>x, <1>a DEF CheckCapacity
    <2>5. ASSUME NEW x \in exch, StartJob(x) PROVE TypeOK'
      <3>1. exch' \subseteq Exchange
        BY <2>5 DEF StartJob, Answer, ReconcilerTypeOK, Exchange
      <3>2. x.job \in Jobs /\ x.proc \in Procs
        BY DEF ReconcilerTypeOK, Exchange
      <3>3. [job |-> x.job, proc |-> x.proc, stage |-> "run", result |-> None] \in Execution
        BY <3>2 DEF Execution
      <3>4. AgentTypeOK'
        BY <2>5, <3>2, <3>3 DEF StartJob, AgentTypeOK
      <3> QED BY <2>5, <2>u, <3>1, <3>4, <1>r, <1>x DEF StartJob
    <2>6. ASSUME NEW e \in exec, PostResultLost(e) PROVE TypeOK'
      <3>1. [e EXCEPT !.stage = "posted"] \in Execution
        BY DEF AgentTypeOK, Execution
      <3>2. AgentTypeOK'
        BY <2>6, <3>1 DEF PostResultLost, AgentTypeOK, histVars
      <3> QED BY <2>6, <2>u, <3>2, <1>r, <1>c DEF PostResultLost
    <2>7. ASSUME NEW e \in exec, ExecuteJobReturns(e) PROVE TypeOK'
      <3>0. e.proc \in Procs
        BY DEF AgentTypeOK, Execution
      <3>1. AgentTypeOK'
        BY <2>7, <3>0 DEF ExecuteJobReturns, AgentTypeOK, histVars
      <3> QED BY <2>7, <2>u, <3>1, <1>r, <1>c DEF ExecuteJobReturns
    <2>8. ASSUME NEW e \in exec, NEW result \in RunResults, RunEnds(e, result) PROVE TypeOK'
      <3>1. [e EXCEPT !.stage = "post", !.result = result] \in Execution
        BY DEF AgentTypeOK, Execution
      <3>2. e.job \in Jobs /\ e.proc \in Procs
        BY DEF AgentTypeOK, Execution
      <3>3. idOf[e.proc] \in AgentIds
        BY <3>2 DEF AgentTypeOK, OwnershipInv, ExecutionsCounted
      <3>4. AgentTypeOK'
        BY <2>8, <3>1, <3>2, <3>3 DEF RunEnds, AgentTypeOK
      <3> QED BY <2>8, <2>u, <3>4, <1>r, <1>c DEF RunEnds
    <2> QED
      BY <1>4, <2>1, <2>2, <2>3, <2>4, <2>5, <2>6, <2>7, <2>8 DEF AgentStep
  <1>5. CASE PostResultStep
    <2>1. PICK e \in exec, r \in Slots : PostResultCheck(e, r)
      BY <1>5 DEF PostResultStep
    <2>2. [e EXCEPT !.stage = "posted"] \in Execution /\ e.job \in Jobs
      BY DEF AgentTypeOK, Execution
    <2>3. AgentTypeOK'
      BY <2>1, <2>2 DEF PostResultCheck, AgentTypeOK, histVars
    <2>4. ApiTypeOK'
      <3>1. CASE Forbidden(e)
        BY <2>1, <3>1, <1>p DEF PostResultCheck
      <3>2. CASE ~Forbidden(e)
        <4>1. e.result \in Terminal
          BY <2>1 DEF PostResultCheck, ResultInv, RunResults, Terminal
        <4> QED BY <2>1, <2>2, <3>2, <4>1 DEF PostResultCheck, Occupy, ApiTypeOK, Request
      <3> QED BY <3>1, <3>2
    <2> QED BY <1>5, <2>1, <2>3, <2>4, <1>j, <1>r, <1>c DEF PostResultStep, PostResultCheck
  <1>6. CASE ApiStep
    <2>1. JobStoreTypeOK' /\ ApiTypeOK'
      <3>0. Idle \in Request
        BY DEF Request
      <3>1. ASSUME NEW r \in Slots, NEW j \in Jobs, CancelJobCheck(r, j)
            PROVE  JobStoreTypeOK' /\ ApiTypeOK'
        BY <3>1, <1>j DEF CancelJobCheck, Occupy, ApiTypeOK, Request, Terminal
      <3>2. ASSUME NEW r \in Slots, UpdateStatus(r) PROVE JobStoreTypeOK' /\ ApiTypeOK'
        <4>1. api[r].status \in RowStatus
          BY DEF ApiTypeOK, Request, Idle, Terminal, RowStatus, JobStatus
        <4>2. {"none", "cancelled by user"} \subseteq Reasons
          BY DEF Reasons
        <4>3. JobStoreTypeOK'
          BY <3>2, <4>1, <4>2, UpdateRowType DEF UpdateStatus, UpdateJobStatus
        <4> QED BY <3>0, <3>2, <4>3 DEF UpdateStatus, Release, ApiTypeOK
      <3>3. ASSUME NEW r \in Slots, RequestFails(r) PROVE JobStoreTypeOK' /\ ApiTypeOK'
        BY <3>0, <3>3, <1>j DEF RequestFails, Release, ApiTypeOK
      <3> QED BY <1>6, <3>1, <3>2, <3>3 DEF ApiStep
    <2> QED BY <1>6, <2>1, <1>r, <1>c, <1>a DEF ApiStep
  <1>7. CASE HeartbeatExpiresStep
    <2>1. RegistryTypeOK'
      BY <1>7 DEF HeartbeatExpiresStep, HeartbeatExpires, RegistryTypeOK
    <2> QED BY <1>7, <2>1, <1>j, <1>c, <1>a, <1>p DEF HeartbeatExpiresStep
  <1>8. ASSUME NEW j \in Jobs, OverdueStep(j) PROVE TypeOK'
    <2>1. JobStoreTypeOK'
      BY <1>8 DEF OverdueStep, JobOverdue, JobStoreTypeOK
    <2> QED BY <1>8, <2>1, <1>r, <1>c, <1>a, <1>p DEF OverdueStep
  <1> QED
    BY <1>1, <1>2, <1>3, <1>4, <1>5, <1>6, <1>7, <1>8 DEF Next

-----------------------------------------------------------------------------
(* Ownership: rows. *)

\* A claim is never taken back.
ClaimsStay == \A j \in Jobs : agentOf[j] # None => agentOf'[j] = agentOf[j]

\* A terminal write that is not dispatchPending's, over any row that exists, is harmless.
LEMMA FinalWriteRows ==
  ASSUME JobStoreTypeOK, RowsConsistent, NEW j \in Jobs, NEW to \in Terminal,
         NEW why \in Reasons \ {"dispatch error"}, UpdateRow(j, to, None, why)
  PROVE  RowsConsistent' /\ ClaimsStay
  BY DEF JobStoreTypeOK, RowsConsistent, ClaimsStay, UpdateRow, Terminal

\* So is the compare-and-set of failStuck and of the revert, applied or not.
LEMMA FailRows ==
  ASSUME JobStoreTypeOK, RowsConsistent, NEW j \in Jobs, NEW from,
         NEW why \in Reasons \ {"dispatch error"},
         TransitionJobError(j, from, "failed", None, why)
  PROVE  RowsConsistent' /\ ClaimsStay
  <1>1. CASE UNCHANGED jobVars
    BY <1>1 DEF jobVars, RowsConsistent, ClaimsStay
  <1>2. CASE UpdateRow(j, "failed", None, why)
    BY <1>2, FinalWriteRows DEF Terminal
  <1> QED BY <1>1, <1>2 DEF TransitionJobError, TransitionJob

\* dispatchPending's own failure only touches a pending row, which has no agent.
LEMMA FailPendingRows ==
  ASSUME JobStoreTypeOK, RowsConsistent, NEW j \in Jobs,
         TransitionJobError(j, "pending", "failed", None, "dispatch error")
  PROVE  RowsConsistent' /\ ClaimsStay
  BY NoneAssumption DEF JobStoreTypeOK, RowsConsistent, ClaimsStay, TransitionJobError, TransitionJob, UpdateRow, jobVars

\* The claim, applied or not.
LEMMA ClaimRows ==
  ASSUME JobStoreTypeOK, RowsConsistent, NEW j \in Jobs, NEW a \in AgentIds,
         TransitionJobError(j, "pending", "dispatched", a, "none")
  PROVE  RowsConsistent' /\ ClaimsStay
  BY NoneAssumption DEF JobStoreTypeOK, RowsConsistent, ClaimsStay, TransitionJobError, TransitionJob, UpdateRow, jobVars

-----------------------------------------------------------------------------
(* Ownership: steps that start nothing. *)

\* Controllers only let go of jobs, exchanges only end or lose their listener.
ControllersLetGo ==
  \A d \in Controllers :
    /\ pc'[d] \in {"send", "wait", "revert"} =>
         pc[d] \in {"send", "wait", "revert"} /\ cur'[d] = cur[d]
    /\ pc'[d] = "send" => pc[d] = "send"
    /\ pc'[d] = "failPending" => cur'[d] \in Jobs

ExchangesLetGo ==
  /\ \A y \in exch' : \E x \in exch :
       y.job = x.job /\ y.proc = x.proc /\ (Open(y) => Open(x))
  /\ \A y, z \in exch' : y.job = z.job => y = z

\* A step that only lets go, and writes rows as the statements do, keeps the invariant.
LEMMA LetGoStep ==
  ASSUME OwnershipInv, ControllersLetGo, ExchangesLetGo, RowsConsistent', ClaimsStay,
         UNCHANGED <<idOf, exec, starts>>
  PROVE  OwnershipInv'
  <1>0. idOf' = idOf /\ exec' = exec /\ starts' = starts
    OBVIOUS
  <1>1. HoldersHaveAJob'
    BY DEF OwnershipInv, HoldersHaveAJob, ControllersLetGo, Claiming
  <1>2. UnclaimedUntouched'
    <2> SUFFICES ASSUME NEW j \in Jobs, agentOf'[j] = None
                 PROVE  /\ \A c \in Controllers : Claiming(c)' => cur'[c] # j
                        /\ \A x \in exch' : x.job # j
                        /\ starts'[j] = 0
      BY DEF UnclaimedUntouched
    <2>1. agentOf[j] = None
      BY DEF ClaimsStay
    <2> QED BY <1>0, <2>1 DEF OwnershipInv, UnclaimedUntouched, ControllersLetGo, ExchangesLetGo, Claiming
  <1>3. AtMostOneStart'
    BY <1>0 DEF OwnershipInv, AtMostOneStart
  <1>4. ClaimsAreExclusive'
    BY DEF OwnershipInv, ControllersLetGo, ClaimsAreExclusive, Claiming
  <1>5. SendComesFirst'
    BY <1>0 DEF OwnershipInv, SendComesFirst, ControllersLetGo, ExchangesLetGo
  <1>6. OneExchangePerJob'
    BY DEF ExchangesLetGo, OneExchangePerJob
  <1>7. OpenNotStarted'
    BY <1>0 DEF OwnershipInv, OpenNotStarted, ExchangesLetGo
  <1>8. ExchangesAreUp'
    BY <1>0 DEF OwnershipInv, ExchangesAreUp, ExchangesLetGo
  <1>9. ExecutionsCounted' /\ OneExecutionPerJob'
    BY <1>0 DEF OwnershipInv, ExecutionsCounted, OneExecutionPerJob
  <1> QED
    BY <1>1, <1>2, <1>3, <1>4, <1>5, <1>6, <1>7, <1>8, <1>9 DEF OwnershipInv

\* What the moves of one controller do to the others: nothing.
OnlyMoves(c) == \A d \in Controllers \ {c} : pc'[d] = pc[d] /\ cur'[d] = cur[d]

\* Going on with the next job of the batch moves one controller only, out of its claim.
LEMMA NextJobMoves ==
  ASSUME ReconcilerTypeOK, NEW c \in Controllers, NEW j, NextJob(c, j) \/ EnterFailStuck(c)
  PROVE  OnlyMoves(c) /\ pc'[c] \in {"dispatch", "stuckDispatched"}
  BY DEF ReconcilerTypeOK, NextJob, EnterFailStuck, Goto, OnlyMoves

\* A move to another place of the loop moves one controller only.
LEMMA GotoMoves ==
  ASSUME ReconcilerTypeOK, NEW c \in Controllers, NEW l, Goto(c, l),
         cur' = cur \/ \E j : cur' = [cur EXCEPT ![c] = j]
  PROVE  OnlyMoves(c) /\ pc'[c] = l
  BY DEF ReconcilerTypeOK, Goto, OnlyMoves

\* A controller that leaves the section it holds a claim in lets go of its job.
LEMMA LeaveLetsGo ==
  ASSUME NEW c \in Controllers, HoldersHaveAJob, OnlyMoves(c),
         pc'[c] \notin {"send", "wait"}, pc'[c] = "revert" => Claiming(c) /\ cur'[c] = cur[c],
         pc'[c] = "failPending" => cur'[c] \in Jobs
  PROVE  ControllersLetGo
  BY DEF ControllersLetGo, HoldersHaveAJob, OnlyMoves, Claiming

\* Exchanges that only disappear let go.
LEMMA SameExchanges ==
  ASSUME OneExchangePerJob, exch' \subseteq exch
  PROVE  ExchangesLetGo
  BY DEF ExchangesLetGo, OneExchangePerJob

\* Abandoning an exchange lets go as well.
LEMMA AbandonLetsGo ==
  ASSUME exch \subseteq Exchange, OneExchangePerJob, NEW c \in Controllers, Abandon(c)
  PROVE  ExchangesLetGo
  <1>1. ASSUME NEW x \in exch
        PROVE  /\ [x EXCEPT !.by = None].job = x.job
               /\ [x EXCEPT !.by = None].proc = x.proc
               /\ [x EXCEPT !.by = None].st = x.st
    BY DEF Exchange
  <1>2. ASSUME NEW y \in exch'
        PROVE  \E x \in exch : /\ y.job = x.job /\ y.proc = x.proc /\ y.st = x.st
                               /\ y = IF x.by = c THEN [x EXCEPT !.by = None] ELSE x
    BY <1>1 DEF Abandon
  <1>3. \A y \in exch' : \E x \in exch :
          y.job = x.job /\ y.proc = x.proc /\ (Open(y) => Open(x))
    BY <1>2 DEF Open
  <1>4. ASSUME NEW y \in exch', NEW z \in exch', y.job = z.job PROVE y = z
    <2>1. PICK u \in exch : y.job = u.job /\ y = IF u.by = c THEN [u EXCEPT !.by = None] ELSE u
      BY <1>2
    <2>2. PICK v \in exch : z.job = v.job /\ z = IF v.by = c THEN [v EXCEPT !.by = None] ELSE v
      BY <1>2
    <2>3. u = v
      BY <1>4, <2>1, <2>2 DEF OneExchangePerJob
    <2> QED BY <2>1, <2>2, <2>3
  <1> QED BY <1>3, <1>4 DEF ExchangesLetGo

-----------------------------------------------------------------------------
(* Ownership: the steps of a controller. *)

\* Every step of a controller's loop preserves OwnershipInv, one case per step.
LEMMA TickOwnership ==
  ASSUME IInv, NEW c \in Controllers, Tick(c, Up), UNCHANGED <<idOf, exec, starts>>
  PROVE  OwnershipInv'
  <1>t. JobStoreTypeOK /\ ReconcilerTypeOK /\ RegistryTypeOK /\ AgentTypeOK /\ OwnershipInv
        /\ exch \subseteq Exchange
    BY DEF IInv, TypeOK, ReconcilerTypeOK
  <1>i. /\ HoldersHaveAJob /\ RowsConsistent /\ OneExchangePerJob /\ UnclaimedUntouched
        /\ ClaimsAreExclusive /\ SendComesFirst /\ OpenNotStarted /\ ExchangesAreUp
        /\ ExecutionsCounted /\ OneExecutionPerJob /\ AtMostOneStart
    BY <1>t DEF OwnershipInv
  <1>u. UNCHANGED jobVars => RowsConsistent' /\ ClaimsStay
    BY <1>i DEF jobVars, RowsConsistent, ClaimsStay
  <1>x. UNCHANGED exch => ExchangesLetGo
    BY <1>i, SameExchanges
  <1>r. {"none", "agent dispatch error", "timeout"} \subseteq Reasons \ {"dispatch error"}
    BY DEF Reasons
  <1>q. ControllersLetGo /\ ExchangesLetGo /\ RowsConsistent' /\ ClaimsStay => OwnershipInv'
    BY <1>t, LetGoStep
  <1>1. CASE GetPendingJobs(c)
    <2>1. OnlyMoves(c) /\ pc'[c] \in {"agents", "dispatch", "stuckDispatched"}
      BY <1>1, <1>t, NextJobMoves, GotoMoves DEF GetPendingJobs
    <2>2. ControllersLetGo
      BY <1>i, <2>1, LeaveLetsGo
    <2> QED BY <1>1, <1>u, <1>x, <1>q, <2>2 DEF GetPendingJobs
  <1>2. CASE ReadAgents(c)
    <2>1. OnlyMoves(c) /\ pc'[c] = "dispatch"
      BY <1>2, <1>t, GotoMoves DEF ReadAgents
    <2>2. ControllersLetGo
      BY <1>i, <2>1, LeaveLetsGo
    <2> QED BY <1>2, <1>u, <1>x, <1>q, <2>2 DEF ReadAgents
  <1>3. CASE ReadFails(c)
    <2>1. OnlyMoves(c) /\ pc'[c] \in {"dispatch", "stuckDispatched"}
      BY <1>3, <1>t, NextJobMoves DEF ReadFails
    <2>2. ControllersLetGo
      BY <1>i, <2>1, LeaveLetsGo
    <2> QED BY <1>3, <1>u, <1>x, <1>q, <2>2 DEF ReadFails
  <1>4. ASSUME NEW j \in Jobs, DispatchOneFails(c, j) PROVE OwnershipInv'
    <2>1. OnlyMoves(c) /\ pc'[c] = "failPending" /\ cur'[c] = j
      BY <1>4, <1>t, GotoMoves DEF DispatchOneFails, ReconcilerTypeOK
    <2>2. ControllersLetGo
      BY <1>i, <2>1, LeaveLetsGo
    <2> QED BY <1>4, <1>u, <1>x, <1>q, <2>2 DEF DispatchOneFails
  <1>5. ASSUME NEW j \in Jobs, MarkDispatched(c, j) PROVE OwnershipInv'
    <2>0. target[c] \in AgentIds
      BY <1>5, <1>t DEF MarkDispatched, ReconcilerTypeOK
    <2>1. RowsConsistent' /\ ClaimsStay
      BY <1>5, <1>i, <1>t, <2>0, ClaimRows DEF MarkDispatched, TransitionJobError
    <2>2. CASE NextJob(c, j)
      <3>1. ControllersLetGo
        BY <1>i, <1>t, <2>2, NextJobMoves, LeaveLetsGo
      <3> QED BY <1>5, <1>x, <1>q, <2>1, <3>1 DEF MarkDispatched
    <2>3. CASE status[j] = "pending"
      <3>1. OnlyMoves(c) /\ pc'[c] = "send" /\ cur'[c] = j
        BY <1>5, <1>t, <2>3, GotoMoves DEF MarkDispatched, ReconcilerTypeOK
      <3>2. agentOf' = [agentOf EXCEPT ![j] = target[c]] /\ exch' = exch /\ starts' = starts
        BY <1>5, <2>0, <2>3, NoneAssumption DEF MarkDispatched, TransitionJob, UpdateRow
      <3>3. agentOf[j] = None
        BY <1>i, <2>3 DEF RowsConsistent
      <3>4. /\ \A d \in Controllers : Claiming(d) => cur[d] # j
            /\ \A x \in exch : x.job # j
            /\ starts[j] = 0
        BY <1>i, <3>3 DEF UnclaimedUntouched
      <3>5. HoldersHaveAJob'
        BY <1>i, <3>1 DEF HoldersHaveAJob, OnlyMoves, Claiming
      <3>6. UnclaimedUntouched'
        <4>1. agentOf'[j] # None
          BY <3>2, <2>0, <1>t, NoneAssumption DEF JobStoreTypeOK
        <4>2. \A i \in Jobs \ {j} : agentOf'[i] = agentOf[i]
          BY <3>2, <1>t DEF JobStoreTypeOK
        <4> QED BY <1>i, <3>1, <3>2, <4>1, <4>2 DEF UnclaimedUntouched, OnlyMoves, Claiming
      <3>7. ClaimsAreExclusive'
        BY <1>i, <3>1, <3>4 DEF ClaimsAreExclusive, OnlyMoves, Claiming
      <3>8. SendComesFirst'
        BY <1>i, <3>1, <3>2, <3>4 DEF SendComesFirst, OnlyMoves
      <3>9. AtMostOneStart' /\ OneExchangePerJob' /\ OpenNotStarted' /\ ExchangesAreUp'
            /\ ExecutionsCounted' /\ OneExecutionPerJob'
        BY <1>i, <3>2 DEF AtMostOneStart, OneExchangePerJob, OpenNotStarted, ExchangesAreUp,
                          ExecutionsCounted, OneExecutionPerJob, Open
      <3> QED BY <2>1, <3>5, <3>6, <3>7, <3>8, <3>9 DEF OwnershipInv
    <2> QED BY <1>5, <2>2, <2>3 DEF MarkDispatched
  <1>6. ASSUME NEW j \in Jobs, MarkDispatchedError(c, j) PROVE OwnershipInv'
    <2>0. target[c] \in AgentIds
      BY <1>6, <1>t DEF MarkDispatchedError, ReconcilerTypeOK
    <2>1. RowsConsistent' /\ ClaimsStay
      BY <1>6, <1>i, <1>t, <2>0, ClaimRows DEF MarkDispatchedError
    <2>2. OnlyMoves(c) /\ pc'[c] = "failPending" /\ cur'[c] = j
      BY <1>6, <1>t, GotoMoves DEF MarkDispatchedError, ReconcilerTypeOK
    <2>3. ControllersLetGo
      BY <1>i, <2>2, LeaveLetsGo
    <2> QED BY <1>6, <1>x, <1>q, <2>1, <2>3 DEF MarkDispatchedError
  <1>7. CASE FailPending(c)
    <2>0. cur[c] \in Jobs
      BY <1>7, <1>i DEF FailPending, HoldersHaveAJob
    <2>1. RowsConsistent' /\ ClaimsStay
      BY <1>7, <1>i, <1>t, <2>0, FailPendingRows DEF FailPending, TransitionJobError
    <2>2. ControllersLetGo
      BY <1>7, <1>i, <1>t, NextJobMoves, LeaveLetsGo DEF FailPending
    <2> QED BY <1>7, <1>x, <1>q, <2>1, <2>2 DEF FailPending
  <1>8. CASE Dispatch(c, Up)
    <2> DEFINE new == [job |-> cur[c], by |-> c, proc |-> addr[target[c]], st |-> "arrived"]
    <2>0. cur[c] \in Jobs
      BY <1>8, <1>i DEF Dispatch, HoldersHaveAJob, Claiming
    <2>1. OnlyMoves(c) /\ pc'[c] = "wait" /\ cur' = cur /\ Claiming(c)
      BY <1>8, <1>t, GotoMoves DEF Dispatch, ReconcilerTypeOK, Claiming
    <2>2. exch' = exch \cup {new} /\ new.job = cur[c] /\ new.proc \in Up
      BY <1>8 DEF Dispatch
    <2>3. starts[cur[c]] = 0 /\ \A x \in exch : x.job # cur[c]
      BY <1>8, <1>i DEF Dispatch, SendComesFirst
    <2>4. idOf' = idOf /\ exec' = exec /\ starts' = starts
      OBVIOUS
    <2>5. RowsConsistent' /\ agentOf' = agentOf
      BY <1>8, <1>u DEF Dispatch, jobVars
    <2>6. HoldersHaveAJob'
      BY <1>i, <2>1 DEF HoldersHaveAJob, OnlyMoves, Claiming
    <2>7. UnclaimedUntouched'
      BY <1>i, <2>0, <2>1, <2>2, <2>4, <2>5 DEF UnclaimedUntouched, OnlyMoves, Claiming
    <2>8. ClaimsAreExclusive'
      BY <1>i, <2>1 DEF ClaimsAreExclusive, OnlyMoves, Claiming
    <2>9. SendComesFirst'
      <3> SUFFICES ASSUME NEW d \in Controllers, pc'[d] = "send"
                   PROVE  starts'[cur'[d]] = 0 /\ \A x \in exch' : x.job # cur'[d]
        BY DEF SendComesFirst
      <3>1. d # c /\ pc[d] = "send"
        BY <2>1 DEF OnlyMoves
      <3>2. cur[d] # cur[c]
        BY <1>i, <2>1, <3>1 DEF ClaimsAreExclusive, Claiming
      <3> QED BY <1>i, <2>1, <2>2, <2>4, <3>1, <3>2 DEF SendComesFirst
    <2>10. OneExchangePerJob'
      BY <1>i, <2>2, <2>3 DEF OneExchangePerJob
    <2>11. OpenNotStarted' /\ ExchangesAreUp'
      BY <1>i, <2>2, <2>3, <2>4 DEF OpenNotStarted, ExchangesAreUp, Up, Open
    <2>12. AtMostOneStart' /\ ExecutionsCounted' /\ OneExecutionPerJob'
      BY <1>i, <2>4 DEF AtMostOneStart, ExecutionsCounted, OneExecutionPerJob
    <2> QED BY <2>5, <2>6, <2>7, <2>8, <2>9, <2>10, <2>11, <2>12 DEF OwnershipInv
  <1>9. CASE DispatchFails(c)
    <2>1. OnlyMoves(c) /\ pc'[c] = "revert" /\ cur' = cur /\ Claiming(c)
      BY <1>9, <1>t, GotoMoves DEF DispatchFails, Claiming
    <2>2. ControllersLetGo
      BY <1>i, <2>1, LeaveLetsGo
    <2> QED BY <1>9, <1>u, <1>x, <1>q, <2>2 DEF DispatchFails
  <1>10. CASE DispatchAccepted(c)
    <2>1. ControllersLetGo
      BY <1>10, <1>i, <1>t, NextJobMoves, LeaveLetsGo DEF DispatchAccepted
    <2>2. ExchangesLetGo
      BY <1>10, <1>i, SameExchanges DEF DispatchAccepted
    <2> QED BY <1>10, <1>u, <1>q, <2>1, <2>2 DEF DispatchAccepted
  <1>11. CASE DispatchUnanswered(c)
    <2>1. OnlyMoves(c) /\ pc'[c] = "revert" /\ cur' = cur /\ Claiming(c)
      BY <1>11, <1>t, GotoMoves DEF DispatchUnanswered, Claiming
    <2>2. ControllersLetGo
      BY <1>i, <2>1, LeaveLetsGo
    <2>3. ExchangesLetGo
      BY <1>11, <1>i, <1>t, AbandonLetsGo DEF DispatchUnanswered
    <2> QED BY <1>11, <1>u, <1>q, <2>2, <2>3 DEF DispatchUnanswered
  <1>12. CASE RevertDispatch(c)
    <2>0. cur[c] \in Jobs
      BY <1>12, <1>i DEF RevertDispatch, HoldersHaveAJob, Claiming
    <2>1. RowsConsistent' /\ ClaimsStay
      BY <1>12, <1>i, <1>t, <1>r, <2>0, FailRows DEF RevertDispatch, TransitionJobError
    <2>2. ControllersLetGo
      BY <1>12, <1>i, <1>t, NextJobMoves, LeaveLetsGo DEF RevertDispatch
    <2> QED BY <1>12, <1>x, <1>q, <2>1, <2>2 DEF RevertDispatch
  <1>13. CASE RevertDispatchError(c)
    <2>0. cur[c] \in Jobs
      BY <1>13, <1>i DEF RevertDispatchError, HoldersHaveAJob, Claiming
    <2>1. RowsConsistent' /\ ClaimsStay
      BY <1>13, <1>i, <1>t, <1>r, <2>0, FailRows DEF RevertDispatchError
    <2>2. OnlyMoves(c) /\ pc'[c] = "failPending" /\ cur'[c] \in Jobs
      BY <1>13, <1>t, <2>0, GotoMoves DEF RevertDispatchError
    <2>3. ControllersLetGo
      BY <1>i, <2>2, LeaveLetsGo
    <2> QED BY <1>13, <1>x, <1>q, <2>1, <2>3 DEF RevertDispatchError
  <1>14. CASE GetStuckJobs(c) \/ GetStuckJobsError(c)
    <2>1. OnlyMoves(c) /\ pc'[c] \notin {"send", "wait", "revert", "failPending"}
      BY <1>14, <1>t, GotoMoves DEF GetStuckJobs, GetStuckJobsError, StuckPass
    <2>2. ControllersLetGo
      BY <1>i, <2>1, LeaveLetsGo
    <2> QED BY <1>14, <1>u, <1>x, <1>q, <2>2 DEF GetStuckJobs, GetStuckJobsError
  <1>15. CASE FailStuckJob(c)
    <2>1. PICK s \in {"dispatched", "running"}, j \in batch[c] :
            /\ TransitionJobError(j, s, "failed", None, "timeout")
            /\ Goto(c, IF batch[c] = {j} THEN StuckPass[s].next ELSE StuckPass[s].loop)
      BY <1>15 DEF FailStuckJob, TransitionJobError
    <2>2. j \in Jobs
      BY <1>t DEF ReconcilerTypeOK
    <2>3. RowsConsistent' /\ ClaimsStay
      BY <1>i, <1>t, <1>r, <2>1, <2>2, FailRows
    <2>4. OnlyMoves(c) /\ pc'[c] \notin {"send", "wait", "revert", "failPending"}
      BY <1>15, <1>t, <2>1, GotoMoves DEF FailStuckJob, StuckPass
    <2>5. ControllersLetGo
      BY <1>i, <2>4, LeaveLetsGo
    <2> QED BY <1>15, <1>x, <1>q, <2>3, <2>5 DEF FailStuckJob
  <1> QED
    BY <1>1, <1>2, <1>3, <1>4, <1>5, <1>6, <1>7, <1>8, <1>9, <1>10, <1>11, <1>12, <1>13,
       <1>14, <1>15 DEF Tick

-----------------------------------------------------------------------------
(* Ownership: everybody else. *)

\* An execution that moves to its next stage is still the one of its job.
LEMMA StageOwnership ==
  ASSUME ExecutionsCounted, OneExecutionPerJob, NEW e \in exec, NEW f,
         f.job = e.job, f.proc = e.proc,
         exec' = (exec \ {e}) \cup {f}, idOf' = idOf, starts' = starts
  PROVE  ExecutionsCounted' /\ OneExecutionPerJob'
  <1>1. \A g \in exec' : g = f \/ (g \in exec /\ g # e)
    OBVIOUS
  <1>2. ExecutionsCounted'
    BY <1>1 DEF ExecutionsCounted
  <1>3. \A g \in exec : g.job = e.job => g = e
    BY DEF OneExecutionPerJob
  <1>4. OneExecutionPerJob'
    BY <1>1, <1>3 DEF OneExecutionPerJob
  <1> QED BY <1>2, <1>4

\* Steps of the agents.
LEMMA AgentOwnership ==
  ASSUME IInv, AgentStep
  PROVE  OwnershipInv'
  <1>t. ReconcilerTypeOK /\ AgentTypeOK /\ OwnershipInv
        /\ exch \subseteq Exchange /\ exec \subseteq Execution
    BY DEF IInv, TypeOK, ReconcilerTypeOK, AgentTypeOK
  <1>i. /\ HoldersHaveAJob /\ RowsConsistent /\ OneExchangePerJob /\ UnclaimedUntouched
        /\ ClaimsAreExclusive /\ SendComesFirst /\ OpenNotStarted /\ ExchangesAreUp
        /\ ExecutionsCounted /\ OneExecutionPerJob /\ AtMostOneStart
    BY <1>t DEF OwnershipInv
  <1>u. pc' = pc /\ cur' = cur /\ status' = status /\ agentOf' = agentOf /\ reason' = reason
    BY DEF AgentStep, ctlVars, jobVars
  <1>s. HoldersHaveAJob' /\ RowsConsistent' /\ ClaimsAreExclusive'
    BY <1>i, <1>u DEF HoldersHaveAJob, RowsConsistent, ClaimsAreExclusive, Claiming
  <1>l. ControllersLetGo /\ ClaimsStay
    BY <1>i, <1>u DEF ControllersLetGo, ClaimsStay, HoldersHaveAJob
  <1>x. UNCHANGED exch => ExchangesLetGo
    BY <1>i, SameExchanges
  <1>q. ExchangesLetGo /\ UNCHANGED <<idOf, exec, starts>> => OwnershipInv'
    BY <1>t, <1>s, <1>l, LetGoStep
  \* Steps that change executions only.
  <1>e. ASSUME UNCHANGED <<idOf, exch, starts>>, ExecutionsCounted', OneExecutionPerJob'
        PROVE  OwnershipInv'
    <2>1. idOf' = idOf /\ exch' = exch /\ starts' = starts
      BY <1>e
    <2>2. UnclaimedUntouched' /\ AtMostOneStart' /\ SendComesFirst'
      BY <1>i, <1>u, <2>1 DEF UnclaimedUntouched, AtMostOneStart, SendComesFirst, Claiming
    <2>3. OneExchangePerJob' /\ OpenNotStarted' /\ ExchangesAreUp'
      BY <1>i, <2>1 DEF OneExchangePerJob, OpenNotStarted, ExchangesAreUp, Open
    <2> QED BY <1>e, <1>s, <2>2, <2>3 DEF OwnershipInv
  <1>1. ASSUME NEW p \in Procs, Heartbeat(p) PROVE OwnershipInv'
    BY <1>1, <1>q, <1>x DEF Heartbeat, agentVars, histVars
  <1>2. ASSUME NEW p \in Procs, AgentStop(p) PROVE OwnershipInv'
    <2>1. /\ starts' = starts /\ exch' \subseteq exch /\ exec' \subseteq exec
          /\ \A x \in exch' : x.proc # p
          /\ \A e \in exec' : e.proc # p
          /\ \A q \in Procs \ {p} : idOf'[q] = idOf[q]
      BY <1>2, <1>t DEF AgentStop, histVars, AgentTypeOK
    <2>2. UnclaimedUntouched' /\ AtMostOneStart' /\ SendComesFirst' /\ OneExchangePerJob'
      BY <1>i, <1>u, <2>1
      DEF UnclaimedUntouched, AtMostOneStart, SendComesFirst, OneExchangePerJob, Claiming
    <2>3. OpenNotStarted' /\ ExchangesAreUp'
      BY <1>i, <1>t, <2>1 DEF OpenNotStarted, ExchangesAreUp, Open, Exchange
    <2>4. ExecutionsCounted' /\ OneExecutionPerJob'
      BY <1>i, <1>t, <2>1 DEF ExecutionsCounted, OneExecutionPerJob, Execution
    <2> QED BY <1>s, <2>2, <2>3, <2>4 DEF OwnershipInv
  <1>3. ASSUME NEW p \in Procs, NEW a \in AgentIds, AgentStart(p, a) PROVE OwnershipInv'
    <2>1. /\ starts' = starts /\ exch' = exch /\ exec' = exec
          /\ \A q \in Procs : idOf[q] # None => idOf'[q] # None
      BY <1>3, <1>t, NoneAssumption DEF AgentStart, histVars, AgentTypeOK
    <2>2. UnclaimedUntouched' /\ AtMostOneStart' /\ SendComesFirst' /\ OneExchangePerJob'
          /\ OneExecutionPerJob'
      BY <1>i, <1>u, <2>1
      DEF UnclaimedUntouched, AtMostOneStart, SendComesFirst, OneExchangePerJob,
          OneExecutionPerJob, Claiming
    <2>3. OpenNotStarted' /\ ExchangesAreUp' /\ ExecutionsCounted'
      BY <1>i, <1>t, <2>1
      DEF OpenNotStarted, ExchangesAreUp, ExecutionsCounted, Open, Exchange, Execution
    <2> QED BY <1>s, <2>2, <2>3 DEF OwnershipInv
  <1>4. ASSUME NEW x \in exch, CheckCapacity(x) PROVE OwnershipInv'
    <2>1. ASSUME NEW st
          PROVE  [x EXCEPT !.st = st].job = x.job /\ [x EXCEPT !.st = st].proc = x.proc
      BY <1>t DEF Exchange
    <2>2. ASSUME NEW y \in exch'
          PROVE  \/ y \in exch /\ y # x
                 \/ /\ y.job = x.job /\ y.proc = x.proc
                    /\ \A z \in exch' \ {y} : z \in exch /\ z # x
      <3>1. \/ exch' = exch \ {x}
            \/ exch' = (exch \ {x}) \cup {[x EXCEPT !.st = "rejected"]}
            \/ exch' = (exch \ {x}) \cup {[x EXCEPT !.st = "admitted"]}
        BY <1>4 DEF CheckCapacity, Answer
      <3>2. CASE exch' = exch \ {x}
        BY <3>2
      <3>3. ASSUME NEW st, exch' = (exch \ {x}) \cup {[x EXCEPT !.st = st]}
            PROVE  \/ y \in exch /\ y # x
                   \/ /\ y.job = x.job /\ y.proc = x.proc
                      /\ \A z \in exch' \ {y} : z \in exch /\ z # x
        BY <2>1, <3>3, Zenon
      <3> QED BY <3>1, <3>2, <3>3, Zenon
    <2>3. Open(x)
      BY <1>4 DEF CheckCapacity, Open
    <2>4. ExchangesLetGo
      <3>1. \A y \in exch' : \E w \in exch :
              y.job = w.job /\ y.proc = w.proc /\ (Open(y) => Open(w))
        BY <2>2, <2>3
      <3>2. \A y, z \in exch' : y.job = z.job => y = z
        BY <1>i, <2>2 DEF OneExchangePerJob
      <3> QED BY <3>1, <3>2 DEF ExchangesLetGo
    <2> QED BY <1>4, <1>q, <2>4 DEF CheckCapacity, agentVars, histVars
  <1>5. ASSUME NEW x \in exch, StartJob(x) PROVE OwnershipInv'
    <2> DEFINE new == [job |-> x.job, proc |-> x.proc, stage |-> "run", result |-> None]
    <2>0. x.job \in Jobs /\ x.proc \in Procs /\ starts[x.job] = 0
      BY <1>5, <1>t, <1>i DEF StartJob, Exchange, OpenNotStarted, Open
    <2>1. /\ starts' = [starts EXCEPT ![x.job] = 1]
          /\ starts'[x.job] = 1
          /\ \A j \in Jobs \ {x.job} : starts'[j] = starts[j]
      BY <1>5, <1>t, <2>0 DEF StartJob, AgentTypeOK
    <2>2. exec' = exec \cup {new} /\ idOf' = idOf /\ new.job = x.job /\ new.proc = x.proc
      BY <1>5 DEF StartJob
    <2>3. \A y \in exch' :
            \/ y \in exch /\ y # x
            \/ /\ y.job = x.job /\ y.proc = x.proc /\ y.st = "accepted"
               /\ \A z \in exch' \ {y} : z \in exch /\ z # x
      <3>1. [x EXCEPT !.st = "accepted"].job = x.job /\ [x EXCEPT !.st = "accepted"].proc = x.proc
            /\ [x EXCEPT !.st = "accepted"].st = "accepted"
        BY <1>t DEF Exchange
      <3> QED BY <1>5, <3>1 DEF StartJob, Answer
    <2>4. \A y \in exch : y # x => y.job # x.job
      BY <1>i DEF OneExchangePerJob
    <2>5. agentOf[x.job] # None
      BY <1>i, <2>0 DEF UnclaimedUntouched
    <2>6. UnclaimedUntouched'
      BY <1>i, <1>u, <2>1, <2>3, <2>5 DEF UnclaimedUntouched, Claiming
    <2>7. AtMostOneStart'
      BY <1>i, <2>1 DEF AtMostOneStart
    <2>8. SendComesFirst'
      <3> SUFFICES ASSUME NEW d \in Controllers, pc[d] = "send"
                   PROVE  starts'[cur[d]] = 0 /\ \A y \in exch' : y.job # cur[d]
        BY <1>u DEF SendComesFirst
      <3>1. cur[d] \in Jobs /\ cur[d] # x.job
        BY <1>i DEF SendComesFirst, HoldersHaveAJob, Claiming
      <3> QED BY <1>i, <2>1, <2>3, <3>1 DEF SendComesFirst
    <2>9. OneExchangePerJob'
      BY <2>3, <2>4, <1>i DEF OneExchangePerJob
    <2>10. OpenNotStarted'
      <3>1. \A y \in exch : y.job \in Jobs
        BY <1>t DEF Exchange
      <3> QED BY <1>i, <2>1, <2>3, <2>4, <3>1 DEF OpenNotStarted, Open
    <2>11. ExchangesAreUp'
      BY <1>i, <2>2, <2>3 DEF ExchangesAreUp
    <2>12. \A e \in exec : e.job \in Jobs /\ e.job # x.job
      BY <1>i, <1>t, <2>0 DEF ExecutionsCounted, Execution
    <2>13. ExecutionsCounted' /\ OneExecutionPerJob'
      BY <1>i, <2>1, <2>2, <2>12 DEF ExecutionsCounted, OneExecutionPerJob, ExchangesAreUp
    <2> QED BY <1>s, <2>6, <2>7, <2>8, <2>9, <2>10, <2>11, <2>13 DEF OwnershipInv
  <1>6. ASSUME NEW e \in exec, PostResultLost(e) PROVE OwnershipInv'
    <2>1. [e EXCEPT !.stage = "posted"].job = e.job /\ [e EXCEPT !.stage = "posted"].proc = e.proc
      BY <1>t DEF Execution
    <2>2. ExecutionsCounted' /\ OneExecutionPerJob'
      BY <1>6, <1>i, <2>1, StageOwnership DEF PostResultLost, histVars
    <2> QED BY <1>6, <1>e, <2>2 DEF PostResultLost, histVars
  <1>7. ASSUME NEW e \in exec, ExecuteJobReturns(e) PROVE OwnershipInv'
    <2>1. ExecutionsCounted' /\ OneExecutionPerJob'
      BY <1>7, <1>i DEF ExecuteJobReturns, ExecutionsCounted, OneExecutionPerJob, histVars
    <2> QED BY <1>7, <1>e, <2>1 DEF ExecuteJobReturns, histVars
  <1>8. ASSUME NEW e \in exec, NEW result \in RunResults, RunEnds(e, result) PROVE OwnershipInv'
    <2> DEFINE f == [e EXCEPT !.stage = "post", !.result = result]
    <2>1. f.job = e.job /\ f.proc = e.proc
      BY <1>t DEF Execution
    <2>2. exec' = (exec \ {e}) \cup {f} /\ idOf' = idOf /\ starts' = starts
      BY <1>8 DEF RunEnds
    <2>3. ExecutionsCounted' /\ OneExecutionPerJob'
      <3> HIDE DEF f
      <3> QED BY <1>i, <2>1, <2>2, StageOwnership
    <2> QED BY <1>8, <1>e, <2>3 DEF RunEnds
  <1> QED
    BY <1>1, <1>2, <1>3, <1>4, <1>5, <1>6, <1>7, <1>8 DEF AgentStep

\* Steps that leave controllers, exchanges and executions alone and write rows properly.
LEMMA QuietOwnership ==
  ASSUME OwnershipInv, UNCHANGED <<pc, cur, exch, idOf, exec, starts>>,
         RowsConsistent', ClaimsStay
  PROVE  OwnershipInv'
  <1>1. ControllersLetGo
    BY DEF OwnershipInv, HoldersHaveAJob, ControllersLetGo
  <1>2. ExchangesLetGo
    BY SameExchanges DEF OwnershipInv
  <1> QED BY <1>1, <1>2, LetGoStep

\* What the API and the cron entries do to rows.
LEMMA ApiRows ==
  ASSUME IInv, ApiStep
  PROVE  \/ UNCHANGED jobVars
         \/ \E r \in Slots :
              /\ api[r] # Idle /\ api[r].job \in Jobs /\ api[r].status \in Terminal
              /\ \E why \in Reasons \ {"dispatch error"} :
                   UpdateRow(api[r].job, api[r].status, None, why)
  <1>1. ASSUME NEW r \in Slots, UpdateStatus(r)
        PROVE  /\ api[r] # Idle /\ api[r].job \in Jobs /\ api[r].status \in Terminal
               /\ \E why \in Reasons \ {"dispatch error"} :
                    UpdateRow(api[r].job, api[r].status, None, why)
    <2>1. api[r] # Idle
      BY <1>1 DEF UpdateStatus
    <2>2. api[r].job \in Jobs /\ api[r].status \in Terminal
      BY <2>1 DEF IInv, TypeOK, ApiTypeOK, Request
    <2>3. {"none", "cancelled by user"} \subseteq Reasons \ {"dispatch error"}
      BY DEF Reasons
    <2> QED BY <1>1, <2>1, <2>2, <2>3 DEF UpdateStatus, UpdateJobStatus
  <1> QED BY <1>1 DEF ApiStep, CancelJobCheck, RequestFails

\* Every step of the system preserves ownership.
LEMMA OwnershipStep ==
  ASSUME IInv, Next
  PROVE  OwnershipInv'
  <1>t. JobStoreTypeOK /\ ReconcilerTypeOK /\ AgentTypeOK /\ OwnershipInv
        /\ exch \subseteq Exchange /\ exec \subseteq Execution
    BY DEF IInv, TypeOK, ReconcilerTypeOK, AgentTypeOK
  <1>i. HoldersHaveAJob /\ RowsConsistent /\ OneExchangePerJob /\ ExecutionsCounted
        /\ OneExecutionPerJob
    BY <1>t DEF OwnershipInv
  <1>u. UNCHANGED jobVars => RowsConsistent' /\ ClaimsStay
    BY <1>i DEF jobVars, RowsConsistent, ClaimsStay
  <1>1. CASE InsertStep
    <2>1. RowsConsistent' /\ ClaimsStay
      BY <1>1, <1>i, <1>t
      DEF InsertStep, CreateJob, RowsConsistent, ClaimsStay, JobStoreTypeOK
    <2> QED BY <1>1, <1>t, <2>1, QuietOwnership DEF InsertStep, ctlVars, agentVars, histVars
  <1>2. ASSUME NEW c \in Controllers, ControllerStep(c) PROVE OwnershipInv'
    BY <1>2, TickOwnership DEF ControllerStep, agentVars, histVars
  <1>3. ASSUME NEW c \in Controllers, RestartStep(c) PROVE OwnershipInv'
    <2>1. OnlyMoves(c) /\ pc'[c] = "idle"
      BY <1>3, <1>t DEF RestartStep, ControllerRestart, OnlyMoves, ReconcilerTypeOK
    <2>2. ControllersLetGo
      BY <1>i, <2>1, LeaveLetsGo
    <2>3. ExchangesLetGo
      BY <1>3, <1>i, <1>t, AbandonLetsGo DEF RestartStep, ControllerRestart
    <2> QED
      BY <1>3, <1>t, <1>u, <2>2, <2>3, LetGoStep
      DEF RestartStep, ControllerRestart, agentVars, histVars
  <1>4. CASE AgentStep
    BY <1>4, AgentOwnership
  <1>5. CASE PostResultStep
    <2>1. PICK e \in exec, r \in Slots : PostResultCheck(e, r)
      BY <1>5 DEF PostResultStep
    <2>2. [e EXCEPT !.stage = "posted"].job = e.job /\ [e EXCEPT !.stage = "posted"].proc = e.proc
      BY <1>t DEF Execution
    <2>3. /\ idOf' = idOf /\ exch' = exch /\ starts' = starts /\ pc' = pc /\ cur' = cur
          /\ status' = status /\ agentOf' = agentOf /\ reason' = reason
      BY <1>5, <2>1 DEF PostResultStep, PostResultCheck, histVars, ctlVars, jobVars
    <2>4. ExecutionsCounted' /\ OneExecutionPerJob'
      BY <1>i, <2>1, <2>2, <2>3, StageOwnership DEF PostResultCheck
    <2>5. HoldersHaveAJob' /\ RowsConsistent' /\ UnclaimedUntouched' /\ AtMostOneStart'
          /\ ClaimsAreExclusive' /\ SendComesFirst'
      BY <1>t, <2>3
      DEF OwnershipInv, HoldersHaveAJob, RowsConsistent, UnclaimedUntouched, AtMostOneStart,
          ClaimsAreExclusive, SendComesFirst, Claiming
    <2>6. OneExchangePerJob' /\ OpenNotStarted' /\ ExchangesAreUp'
      BY <1>t, <2>3 DEF OwnershipInv, OneExchangePerJob, OpenNotStarted, ExchangesAreUp, Open
    <2> QED BY <2>4, <2>5, <2>6 DEF OwnershipInv
  <1>6. CASE ApiStep
    <2>1. RowsConsistent' /\ ClaimsStay
      BY <1>6, <1>i, <1>t, <1>u, ApiRows, FinalWriteRows
    <2> QED BY <1>6, <1>t, <2>1, QuietOwnership DEF ApiStep, ctlVars, agentVars, histVars
  <1>7. CASE HeartbeatExpiresStep
    BY <1>7, <1>t, <1>u, QuietOwnership DEF HeartbeatExpiresStep, ctlVars, agentVars, histVars
  <1>8. ASSUME NEW j \in Jobs, OverdueStep(j) PROVE OwnershipInv'
    <2>1. RowsConsistent' /\ ClaimsStay
      BY <1>8, <1>i DEF OverdueStep, JobOverdue, RowsConsistent, ClaimsStay
    <2> QED BY <1>8, <1>t, <2>1, QuietOwnership DEF OverdueStep, ctlVars, agentVars, histVars
  <1> QED
    BY <1>1, <1>2, <1>3, <1>4, <1>5, <1>6, <1>7, <1>8 DEF Next

-----------------------------------------------------------------------------
(* How a step moves the rows. *)

\* A controller's step writes at most one row: the claim, or a failure.
ControllerWrites ==
  \/ UNCHANGED jobVars
  \/ \E j \in Jobs, a \in AgentIds : TransitionJob(j, "pending", "dispatched", a, "none")
  \/ \E j \in Jobs, from \in {"pending", "dispatched", "running"}, why \in Reasons :
       TransitionJob(j, from, "failed", None, why)

\* A controller writes the jobs table with TransitionJob only, as a claim or as a failure.
LEMMA TickRows ==
  ASSUME IInv, NEW c \in Controllers, Tick(c, Up)
  PROVE  ControllerWrites
  <1>t. ReconcilerTypeOK /\ HoldersHaveAJob
    BY DEF IInv, TypeOK, OwnershipInv
  <1>r. {"dispatch error", "agent dispatch error", "timeout"} \subseteq Reasons
    BY DEF Reasons
  <1>1. ASSUME NEW j \in Jobs, MarkDispatched(c, j) \/ MarkDispatchedError(c, j)
        PROVE  ControllerWrites
    <2>1. target[c] \in AgentIds
      BY <1>1, <1>t DEF MarkDispatched, MarkDispatchedError, ReconcilerTypeOK
    <2> QED
      BY <1>1, <2>1 DEF ControllerWrites, MarkDispatched, MarkDispatchedError, TransitionJobError
  <1>2. CASE FailPending(c)
    <2>1. cur[c] \in Jobs
      BY <1>2, <1>t DEF FailPending, HoldersHaveAJob
    <2> QED BY <1>2, <1>r, <2>1 DEF ControllerWrites, FailPending, TransitionJobError
  <1>3. CASE RevertDispatch(c) \/ RevertDispatchError(c)
    <2>1. cur[c] \in Jobs
      BY <1>3, <1>t DEF RevertDispatch, RevertDispatchError, HoldersHaveAJob, Claiming
    <2> QED
      BY <1>3, <1>r, <2>1 DEF ControllerWrites, RevertDispatch, RevertDispatchError, TransitionJobError
  <1>4. CASE FailStuckJob(c)
    <2>1. PICK s \in {"dispatched", "running"}, j \in batch[c] :
            TransitionJobError(j, s, "failed", None, "timeout")
      BY <1>4 DEF FailStuckJob, TransitionJobError
    <2>2. j \in Jobs
      BY <1>t DEF ReconcilerTypeOK
    <2> QED BY <1>r, <2>1, <2>2 DEF ControllerWrites, TransitionJobError
  <1> QED
    BY <1>1, <1>2, <1>3, <1>4
    DEF Tick, ControllerWrites, GetPendingJobs, ReadAgents, ReadFails, DispatchOneFails, Dispatch,
        DispatchFails, DispatchAccepted, DispatchUnanswered, GetStuckJobs, GetStuckJobsError

-----------------------------------------------------------------------------
(* Refinement, step by step. *)

\* Writing "failed" or another final status over a row is a Finish of the lifecycle.
LEMMA FinishRow ==
  ASSUME JobStoreTypeOK, NEW j \in Jobs, NEW to \in Terminal, NEW why,
         UpdateRow(j, to, None, why), starts' = starts,
         status[j] # "absent", to = "success" => starts[j] = 1
  PROVE  Lifecycle!Next
  <1>1. agentOf' = agentOf
    BY DEF UpdateRow, JobStoreTypeOK
  <1>2. Lifecycle!Finish(j, to)
    BY <1>1 DEF Lifecycle!Finish, UpdateRow
  <1> QED BY <1>2 DEF Lifecycle!Next, Lifecycle!Terminal, Terminal

LifecycleStep == Lifecycle!Next \/ UNCHANGED <<status, agentOf, starts>>

\* Every step of the system is a step of the lifecycle, or stutters.
LEMMA StepIsLifecycleStep ==
  ASSUME IInv, Next
  PROVE  LifecycleStep
  <1> USE DEF LifecycleStep
  <1>t. JobStoreTypeOK /\ AgentTypeOK /\ exch \subseteq Exchange
    BY DEF IInv, TypeOK, ReconcilerTypeOK
  <1>1. CASE InsertStep
    <2>1. PICK j \in Jobs : CreateJob(j) /\ starts' = starts
      BY <1>1 DEF InsertStep, histVars
    <2>2. Lifecycle!Create(j)
      BY <2>1 DEF CreateJob, Lifecycle!Create
    <2> QED BY <2>2 DEF Lifecycle!Next
  <1>2. ASSUME NEW c \in Controllers, ControllerStep(c) PROVE LifecycleStep
    <2>0. starts' = starts
      BY <1>2 DEF ControllerStep, histVars
    <2>1. CASE UNCHANGED jobVars
      BY <2>0, <2>1 DEF jobVars
    <2>2. ASSUME NEW j \in Jobs, NEW a \in AgentIds,
                 TransitionJob(j, "pending", "dispatched", a, "none")
          PROVE  LifecycleStep
      <3>1. CASE UNCHANGED jobVars
        BY <2>0, <3>1 DEF jobVars
      <3>2. CASE status[j] = "pending" /\ UpdateRow(j, "dispatched", a, "none")
        <4>1. Lifecycle!Claim(j, a)
          BY <2>0, <3>2, NoneAssumption DEF UpdateRow, Lifecycle!Claim
        <4> QED BY <4>1 DEF Lifecycle!Next
      <3> QED BY <2>2, <3>1, <3>2 DEF TransitionJob
    <2>3. ASSUME NEW j \in Jobs, NEW from \in {"pending", "dispatched", "running"},
                 NEW why \in Reasons, TransitionJob(j, from, "failed", None, why)
          PROVE  LifecycleStep
      <3>1. CASE UNCHANGED jobVars
        BY <2>0, <3>1 DEF jobVars
      <3>2. CASE status[j] = from /\ UpdateRow(j, "failed", None, why)
        BY <1>t, <2>0, <3>2, FinishRow DEF Terminal
      <3> QED BY <2>3, <3>1, <3>2 DEF TransitionJob
    <2> QED BY <1>2, <2>1, <2>2, <2>3, TickRows DEF ControllerStep, ControllerWrites
  <1>3. ASSUME NEW c \in Controllers, RestartStep(c) PROVE LifecycleStep
    BY <1>3 DEF RestartStep, ControllerRestart, jobVars, histVars
  <1>4. CASE AgentStep
    <2>1. ASSUME NEW x \in exch, StartJob(x) PROVE LifecycleStep
      <3>1. x.job \in Jobs /\ starts[x.job] = 0 /\ agentOf[x.job] # None
        BY <1>t, <2>1
        DEF IInv, OwnershipInv, OpenNotStarted, UnclaimedUntouched, Open, StartJob, Exchange
      <3>2. starts' = [starts EXCEPT ![x.job] = 1]
        BY <1>t, <2>1, <3>1 DEF StartJob, AgentTypeOK
      <3>3. Lifecycle!Start(x.job)
        BY <1>4, <3>1, <3>2 DEF Lifecycle!Start, AgentStep, jobVars
      <3> QED BY <3>1, <3>3 DEF Lifecycle!Next
    <2>2. CASE starts' = starts
      BY <1>4, <2>2 DEF AgentStep, jobVars
    <2> QED
      BY <1>4, <2>1, <2>2
      DEF AgentStep, Heartbeat, AgentStop, AgentStart, CheckCapacity, PostResultLost,
          ExecuteJobReturns, RunEnds, histVars
  <1>5. CASE PostResultStep
    BY <1>5 DEF PostResultStep, PostResultCheck, jobVars, histVars
  <1>6. CASE ApiStep
    <2>0. starts' = starts
      BY <1>6 DEF ApiStep, histVars
    <2>1. CASE UNCHANGED jobVars
      BY <2>0, <2>1 DEF jobVars
    <2>2. ASSUME NEW r \in Slots, api[r] # Idle, api[r].job \in Jobs, api[r].status \in Terminal,
                 NEW why, UpdateRow(api[r].job, api[r].status, None, why)
          PROVE  LifecycleStep
      <3>1. status[api[r].job] # "absent"
        BY <2>2 DEF IInv, ResultInv
      <3>2. api[r].op \in {"cancel", "result"}
        BY <2>2 DEF IInv, TypeOK, ApiTypeOK, Request
      <3>3. api[r].status = "success" => starts[api[r].job] = 1
        BY <2>2, <3>2 DEF IInv, ResultInv
      <3> QED BY <1>t, <2>0, <2>2, <3>1, <3>3, FinishRow
    <2> QED BY <1>6, <2>1, <2>2, ApiRows
  <1>7. CASE HeartbeatExpiresStep
    BY <1>7 DEF HeartbeatExpiresStep, jobVars, histVars
  <1>8. ASSUME NEW j \in Jobs, OverdueStep(j) PROVE LifecycleStep
    BY <1>8 DEF OverdueStep, JobOverdue, histVars
  <1> QED
    BY <1>1, <1>2, <1>3, <1>4, <1>5, <1>6, <1>7, <1>8 DEF Next

\* Along the lifecycle rows only move forward, and a claim is never taken back.
LEMMA LifecycleForward ==
  ASSUME IInv, LifecycleStep
  PROVE  ClaimsStay /\ \A j \in Jobs : Rank(status[j]) <= Rank(status'[j])
  <1>t. status \in [Jobs -> RowStatus] /\ agentOf \in [Jobs -> AgentIds \cup {None}] /\ RowsConsistent
    BY DEF IInv, TypeOK, OwnershipInv, JobStoreTypeOK
  <1>r. \A s \in RowStatus : Rank(s) \in 0 .. 3
    BY DEF Rank
  <1>1. CASE UNCHANGED <<status, agentOf, starts>>
    BY <1>1, <1>r, <1>t DEF ClaimsStay
  <1>2. ASSUME NEW j \in Jobs, Lifecycle!Create(j)
        PROVE  ClaimsStay /\ \A i \in Jobs : Rank(status[i]) <= Rank(status'[i])
    BY <1>2, <1>r, <1>t DEF ClaimsStay, Lifecycle!Create, Rank
  <1>3. ASSUME NEW j \in Jobs, NEW a \in AgentIds, Lifecycle!Claim(j, a)
        PROVE  ClaimsStay /\ \A i \in Jobs : Rank(status[i]) <= Rank(status'[i])
    <2>1. ClaimsStay
      BY <1>3, <1>t DEF ClaimsStay, Lifecycle!Claim, RowsConsistent
    <2>2. \A i \in Jobs : Rank(status[i]) <= Rank(status'[i])
      BY <1>3, <1>r, <1>t DEF Lifecycle!Claim, Rank
    <2> QED BY <2>1, <2>2
  <1>4. ASSUME NEW j \in Jobs, Lifecycle!Start(j)
        PROVE  ClaimsStay /\ \A i \in Jobs : Rank(status[i]) <= Rank(status'[i])
    BY <1>4, <1>r, <1>t DEF ClaimsStay, Lifecycle!Start
  <1>5. ASSUME NEW j \in Jobs, NEW s \in Terminal, Lifecycle!Finish(j, s)
        PROVE  ClaimsStay /\ \A i \in Jobs : Rank(status[i]) <= Rank(status'[i])
    <2>1. Rank(s) = 3
      BY DEF Terminal, Rank
    <2> QED BY <1>5, <1>r, <1>t, <2>1 DEF ClaimsStay, Lifecycle!Finish
  <1> QED
    BY <1>1, <1>2, <1>3, <1>4, <1>5 DEF LifecycleStep, Lifecycle!Next, Lifecycle!Terminal, Terminal

-----------------------------------------------------------------------------
(* Results. *)

\* The part of ResultInv about requests in flight survives any step that keeps them,
\* forgets no outcome, and moves the rows as the lifecycle does.
LEMMA RequestsKept ==
  ASSUME IInv, LifecycleStep, NEW r \in Slots, api'[r] = api[r],
         \A j \in Jobs : outcome[j] \subseteq outcome'[j]
  PROVE  /\ api'[r].op = "result" =>
              <<agentOf'[api'[r].job], api'[r].status>> \in outcome'[api'[r].job]
         /\ api'[r] # Idle => status'[api'[r].job] # "absent"
         /\ api'[r].op = "cancel" => api'[r].status = "cancelled"
  <1>1. api[r] # Idle => api[r].job \in Jobs
    BY DEF IInv, TypeOK, ApiTypeOK, Request
  <1>2. api[r].op \in {"result", "cancel"} => api[r] # Idle
    BY DEF Idle
  <1>3. ASSUME api[r].op = "result"
        PROVE  <<agentOf'[api[r].job], api[r].status>> \in outcome'[api[r].job]
    <2>1. api[r].job \in Jobs
      BY <1>1, <1>2, <1>3
    <2>2. <<agentOf[api[r].job], api[r].status>> \in outcome[api[r].job]
      BY <1>3 DEF IInv, ResultInv
    <2>3. agentOf[api[r].job] # None
      BY <2>1, <2>2, NoneAssumption DEF IInv, TypeOK, AgentTypeOK
    <2> QED BY <2>1, <2>2, <2>3, LifecycleForward DEF ClaimsStay
  <1>4. ASSUME api[r] # Idle PROVE status'[api[r].job] # "absent"
    <2>1. api[r].job \in Jobs /\ status[api[r].job] # "absent"
      BY <1>1, <1>4 DEF IInv, ResultInv
    <2>2. status[api[r].job] \in RowStatus
      BY <2>1 DEF IInv, TypeOK, JobStoreTypeOK
    <2>3. Rank(status[api[r].job]) <= Rank(status'[api[r].job])
      BY <2>1, LifecycleForward
    <2>4. Rank(status[api[r].job]) \in 1 .. 3
      BY <2>1, <2>2 DEF Rank, RowStatus, JobStatus
    <2>5. Rank("absent") = 0
      BY DEF Rank
    <2> QED BY <2>3, <2>4, <2>5
  <1>5. api[r].op = "cancel" => api[r].status = "cancelled"
    BY DEF IInv, ResultInv
  <1> QED BY <1>3, <1>4, <1>5

\* Every step of the system preserves what is known of results.
LEMMA ResultStep ==
  ASSUME IInv, Next
  PROVE  ResultInv'
  <1>l. LifecycleStep
    BY StepIsLifecycleStep
  <1>t. AgentTypeOK /\ exec \subseteq Execution /\ ExecutionsCounted /\ AtMostOneStart
    BY DEF IInv, TypeOK, AgentTypeOK, OwnershipInv
  <1>o. \A j \in Jobs : outcome[j] # {} => starts[j] = 1
    BY DEF IInv, ResultInv
  <1>e. \A e \in exec : e.stage = "post" =>
          e.result \in RunResults /\ <<idOf[e.proc], e.result>> \in outcome[e.job]
    BY DEF IInv, ResultInv
  <1> DEFINE O == \A j \in Jobs : outcome[j] # {} => starts[j] = 1
             E == \A e \in exec : e.stage = "post" =>
                    e.result \in RunResults /\ <<idOf[e.proc], e.result>> \in outcome[e.job]
             A == \A r \in Slots :
                    /\ api[r].op = "result" =>
                         <<agentOf[api[r].job], api[r].status>> \in outcome[api[r].job]
                    /\ api[r] # Idle => status[api[r].job] # "absent"
                    /\ api[r].op = "cancel" => api[r].status = "cancelled"
  <1>q. O' /\ E' /\ A' => ResultInv'
    BY DEF ResultInv
  <1>a. UNCHANGED api /\ (\A j \in Jobs : outcome[j] \subseteq outcome'[j]) => A'
    BY <1>l, RequestsKept
  <1>h. UNCHANGED histVars => O' /\ \A j \in Jobs : outcome[j] \subseteq outcome'[j]
    BY <1>o DEF histVars
  <1>x. UNCHANGED <<agentVars, histVars>> => E'
    BY <1>e DEF agentVars, histVars
  <1>1. CASE InsertStep \/ HeartbeatExpiresStep \/ (\E j \in Jobs : OverdueStep(j))
             \/ \E c \in Controllers : ControllerStep(c) \/ RestartStep(c)
    <2>1. UNCHANGED <<agentVars, histVars>> /\ UNCHANGED histVars /\ UNCHANGED api
      BY <1>1 DEF InsertStep, HeartbeatExpiresStep, OverdueStep, ControllerStep, RestartStep
    <2> QED BY <2>1, <1>q, <1>a, <1>h, <1>x
  <1>2. CASE AgentStep
    <2>0. UNCHANGED api
      BY <1>2 DEF AgentStep
    <2>1. ASSUME NEW p \in Procs, Heartbeat(p) PROVE ResultInv'
      BY <2>0, <2>1, <1>q, <1>a, <1>h, <1>x DEF Heartbeat
    <2>2. ASSUME NEW p \in Procs, AgentStop(p) PROVE ResultInv'
      <3>1. E'
        <4>1. /\ \A e \in exec' : e \in exec /\ e.proc # p
              /\ \A q \in Procs \ {p} : idOf'[q] = idOf[q]
              /\ outcome' = outcome
          BY <2>2, <1>t DEF AgentStop, AgentTypeOK, histVars
        <4> QED BY <1>e, <1>t, <4>1 DEF Execution
      <3> QED BY <2>0, <2>2, <3>1, <1>q, <1>a, <1>h DEF AgentStop
    <2>3. ASSUME NEW p \in Procs, NEW a \in AgentIds, AgentStart(p, a) PROVE ResultInv'
      <3>1. E'
        <4>1. exec' = exec /\ outcome' = outcome /\ idOf[p] = None
              /\ \A q \in Procs \ {p} : idOf'[q] = idOf[q]
          BY <2>3, <1>t DEF AgentStart, AgentTypeOK, histVars
        <4>2. \A e \in exec : e.proc \in Procs /\ e.proc # p
          BY <1>t, <4>1 DEF ExecutionsCounted, Execution
        <4> QED BY <1>e, <4>1, <4>2
      <3> QED BY <2>0, <2>3, <3>1, <1>q, <1>a, <1>h DEF AgentStart
    <2>4. ASSUME NEW x \in exch, CheckCapacity(x) PROVE ResultInv'
      BY <2>0, <2>4, <1>q, <1>a, <1>h, <1>x DEF CheckCapacity
    <2>5. ASSUME NEW x \in exch, StartJob(x) PROVE ResultInv'
      <3>0. x.job \in Jobs /\ starts[x.job] = 0
        BY <2>5 DEF StartJob, IInv, TypeOK, ReconcilerTypeOK, Exchange, OwnershipInv, OpenNotStarted, Open
      <3>1. outcome' = outcome /\ starts' = [starts EXCEPT ![x.job] = @ + 1]
        BY <2>5 DEF StartJob
      <3>2. O'
        BY <1>o, <1>t, <3>0, <3>1 DEF AgentTypeOK
      <3>3. E'
        <4>1. exec' = exec \cup {[job |-> x.job, proc |-> x.proc, stage |-> "run", result |-> None]}
              /\ idOf' = idOf
          BY <2>5 DEF StartJob
        <4>2. \A e \in exec' : e.stage = "post" => e \in exec
          BY <4>1
        <4> QED BY <1>e, <3>1, <4>1, <4>2
      <3>4. A'
        BY <1>a, <2>0, <3>1
      <3> QED BY <3>2, <3>3, <3>4, <1>q
    <2>6. ASSUME NEW e \in exec, PostResultLost(e) PROVE ResultInv'
      <3>1. [e EXCEPT !.stage = "posted"].stage = "posted"
        BY <1>t DEF Execution
      <3>2. E'
        BY <1>e, <2>6, <3>1 DEF PostResultLost, histVars
      <3> QED BY <2>0, <2>6, <3>2, <1>q, <1>a, <1>h DEF PostResultLost
    <2>7. ASSUME NEW e \in exec, ExecuteJobReturns(e) PROVE ResultInv'
      <3>1. E'
        BY <1>e, <2>7 DEF ExecuteJobReturns, histVars
      <3> QED BY <2>0, <2>7, <3>1, <1>q, <1>a, <1>h DEF ExecuteJobReturns
    <2>8. ASSUME NEW e \in exec, NEW result \in RunResults, RunEnds(e, result) PROVE ResultInv'
      <3> DEFINE f == [e EXCEPT !.stage = "post", !.result = result]
      <3>1. f.job = e.job /\ f.proc = e.proc /\ f.result = result
            /\ e.job \in Jobs /\ e.proc \in Procs
        BY <1>t DEF Execution
      <3>2. /\ exec' = (exec \ {e}) \cup {f} /\ idOf' = idOf /\ starts' = starts
            /\ outcome' = [outcome EXCEPT ![e.job] = @ \cup {<<idOf[e.proc], result>>}]
        BY <2>8 DEF RunEnds
      <3>3. \A j \in Jobs : outcome[j] \subseteq outcome'[j]
        BY <1>t, <3>2 DEF AgentTypeOK
      <3>4. <<idOf[e.proc], result>> \in outcome'[e.job]
        BY <1>t, <3>1, <3>2 DEF AgentTypeOK
      <3>5. O'
        <4>1. starts[e.job] = 1
          BY <1>t DEF ExecutionsCounted
        <4>2. \A j \in Jobs \ {e.job} : outcome'[j] = outcome[j]
          BY <1>t, <3>2 DEF AgentTypeOK
        <4> QED BY <1>o, <3>2, <4>1, <4>2
      <3>6. E'
        <4>1. \A g \in exec : g.job \in Jobs
          BY <1>t DEF Execution
        <4> HIDE DEF f
        <4> QED BY <1>e, <3>1, <3>2, <3>3, <3>4, <4>1
      <3> QED BY <2>0, <3>3, <3>5, <3>6, <1>q, <1>a
    <2> QED
      BY <1>2, <2>1, <2>2, <2>3, <2>4, <2>5, <2>6, <2>7, <2>8 DEF AgentStep
  <1>3. CASE PostResultStep
    <2>1. PICK e \in exec, r \in Slots : PostResultCheck(e, r)
      BY <1>3 DEF PostResultStep
    <2>2. [e EXCEPT !.stage = "posted"].stage = "posted" /\ e.job \in Jobs /\ e.proc \in Procs
      BY <1>t DEF Execution
    <2>3. /\ idOf' = idOf /\ outcome' = outcome /\ agentOf' = agentOf /\ status' = status
          /\ exec' = (exec \ {e}) \cup {[e EXCEPT !.stage = "posted"]}
          /\ e.stage = "post"
      BY <2>1 DEF PostResultCheck, histVars, jobVars
    <2>4. O' /\ E'
      BY <1>e, <1>h, <2>1, <2>2, <2>3 DEF PostResultCheck
    <2>5. CASE Forbidden(e)
      BY <2>1, <2>3, <2>4, <2>5, <1>q, <1>a DEF PostResultCheck
    <2>6. CASE ~Forbidden(e)
      <3>1. /\ api' = [api EXCEPT ![r] = [op |-> "result", job |-> e.job, status |-> e.result]]
            /\ api \in [Slots -> Request]
        BY <2>1, <2>6 DEF PostResultCheck, Occupy, IInv, TypeOK, ApiTypeOK
      <3>2. agentOf[e.job] = idOf[e.proc] /\ idOf[e.proc] # None
        BY <1>t, <2>6 DEF Forbidden, ExecutionsCounted
      <3>3. status[e.job] # "absent"
        BY <2>2, <3>2 DEF IInv, OwnershipInv, RowsConsistent
      <3>4. \A s \in Slots \ {r} : api'[s] = api[s]
        BY <3>1
      <3>5. api'[r] = [op |-> "result", job |-> e.job, status |-> e.result]
        BY <3>1
      <3>6. A'
        <4> SUFFICES ASSUME NEW s \in Slots
                     PROVE  /\ api'[s].op = "result" =>
                                 <<agentOf'[api'[s].job], api'[s].status>> \in outcome'[api'[s].job]
                            /\ api'[s] # Idle => status'[api'[s].job] # "absent"
                            /\ api'[s].op = "cancel" => api'[s].status = "cancelled"
          OBVIOUS
        <4>1. CASE s = r
          BY <4>1, <1>e, <2>3, <3>2, <3>3, <3>5
        <4>2. CASE s # r
          <5>1. api'[s] = api[s] /\ \A j \in Jobs : outcome[j] \subseteq outcome'[j]
            BY <4>2, <2>3, <3>4
          <5> QED BY <5>1, <1>l, RequestsKept
        <4> QED BY <4>1, <4>2
      <3> QED BY <2>4, <3>6, <1>q
    <2> QED BY <2>5, <2>6
  <1>4. CASE ApiStep
    <2>1. PICK r \in Slots : (\E j \in Jobs : CancelJobCheck(r, j)) \/ UpdateStatus(r) \/ RequestFails(r)
      BY <1>4 DEF ApiStep
    <2>2. UNCHANGED <<agentVars, histVars>> /\ UNCHANGED histVars
      BY <1>4 DEF ApiStep
    <2>3. api \in [Slots -> Request] /\ \A s \in Slots \ {r} : api'[s] = api[s]
      BY <2>1 DEF CancelJobCheck, UpdateStatus, RequestFails, Occupy, Release, IInv, TypeOK, ApiTypeOK
    <2>4. \/ api'[r] = Idle
          \/ \E j \in Jobs : /\ api'[r] = [op |-> "cancel", job |-> j, status |-> "cancelled"]
                             /\ status'[j] # "absent"
      BY <2>1, <2>3 DEF CancelJobCheck, UpdateStatus, RequestFails, Occupy, Release, jobVars
    <2>5. A'
      <3> SUFFICES ASSUME NEW s \in Slots
                   PROVE  /\ api'[s].op = "result" =>
                               <<agentOf'[api'[s].job], api'[s].status>> \in outcome'[api'[s].job]
                          /\ api'[s] # Idle => status'[api'[s].job] # "absent"
                          /\ api'[s].op = "cancel" => api'[s].status = "cancelled"
        OBVIOUS
      <3>1. CASE s = r
        <4>1. CASE api'[r] = Idle
          BY <3>1, <4>1 DEF Idle
        <4>2. ASSUME NEW j \in Jobs, status'[j] # "absent",
                     api'[r] = [op |-> "cancel", job |-> j, status |-> "cancelled"]
              PROVE  /\ api'[s].op = "cancel" /\ api'[s].status = "cancelled"
                     /\ status'[api'[s].job] # "absent"
          BY <3>1, <4>2
        <4> QED BY <2>4, <3>1, <4>1, <4>2
      <3>2. CASE s # r
        <4>1. api'[s] = api[s] /\ \A j \in Jobs : outcome[j] \subseteq outcome'[j]
          BY <2>2, <2>3, <3>2, <1>h
        <4> QED BY <4>1, <1>l, RequestsKept
      <3> QED BY <3>1, <3>2
    <2> QED BY <2>2, <2>5, <1>h, <1>x, <1>q
  <1> QED BY <1>1, <1>2, <1>3, <1>4 DEF Next

-----------------------------------------------------------------------------
(* The theorems. *)

\* The inductive invariant holds initially.
LEMMA InitInv ==
  ASSUME Init
  PROVE  IInv
  <1>1. TypeOK
    BY MaxFaultsAssumption
    DEF Init, JobStoreInit, RegistryInit, ReconcilerInit, AgentInit, ApiInit, TypeOK,
        JobStoreTypeOK, RegistryTypeOK, ReconcilerTypeOK, AgentTypeOK, ApiTypeOK, RowStatus,
        Reasons, PcValues, Request
  <1>2. OwnershipInv
    BY DEF Init, JobStoreInit, ReconcilerInit, AgentInit, OwnershipInv, HoldersHaveAJob,
           RowsConsistent, UnclaimedUntouched, AtMostOneStart, ClaimsAreExclusive,
           SendComesFirst, OneExchangePerJob, OpenNotStarted, ExchangesAreUp,
           ExecutionsCounted, OneExecutionPerJob, Claiming
  <1>3. ResultInv
    BY DEF Init, AgentInit, ApiInit, ResultInv, Idle
  <1> QED BY <1>1, <1>2, <1>3 DEF IInv

\* A step that changes nothing keeps everything.
LEMMA StutterInv ==
  ASSUME IInv, UNCHANGED vars
  PROVE  IInv'
  <1>1. TypeOK'
    BY DEF IInv, vars, jobVars, registryVars, ctlVars, agentVars, histVars, TypeOK,
           JobStoreTypeOK, RegistryTypeOK, ReconcilerTypeOK, AgentTypeOK, ApiTypeOK
  <1>2. OwnershipInv'
    BY DEF IInv, vars, jobVars, ctlVars, agentVars, histVars, OwnershipInv, HoldersHaveAJob,
           RowsConsistent, UnclaimedUntouched, AtMostOneStart, ClaimsAreExclusive,
           SendComesFirst, OneExchangePerJob, OpenNotStarted, ExchangesAreUp,
           ExecutionsCounted, OneExecutionPerJob, Claiming, Open
  <1>3. ResultInv'
    BY DEF IInv, vars, jobVars, agentVars, histVars, ResultInv
  <1> QED BY <1>1, <1>2, <1>3 DEF IInv

\* The inductive invariant: types, ownership of jobs, provenance of results.
THEOREM Invariance == Spec => []IInv
  <1>1. Init => IInv
    BY InitInv
  <1>2. IInv /\ [Next]_vars => IInv'
    BY TypeStep, OwnershipStep, ResultStep, StutterInv DEF IInv
  <1> QED BY <1>1, <1>2, PTL DEF Spec

\* Type correctness.
THEOREM TypeCorrect == Spec => []TypeOK
  <1>1. IInv => TypeOK
    BY DEF IInv
  <1> QED BY <1>1, Invariance, PTL

\* At every moment at most one party can still start a claimed job: the controller that
\* holds the claim, one open exchange, or the execution there is.
THEOREM OwnershipIsUnique == Spec => []OwnershipInv
  <1>1. IInv => OwnershipInv
    BY DEF IInv
  <1> QED BY <1>1, Invariance, PTL

\* A result on its way, in the agent or between the two statements of AgentPostResult, was
\* produced by the agent incarnation the job's row names.
THEOREM ResultsAreOwn == Spec => []ResultInv
  <1>1. IInv => ResultInv
    BY DEF IInv
  <1> QED BY <1>1, Invariance, PTL

\* No job's playbook is ever started twice, by any number of controllers that race,
\* crash, time out or are told of database errors that did or did not happen.
THEOREM SingleStart == Spec => []AtMostOneStart
  <1>1. IInv => AtMostOneStart
    BY DEF IInv, OwnershipInv
  <1> QED BY <1>1, Invariance, PTL

\* No two controllers are ever in the middle of dispatching the same job.
THEOREM ExclusiveClaims == Spec => []ClaimsAreExclusive
  <1>1. IInv => ClaimsAreExclusive
    BY DEF IInv, OwnershipInv
  <1> QED BY <1>1, Invariance, PTL

\* A job failed with "dispatch error" never ran and has no request on its way.
THEOREM DispatchErrorIsClean == Spec => []DispatchErrorNeverRan
  <1>1. IInv => DispatchErrorNeverRan
    BY DEF IInv, OwnershipInv, RowsConsistent, UnclaimedUntouched, DispatchErrorNeverRan
  <1> QED BY <1>1, Invariance, PTL

\* Rows never move back: a finished job is never revived, a claimed one never requeued.
THEOREM RowsNeverGoBack == Spec => NeverBack
  <1>1. IInv /\ [Next]_vars => [\A j \in Jobs : Rank(status[j]) <= Rank(status'[j])]_vars
    BY StepIsLifecycleStep, LifecycleForward
  <1> QED BY <1>1, Invariance, PTL DEF Spec, NeverBack

\* The whole system implements the abstract life of a job.
THEOREM Refinement == Spec => RefinesLifecycle
  <1>1. Init => Lifecycle!Init
    BY DEF Init, JobStoreInit, AgentInit, Lifecycle!Init
  <1>2. IInv /\ [Next]_vars => [Lifecycle!Next]_(Lifecycle!vars)
    <2>1. ASSUME IInv, Next PROVE [Lifecycle!Next]_(Lifecycle!vars)
      BY <2>1, StepIsLifecycleStep DEF LifecycleStep, Lifecycle!vars
    <2>2. ASSUME UNCHANGED vars PROVE [Lifecycle!Next]_(Lifecycle!vars)
      BY <2>2 DEF vars, jobVars, histVars, Lifecycle!vars
    <2> QED BY <2>1, <2>2
  <1> QED BY <1>1, <1>2, Invariance, PTL DEF Spec, RefinesLifecycle, Lifecycle!SafetySpec

\* No job is a success unless the agent incarnation in its row ran it to success.
LEMMA SuccessStep ==
  ASSUME IInv, SuccessWasEarned, Next
  PROVE  SuccessWasEarned'
  <1>1. \A j \in Jobs : outcome[j] \subseteq outcome'[j]
    <2>1. UNCHANGED histVars => \A j \in Jobs : outcome[j] \subseteq outcome'[j]
      BY DEF histVars
    <2>2. ASSUME NEW e \in exec, NEW result \in RunResults, RunEnds(e, result)
          PROVE  \A j \in Jobs : outcome[j] \subseteq outcome'[j]
      BY <2>2 DEF RunEnds, IInv, TypeOK, AgentTypeOK
    <2>3. ASSUME NEW x \in exch, StartJob(x) PROVE \A j \in Jobs : outcome[j] \subseteq outcome'[j]
      BY <2>3 DEF StartJob
    <2> QED
      BY <2>1, <2>2, <2>3
      DEF Next, InsertStep, ControllerStep, RestartStep, AgentStep, Heartbeat, AgentStop, AgentStart,
          CheckCapacity, PostResultLost, ExecuteJobReturns, PostResultStep, PostResultCheck, ApiStep,
          HeartbeatExpiresStep, OverdueStep
  <1>2. ClaimsStay
    BY StepIsLifecycleStep, LifecycleForward
  <1>3. ASSUME NEW j \in Jobs, status[j] = "success" PROVE <<agentOf'[j], "success">> \in outcome'[j]
    <2>1. <<agentOf[j], "success">> \in outcome[j]
      BY <1>3 DEF SuccessWasEarned
    <2>2. agentOf[j] # None
      BY <2>1, NoneAssumption DEF IInv, TypeOK, AgentTypeOK
    <2> QED BY <1>1, <1>2, <2>1, <2>2 DEF ClaimsStay
  <1>4. ASSUME NEW j \in Jobs, status'[j] = "success", status[j] # "success"
        PROVE  <<agentOf'[j], "success">> \in outcome'[j]
    <2>t. status \in [Jobs -> RowStatus]
      BY DEF IInv, TypeOK, JobStoreTypeOK
    <2>1. CASE ApiStep
      <3>1. PICK r \in Slots :
              /\ api[r] # Idle /\ api[r].job \in Jobs
              /\ \E why \in Reasons : UpdateRow(api[r].job, api[r].status, None, why)
        BY <1>4, <2>1, ApiRows DEF jobVars
      <3>2. api[r].job = j /\ api[r].status = "success"
        BY <1>4, <2>t, <3>1 DEF UpdateRow
      <3>3. api[r].op = "result"
        BY <3>1, <3>2 DEF IInv, TypeOK, ApiTypeOK, Request, ResultInv
      <3>4. <<agentOf[j], "success">> \in outcome[j]
        BY <3>2, <3>3 DEF IInv, ResultInv
      <3>5. agentOf[j] # None
        BY <3>4, NoneAssumption DEF IInv, TypeOK, AgentTypeOK
      <3> QED BY <1>1, <1>2, <3>4, <3>5 DEF ClaimsStay
    <2>2. ASSUME NEW c \in Controllers, ControllerStep(c) PROVE FALSE
      <3>1. ControllerWrites
        BY <2>2, TickRows DEF ControllerStep
      <3> QED BY <1>4, <2>t, <3>1 DEF ControllerWrites, TransitionJob, UpdateRow, jobVars
    <2>3. ASSUME InsertStep PROVE FALSE
      BY <1>4, <2>t, <2>3 DEF InsertStep, CreateJob
    <2>4. ASSUME UNCHANGED status PROVE FALSE
      BY <1>4, <2>4
    <2> QED
      BY <2>1, <2>2, <2>3, <2>4
      DEF Next, RestartStep, ControllerRestart, AgentStep, PostResultStep, PostResultCheck,
          HeartbeatExpiresStep, OverdueStep, JobOverdue, jobVars
  <1> QED BY <1>3, <1>4 DEF SuccessWasEarned

\* Every success was earned by the agent the row names.
THEOREM EarnedSuccess == Spec => []SuccessWasEarned
  <1>1. Init => SuccessWasEarned
    BY DEF Init, JobStoreInit, SuccessWasEarned
  <1>2. IInv /\ SuccessWasEarned /\ [Next]_vars => SuccessWasEarned'
    <2>1. ASSUME UNCHANGED vars, SuccessWasEarned PROVE SuccessWasEarned'
      BY <2>1 DEF vars, jobVars, histVars, SuccessWasEarned
    <2> QED BY <2>1, SuccessStep
  <1> QED BY <1>1, <1>2, Invariance, PTL DEF Spec

-----------------------------------------------------------------------------
(* The admission counter. *)

ExecAt(p) == {e \in exec : e.proc = p}

CounterInv == IsFiniteSet(exec) /\ CounterMatchesExecutions

\* A stage change of one execution leaves the number of executions of each agent alone.
LEMMA StageCount ==
  ASSUME CounterInv, NEW e \in exec, NEW f, f \notin exec, f.proc = e.proc,
         exec' = (exec \ {e}) \cup {f}, count' = count
  PROVE  CounterInv'
  <1>1. IsFiniteSet(exec')
    BY FS_RemoveElement, FS_AddElement DEF CounterInv
  <1>2. ASSUME NEW p \in Procs
        PROVE  Cardinality({g \in exec' : g.proc = p}) = Cardinality({g \in exec : g.proc = p})
    <2> DEFINE S == {g \in exec : g.proc = p}
    <2>1. IsFiniteSet(S)
      BY FS_Subset DEF CounterInv
    <2>2. CASE e.proc # p
      <3>1. {g \in exec' : g.proc = p} = S
        BY <2>2
      <3> QED BY <3>1
    <2>3. CASE e.proc = p
      <3>1. {g \in exec' : g.proc = p} = (S \ {e}) \cup {f} /\ e \in S /\ f \notin S \ {e}
        BY <2>3
      <3> HIDE DEF S
      <3>2. IsFiniteSet(S \ {e}) /\ Cardinality(S \ {e}) = Cardinality(S) - 1
        BY <2>1, <3>1, FS_RemoveElement
      <3>3. Cardinality((S \ {e}) \cup {f}) = Cardinality(S \ {e}) + 1
        BY <3>1, <3>2, FS_AddElement
      <3>4. Cardinality(S) \in Nat
        BY <2>1, FS_CardinalityType
      <3>5. Cardinality((S \ {e}) \cup {f}) = Cardinality(S)
        BY <3>2, <3>3, <3>4
      <3> QED BY <3>1, <3>5 DEF S
    <2> QED BY <2>2, <2>3
  <1> QED BY <1>1, <1>2 DEF CounterInv, CounterMatchesExecutions

\* Every step keeps the counter equal to the executions in flight.
LEMMA CounterStep ==
  ASSUME IInv, CounterInv, Next
  PROVE  CounterInv'
  <1>t. AgentTypeOK /\ exec \subseteq Execution /\ exch \subseteq Exchange
        /\ ExecutionsCounted /\ OneExecutionPerJob /\ OpenNotStarted
        /\ count \in [Procs -> Int]
    BY DEF IInv, TypeOK, AgentTypeOK, ReconcilerTypeOK, OwnershipInv
  <1>f. IsFiniteSet(exec) /\ \A p \in Procs : count[p] = Cardinality(ExecAt(p))
    BY DEF CounterInv, CounterMatchesExecutions, ExecAt
  <1>n. \A p \in Procs : IsFiniteSet(ExecAt(p)) /\ Cardinality(ExecAt(p)) \in Nat
    BY <1>f, FS_Subset, FS_CardinalityType DEF ExecAt
  <1>u. count' = count /\ exec' = exec => CounterInv'
    BY <1>f DEF CounterInv, CounterMatchesExecutions, ExecAt
  <1>d. (\A p \in Procs : count'[p] = Cardinality(ExecAt(p)')) /\ IsFiniteSet(exec') => CounterInv'
    BY DEF CounterInv, CounterMatchesExecutions, ExecAt
  <1>1. ASSUME NEW p \in Procs, AgentStop(p) PROVE CounterInv'
    <2>1. IsFiniteSet(exec')
      BY <1>1, <1>f, FS_Subset DEF AgentStop
    <2>2. ASSUME NEW q \in Procs PROVE count'[q] = Cardinality(ExecAt(q)')
      <3>1. CASE q = p
        <4>1. ExecAt(q)' = {}
          BY <1>1, <3>1 DEF AgentStop, ExecAt
        <4> QED BY <1>1, <1>t, <3>1, <4>1, FS_EmptySet DEF AgentStop
      <3>2. CASE q # p
        <4>1. ExecAt(q)' = ExecAt(q)
          BY <1>1, <3>2 DEF AgentStop, ExecAt
        <4> QED BY <1>1, <1>f, <1>t, <3>2, <4>1 DEF AgentStop
      <3> QED BY <3>1, <3>2
    <2> QED BY <1>d, <2>1, <2>2
  <1>2. ASSUME NEW x \in exch, StartJob(x) PROVE CounterInv'
    <2> DEFINE new == [job |-> x.job, proc |-> x.proc, stage |-> "run", result |-> None]
    <2>0. x.job \in Jobs /\ x.proc \in Procs /\ starts[x.job] = 0
      BY <1>2, <1>t DEF StartJob, Exchange, OpenNotStarted, Open
    <2>1. new.proc = x.proc /\ new \notin exec
      BY <1>t, <2>0 DEF ExecutionsCounted
    <2>2. exec' = exec \cup {new} /\ count' = [count EXCEPT ![x.proc] = @ + 1]
      BY <1>2 DEF StartJob
    <2> HIDE DEF new
    <2>3. IsFiniteSet(exec')
      BY <1>f, <2>2, FS_AddElement
    <2>4. ASSUME NEW q \in Procs PROVE count'[q] = Cardinality(ExecAt(q)')
      <3>1. CASE q = x.proc
        <4>1. ExecAt(q)' = ExecAt(q) \cup {new} /\ new \notin ExecAt(q)
          BY <2>1, <2>2, <3>1 DEF ExecAt
        <4>2. Cardinality(ExecAt(q) \cup {new}) = Cardinality(ExecAt(q)) + 1
          BY <1>n, <4>1, FS_AddElement
        <4> QED BY <1>f, <1>t, <2>2, <3>1, <4>1, <4>2
      <3>2. CASE q # x.proc
        <4>1. ExecAt(q)' = ExecAt(q)
          BY <2>1, <2>2, <3>2 DEF ExecAt
        <4> QED BY <1>f, <1>t, <2>2, <3>2, <4>1
      <3> QED BY <3>1, <3>2
    <2> QED BY <1>d, <2>3, <2>4
  <1>3. ASSUME NEW e \in exec, ExecuteJobReturns(e) PROVE CounterInv'
    <2>0. e.proc \in Procs
      BY <1>t DEF Execution
    <2>1. exec' = exec \ {e} /\ count' = [count EXCEPT ![e.proc] = @ - 1]
      BY <1>3 DEF ExecuteJobReturns
    <2>2. IsFiniteSet(exec')
      BY <1>f, <2>1, FS_RemoveElement
    <2>3. ASSUME NEW q \in Procs PROVE count'[q] = Cardinality(ExecAt(q)')
      <3>1. CASE q = e.proc
        <4>1. ExecAt(q)' = ExecAt(q) \ {e} /\ e \in ExecAt(q)
          BY <2>1, <3>1 DEF ExecAt
        <4>2. Cardinality(ExecAt(q) \ {e}) = Cardinality(ExecAt(q)) - 1
          BY <1>n, <4>1, FS_RemoveElement
        <4> QED BY <1>f, <1>t, <2>1, <3>1, <4>1, <4>2
      <3>2. CASE q # e.proc
        <4>1. ExecAt(q)' = ExecAt(q)
          BY <2>1, <3>2 DEF ExecAt
        <4> QED BY <1>f, <1>t, <2>1, <3>2, <4>1
      <3> QED BY <3>1, <3>2
    <2> QED BY <1>d, <2>2, <2>3
  <1>4. ASSUME NEW e \in exec, NEW f, f.job = e.job, f.proc = e.proc, f # e,
               exec' = (exec \ {e}) \cup {f}, count' = count
        PROVE  CounterInv'
    <2>1. f \notin exec
      BY <1>4, <1>t DEF OneExecutionPerJob
    <2> QED BY <1>4, <2>1, StageCount
  <1>5. ASSUME NEW e \in exec, PostResultLost(e) \/ (\E r \in Slots : PostResultCheck(e, r))
        PROVE  CounterInv'
    <2> DEFINE f == [e EXCEPT !.stage = "posted"]
    <2>1. e.stage = "post" /\ exec' = (exec \ {e}) \cup {f} /\ count' = count
      BY <1>5 DEF PostResultLost, PostResultCheck
    <2>2. f.job = e.job /\ f.proc = e.proc /\ f.stage = "posted"
      BY <1>t DEF Execution
    <2>3. f # e
      BY <2>1, <2>2
    <2> HIDE DEF f
    <2> QED BY <1>4, <2>1, <2>2, <2>3
  <1>6. ASSUME NEW e \in exec, NEW result \in RunResults, RunEnds(e, result) PROVE CounterInv'
    <2> DEFINE f == [e EXCEPT !.stage = "post", !.result = result]
    <2>1. e.stage = "run" /\ exec' = (exec \ {e}) \cup {f} /\ count' = count
      BY <1>6 DEF RunEnds
    <2>2. f.job = e.job /\ f.proc = e.proc /\ f.stage = "post"
      BY <1>t DEF Execution
    <2>3. f # e
      BY <2>1, <2>2
    <2> HIDE DEF f
    <2> QED BY <1>4, <2>1, <2>2, <2>3
  <1> QED
    BY <1>u, <1>1, <1>2, <1>3, <1>5, <1>6
    DEF Next, InsertStep, ControllerStep, RestartStep, AgentStep, Heartbeat, AgentStart,
        CheckCapacity, PostResultStep, ApiStep, HeartbeatExpiresStep, OverdueStep, agentVars

\* The counter that admits jobs equals the executions in flight, so it never goes
\* negative and every slot a job took is given back when its goroutine ends.
THEOREM CounterIsExact == Spec => []CounterMatchesExecutions
  <1>1. Init => CounterInv
    <2> SUFFICES ASSUME Init PROVE CounterInv
      OBVIOUS
    <2>1. exec = {} /\ \A p \in Procs : count[p] = 0 /\ {e \in exec : e.proc = p} = {}
      BY DEF Init, AgentInit
    <2> QED BY <2>1, FS_EmptySet DEF CounterInv, CounterMatchesExecutions
  <1>2. IInv /\ CounterInv /\ [Next]_vars => CounterInv'
    <2>1. ASSUME UNCHANGED vars, CounterInv PROVE CounterInv'
      BY <2>1 DEF vars, agentVars, CounterInv, CounterMatchesExecutions
    <2> QED BY <2>1, CounterStep
  <1>3. CounterInv => CounterMatchesExecutions
    BY DEF CounterInv
  <1> QED BY <1>1, <1>2, <1>3, Invariance, PTL DEF Spec

-----------------------------------------------------------------------------
(* The queue, with one controller and no database errors. *)

\* The controller is working on a batch it read.
Queueing(c) == pc[c] \in {"agents", "dispatch", "send", "wait", "revert", "failPending"}

InsertedInOrder == \A i, j \in Jobs : i < j /\ status[j] # "absent" => status[i] # "absent"

\* What is left of a batch comes before every other pending job.
BatchIsPrefix ==
  \A c \in Controllers : Queueing(c) =>
    \A k \in batch[c] : /\ status[k] # "absent"
                        /\ \A i \in Jobs : i < k /\ status[i] = "pending" => i \in batch[c]

HeldIsClaimed == \A c \in Controllers : Claiming(c) => status[cur[c]] \notin {"absent", "pending"}

QueueInv == InsertedInOrder /\ BatchIsPrefix /\ HeldIsClaimed

\* A step that inserts no job leaves no more pending jobs than there were.
Drains ==
  \A j \in Jobs : /\ status[j] = "absent" <=> status'[j] = "absent"
                  /\ status'[j] = "pending" => status[j] = "pending"

\* One UPDATE to a later status drains the queue.
LEMMA UpdateDrains ==
  ASSUME JobStoreTypeOK, NEW j \in Jobs, NEW to, to \notin {"absent", "pending"}, NEW a, NEW why,
         UpdateRow(j, to, a, why), status[j] # "absent"
  PROVE  Drains
  BY DEF Drains, UpdateRow, JobStoreTypeOK

\* So does every step but the insertion of a job.
LEMMA StepDrains ==
  ASSUME IInv, Next
  PROVE  InsertStep \/ Drains
  <1>t. JobStoreTypeOK
    BY DEF IInv, TypeOK
  <1>u. status' = status => Drains
    BY DEF Drains
  <1>1. ASSUME NEW c \in Controllers, ControllerStep(c) PROVE Drains
    <2>1. CASE UNCHANGED jobVars
      BY <1>u, <2>1 DEF jobVars
    <2>2. ASSUME NEW j \in Jobs, NEW from \in {"pending", "dispatched", "running"}, NEW to, NEW a, NEW why,
                 to \in {"dispatched", "failed"}, TransitionJob(j, from, to, a, why)
          PROVE  Drains
      <3>1. CASE UNCHANGED jobVars
        BY <1>u, <3>1 DEF jobVars
      <3>2. CASE status[j] = from /\ UpdateRow(j, to, a, why)
        BY <1>t, <2>2, <3>2, UpdateDrains
      <3> QED BY <2>2, <3>1, <3>2 DEF TransitionJob
    <2> QED BY <1>1, <2>1, <2>2, TickRows DEF ControllerStep, ControllerWrites
  <1>2. CASE ApiStep
    <2>1. CASE UNCHANGED jobVars
      BY <1>u, <2>1 DEF jobVars
    <2>2. ASSUME NEW r \in Slots, api[r] # Idle, api[r].job \in Jobs, api[r].status \in Terminal,
                 NEW why, UpdateRow(api[r].job, api[r].status, None, why)
          PROVE  Drains
      <3>1. status[api[r].job] # "absent"
        BY <2>2 DEF IInv, ResultInv
      <3> QED BY <1>t, <2>2, <3>1, UpdateDrains DEF Terminal
    <2> QED BY <1>2, <2>1, <2>2, ApiRows
  <1> QED
    BY <1>u, <1>1, <1>2
    DEF Next, RestartStep, ControllerRestart, AgentStep, PostResultStep, PostResultCheck,
        HeartbeatExpiresStep, OverdueStep, JobOverdue, jobVars

\* How a controller may go on with its batch: job j is done with once it is not pending.
BatchGoesOn(c) ==
  Queueing(c)' => /\ Queueing(c)
                  /\ \/ batch'[c] = batch[c]
                     \/ \E j \in Jobs : batch'[c] = batch[c] \ {j} /\ status'[j] # "pending"
HeldGoesOn(c) ==
  Claiming(c)' => \/ Claiming(c) /\ cur'[c] = cur[c]
                  \/ status'[cur'[c]] \notin {"absent", "pending"}

\* A step that drains the queue and goes on with the batches keeps the invariant.
LEMMA QueueKept ==
  ASSUME IInv, QueueInv, Drains, \A c \in Controllers : BatchGoesOn(c) /\ HeldGoesOn(c)
  PROVE  QueueInv'
  <1>1. InsertedInOrder'
    BY DEF QueueInv, InsertedInOrder, Drains
  <1>2. ASSUME NEW c \in Controllers, Queueing(c)', NEW k \in batch'[c]
        PROVE  /\ status'[k] # "absent"
               /\ \A i \in Jobs : i < k /\ status'[i] = "pending" => i \in batch'[c]
    <2>1. Queueing(c) /\ k \in batch[c] /\ k \in Jobs
      BY <1>2 DEF BatchGoesOn, IInv, TypeOK, ReconcilerTypeOK
    <2>2. /\ status[k] # "absent"
          /\ \A i \in Jobs : i < k /\ status[i] = "pending" => i \in batch[c]
      BY <2>1 DEF QueueInv, BatchIsPrefix
    <2> QED BY <1>2, <2>1, <2>2 DEF BatchGoesOn, Drains
  <1>3. ASSUME NEW c \in Controllers, Claiming(c)'
        PROVE  status'[cur'[c]] \notin {"absent", "pending"}
    <2>1. Claiming(c) => cur[c] \in Jobs /\ status[cur[c]] \notin {"absent", "pending"}
      BY DEF QueueInv, HeldIsClaimed, IInv, OwnershipInv, HoldersHaveAJob
    <2> QED BY <1>3, <2>1 DEF HeldGoesOn, Drains
  <1> QED BY <1>1, <1>2, <1>3 DEF QueueInv, BatchIsPrefix, HeldIsClaimed

\* The rows GetPendingJobs returns come before the ones it leaves.
LEMMA FirstPendingIsPrefix ==
  ASSUME NEW k \in FirstPending({}), NEW i \in Jobs, i < k, status[i] = "pending"
  PROVE  i \in FirstPending({})
  <1> DEFINE rows == Pending \ {}
             before(j) == {x \in rows : x < j}
  <1>1. k \in rows /\ i \in rows /\ rows \subseteq Jobs /\ Cardinality(before(k)) < BatchLimit
    BY DEF FirstPending, Pending
  <1>2. IsFiniteSet(before(k))
    <2>1. IsFiniteSet(Jobs)
      BY NJobsAssumption, FS_Interval DEF Jobs
    <2> QED BY <1>1, <2>1, FS_Subset
  <1>3. before(i) \subseteq before(k)
    <2>1. \A x \in Jobs : x < i => x < k
      BY <1>1 DEF Jobs
    <2> QED BY <1>1, <2>1
  <1>4. /\ Cardinality(before(i)) <= Cardinality(before(k))
        /\ Cardinality(before(i)) \in Nat /\ Cardinality(before(k)) \in Nat
    BY <1>2, <1>3, FS_Subset, FS_CardinalityType
  <1>5. Cardinality(before(i)) < BatchLimit
    BY <1>1, <1>4, BatchLimitAssumption
  <1> QED BY <1>1, <1>5 DEF FirstPending

\* One tick of the only controller.
LEMMA TickQueue ==
  ASSUME IInv, QueueInv, Drains, \A c, d \in Controllers : c = d, ~Fault,
         NEW c \in Controllers, Tick(c, Up)
  PROVE  QueueInv'
  <1>t. ReconcilerTypeOK /\ JobStoreTypeOK /\ HoldersHaveAJob /\ HeldIsClaimed
    BY DEF IInv, TypeOK, OwnershipInv, QueueInv
  <1>k. BatchGoesOn(c) /\ HeldGoesOn(c) => QueueInv'
    BY QueueKept
  <1>s. ASSUME pc'[c] \in {"idle", "stuckDispatched", "failDispatched", "stuckRunning", "failRunning"}
        PROVE  QueueInv'
    BY <1>k, <1>s DEF BatchGoesOn, HeldGoesOn, Queueing, Claiming
  <1>n. ASSUME NEW j \in Jobs, NextJob(c, j), Queueing(c), status'[j] # "pending" PROVE QueueInv'
    <2>1. CASE EnterFailStuck(c)
      <3>1. pc'[c] = "stuckDispatched"
        BY <1>t, <2>1 DEF EnterFailStuck, Goto, ReconcilerTypeOK
      <3> QED BY <1>s, <3>1
    <2>2. CASE pc'[c] = "dispatch" /\ batch'[c] = batch[c] \ {j}
      BY <1>k, <1>n, <2>2 DEF BatchGoesOn, HeldGoesOn, Claiming
    <2> QED BY <1>n, <1>t, <2>1, <2>2 DEF NextJob, Goto, ReconcilerTypeOK
  <1>c. ASSUME Claiming(c), NextJob(c, cur[c]) PROVE QueueInv'
    <2>1. cur[c] \in Jobs /\ status[cur[c]] # "pending" /\ Queueing(c)
      BY <1>c, <1>t DEF HoldersHaveAJob, HeldIsClaimed, Claiming, Queueing
    <2>2. status'[cur[c]] # "pending"
      BY <2>1 DEF Drains
    <2> QED BY <1>c, <1>n, <2>1, <2>2
  <1>1. CASE GetPendingJobs(c)
    <2>1. Locked(c) = {}
      BY DEF Locked
    <2>2. CASE FirstPending({}) = {}
      <3>1. EnterFailStuck(c)
        BY <1>1, <2>1, <2>2 DEF GetPendingJobs
      <3>2. pc'[c] = "stuckDispatched"
        BY <1>t, <3>1 DEF EnterFailStuck, Goto, ReconcilerTypeOK
      <3> QED BY <1>s, <3>2
    <2>3. CASE FirstPending({}) # {}
      <3>1. /\ batch' = [batch EXCEPT ![c] = FirstPending({})] /\ pc' = [pc EXCEPT ![c] = "agents"]
            /\ status' = status
        BY <1>1, <2>1, <2>3 DEF GetPendingJobs, Goto, jobVars
      <3>2. batch'[c] = FirstPending({}) /\ pc'[c] = "agents"
        BY <1>t, <3>1 DEF ReconcilerTypeOK
      <3>3. \A k \in FirstPending({}) : status[k] = "pending"
        BY DEF FirstPending, Pending
      <3>4. BatchIsPrefix'
        BY <3>1, <3>2, <3>3, FirstPendingIsPrefix DEF BatchIsPrefix
      <3>5. InsertedInOrder' /\ HeldIsClaimed'
        BY <3>1, <3>2 DEF QueueInv, InsertedInOrder, HeldIsClaimed, Claiming
      <3> QED BY <3>4, <3>5 DEF QueueInv
    <2> QED BY <2>2, <2>3
  <1>2. CASE ReadAgents(c)
    <2>1. pc[c] = "agents" /\ pc'[c] = "dispatch" /\ batch'[c] = batch[c]
      BY <1>2, <1>t DEF ReadAgents, Goto, ReconcilerTypeOK
    <2> QED BY <1>k, <2>1 DEF BatchGoesOn, HeldGoesOn, Queueing, Claiming
  <1>3. ASSUME NEW j \in Jobs, DispatchOneFails(c, j) PROVE QueueInv'
    <2>1. pc[c] = "dispatch" /\ pc'[c] = "failPending" /\ batch'[c] = batch[c]
      BY <1>3, <1>t DEF DispatchOneFails, Goto, ReconcilerTypeOK
    <2> QED BY <1>k, <2>1 DEF BatchGoesOn, HeldGoesOn, Queueing, Claiming
  <1>4. ASSUME NEW j \in Jobs, MarkDispatched(c, j) PROVE QueueInv'
    <2>1. CASE status[j] = "pending"
      <3>1. status'[j] = "dispatched"
        BY <1>4, <1>t, <2>1 DEF MarkDispatched, TransitionJob, UpdateRow, JobStoreTypeOK
      <3>2. pc[c] = "dispatch" /\ pc'[c] = "send" /\ batch'[c] = batch[c] /\ cur'[c] = j
        BY <1>4, <1>t, <2>1 DEF MarkDispatched, Goto, ReconcilerTypeOK
      <3> QED BY <1>k, <3>1, <3>2 DEF BatchGoesOn, HeldGoesOn, Queueing
    <2>2. CASE status[j] # "pending"
      <3>1. NextJob(c, j) /\ Queueing(c)
        BY <1>4, <2>2 DEF MarkDispatched, Queueing
      <3>2. status'[j] # "pending"
        BY <2>2 DEF Drains
      <3> QED BY <1>n, <3>1, <3>2
    <2> QED BY <2>1, <2>2
  <1>5. CASE FailPending(c)
    <2>1. NextJob(c, cur[c]) /\ Queueing(c) /\ cur[c] \in Jobs
      BY <1>5, <1>t DEF FailPending, Queueing, HoldersHaveAJob
    <2>2. status'[cur[c]] # "pending"
      <3>1. TransitionJob(cur[c], "pending", "failed", None, "dispatch error")
        BY <1>5 DEF FailPending
      <3> QED BY <1>t, <2>1, <3>1 DEF TransitionJob, UpdateRow, jobVars, JobStoreTypeOK
    <2> QED BY <1>n, <2>1, <2>2
  <1>6. CASE Dispatch(c, Up) \/ DispatchFails(c) \/ DispatchUnanswered(c)
    <2>1. /\ pc[c] \in {"send", "wait"} /\ pc'[c] \in {"wait", "revert"}
          /\ batch'[c] = batch[c] /\ cur'[c] = cur[c]
      BY <1>6, <1>t DEF Dispatch, DispatchFails, DispatchUnanswered, Goto, ReconcilerTypeOK
    <2> QED BY <1>k, <2>1 DEF BatchGoesOn, HeldGoesOn, Queueing, Claiming
  <1>7. CASE DispatchAccepted(c) \/ RevertDispatch(c)
    BY <1>7, <1>c DEF DispatchAccepted, RevertDispatch, Claiming
  <1>8. CASE GetStuckJobs(c)
    <2>1. pc'[c] \in {"idle", "failDispatched", "stuckRunning", "failRunning"}
      BY <1>8, <1>t DEF GetStuckJobs, Goto, StuckPass, ReconcilerTypeOK
    <2> QED BY <1>s, <2>1
  <1>9. CASE FailStuckJob(c)
    <2>1. pc'[c] \in {"idle", "failDispatched", "stuckRunning", "failRunning"}
      BY <1>9, <1>t DEF FailStuckJob, Goto, StuckPass, ReconcilerTypeOK
    <2> QED BY <1>s, <2>1
  <1> QED
    BY <1>1, <1>2, <1>3, <1>4, <1>5, <1>6, <1>7, <1>8, <1>9
    DEF Tick, ReadFails, MarkDispatchedError, RevertDispatchError, GetStuckJobsError

\* A new row is younger than the rest: no batch has to hold it.
LEMMA InsertQueue ==
  ASSUME IInv, QueueInv, InsertStep
  PROVE  QueueInv'
  <1>t. JobStoreTypeOK /\ ReconcilerTypeOK /\ HoldersHaveAJob
    BY DEF IInv, TypeOK, OwnershipInv
  <1>1. PICK n \in Jobs : CreateJob(n) /\ UNCHANGED <<pc, batch, cur>>
    BY DEF InsertStep, ctlVars
  <1>2. /\ status[n] = "absent" /\ \A i \in Jobs : i < n => status[i] # "absent"
        /\ status'[n] = "pending" /\ \A i \in Jobs \ {n} : status'[i] = status[i]
    BY <1>1, <1>t DEF CreateJob, JobStoreTypeOK
  <1>3. InsertedInOrder'
    <2> SUFFICES ASSUME NEW i \in Jobs, NEW j \in Jobs, i < j, status'[j] # "absent"
                 PROVE  status'[i] # "absent"
      BY DEF InsertedInOrder
    <2> QED BY <1>2 DEF QueueInv, InsertedInOrder
  <1>4. ASSUME NEW c \in Controllers, Queueing(c), NEW k \in batch[c]
        PROVE  /\ status'[k] # "absent"
               /\ \A i \in Jobs : i < k /\ status'[i] = "pending" => i \in batch[c]
    <2>1. /\ k \in Jobs /\ status[k] # "absent"
          /\ \A i \in Jobs : i < k /\ status[i] = "pending" => i \in batch[c]
      BY <1>4, <1>t DEF QueueInv, BatchIsPrefix, ReconcilerTypeOK
    <2>2. ~(n < k)
      BY <1>2, <2>1 DEF QueueInv, InsertedInOrder
    <2> QED BY <1>2, <2>1, <2>2
  <1>5. BatchIsPrefix'
    BY <1>1, <1>4 DEF BatchIsPrefix, Queueing
  <1>6. HeldIsClaimed'
    BY <1>1, <1>2, <1>t DEF QueueInv, HeldIsClaimed, Claiming, HoldersHaveAJob
  <1> QED BY <1>3, <1>5, <1>6 DEF QueueInv

\* Every step keeps the queue.
LEMMA QueueStep ==
  ASSUME IInv, QueueInv, [Next]_vars, \A c, d \in Controllers : c = d, MaxFaults = 0
  PROVE  QueueInv'
  <1>0. ~Fault
    BY DEF Fault, IInv, TypeOK, ReconcilerTypeOK
  <1>1. CASE InsertStep
    BY <1>1, InsertQueue
  <1>2. ASSUME NEW c \in Controllers, ControllerStep(c), Drains PROVE QueueInv'
    BY <1>0, <1>2, TickQueue DEF ControllerStep
  <1>3. ASSUME NEW c \in Controllers, RestartStep(c) PROVE FALSE
    BY <1>0, <1>3 DEF RestartStep, ControllerRestart
  <1>4. ASSUME Drains, UNCHANGED ctlVars PROVE QueueInv'
    BY <1>4, QueueKept DEF ctlVars, BatchGoesOn, HeldGoesOn, Queueing, Claiming
  <1>5. CASE UNCHANGED vars
    <2>1. Drains /\ UNCHANGED ctlVars
      BY <1>5 DEF vars, jobVars, Drains
    <2> QED BY <1>4, <2>1
  <1> QED
    BY <1>1, <1>2, <1>3, <1>4, <1>5, StepDrains
    DEF Next, AgentStep, PostResultStep, ApiStep, HeartbeatExpiresStep, OverdueStep

\* Only MarkDispatched moves a job from pending to dispatched.
LEMMA ClaimIsMarkDispatched ==
  ASSUME IInv, Next, ~Fault, NEW j \in Jobs, status[j] = "pending", status'[j] = "dispatched"
  PROVE  \E c \in Controllers : MarkDispatched(c, j)
  <1>t. JobStoreTypeOK /\ ReconcilerTypeOK /\ HoldersHaveAJob
    BY DEF IInv, TypeOK, OwnershipInv
  <1>f. ASSUME NEW k \in Jobs, NEW from, NEW why, TransitionJob(k, from, "failed", None, why) PROVE FALSE
    BY <1>f, <1>t DEF TransitionJob, UpdateRow, jobVars, JobStoreTypeOK
  <1>1. ASSUME NEW c \in Controllers, Tick(c, Up) PROVE MarkDispatched(c, j)
    <2>1. ASSUME NEW k \in Jobs, MarkDispatched(c, k) PROVE k = j
      BY <2>1, <1>t DEF MarkDispatched, TransitionJob, UpdateRow, jobVars, JobStoreTypeOK
    <2>2. CASE FailPending(c)
      BY <1>f, <1>t, <2>2 DEF FailPending, HoldersHaveAJob
    <2>3. CASE RevertDispatch(c)
      BY <1>f, <1>t, <2>3 DEF RevertDispatch, HoldersHaveAJob, Claiming
    <2>4. CASE FailStuckJob(c)
      <3>1. PICK s \in {"dispatched", "running"}, k \in batch[c] : TransitionJob(k, s, "failed", None, "timeout")
        BY <2>4 DEF FailStuckJob
      <3> QED BY <1>f, <1>t, <3>1 DEF ReconcilerTypeOK
    <2>5. CASE UNCHANGED jobVars
      BY <2>5 DEF jobVars
    <2> QED
      BY <1>1, <2>1, <2>2, <2>3, <2>4, <2>5
      DEF Tick, GetPendingJobs, ReadAgents, ReadFails, DispatchOneFails, MarkDispatchedError,
          Dispatch, DispatchFails, DispatchAccepted, DispatchUnanswered, RevertDispatchError,
          GetStuckJobs, GetStuckJobsError
  <1>2. ASSUME ApiStep PROVE FALSE
    <2>1. ASSUME NEW r \in Slots, api[r].job \in Jobs, api[r].status \in Terminal, NEW why,
                 UpdateRow(api[r].job, api[r].status, None, why)
          PROVE  FALSE
      BY <1>t, <2>1 DEF UpdateRow, Terminal, JobStoreTypeOK
    <2> QED BY <1>2, <2>1, ApiRows DEF jobVars
  <1>3. ASSUME InsertStep PROVE FALSE
    BY <1>3, <1>t DEF InsertStep, CreateJob, JobStoreTypeOK
  <1> QED
    BY <1>1, <1>2, <1>3
    DEF Next, ControllerStep, RestartStep, ControllerRestart, AgentStep, PostResultStep,
        PostResultCheck, HeartbeatExpiresStep, OverdueStep, JobOverdue, jobVars

\* With one controller and no database errors jobs are claimed in the order of created_at,
\* whatever their number and the LIMIT of the query: a job never overtakes an older one.
THEOREM ClaimedInOrder ==
  ASSUME \A c, d \in Controllers : c = d, MaxFaults = 0
  PROVE  Spec => OldestFirst
  <1>1. Init => QueueInv
    BY DEF Init, JobStoreInit, ReconcilerInit, QueueInv, InsertedInOrder, BatchIsPrefix, HeldIsClaimed,
           Queueing, Claiming
  <1>2. IInv /\ QueueInv /\ [Next]_vars => QueueInv'
    BY QueueStep
  <1>3. IInv /\ QueueInv /\ [Next]_vars =>
          [\A i, j \in Jobs : i < j /\ status[j] = "pending" /\ status'[j] = "dispatched"
                                => status[i] # "pending"]_vars
    <2> SUFFICES ASSUME IInv, QueueInv, Next, NEW i \in Jobs, NEW j \in Jobs, i < j,
                        status[j] = "pending", status'[j] = "dispatched", status[i] = "pending"
                 PROVE  FALSE
      OBVIOUS
    <2>1. ~Fault
      BY DEF Fault, IInv, TypeOK, ReconcilerTypeOK
    <2>2. PICK c \in Controllers : MarkDispatched(c, j)
      BY <2>1, ClaimIsMarkDispatched
    <2>3. Queueing(c) /\ j \in batch[c] /\ \A k \in batch[c] : j <= k
      BY <2>2 DEF MarkDispatched, Oldest, Queueing
    <2>4. i \in batch[c]
      BY <2>3 DEF QueueInv, BatchIsPrefix
    <2> QED BY <2>3, <2>4 DEF Jobs
  <1> QED BY <1>1, <1>2, <1>3, Invariance, PTL DEF Spec, OldestFirst
=============================================================================
