# A verification model of AOP

AOP runs Ansible playbooks: an API server stores jobs, one or more controllers hand
pending jobs to agents, agents run them and report back. This directory holds TLA+
modules of the parts that carry the program's logic, TLC configurations that check them
on small instances, and TLAPS proofs for every value of the constants.

    tlc -workers 2 -config JobDispatch_races.cfg MCJobDispatch
    tlapm JobDispatch_proofs.tla

Two parts stand out. The *job path* follows a job from the table through controllers,
agents and API handlers back to the table; it is one composition of six modules. Around it,
seven specifications of their own model the components that meet the job path only through
rows or payloads: log streaming, the scheduler, inventory synchronisation, inventory files,
the runner, workflow storage, and the catalog with payload building.

## 1. Inventory

### Components, their state and operations

| Component | Source | State | Operations |
|---|---|---|---|
| Jobs table | `api/internal/store/jobs.go`, `controller/internal/store/store.go` | `status`, `agent_id`, `failure_reason`, `updated_at` per row | `CreateJob`, `TransitionJob` (compare-and-set), `UpdateJobStatus` (unconditional) |
| Agent registry | `api/internal/handler/agents.go`, `store/agents.go` | one row per start of an agent: address, last heartbeat | `RegisterAgent`, `UpdateAgentHeartbeat` |
| Reconciler | `controller/internal/reconciler` | only the locals of a tick | `dispatchPending`, `dispatchOne`, `failStuck` |
| Selector | `controller/selector` | none | `Select` |
| Transport | `controller/transport` | open HTTP exchanges | `Dispatch` (`Cancel` has no caller) |
| Agent server | `agent/internal/server`, `agent/cmd/agent` | id and token, `count`, `running` | register, heartbeat, `handleDispatch`, `executeJob` |
| API job handlers | `api/internal/handler/jobs.go` | requests in flight | `CancelJob`, `AgentPostResult`, `AgentPostLogs` |
| Log path | `agent/internal/runner`, `agent/internal/server` | buffer, sequence numbers, posts in flight, `job_logs` | scan, `Add`, `doFlush`, `Flush`, `AppendJobLogs` |
| Job runner | `agent/internal/runner` | job directory, credential files, child process, pipes, scanners | `Run`, `Materialize`, `runPlaybook`, `Cleanup`, `WriteInventory` |
| Scheduler | `controller/internal/scheduler`, `api/internal/{handler,store}/schedules.go` | `schedules`, cron entries, `entryIDs`, callbacks in flight | `sync`, `register`, the cron callback, schedule requests |
| Inventory sync | `controller/inventory`, `api/internal/{handler,store}/projects.go` | clones, `inventory_hosts`, sync status | `syncAll`, `syncProject`, `parseINIInventory`, `UpsertInventoryHosts`, project requests |
| Workflow and approval storage | `api/internal/{handler,store}/{workflows,approvals}.go` | workflows, nodes, edges, runs, approval requests | `CreateWorkflow`, `UpdateWorkflow`, `DeleteWorkflow`, `RunWorkflow`, `ResolveApproval` |
| Catalog and payloads | `api/internal/{handler,store}`, `reconciler.buildPayload` | credentials, projects, templates, jobs, what a tick has read | create, update, delete; `CreateJob`; `buildPayload` |
| Secrets | `api/internal/secrets`, `controller/internal/secrets` | the keys of API and controllers | `Encrypt`, `Resolve` |
| Auth, configuration, UI | `api/internal/auth`, `*/config`, `ui` | - | not modelled, see section 7 |

### Interaction

Everything meets in Postgres. The API inserts jobs and writes cancellations and results;
controllers poll for pending and overdue rows; the controller calls the agent over HTTP;
the agent calls the API over HTTP with a token that names its agent row. There is no lock
that outlives a statement (`FOR UPDATE SKIP LOCKED` runs outside a transaction), no
message queue, and no retry of a dispatch or of a result.

### What is hard

* several controllers claim from one table, and crash or see database errors between any
  two statements;
* an HTTP timeout of the controller races the agent's late admission;
* `CancelJob` and `AgentPostResult` check a row with one statement and write it with
  another, after a timeout, a cancellation or a result may have finished it;
* agents restart under a new id but the same address;
* the agent's capacity check is not atomic with its counter;
* a controller's list of agents is as old as its tick;
* log lines come from two goroutines through a shared variable, and the last flush runs
  concurrently with the post of the result;
* cron callbacks read `entryIDs` on goroutines of their own while `sync` writes it, and
  what they captured may have been edited, disabled or deleted since;
* a sync of an inventory may be killed, or may fail, between any two of its git commands
  and statements, while requests edit or delete the project;
* a playbook fills two bounded pipes in any order, while a cancel request may come at any
  moment and secrets have to go on every way out;
* `UpdateWorkflow` is three transactions, and two requests may replace the same node ids;
* a payload is put together from rows read one after the other while they are edited.

`PROJECT.json` lists these hazards at their lines, with the properties that cover them.

### What makes it correct

* Job path: a job is claimed once, started at most once, never revived, finishes, and is
  shown as a success only if its own agent ran it to success.
* Agent: the admission counter is what is really running.
* Log path: a captured line is neither lost nor repeated before it is posted; nothing
  stays in the buffer; `job_logs` holds what was sent.
* Scheduler: no entry outside the map, no next run and no job of another schedule; the
  registry catches up with the table.
* Inventory sync: the table holds whole files, no failure empties it (only the deletion of
  the project and a file without hosts do), every request for a sync is answered, and the
  rows come to be those of the branch head.
* Inventory files: the parser's loop computes what a file means, and what is written for
  the playbook reads back as the hosts.
* Runner: secrets are removed on every way out, a success is complete, `Run` returns.
* Workflows: edges join the node rows they were stored with, an undisturbed update is
  stored as sent, references hold, an approval is decided once.
* Catalog: nothing but a credential can be missing, and a payload is coherent.

## 2. Modules

| Module | Models | Uses |
|---|---|---|
| `JobTypes` | statuses | |
| `AgentRegistry` | the agents table | |
| `JobStore` | the jobs table, one operator per statement | `JobTypes`, `AgentRegistry` |
| `Reconciler` | the controllers and their side of `POST /dispatch` | `JobStore` |
| `AgentServer` | agent processes and executions | `Reconciler` |
| `JobAPI` | the two-statement handlers of the API | `AgentServer` |
| `JobDispatch` | their composition, properties, inductive invariant | `JobAPI`, instance of `JobLifecycle` |
| `JobLifecycle` | the abstract promise about a job | `JobTypes` |
| `JobDispatchClaims` | what documents claim and the code does not do | `JobDispatch` |
| `MCJobDispatch` | symmetry for TLC | `JobDispatchClaims` |
| `JobDispatch_proofs` | theorems of the job path | `JobDispatch` |
| `LogStream`, `LogStream_proofs` | the output of one job, from the pipes to `job_logs` | |
| `Scheduler`, `Scheduler_proofs` | schedules, the cron instance of each controller, callbacks | |
| `GitSync`, `GitSync_proofs`, `MCGitSync` | the inventory of one project | |
| `Inventory`, `Inventory_proofs`, `MCInventory` | the INI parser line by line, and the writer | |
| `Runner`, `Runner_proofs`, `MCRunner` | one call of `runner.Run` | |
| `Workflows`, `Workflows_proofs`, `MCWorkflows` | the workflow and approval tables | |
| `Catalog`, `Catalog_proofs` | credentials, projects, templates, jobs, `buildPayload` | |

### The job path

A step is one SQL statement, one end of an HTTP call, or one atomic piece of a goroutine.

* **Rows.** `TransitionJob` is the `UPDATE ... WHERE status = $5` of the controller,
  `UpdateJobStatus` the unconditional one of the API; `UpdateRow` is what both do to a
  row, `COALESCE` included. A statement that returns an error may or may not have been
  committed (`TransitionJobError`). `updated_at` is abstracted to `overdue`, which every
  update resets (trigger `set_updated_at`) and the clock sets again.
* **Controllers.** `pc` follows the tick. `GetPendingJobs` takes the oldest `BatchLimit`
  pending rows, skipping any that a concurrent `SELECT ... FOR UPDATE` may still hold.
  `ReadAgents` reads the available agents once; since the list does not change during the
  tick, `Select` returns the same agent for the whole batch, which is `target`. Then per
  job: `DispatchOneFails` (no agent, or `buildPayload` failed), or `MarkDispatched` and
  its error branch, then `Dispatch`, its answers, and `RevertDispatch`. `failStuck` is the
  same two-step pass for `dispatched` and then `running`. No code writes `running`, so the
  second pass never finds anything; it is kept because the code has it.
* **HTTP.** `exch` holds the open exchanges. A controller that times out, loses the
  connection or dies leaves its exchange open without a reader (`Abandon`); the agent may
  still admit the job.
* **Agents.** `AgentStart` registers a new row; `AgentStop` drops the counter, the
  executions and the connections of a process, as nothing waits for running jobs.
  `CheckCapacity` and `StartJob` are separate steps. `runner.Run` is abstracted to its
  result; `cancelled` cannot be one, because nothing calls `handleCancel`.
* **API.** A slot is a request between its check and its write. A request may end there
  (`RequestFails`: client gone, statement failed, process died).
* **History.** `starts` counts the starts of a job, `outcome` records which agent id ended
  a run with which result. No guard reads them.

### The log path

Each scanner draws a number (`Scan`), assigns the shared variable (`SetSeq`) and reads it
back in `Add`. That read is a data race: the step takes either the value just assigned (a
build that keeps it in a register) or whatever the variable holds. `doFlush` is one step,
because it swaps the buffer under the mutex. `PostLogs` treats answer, error and timeout
alike, so the batcher goes on whether or not the request (`reqs`) is still being inserted.

### The scheduler

`sync` is a loop over statements of its own: the query (`Load`), `cron.Remove` and the
`delete` from the map, `AddFunc` and the assignment to the map are separate steps, since a
callback may read the map between any two. A firing entry (`Fire`) is a callback that
inserts a job, copies `cron.Entries()`, compares each id with what the map holds at that
moment (`MatchEntry`) and writes `next_run_at`. When the Go runtime detects the unlocked
access it stops the process, which is `Restart`. Expression, time zone and variables are one
`spec`; `BadSpecs` are those `LoadLocation` or the parser of `register` refuse.
`CronFields` is the number of fields the cron instance takes: 5 for the instance the
package's tests install, 6 for the one `Run` builds (`cron.WithSeconds`). Jobs and rows
only keep what tells schedules apart.

### Inventory synchronisation

One project and any number of controllers, each with a workspace of its own (projects are
synced one after the other and share nothing but the goroutine). Each git command, the
parsing, and the statements and the commit of `UpsertInventoryHosts` are steps. The head of
a branch is a commit, and `FileAt` is the file a commit has at an inventory path; a push
moves the head, a request may change repository, branch, path or credential. A `DELETE`
removes the rows it saw (`seen`); what another controller commits meanwhile stays. `rows` are
the batches in `inventory_hosts`: a file without hosts is parsed without an error, so its
commit removes the rows and adds no batch. `last` is the batch, with or without hosts, that
was committed last (history). `Ungrouped` are hosts outside every group: their `Groups` is
nil, `inventory_hosts.groups` is `NOT NULL`, so the insert fails. With an empty branch name
the clone is of the default branch (`Main`) and the reset to `origin/` fails. A git command
that is killed may leave a directory or a lock file with which every later one fails
(`Broken`). Faults and kills share the bound `MaxKills`.

### Inventory files

A line is what its trimmed text amounts to. The parser's loop is one step per line
(`SkipLine`, `Section`, `HostEntry`, `ScannerError`, `EndOfFile`), and within a host line
one per field (`AssignField`) and one for the group (`AssignGroup`). `WriteInventory` is
`WriteHosts` (the `[all]` section), a `WriteGroup` per group in any order, and `WriteFile`;
the order of the hosts, of each host's variables and of the groups is chosen freely, as rows
and maps come in no order. `Meaning` is the reference: what a file means, from the positions
of headers and fields, for the text that was read and for the file that is written alike.

### The runner

`stage` follows `Run`. Materialising one credential, each deferred call and each part of
`runPlaybook` is a step, and each may fail where the code returns an error. The playbook is
external: it writes the units of its `script` in order, blocks on a full pipe, and exits. A
scanner reads a unit, delivers a line at a newline, and stops when a line fills its buffer
(`bufio.ErrTooLong`). `HandleCancel` cancels the context at any moment; `exec` then kills
the playbook (`KillChild`), but only the process it started: those it forked (`forks`) may
live on, write, and hold the pipes open, so that a scanner sees the end of file only after
they have ended too (`ForksEnd`).

`files` are the secrets on disk. `Materialize` writes a file per credential that needs one
and lists it for `Cleanup`. An `https_token` is not among them: `GitClone` puts it into the
URL (`httpsCloneURL`, for `https://` URLs and non-empty tokens), and git stores the URL in
`repo/.git/config`, which `Cleanup` does not know and only the removal of the job directory
takes away. That removal may fail with any part of the directory left.

### Workflows and approvals

`req` holds requests in flight. `UpdateWorkflow` is a statement and up to two transactions
of two steps each: what the `DELETE` sees and locks, and the inserts with the commit. The
foreign keys are `Cascade` (edges go with their nodes), the refusal to delete a node with
an approval or a workflow with runs, and the check of an edge's ends. Node rows are
numbered (`gen`), so that a row that was replaced under the same id can be told apart.
The repository has no workflow engine; `CreateApproval` is what the tables would let it do.

### The catalog and the payload

One action per request that writes credentials, projects or templates, with what the
foreign keys do. `CreateJob` looks up and inserts in two steps. `TakeJob` to `SendPayload`
is the part of `dispatchOne` that builds a payload, with one step per read. Ciphertext is
the key and the text: it opens under that key only, and a controller may have no key. What
`DispatchOneFails` of the job path stands for is refined here.

## 3. Runs

| Run | Instance | Shows |
|---|---|---|
| `races` | 2 controllers, 1 agent process with 2 ids, 2 requests, 1 job, 2 faults | 527,020 states: `AtMostOneStart`, `ClaimsAreExclusive`, `DispatchErrorNeverRan`, `SuccessWasEarned`, the inductive invariant (`OwnershipInv`, `ResultInv`), `NeverBack`, and `RefinesLifecycle` |
| `batch` | 1 controller, 2 processes, 2 jobs, capacity 1, no faults | 1,690,186 states: `CounterMatchesExecutions`, `OldestFirst` |
| `live` | 2 controllers, 1 process, 1 request, 1 job, 1 fault, `FairSpec` | 53,120 states: `EveryJobFinishes` |
| `log_stream` | 2 lines per pipe, `FairSpec` | 955,162 states: `LinesConserved`, `NothingStranded`, `RowsAreSent`, `EveryLineIsShipped` |
| `scheduler` | 1 controller, 2 schedules, 1 template, a good and a bad spec, 3 requests, 1 restart, `FairSpec` | 320,228 states: `EntriesAreTracked`, `NextRunIsOwn`, `JobsWereScheduled`, `RetiredStopsFiring`, `AcceptedIsRegistered` |
| `gitsync` | 1 controller, 2 repositories, 2 commits with a file at each of 2 paths, 1 push, 2 edits, 1 fault or kill, `FairSpec` | 556,502 states: `RowsAreWhole`, `OkMeansStored`, `InventoryIsKept`, `SyncIsAnswered`, `HeadIsStored` |
| `runner` | all scripts of up to 4 units on 2 pipes, 3 lists of credentials, 3 kinds of clone URL, `FairSpec` | 696,209 states: `SecretsAreRemoved`, `SuccessIsComplete`, `RunReturns` |
| `inventory` | all files of up to 4 lines over 2 hosts, 2 groups and 4 lists of fields | 505,048 states: `ParserIsRight`, `WrittenReadsBack` |
| `workflows` | 2 workflows over the same 2 nodes and 2 edges, 2 slots, 5 requests | 1,002,439 states: `EdgesAreCurrent`, `UpdateTakesEffect`, `ReferencesHold`, `OneDecision` |
| `catalog` | 1 row of each table, 2 secrets, 2 playbooks, 1 controller with or without the key, 6 requests | 507,600 states: `ReferencesExist`, `NothingMissing`, `PayloadIsCoherent` |

Two runs end in a counterexample: they state what the repository says and the code does
not do.

| Run | What happens |
|---|---|
| `claim_TerminalIsFinal` | the controller fails a job whose dispatch was not answered; the agent had received it, runs it, and its late result turns `failed` into `success` (`pkg/types/job.go:43`; `AgentPostResult` writes unconditionally, `jobs.go:190`). Cancellations, which overwrite a terminal status in the same way (`jobs.go:91`), are set aside here |
| `claim_EnabledIsRegistered` | with the six-field cron instance of `Run`, an enabled schedule whose five-field expression passes `register`'s parser is refused by `AddFunc` and never fires (`scheduler.go:45`, against `controller/README.md:146`) |

`EnabledIsRegistered` is what the document promises; it is false of the instance `Run` builds,
and no run claims it. The `scheduler` run has `CronFields = 5`: what it shows is about `sync`
and the callbacks over an instance that takes the expressions `register` accepts, as the
package's tests install one. With the instance of `Run` nothing is ever registered, and
`AcceptedIsRegistered` has nothing to speak of.

### Divergences read from the code

These showed while modelling; the models contain the behaviour, no run is about it alone.

* The capacity check (`agent/internal/server/server.go:96`) is not atomic with the counter:
  two requests can pass it, against `pkg/types/agent.go:41`.
* A restarted agent executes a job claimed for its old id and cannot report it
  (`api/internal/handler/jobs.go:171`, against `agent/README.md:86`).
* A job that runs longer than the dispatch timeout is failed while it runs
  (`reconciler.go:214`: nothing writes `running`).
* Two lines may get one sequence number (`server.go:156`), and `ON CONFLICT DO NOTHING`
  drops one; `Flush` returns before the last flush (`runner.go:255`), so a result may be
  posted before the last lines.
* `ValidTransitions` ("The controller validates every status change against this map") is
  consulted by nobody; a batch goes to one agent while another is idle (`target`);
  `batchSize` of `NewLogBatcher` is ignored, and the buffer has no limit.
* A registered schedule is not registered again (`scheduler.go:89`): a changed expression,
  time zone or variables are seen after a restart only, against `controller/README.md:150`.
  Every controller has a cron instance of its own, so two controllers fire each schedule twice.
* A project whose repository or branch is changed is never cloned again; a killed clone
  leaves a directory in which every fetch fails, as does a lock file left by a killed fetch or
  reset; with an empty branch name every reset fails; one host outside every group makes every
  sync of its project fail; a git command that hangs stops the sync of all projects.
* A file that parses and has no hosts empties the project's inventory, and the sync reports
  `ok` (`controller/internal/store/store.go:301`): `InventoryIsKept` has to name this case.
* A line longer than the scanner's 64 KiB can block the playbook and `Run` for ever; that
  is why `RunReturns` has a premise. After a cancel request the same can be done by a process
  the kill leaves behind. When `Materialize` fails after it has written a secret,
  `Cleanup` is not called and only the removal of the directory takes the secret away.
* `credential.go:81` says of an HTTPS token "nothing to write to disk", but the clone leaves
  it in `repo/.git/config`; if the removal of the job directory fails there, the token stays.
* `AppendJobLogs` inserts a batch line by line without a transaction (`jobs.go:107`): an error
  leaves the first part of it.
* Nothing rejects a cycle, or an edge between nodes of two workflows, in what
  `pkg/types/workflow.go:13` calls a "directed acyclic graph"; two concurrent updates can
  leave the union of their nodes.
* `UpdateJobTemplate` with absent `default_extra_vars` writes `NULL` into a `NOT NULL`
  column and fails, where `CreateJobTemplate` stores an empty object.

### Idealisations

Two concern `OldestFirst` only. Jobs are numbered in the order of their inserts, which is
taken to be that of `created_at`; in Postgres that is the start of the inserting transaction,
and two concurrent inserts may commit the other way round. `SKIP LOCKED` also skips a row that
a concurrent `UPDATE` (a cancellation) holds; the model has that `UPDATE` take effect before or
after the `SELECT`, so a row is skipped only for another controller's `SELECT`.

### Bounds

* `NJobs`: one job is enough for every race about a job, since jobs share only the
  agents' places and the batch; the `batch` run has two for these.
* `AgentIds` bounds how often agents start; two ids give one restart.
* `MaxFaults` bounds database errors and controller crashes together. Two allow an error
  of the claim and one of the revert, or a crash after an error.
* `Slots` bounds concurrent API requests: two allow a cancellation and a result to race.
* `BatchLimit` is 50 in the code; 1 and 2 make batches end and go on.
* `Capacity` 1 makes the limit bite. A capacity of 0 ("unlimited" in `pkg/types/agent.go`)
  is excluded: the API stores 1 for it.
* `MaxLines` 2 per pipe lets a line be captured before, during and after a flush.
* Scheduler: two schedules let an entry, a map key or a `next_run_at` be mistaken for
  another's; three requests create, retire and bring back one, or edit one beside another.
* GitSync: two commits and two inventory paths give four files: one that can be stored, one
  without hosts, one with an ungrouped host and one that is missing; one push during a sync,
  two edits and one fault or kill let each step of a pass be overtaken or fail. One
  controller suffices for the temporal properties; the invariants are proved for any number.
* Runner: four units and `ScanBuffer` 2 allow a line that fits, one that does not, and
  both pipes full at once (a pipe holds one unit). There is no URL
  to clone from, one that is used as it is, or one that a token was put into.
* Inventory: four lines allow a header, a host, another header and the host again.
* Workflows: five requests allow two overlapping updates, a deletion or a run, an approval
  and its decision; the two workflows and the two slots are symmetric.
* Catalog: six requests create the rows a job needs and edit or delete two of them
  between the reads.

Deadlock is checked in the job path (agents beat, controllers tick) and in the scheduler
(its ticker always fires). A log stream, a run, a scan, and the requests of a bounded
behaviour end, so it is not checked there.

## 4. Fairness

`JobDispatch!Fairness` is weak fairness of each controller's loop and of the clock that
makes a dispatched row overdue. The code justifies it: the ticker fires for as long as the
process runs, database calls return, and the HTTP client gives up after 30 seconds, so no
step of the loop waits for ever. Agents, network and API get no fairness: a job must end
without their help. Crashes and errors are finitely many in a behaviour.

`LogStream!FairSpec` is weak fairness of the batcher's goroutine: the ticker fires and
`PostLogs` returns (30 second client timeout). The playbook need not end.

`Scheduler!Fairness` is weak fairness of each `sync` loop and of the callbacks of each
schedule, whose context ends after 30 seconds. That an entry ever fires is not assumed.

`GitSync!FairSpec` is weak fairness of the sync loop of each controller. It assumes that git
commands return; nothing in the code limits them.

`Runner!FairSpec` is weak fairness of `Run`'s goroutine, of each scanner, of the playbook
(which writes and exits whenever it is not blocked), of the kill that `exec` delivers
when the context is cancelled, and of the processes a kill leaves behind, which end
unless a full pipe blocks them. Cancel requests get no fairness.

## 5. Abstract specification

`JobLifecycle` says what a user may rely on: a job is created, claimed at most once for
one agent, started at most once after the claim, and then only shows terminal statuses, of
which `success` requires a start. `RefinesLifecycle` is its safety part under the identity
mapping of `status`, `agentOf`, `starts`, checked by TLC and proved. `EveryJobFinishes` is
its liveness part, checked by TLC. Which terminal status is shown last is not promised;
the code does not keep it (`TerminalIsFinal`).

## 6. Proofs

`JobDispatch_proofs` proves, for any number of jobs, controllers, agent ids, processes,
slots and faults: `TypeCorrect`, `SingleStart`, `ExclusiveClaims`, `DispatchErrorIsClean`,
`EarnedSuccess`, `CounterIsExact`, `RowsNeverGoBack` and `Refinement`. The assumptions are
those of the modules: naturals for the bounds, a positive capacity and batch limit, and
`None` distinct from the other values.

None of these properties is inductive. They follow from `IInv`, the conjunction of
`TypeOK`, `OwnershipInv` and `ResultInv`:

* `OwnershipInv` treats a claim as a token. Before the claim nothing refers to the job
  (`UnclaimedUntouched`); a controller at `send` has neither an exchange nor a start for
  its job (`SendComesFirst`); a job has at most one exchange (`OneExchangePerJob`), which
  while it is open has not been started (`OpenNotStarted`), and at most one execution
  (`OneExecutionPerJob`), whose start is counted (`ExecutionsCounted`). The token moves
  from the controller to the exchange to the execution, and is never copied.
* `ResultInv` follows a result: the agent holds what its run produced, the API slot holds
  a result of the agent the row names, and since a claimed row keeps its agent for ever
  the late write is still that agent's.

The proof has one lemma per group of actions and conjuncts; most actions only *let go* of
a token, which is one lemma (`ControllersLetGo`, `ExchangesLetGo`). `CounterIsExact` adds
that `exec` is finite and uses the cardinality theorems. `Refinement` shows that every
write of a row is a claim or a finish.

`OwnershipIsUnique` and `ResultsAreOwn` state the two parts of the invariant themselves.

`ClaimedInOrder` proves `OldestFirst` for one controller and no faults, any number of jobs
and any batch limit. Both hypotheses are needed: a second controller skips the rows the
first has locked, and a claim whose statement fails leaves its job pending behind the ones
after it. The invariant is `QueueInv`: ids are inserted in order, what is left of a batch
comes before every other pending job (`BatchIsPrefix`), and the job at hand is claimed. All
actions but the insert and the read of a batch can only drain the queue (`StepDrains`).

`LogStream_proofs`, for any number of lines: `NoLineStranded` from `FlushOrder` (each
stage of scanners, `RunReturns`, `Flush`, last flush implies that the one before it is
over); `LinesAreConserved` and `RowsWereSent` from `Conserved`, which adds to the two
properties that no line is twice in buffer and shipped entries, so that lengths add up to
the number of lines added. Finite sequences and cardinalities come from the library.

`Scheduler_proofs`, for any number of controllers, schedules, edits and restarts:
`TrackedEntries`, `OwnNextRun`, `ScheduledJobs`. `IInv` adds where `sync` is to what it has
changed so far (`TrackInv`: ids are fresh, and distinct keys have distinct ids), that every
copy of a definition is one its schedule had while enabled (`GenuineInv`), and that what a
callback has copied from cron can match the map only under its own schedule (`SeenInv`). The
last is what makes the unlocked read harmless: an id is never given twice.

`GitSync_proofs`, for any number of controllers and any files: `WholeInventory`,
`OkIsStored`, `InventoryStays`. The needed strengthening is what a pass knows at each step
(`PassInv`), that a transaction's `DELETE` has seen every row this controller has (`TxInv`),
that the batch committed last is still in the table unless it had no hosts (`LastInv`), and
that "ok" is written after a commit only (`OkInv`). `InventoryStays` takes from `PassInv` that
a commit is of a file that was parsed as a whole.

`Workflows_proofs`, for any number of requests in flight: `CurrentEdges`,
`ReferencesAreKept`, `UpdateIsStored`, `SingleDecision`. `GenInv` numbers the rows,
`LockInv` says that a node whose deletion is under way cannot gain an approval, `AloneInv`
and `EffectInv` follow an undisturbed update through its transactions.

`Catalog_proofs`, for any number of rows and controllers: `ReferencesAreKept`,
`TemplateIsFound`, `CoherentPayload`. `ReadingInv` relates what a controller has read to
the versions the template has had (`rowsOf`): a template with a job cannot be deleted and
never changes its project, which is why nothing can be missing.

`Runner_proofs`, for any credentials and scripts: `NoSecretLeft`, from `FilesInv`: as long
as the deferred calls are still to come every secret file but git's is on their list.
`NothingIsLost` proves `SuccessIsComplete`, from `RunInv`. Its part `OutputInv` says where
every unit the playbook wrote is: a full pipe holds the latest unit of its stream
(`PipeInv`), a scanner holds exactly the line that is open (`PartialInv`), it stops at the
end of file only, when playbook and forked processes are gone (`StopInv`, `WriterGone`), and
every other line that ended is logged. `ChildInv` ties the stages of `Run` to the child:
success implies that the child wrote all and both scanners were waited for. Lines are sets
of positions of the script, so that logged lines are a cardinality.

`Inventory_proofs`, for any file, any finite sets of host names and variables and any
groups: `ParserCorrect`, `WrittenCorrect` and `RoundTrip`, the last stating that the file
the playbook is given means what the project's file means, but for the `ansible_host` of
hosts that had none. `ParseInv` says what `currentGroup` and `skipSection` stand for (the
last header, `HeadInv`) and what the map holds in the middle of a host line (`HostInv`: the
line's fields up to `pos`, and not yet its group). `WriteInv` describes the part of the file
that is written: one line with fields per host (`AllInv`), and under each header the hosts
of that group (`GroupInv`). `CompleteIsMeaning` leads from these descriptions to `Meaning`.

Each of these modules also proves `TypeCorrect`; for `Scheduler`, `GitSync`, `Workflows`,
`Catalog` and `Runner` this replaces a run.
The assumptions are again those of the modules: naturals for bounds, `None` distinct from
the values it is joined with, and the shape of constants that are functions.

Every safety property of the passing runs is a theorem. Only model-checked are the
liveness properties (`EveryJobFinishes`, `EveryLineIsShipped`, `RetiredStopsFiring`,
`AcceptedIsRegistered`, `SyncIsAnswered`, `HeadIsStored`, `RunReturns`): they rest on
fairness, which is out of the prover's reach.

## 7. Not modelled

* `RESTTransport.Cancel`: nothing calls it. `handleCancel` has no caller either; it is an
  event of `Runner`, and does not occur in the job path.
* `SetJobFacts`, `AddJobStatusEvent`: agents send no facts, and the latter has no caller.
* Authentication and users: tokens and passwords are checked per request and keep no state
  a step depends on but the user row; the agent's token is its id in `AgentServer`.
* AES-GCM itself, and the API's `Resolve`, which nothing calls.
* Configuration, start-up and migrations as such: sequential, run once. The constraints
  the migrations create are part of the models.
* Queries that only read rows for display, the router and middleware, the web interface:
  no state machine of their own.
* A workflow engine and WebSocket streaming are described in the documents only.
* Names, descriptions, timestamps and wording everywhere.

## 8. Plan

What is left, in order of use:

1. Compose `Catalog` with the job path: `buildPayload` in place of `DispatchOneFails`.
2. Compose `GitSync` with `Catalog`: the inventory a payload carries against the rows of
   two controllers that sync one project.
3. `Selector` as a fold over the list, against `LeastBusy`.
4. The `scheduler` run with two controllers, once callbacks are reduced to what differs.
5. A second abstract specification, of the register that holds a project's inventory, with
   `GitSync` proved to implement it.
