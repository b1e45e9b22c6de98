----------------------------- MODULE Workflows -----------------------------
(***************************************************************************)
(* The tables behind workflows and approvals and the API requests that     *)
(* write them.  UpdateWorkflow is up to three transactions; the two that   *)
(* replace nodes and edges are two steps each, since what their DELETE     *)
(* sees and locks is fixed before they commit.  Nodes and edges carry ids  *)
(* the client chose.  The engine that would create approvals is not in the *)
(* repository: CreateApproval is what the tables allow it to do.           *)
(*                                                                         *)
(*   at  of a request: "nodes", "nodesTx" before and in the transaction of *)
(*       UpsertWorkflowNodes, "edges", "edgesTx" likewise, "answered" with *)
(*       200, "check" between GetWorkflow and the INSERT of a run          *)
(***************************************************************************)
EXTENDS Naturals, FiniteSets

CONSTANTS WorkflowIds, NodeIds, EdgeIds,
          NodeLists, EdgeLists,   \* what a body may carry; None for an absent field
          ApprovalIds, Reviewers,
          Slots,                  \* requests in flight
          MaxRequests,            \* bound on the requests of a behaviour
          None

NodeRow == [wf : WorkflowIds, gen : Nat]
EdgeBody == [id : EdgeIds, src : NodeIds, dst : NodeIds]
EdgeRow == [wf : WorkflowIds, src : NodeIds, dst : NodeIds, srcGen : Nat, dstGen : Nat]
Decisions == {"approved", "denied"}

ASSUME ListsAssumption ==
  /\ NodeLists \subseteq SUBSET NodeIds
  /\ EdgeLists \subseteq SUBSET EdgeBody
  /\ None \notin NodeLists \cup EdgeLists \cup NodeRow \cup EdgeRow \cup NodeIds

VARIABLES workflows,     \* ids in workflows
          nodes, edges,  \* workflow_nodes and workflow_edges, by primary key
          runs,          \* the workflows with a row in workflow_runs
          gate,          \* approval_requests.node_id
          decision,      \* approval_requests.status
          answers,       \* history: the decisions answered with 204, per approval
          req,           \* per slot: the request, or None
          alone,         \* history: no other request was in flight with it
          gen,           \* history: numbers the node rows
          requests

graphVars == <<workflows, nodes, edges, gen>>
vars == <<graphVars, runs, gate, decision, answers, req, alone, requests>>

Request == [op : {"update"}, at : {"nodes", "nodesTx", "edges", "edgesTx", "answered"},
            wf : WorkflowIds, nodes : NodeLists \cup {None}, edges : EdgeLists \cup {None},
            seen : SUBSET Nat, old : SUBSET EdgeIds]
           \cup [op : {"run"}, at : {"check"}, wf : WorkflowIds]

ASSUME RequestAssumption == None \notin Request

TypeOK ==
  /\ workflows \subseteq WorkflowIds /\ runs \subseteq WorkflowIds
  /\ nodes \in [NodeIds -> NodeRow \cup {None}]
  /\ edges \in [EdgeIds -> EdgeRow \cup {None}]
  /\ gate \in [ApprovalIds -> NodeIds \cup {None}]
  /\ decision \in [ApprovalIds -> Decisions \cup {"pending"}]
  /\ answers \in [ApprovalIds -> SUBSET (Reviewers \X Decisions)]
  /\ req \in [Slots -> Request \cup {None}]
  /\ alone \in [Slots -> BOOLEAN]
  /\ gen \in Nat /\ requests \in Nat

Init ==
  /\ workflows = {} /\ runs = {}
  /\ nodes = [n \in NodeIds |-> None]
  /\ edges = [e \in EdgeIds |-> None]
  /\ gate = [a \in ApprovalIds |-> None]
  /\ decision = [a \in ApprovalIds |-> "pending"]
  /\ answers = [a \in ApprovalIds |-> {}]
  /\ req = [q \in Slots |-> None]
  /\ alone = [q \in Slots |-> TRUE]
  /\ gen = 0 /\ requests = 0

-----------------------------------------------------------------------------
NodesOf(w) == {n \in NodeIds : nodes[n] # None /\ nodes[n].wf = w}
EdgesOf(w) == {e \in EdgeIds : edges[e] # None /\ edges[e].wf = w}
Gated(n) == \E a \in ApprovalIds : gate[a] = n

\* Mutant: the source column alone cascades.
CascadeSource(gone) ==
  [e \in EdgeIds |-> IF edges[e] # None /\ edges[e].src \in gone THEN None ELSE edges[e]]

\* ON DELETE CASCADE: the edges that are left when the rows of gone are deleted.
Cascade(gone) ==
  [e \in EdgeIds |->
     IF edges[e] # None /\ (edges[e].src \in gone \/ edges[e].dst \in gone)
     THEN None ELSE edges[e]]

\* Rows the transaction of a request has deleted stay locked until it ends.
Locked(n) == \E q \in Slots :
  /\ req[q] # None /\ req[q].at = "nodesTx"
  /\ nodes[n] # None /\ nodes[n].gen \in req[q].seen

Request1 == requests < MaxRequests /\ requests' = requests + 1

\* A request of several steps enters a slot; whoever is in flight is not alone any more.
Enter(q, r) ==
  /\ Request1
  /\ req[q] = None /\ req' = [req EXCEPT ![q] = r]
  /\ LET busy == {p \in Slots \ {q} : req[p] # None}
     IN alone' = [p \in Slots |-> IF p = q THEN busy = {} ELSE alone[p] /\ p \notin busy]

\* A request of one statement.
Statement == Request1 /\ UNCHANGED req /\ alone' = [q \in Slots |-> alone[q] /\ req[q] = None]

CreateWorkflow(w) ==
  /\ Statement
  /\ w \notin workflows /\ workflows' = workflows \cup {w}
  /\ UNCHANGED <<nodes, edges, gen, runs, gate, decision, answers>>

\* Mutant: the foreign keys of runs and approvals are not looked at.
DeleteWorkflowForced(w) ==
  /\ Statement
  /\ w \in workflows
  /\ workflows' = workflows \ {w}
  /\ nodes' = [n \in NodeIds |-> IF n \in NodesOf(w) THEN None ELSE nodes[n]]
  /\ edges' = [e \in EdgeIds |-> IF e \in EdgesOf(w) THEN None ELSE Cascade(NodesOf(w))[e]]
  /\ UNCHANGED <<gen, runs, gate, decision, answers>>

\* workflow_runs and approval_requests hold on to what they refer to.
DeleteWorkflow(w) ==
  /\ Statement
  /\ w \in workflows \ runs /\ \A n \in NodesOf(w) : ~Gated(n) /\ ~Locked(n)
  /\ workflows' = workflows \ {w}
  /\ nodes' = [n \in NodeIds |-> IF n \in NodesOf(w) THEN None ELSE nodes[n]]
  /\ edges' = [e \in EdgeIds |-> IF e \in EdgesOf(w) THEN None ELSE Cascade(NodesOf(w))[e]]
  /\ UNCHANGED <<gen, runs, gate, decision, answers>>

-----------------------------------------------------------------------------
(* UpdateWorkflow.  The UPDATE of name and description has found the row. *)

UpdateWorkflow(q, w, ns, es) ==
  /\ w \in workflows
  /\ Enter(q, [op |-> "update", at |-> "nodes", wf |-> w, nodes |-> ns, edges |-> es,
               seen |-> {}, old |-> {}])
  /\ UNCHANGED <<graphVars, runs, gate, decision, answers>>

Move(q, at) == req' = [req EXCEPT ![q].at = at]

\* A nil list is left alone, and its transaction not started.
SkipNodes(q) == req[q].at = "nodes" /\ req[q].nodes = None /\ Move(q, "edges") /\ UNCHANGED graphVars
SkipEdges(q) == req[q].at = "edges" /\ req[q].edges = None /\ Move(q, "answered") /\ UNCHANGED graphVars

DeleteNodes(q) ==
  /\ req[q].at = "nodes" /\ req[q].nodes # None
  /\ \A n \in NodesOf(req[q].wf) : ~Gated(n)
  /\ req' = [req EXCEPT ![q].at = "nodesTx",
                        ![q].seen = {nodes[n].gen : n \in NodesOf(req[q].wf)}]
  /\ UNCHANGED graphVars

\* The rows the DELETE saw go, with the edges at them; a row that came since with one of
\* the new ids is a duplicate key.
InsertNodes(q) ==
  /\ req[q].at = "nodesTx" /\ req[q].wf \in workflows
  /\ LET gone == {n \in NodesOf(req[q].wf) : nodes[n].gen \in req[q].seen}
     IN /\ \A n \in req[q].nodes : nodes[n] = None \/ n \in gone
        /\ nodes' = [n \in NodeIds |->
             CASE n \in req[q].nodes -> [wf |-> req[q].wf, gen |-> gen + 1]
               [] n \in gone \ req[q].nodes -> None
               [] OTHER -> nodes[n]]
        /\ edges' = Cascade(gone)
  /\ gen' = gen + 1
  /\ Move(q, "edges")
  /\ UNCHANGED workflows

DeleteEdges(q) ==
  /\ req[q].at = "edges" /\ req[q].edges # None
  /\ req' = [req EXCEPT ![q].at = "edgesTx", ![q].old = EdgesOf(req[q].wf)]
  /\ UNCHANGED graphVars

\* Mutant: edges are added to the ones there are.
InsertEdgesOnly(q) ==
  /\ req[q].at = "edgesTx" /\ req[q].wf \in workflows
  /\ \A b \in req[q].edges : nodes[b.src] # None /\ nodes[b.dst] # None
  /\ edges' = [e \in EdgeIds |->
       IF \E b \in req[q].edges : b.id = e
       THEN LET b == CHOOSE b \in req[q].edges : b.id = e
            IN [wf |-> req[q].wf, src |-> b.src, dst |-> b.dst,
                srcGen |-> nodes[b.src].gen, dstGen |-> nodes[b.dst].gen]
       ELSE edges[e]]
  /\ Move(q, "answered")
  /\ UNCHANGED <<workflows, nodes, gen>>

\* The foreign keys ask for existing nodes, not for nodes of this workflow.
InsertEdges(q) ==
  /\ req[q].at = "edgesTx" /\ req[q].wf \in workflows
  /\ \A b \in req[q].edges :
       /\ nodes[b.src] # None /\ nodes[b.dst] # None /\ ~Locked(b.src) /\ ~Locked(b.dst)
       /\ edges[b.id] = None \/ b.id \in req[q].old
  /\ edges' = [e \in EdgeIds |->
       IF \E b \in req[q].edges : b.id = e
       THEN LET b == CHOOSE b \in req[q].edges : b.id = e
            IN [wf |-> req[q].wf, src |-> b.src, dst |-> b.dst,
                srcGen |-> nodes[b.src].gen, dstGen |-> nodes[b.dst].gen]
       ELSE IF e \in req[q].old THEN None ELSE edges[e]]
  /\ Move(q, "answered")
  /\ UNCHANGED <<workflows, nodes, gen>>

\* A statement fails; what the earlier transactions committed stays.
UpdateFails(q) ==
  /\ req[q].at \in {"nodes", "nodesTx", "edges", "edgesTx"}
  /\ req' = [req EXCEPT ![q] = None]
  /\ UNCHANGED graphVars

Respond(q) ==
  /\ req[q].at = "answered"
  /\ req' = [req EXCEPT ![q] = None]
  /\ UNCHANGED graphVars

UpdateStep(q) ==
  /\ req[q] # None /\ req[q].op = "update"
  /\ \/ SkipNodes(q) \/ SkipEdges(q) \/ DeleteNodes(q) \/ InsertNodes(q) \/ DeleteEdges(q)
     \/ InsertEdges(q) \/ UpdateFails(q) \/ Respond(q)
  /\ UNCHANGED <<runs, gate, decision, answers, alone, requests>>

-----------------------------------------------------------------------------
(* Runs and approvals. *)

RunWorkflow(q, w) ==
  /\ w \in workflows
  /\ Enter(q, [op |-> "run", at |-> "check", wf |-> w])
  /\ UNCHANGED <<graphVars, runs, gate, decision, answers>>

\* The workflow may have been deleted since GetWorkflow.
CreateWorkflowRun(q) ==
  /\ req[q] # None /\ req[q].op = "run"
  /\ runs' = IF req[q].wf \in workflows THEN runs \cup {req[q].wf} ELSE runs
  /\ req' = [req EXCEPT ![q] = None]
  /\ UNCHANGED <<graphVars, gate, decision, answers, alone, requests>>

CreateApproval(a, n) ==
  /\ gate[a] = None
  /\ nodes[n] # None /\ nodes[n].wf \in runs /\ ~Locked(n)
  /\ gate' = [gate EXCEPT ![a] = n]
  /\ UNCHANGED <<graphVars, runs, decision, answers, req, alone, requests>>

\* Mutant: the UPDATE does not ask for a pending row.
ResolveApprovalBlind(a, who, d) ==
  /\ Statement
  /\ gate[a] # None
  /\ decision' = [decision EXCEPT ![a] = d]
  /\ answers' = [answers EXCEPT ![a] = @ \cup {<<who, d>>}]
  /\ UNCHANGED <<graphVars, runs, gate>>

ResolveApproval(a, who, d) ==
  /\ Statement
  /\ gate[a] # None /\ decision[a] = "pending"
  /\ decision' = [decision EXCEPT ![a] = d]
  /\ answers' = [answers EXCEPT ![a] = @ \cup {<<who, d>>}]
  /\ UNCHANGED <<graphVars, runs, gate>>

Next ==
  \/ \E w \in WorkflowIds : CreateWorkflow(w) \/ DeleteWorkflow(w)
  \/ \E q \in Slots, w \in WorkflowIds :
       \/ RunWorkflow(q, w)
       \/ \E ns \in NodeLists \cup {None}, es \in EdgeLists \cup {None} : UpdateWorkflow(q, w, ns, es)
  \/ \E q \in Slots : UpdateStep(q) \/ CreateWorkflowRun(q)
  \/ \E a \in ApprovalIds, n \in NodeIds : CreateApproval(a, n)
  \/ \E a \in ApprovalIds, who \in Reviewers, d \in Decisions : ResolveApproval(a, who, d)

Spec == Init /\ [][Next]_vars

-----------------------------------------------------------------------------
(* Properties. *)

\* An edge joins the very node rows it was stored with: however updates of two workflows
\* interleave or fail half-way, replacing nodes takes their edges along, even when the
\* client sends the same ids again, and no edge is left without an end.
EdgesAreCurrent ==
  \A e \in EdgeIds : edges[e] # None =>
    /\ edges[e].wf \in workflows
    /\ nodes[edges[e].src] # None /\ nodes[edges[e].src].gen = edges[e].srcGen
    /\ nodes[edges[e].dst] # None /\ nodes[edges[e].dst].gen = edges[e].dstGen

\* An update that is answered with 200 and met no other request has stored what it was
\* sent: the workflow has these nodes, and these edges, and no others.
UpdateTakesEffect ==
  \A q \in Slots : req[q] # None /\ req[q].at = "answered" /\ alone[q] =>
    /\ req[q].nodes # None => NodesOf(req[q].wf) = req[q].nodes
    /\ req[q].edges # None => EdgesOf(req[q].wf) = {b.id : b \in req[q].edges}

\* What a run or an approval refers to outlives every update and delete: the workflow of a
\* run, although RunWorkflow reads it before it inserts, and the node of an approval.
ReferencesHold ==
  /\ runs \subseteq workflows
  /\ \A a \in ApprovalIds : gate[a] # None => nodes[gate[a]] # None
  /\ \A n \in NodeIds : nodes[n] # None => nodes[n].wf \in workflows

\* Of two reviewers who answer the same approval one decides and the other is told it is
\* gone: at most one decision is acknowledged, and it is the one that stands.
OneDecision ==
  \A a \in ApprovalIds :
    /\ \A x, y \in answers[a] : x = y
    /\ \A x \in answers[a] : decision[a] = x[2]

=============================================================================
