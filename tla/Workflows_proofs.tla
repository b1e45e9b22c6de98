-------------------------- MODULE Workflows_proofs --------------------------
(***************************************************************************)
(* What the workflow tables keep for any number of workflows, nodes, edges *)
(* and requests in flight.  An update deletes the rows it saw and another  *)
(* may have replaced them since: node rows are numbered, and a number that *)
(* a DELETE saw is never given again (GenInv).                             *)
(***************************************************************************)
EXTENDS Workflows, TLAPS

InFlight(q, op) == req[q] # None /\ req[q].op = op

\* A transaction is begun only for a list that was sent.
BodyInv ==
  \A q \in Slots : InFlight(q, "update") =>
    /\ req[q].at = "nodesTx" => req[q].nodes # None
    /\ req[q].at = "edgesTx" => req[q].edges # None

\* Node rows are numbered in the order they come; no DELETE has seen a number to come.
GenInv ==
  /\ \A n \in NodeIds : nodes[n] # None => nodes[n].gen <= gen
  /\ \A q \in Slots : InFlight(q, "update") => \A g \in req[q].seen : g <= gen

\* A row that a transaction has deleted gets no approval before the transaction ends.
LockInv ==
  \A q \in Slots : req[q] # None /\ req[q].at = "nodesTx" =>
    \A n \in NodesOf(req[q].wf) : nodes[n].gen \in req[q].seen => ~Gated(n)

\* Who has met no other request is the only one in flight ...
AloneInv ==
  \A q \in Slots : req[q] # None /\ alone[q] => \A p \in Slots \ {q} : req[p] = None

\* ... so what its transactions saw is what is there, and what they stored stays.
EffectInv ==
  \A q \in Slots : InFlight(q, "update") /\ alone[q] =>
    /\ req[q].at = "nodesTx" => req[q].seen = {nodes[n].gen : n \in NodesOf(req[q].wf)}
    /\ req[q].at \in {"edges", "edgesTx", "answered"} /\ req[q].nodes # None =>
         NodesOf(req[q].wf) = req[q].nodes
    /\ req[q].at = "edgesTx" => req[q].old = EdgesOf(req[q].wf)
    /\ req[q].at = "answered" /\ req[q].edges # None =>
         EdgesOf(req[q].wf) = {b.id : b \in req[q].edges}

\* What is pending has not been answered.
AnswerInv == OneDecision /\ \A a \in ApprovalIds : decision[a] = "pending" => answers[a] = {}

GraphInv == BodyInv /\ GenInv /\ LockInv /\ ReferencesHold /\ EdgesAreCurrent

IInv == TypeOK /\ GraphInv /\ AloneInv /\ EffectInv /\ AnswerInv

-----------------------------------------------------------------------------
\* A request in flight is a well-formed request.
LEMMA UpdateRequest ==
  ASSUME TypeOK, NEW q \in Slots, InFlight(q, "update")
  PROVE  /\ req[q].wf \in WorkflowIds
         /\ req[q].at \in {"nodes", "nodesTx", "edges", "edgesTx", "answered"}
         /\ req[q].nodes \in NodeLists \cup {None} /\ req[q].edges \in EdgeLists \cup {None}
         /\ req[q].seen \subseteq Nat /\ req[q].old \subseteq EdgeIds
         /\ req[q] \in [op : {"update"}, at : {"nodes", "nodesTx", "edges", "edgesTx", "answered"},
                        wf : WorkflowIds, nodes : NodeLists \cup {None},
                        edges : EdgeLists \cup {None}, seen : SUBSET Nat, old : SUBSET EdgeIds]
<1>1. req[q] \in Request
  BY RequestAssumption DEF TypeOK, InFlight
<1>2. req[q] \notin [op : {"run"}, at : {"check"}, wf : WorkflowIds]
  BY DEF InFlight
<1> QED BY <1>1, <1>2 DEF Request

\* Moving a request to another place keeps it well-formed.
LEMMA MoveType ==
  ASSUME TypeOK, NEW q \in Slots, InFlight(q, "update"),
         NEW at \in {"nodes", "nodesTx", "edges", "edgesTx", "answered"},
         NEW seen \in SUBSET Nat, NEW old \in SUBSET EdgeIds
  PROVE  /\ [req[q] EXCEPT !.at = at] \in Request
         /\ [req[q] EXCEPT !.at = at, !.seen = seen] \in Request
         /\ [req[q] EXCEPT !.at = at, !.old = old] \in Request
  BY UpdateRequest DEF Request

\* What InsertEdges stores: the bodies it was sent, at the node rows there are.
LEMMA EdgeStored ==
  ASSUME TypeOK, BodyInv, NEW q \in Slots, InFlight(q, "update"), InsertEdges(q)
  PROVE  /\ edges' \in [EdgeIds -> EdgeRow \cup {None}]
         /\ \A e \in EdgeIds :
            \/ \E b \in req[q].edges :
                 /\ b \in EdgeBody /\ b.id = e /\ req[q].edges # None
                 /\ nodes[b.src] # None /\ nodes[b.dst] # None
                 /\ edges'[e] = [wf |-> req[q].wf, src |-> b.src, dst |-> b.dst,
                                 srcGen |-> nodes[b.src].gen, dstGen |-> nodes[b.dst].gen]
            \/ /\ ~\E b \in req[q].edges : b.id = e
               /\ edges'[e] = IF e \in req[q].old THEN None ELSE edges[e]
<1> DEFINE row(b) == [wf |-> req[q].wf, src |-> b.src, dst |-> b.dst,
                      srcGen |-> nodes[b.src].gen, dstGen |-> nodes[b.dst].gen]
           body(e) == CHOOSE b \in req[q].edges : b.id = e
<1>1. req[q].edges \in SUBSET EdgeBody /\ req[q].edges # None /\ req[q].wf \in WorkflowIds
  BY UpdateRequest, ListsAssumption DEF BodyInv, InsertEdges
<1>2. \A b \in req[q].edges : row(b) \in EdgeRow /\ nodes[b.src] # None /\ nodes[b.dst] # None
  <2> SUFFICES ASSUME NEW b \in req[q].edges
               PROVE  row(b) \in EdgeRow /\ nodes[b.src] # None /\ nodes[b.dst] # None
    OBVIOUS
  <2>1. nodes[b.src] # None /\ nodes[b.dst] # None
    BY DEF InsertEdges
  <2>2. b.src \in NodeIds /\ b.dst \in NodeIds
    BY <1>1 DEF EdgeBody
  <2>3. nodes[b.src] \in NodeRow /\ nodes[b.dst] \in NodeRow
    BY <2>1, <2>2 DEF TypeOK
  <2> QED BY <1>1, <2>1, <2>2, <2>3 DEF EdgeRow, NodeRow
<1>3. edges' = [e \in EdgeIds |-> IF \E b \in req[q].edges : b.id = e THEN row(body(e))
                                 ELSE IF e \in req[q].old THEN None ELSE edges[e]]
  BY DEF InsertEdges
<1>4. \A e \in EdgeIds : (\E b \in req[q].edges : b.id = e) =>
        body(e) \in req[q].edges /\ body(e).id = e
  OBVIOUS
<1> HIDE DEF body
<1>5. edges' \in [EdgeIds -> EdgeRow \cup {None}]
  BY <1>2, <1>3, <1>4 DEF TypeOK
<1> QED BY <1>1, <1>2, <1>3, <1>4, <1>5

\* Every step of an update keeps the types.
LEMMA UpdateType ==
  ASSUME TypeOK, BodyInv, NEW q \in Slots, UpdateStep(q)
  PROVE  TypeOK'
<1>1. InFlight(q, "update")
  BY DEF UpdateStep, InFlight
<1>2. UNCHANGED <<runs, gate, decision, answers, alone, requests>>
  BY DEF UpdateStep
<1> SUFFICES /\ workflows' \subseteq WorkflowIds /\ gen' \in Nat
             /\ nodes' \in [NodeIds -> NodeRow \cup {None}]
             /\ edges' \in [EdgeIds -> EdgeRow \cup {None}]
             /\ req' \in [Slots -> Request \cup {None}]
  BY <1>2 DEF TypeOK
<1>3. CASE SkipNodes(q) \/ SkipEdges(q)
  <2>1. UNCHANGED graphVars
    BY <1>3 DEF SkipNodes, SkipEdges
  <2>2. PICK at \in {"edges", "answered"} : req' = [req EXCEPT ![q] = [req[q] EXCEPT !.at = at]]
    BY <1>3 DEF SkipNodes, SkipEdges, Move
  <2> QED BY <2>1, <2>2, <1>1, MoveType DEF TypeOK, graphVars
<1>4. CASE DeleteNodes(q)
  <2> DEFINE seen == {nodes[n].gen : n \in NodesOf(req[q].wf)}
  <2>1. seen \in SUBSET Nat
    BY DEF NodesOf, TypeOK, NodeRow
  <2>2. req' = [req EXCEPT ![q] = [req[q] EXCEPT !.at = "nodesTx", !.seen = seen]]
    BY <1>4 DEF DeleteNodes
  <2>3. [req[q] EXCEPT !.at = "nodesTx", !.seen = seen] \in Request
    BY <2>1, <1>1, MoveType
  <2>4. req' \in [Slots -> Request \cup {None}]
    BY <2>2, <2>3 DEF TypeOK
  <2>5. UNCHANGED graphVars
    BY <1>4 DEF DeleteNodes
  <2> QED BY <2>4, <2>5 DEF TypeOK, graphVars
<1>5. CASE DeleteEdges(q)
  <2> DEFINE old == EdgesOf(req[q].wf)
  <2>1. old \in SUBSET EdgeIds
    BY DEF EdgesOf
  <2>2. req' = [req EXCEPT ![q] = [req[q] EXCEPT !.at = "edgesTx", !.old = old]]
    BY <1>5 DEF DeleteEdges
  <2>3. [req[q] EXCEPT !.at = "edgesTx", !.old = old] \in Request
    BY <2>1, <1>1, MoveType
  <2>4. req' \in [Slots -> Request \cup {None}]
    BY <2>2, <2>3 DEF TypeOK
  <2>5. UNCHANGED graphVars
    BY <1>5 DEF DeleteEdges
  <2> QED BY <2>4, <2>5 DEF TypeOK, graphVars
<1>6. CASE InsertNodes(q)
  <2>1. req' = [req EXCEPT ![q] = [req[q] EXCEPT !.at = "edges"]]
    BY <1>6 DEF InsertNodes, Move
  <2>2. req' \in [Slots -> Request \cup {None}]
    BY <2>1, <1>1, MoveType DEF TypeOK
  <2>3. PICK gone \in SUBSET NodeIds :
          /\ nodes' = [n \in NodeIds |->
               CASE n \in req[q].nodes -> [wf |-> req[q].wf, gen |-> gen + 1]
                 [] n \in gone \ req[q].nodes -> None
                 [] OTHER -> nodes[n]]
          /\ edges' = Cascade(gone)
    BY <1>6 DEF InsertNodes, NodesOf
  <2>4. [wf |-> req[q].wf, gen |-> gen + 1] \in NodeRow
    BY <1>1, UpdateRequest DEF NodeRow, TypeOK
  <2>5. nodes' \in [NodeIds -> NodeRow \cup {None}]
    BY <2>3, <2>4 DEF TypeOK
  <2>6. edges' \in [EdgeIds -> EdgeRow \cup {None}]
    BY <2>3 DEF TypeOK, Cascade
  <2> QED BY <1>6, <2>2, <2>5, <2>6 DEF InsertNodes, TypeOK
<1>7. CASE InsertEdges(q)
  <2>1. req' = [req EXCEPT ![q] = [req[q] EXCEPT !.at = "answered"]]
    BY <1>7 DEF InsertEdges, Move
  <2>2. req' \in [Slots -> Request \cup {None}]
    BY <2>1, <1>1, MoveType DEF TypeOK
  <2>3. edges' \in [EdgeIds -> EdgeRow \cup {None}]
    BY <1>7, <1>1, EdgeStored DEF InsertEdges, TypeOK
  <2> QED BY <1>7, <2>2, <2>3 DEF InsertEdges, TypeOK
<1>8. CASE UpdateFails(q) \/ Respond(q)
  BY <1>8 DEF UpdateFails, Respond, TypeOK, graphVars
<1> QED BY <1>3, <1>4, <1>5, <1>6, <1>7, <1>8 DEF UpdateStep

\* A request that enters is well-formed.
LEMMA EnterType ==
  ASSUME TypeOK, NEW q \in Slots, NEW r \in Request, Enter(q, r)
  PROVE  /\ req' \in [Slots -> Request \cup {None}] /\ alone' \in [Slots -> BOOLEAN]
         /\ requests' \in Nat
<1>1. req' \in [Slots -> Request \cup {None}] /\ requests' \in Nat
  BY DEF Enter, Request1, TypeOK
<1>2. alone' \in [Slots -> BOOLEAN]
  BY ZenonT(30) DEF Enter, TypeOK
<1> QED BY <1>1, <1>2

\* So does a request of one statement.
LEMMA StatementType ==
  ASSUME TypeOK, Statement
  PROVE  req' = req /\ alone' \in [Slots -> BOOLEAN] /\ requests' \in Nat
<1>1. req' = req /\ requests' \in Nat
  BY DEF Statement, Request1, TypeOK
<1>2. alone' \in [Slots -> BOOLEAN]
  BY ZenonT(30) DEF Statement, TypeOK
<1> QED BY <1>1, <1>2

\* Every step keeps the types.
LEMMA TypeStep ==
  ASSUME TypeOK, BodyInv, [Next]_vars
  PROVE  TypeOK'
<1>1. ASSUME NEW w \in WorkflowIds, CreateWorkflow(w)
      PROVE  TypeOK'
  BY <1>1, StatementType DEF CreateWorkflow, TypeOK
<1>2. ASSUME NEW w \in WorkflowIds, DeleteWorkflow(w)
      PROVE  TypeOK'
  <2>1. nodes' \in [NodeIds -> NodeRow \cup {None}]
    BY <1>2 DEF DeleteWorkflow, TypeOK
  <2>2. edges' \in [EdgeIds -> EdgeRow \cup {None}]
    BY <1>2 DEF DeleteWorkflow, Cascade, TypeOK
  <2> QED BY <1>2, <2>1, <2>2, StatementType DEF DeleteWorkflow, TypeOK
<1>3. ASSUME NEW q \in Slots, NEW w \in WorkflowIds, RunWorkflow(q, w)
      PROVE  TypeOK'
  <2>1. [op |-> "run", at |-> "check", wf |-> w] \in Request
    BY DEF Request
  <2> QED BY <1>3, <2>1, EnterType DEF RunWorkflow, TypeOK, graphVars
<1>4. ASSUME NEW q \in Slots, NEW w \in WorkflowIds,
             NEW ns \in NodeLists \cup {None}, NEW es \in EdgeLists \cup {None},
             UpdateWorkflow(q, w, ns, es)
      PROVE  TypeOK'
  <2>1. [op |-> "update", at |-> "nodes", wf |-> w, nodes |-> ns, edges |-> es,
         seen |-> {}, old |-> {}] \in Request
    BY DEF Request
  <2> QED BY <1>4, <2>1, EnterType DEF UpdateWorkflow, TypeOK, graphVars
<1>5. ASSUME NEW q \in Slots, UpdateStep(q)
      PROVE  TypeOK'
  BY <1>5, UpdateType
<1>6. ASSUME NEW q \in Slots, CreateWorkflowRun(q)
      PROVE  TypeOK'
  <2>1. req[q] \in Request /\ req[q].op = "run"
    BY <1>6 DEF CreateWorkflowRun, TypeOK
  <2>2. req[q].wf \in WorkflowIds
    BY <2>1 DEF Request
  <2> QED BY <1>6, <2>2 DEF CreateWorkflowRun, TypeOK, graphVars
<1>7. ASSUME NEW a \in ApprovalIds, NEW n \in NodeIds, CreateApproval(a, n)
      PROVE  TypeOK'
  BY <1>7 DEF CreateApproval, TypeOK, graphVars
<1>8. ASSUME NEW a \in ApprovalIds, NEW who \in Reviewers, NEW d \in Decisions,
             ResolveApproval(a, who, d)
      PROVE  TypeOK'
  <2>1. answers' \in [ApprovalIds -> SUBSET (Reviewers \X Decisions)]
    BY <1>8 DEF ResolveApproval, TypeOK
  <2> QED BY <1>8, <2>1, StatementType DEF ResolveApproval, TypeOK, graphVars
<1>9. ASSUME UNCHANGED vars
      PROVE  TypeOK'
  BY <1>9 DEF vars, graphVars, TypeOK
<1> QED BY <1>1, <1>2, <1>3, <1>4, <1>5, <1>6, <1>7, <1>8, <1>9 DEF Next

-----------------------------------------------------------------------------
\* A request enters, or a run's request leaves: nothing is in a transaction that was not.
LEMMA EnterGraph ==
  ASSUME TypeOK, GraphInv, NEW q \in Slots, UNCHANGED <<graphVars, gate>>,
         \/ runs' = runs
         \/ runs' = runs \cup {req[q].wf} /\ req[q].wf \in workflows,
         \/ req' = [req EXCEPT ![q] = None]
         \/ \E w \in WorkflowIds : req' = [req EXCEPT ![q] = [op |-> "run", at |-> "check", wf |-> w]]
         \/ \E w \in WorkflowIds, ns \in NodeLists \cup {None}, es \in EdgeLists \cup {None} :
              req' = [req EXCEPT ![q] = [op |-> "update", at |-> "nodes", wf |-> w, nodes |-> ns,
                                         edges |-> es, seen |-> {}, old |-> {}]]
  PROVE  GraphInv'
<1>1. \A p \in Slots : \/ req'[p] = req[p]
                       \/ req'[p] = None
                       \/ req'[p].op = "run" /\ req'[p].at = "check"
                       \/ req'[p].op = "update" /\ req'[p].at = "nodes" /\ req'[p].seen = {}
  BY DEF TypeOK
<1>2. BodyInv'
  BY <1>1 DEF GraphInv, BodyInv, InFlight
<1>3. GenInv'
  BY <1>1 DEF GraphInv, GenInv, InFlight, graphVars
<1>4. LockInv'
  BY <1>1 DEF GraphInv, LockInv, NodesOf, Gated, graphVars
<1>5. ReferencesHold' /\ EdgesAreCurrent'
  BY DEF GraphInv, ReferencesHold, EdgesAreCurrent, graphVars
<1> QED BY <1>2, <1>3, <1>4, <1>5 DEF GraphInv

\* A deleted workflow takes its nodes, their edges and its own edges along.
LEMMA DeleteWorkflowGraph ==
  ASSUME TypeOK, GraphInv, NEW w \in WorkflowIds, DeleteWorkflow(w)
  PROVE  GraphInv'
<1>1. /\ UNCHANGED <<gen, runs, gate, req>>
      /\ w \notin runs /\ workflows' = workflows \ {w}
      /\ \A n \in NodesOf(w) : ~Gated(n)
  BY DEF DeleteWorkflow, Statement
<1>2. /\ \A n \in NodeIds : nodes'[n] = IF n \in NodesOf(w) THEN None ELSE nodes[n]
      /\ \A e \in EdgeIds : edges'[e] = IF e \in EdgesOf(w) THEN None ELSE Cascade(NodesOf(w))[e]
  BY DEF DeleteWorkflow, TypeOK
<1>3. \A e \in EdgeIds : edges'[e] # None =>
        /\ edges'[e] = edges[e] /\ edges[e] \in EdgeRow /\ edges[e].wf # w
        /\ edges[e].src \notin NodesOf(w) /\ edges[e].dst \notin NodesOf(w)
  BY <1>2 DEF Cascade, EdgesOf, TypeOK
<1>4. BodyInv' /\ GenInv'
  BY <1>1, <1>2 DEF GraphInv, BodyInv, GenInv, InFlight
<1>5. LockInv'
  BY <1>1, <1>2 DEF GraphInv, LockInv, NodesOf, Gated
<1>6. ReferencesHold'
  BY <1>1, <1>2 DEF GraphInv, ReferencesHold, NodesOf, Gated, TypeOK
<1>7. EdgesAreCurrent'
  <2> SUFFICES ASSUME NEW e \in EdgeIds, edges'[e] # None
               PROVE  /\ edges[e].wf \in workflows'
                      /\ nodes'[edges[e].src] # None /\ nodes'[edges[e].src].gen = edges[e].srcGen
                      /\ nodes'[edges[e].dst] # None /\ nodes'[edges[e].dst].gen = edges[e].dstGen
    BY <1>3 DEF EdgesAreCurrent
  <2>1. edges[e].src \in NodeIds /\ edges[e].dst \in NodeIds /\ edges[e] # None
    BY <1>3 DEF EdgeRow
  <2> QED BY <1>1, <1>2, <1>3, <2>1 DEF GraphInv, EdgesAreCurrent
<1> QED BY <1>4, <1>5, <1>6, <1>7 DEF GraphInv

\* The rows InsertNodes takes away are the locked ones, which nothing but edges refers to;
\* the ones it brings have a number of their own.
LEMMA InsertNodesGraph ==
  ASSUME TypeOK, GraphInv, NEW q \in Slots, InFlight(q, "update"), InsertNodes(q),
         UNCHANGED <<runs, gate>>
  PROVE  GraphInv'
<1> DEFINE r == req[q]
           gone == {n \in NodesOf(r.wf) : nodes[n].gen \in r.seen}
<1>1. /\ r.at = "nodesTx" /\ r.wf \in workflows /\ gen' = gen + 1 /\ workflows' = workflows
      /\ \A n \in r.nodes : nodes[n] = None \/ n \in gone
      /\ nodes' = [n \in NodeIds |-> CASE n \in r.nodes -> [wf |-> r.wf, gen |-> gen + 1]
                                       [] n \in gone \ r.nodes -> None
                                       [] OTHER -> nodes[n]]
      /\ edges' = Cascade(gone)
      /\ req' = [req EXCEPT ![q] = [r EXCEPT !.at = "edges"]]
  BY DEF InsertNodes, Move
<1>2. r.nodes \in SUBSET NodeIds
  BY <1>1, UpdateRequest, ListsAssumption DEF GraphInv, BodyInv
<1>3. \A n \in gone : ~Gated(n)
  BY <1>1 DEF GraphInv, LockInv, InFlight
<1>4. \A n \in NodeIds : \/ n \in r.nodes /\ nodes'[n] = [wf |-> r.wf, gen |-> gen + 1]
                         \/ n \in gone \ r.nodes /\ nodes'[n] = None
                         \/ n \notin gone /\ n \notin r.nodes /\ nodes'[n] = nodes[n]
  BY <1>1
<1>5. \A e \in EdgeIds : edges'[e] # None =>
        /\ edges'[e] = edges[e] /\ edges[e] \in EdgeRow
        /\ edges[e].src \notin gone /\ edges[e].dst \notin gone
  BY <1>1 DEF Cascade, TypeOK
<1>6. \A p \in Slots : p # q => req'[p] = req[p]
  BY <1>1 DEF TypeOK
<1>7. /\ req'[q].op = r.op /\ req'[q].at = "edges" /\ req'[q].seen = r.seen
      /\ req'[q] # None
  <2>1. [r EXCEPT !.at = "edges"] \in Request
    BY MoveType
  <2> QED BY <1>1, <2>1, UpdateRequest, RequestAssumption DEF TypeOK
<1>8. None # [wf |-> r.wf, gen |-> gen + 1]
  BY ListsAssumption, UpdateRequest DEF TypeOK, NodeRow
<1> HIDE DEF gone
<1>9. BodyInv'
  BY <1>6, <1>7 DEF GraphInv, BodyInv, InFlight
<1>10. GenInv'
  <2>1. \A n \in NodeIds : nodes[n] # None => nodes[n].gen \in Nat /\ nodes[n].gen <= gen
    BY DEF GraphInv, GenInv, TypeOK, NodeRow
  <2>2. \A n \in NodeIds : nodes'[n] # None => nodes'[n].gen <= gen'
    BY <1>1, <1>4, <2>1 DEF TypeOK
  <2>3. ASSUME NEW p \in Slots, InFlight(p, "update")', NEW g \in req'[p].seen
        PROVE  g <= gen'
    <3>1. InFlight(p, "update") /\ g \in req[p].seen
      BY <1>6, <1>7, <2>3 DEF InFlight
    <3>2. g \in Nat /\ g <= gen
      BY <3>1, UpdateRequest DEF GraphInv, GenInv
    <3> QED BY <1>1, <3>2 DEF TypeOK
  <2> QED BY <2>2, <2>3 DEF GenInv
<1>11. LockInv'
  <2> SUFFICES ASSUME NEW p \in Slots, req'[p] # None, req'[p].at = "nodesTx",
                      NEW n \in NodeIds, nodes'[n] # None, nodes'[n].wf = req'[p].wf,
                      nodes'[n].gen \in req'[p].seen
               PROVE  ~Gated(n)'
    BY DEF LockInv, NodesOf
  <2>1. p # q /\ req'[p] = req[p]
    BY <1>6, <1>7
  <2>2. InFlight(p, "update")
    BY <2>1, RequestAssumption DEF InFlight, TypeOK, Request
  <2>3. \A g \in req[p].seen : g \in Nat /\ g <= gen
    BY <2>2, UpdateRequest DEF GraphInv, GenInv
  <2>4. nodes'[n].gen # gen + 1
    BY <2>1, <2>3 DEF TypeOK
  <2>5. nodes'[n] = nodes[n]
    BY <1>4, <2>4
  <2> QED BY <2>1, <2>5 DEF GraphInv, LockInv, NodesOf, Gated
<1>12. ReferencesHold'
  BY <1>1, <1>3, <1>4, <1>8 DEF GraphInv, ReferencesHold, Gated, TypeOK
<1>13. EdgesAreCurrent'
  <2> SUFFICES ASSUME NEW e \in EdgeIds, edges'[e] # None
               PROVE  /\ edges[e].wf \in workflows
                      /\ nodes'[edges[e].src] # None /\ nodes'[edges[e].src].gen = edges[e].srcGen
                      /\ nodes'[edges[e].dst] # None /\ nodes'[edges[e].dst].gen = edges[e].dstGen
    BY <1>1, <1>5 DEF EdgesAreCurrent
  <2>1. edges[e].src \in NodeIds /\ edges[e].dst \in NodeIds /\ edges[e] # None
    BY <1>5 DEF EdgeRow
  <2>2. /\ edges[e].wf \in workflows
        /\ nodes[edges[e].src] # None /\ nodes[edges[e].src].gen = edges[e].srcGen
        /\ nodes[edges[e].dst] # None /\ nodes[edges[e].dst].gen = edges[e].dstGen
    BY <2>1 DEF GraphInv, EdgesAreCurrent
  <2>3. nodes'[edges[e].src] = nodes[edges[e].src] /\ nodes'[edges[e].dst] = nodes[edges[e].dst]
    BY <1>1, <1>4, <1>5, <2>1, <2>2
  <2> QED BY <2>2, <2>3
<1> QED BY <1>9, <1>10, <1>11, <1>12, <1>13 DEF GraphInv

\* Where a step leaves the request of q, with what it saw.
LEMMA UpdateMoves ==
  ASSUME TypeOK, NEW q \in Slots, UpdateStep(q)
  PROVE  /\ InFlight(q, "update")
         /\ \A p \in Slots \ {q} : req'[p] = req[p]
         /\ \/ req'[q] = None
            \/ /\ InFlight(q, "update")' /\ req'[q] \in Request
               /\ req'[q].wf = req[q].wf /\ req'[q].nodes = req[q].nodes
               /\ req'[q].edges = req[q].edges
               /\ \/ DeleteNodes(q) /\ req'[q].at = "nodesTx"
                     /\ req'[q].seen = {nodes[n].gen : n \in NodesOf(req[q].wf)}
                  \/ DeleteEdges(q) /\ req'[q].at = "edgesTx"
                     /\ req'[q].seen = req[q].seen /\ req'[q].old = EdgesOf(req[q].wf)
                  \/ req'[q].at = "edges" /\ req'[q].seen = req[q].seen
                     /\ (SkipNodes(q) \/ InsertNodes(q))
                  \/ req'[q].at = "answered" /\ req'[q].seen = req[q].seen
                     /\ (SkipEdges(q) \/ InsertEdges(q))
<1>1. InFlight(q, "update")
  BY DEF UpdateStep, InFlight
<1>2. \A at \in {"nodesTx", "edgesTx", "edges", "answered"}, s \in SUBSET Nat, o \in SUBSET EdgeIds :
        /\ [req[q] EXCEPT !.at = at] \in Request
        /\ [req[q] EXCEPT !.at = at, !.seen = s] \in Request
        /\ [req[q] EXCEPT !.at = at, !.old = o] \in Request
  BY <1>1, MoveType
<1>3. req[q] \in [op : {"update"}, at : {"nodes", "nodesTx", "edges", "edgesTx", "answered"},
                  wf : WorkflowIds, nodes : NodeLists \cup {None},
                  edges : EdgeLists \cup {None}, seen : SUBSET Nat, old : SUBSET EdgeIds]
  BY <1>1, UpdateRequest
<1>4. CASE \/ (SkipNodes(q) \/ InsertNodes(q)) /\ req' = [req EXCEPT ![q] = [req[q] EXCEPT !.at = "edges"]]
           \/ (SkipEdges(q) \/ InsertEdges(q)) /\ req' = [req EXCEPT ![q] = [req[q] EXCEPT !.at = "answered"]]
  <2>1. PICK at \in {"edges", "answered"} :
          /\ req' = [req EXCEPT ![q] = [req[q] EXCEPT !.at = at]]
          /\ IF at = "edges" THEN SkipNodes(q) \/ InsertNodes(q) ELSE SkipEdges(q) \/ InsertEdges(q)
    BY <1>4
  <2>2. /\ req'[q] # None /\ req'[q].op = "update" /\ req'[q].at = at /\ req'[q] \in Request
        /\ req'[q].wf = req[q].wf /\ req'[q].nodes = req[q].nodes
        /\ req'[q].edges = req[q].edges /\ req'[q].seen = req[q].seen
        /\ \A p \in Slots \ {q} : req'[p] = req[p]
    BY <1>2, <1>3, <2>1, RequestAssumption, ZenonT(30) DEF TypeOK
  <2> QED BY <1>1, <2>1, <2>2 DEF InFlight
<1>5. CASE DeleteNodes(q)
  <2> DEFINE seen == {nodes[n].gen : n \in NodesOf(req[q].wf)}
  <2>1. seen \in SUBSET Nat
    BY DEF NodesOf, TypeOK, NodeRow
  <2>2. req' = [req EXCEPT ![q] = [req[q] EXCEPT !.at = "nodesTx", !.seen = seen]]
    BY <1>5 DEF DeleteNodes
  <2> HIDE DEF seen
  <2>3. /\ req'[q] # None /\ req'[q].op = "update" /\ req'[q].at = "nodesTx" /\ req'[q] \in Request
        /\ req'[q].wf = req[q].wf /\ req'[q].nodes = req[q].nodes
        /\ req'[q].edges = req[q].edges /\ req'[q].seen = seen
        /\ \A p \in Slots \ {q} : req'[p] = req[p]
    BY <1>2, <1>3, <2>1, <2>2, RequestAssumption, ZenonT(30) DEF TypeOK
  <2> QED BY <1>1, <1>5, <2>3 DEF seen, InFlight
<1>6. CASE DeleteEdges(q)
  <2> DEFINE old == EdgesOf(req[q].wf)
  <2>1. old \in SUBSET EdgeIds
    BY DEF EdgesOf
  <2>2. req' = [req EXCEPT ![q] = [req[q] EXCEPT !.at = "edgesTx", !.old = old]]
    BY <1>6 DEF DeleteEdges
  <2> HIDE DEF old
  <2>3. /\ req'[q] # None /\ req'[q].op = "update" /\ req'[q].at = "edgesTx" /\ req'[q] \in Request
        /\ req'[q].wf = req[q].wf /\ req'[q].nodes = req[q].nodes
        /\ req'[q].edges = req[q].edges /\ req'[q].seen = req[q].seen /\ req'[q].old = old
        /\ \A p \in Slots \ {q} : req'[p] = req[p]
    BY <1>2, <1>3, <2>1, <2>2, RequestAssumption, ZenonT(30) DEF TypeOK
  <2> QED BY <1>1, <1>6, <2>3 DEF old, InFlight
<1>7. CASE UpdateFails(q) \/ Respond(q)
  BY <1>1, <1>7 DEF UpdateFails, Respond, TypeOK
<1> QED BY <1>4, <1>5, <1>6, <1>7
        DEF UpdateStep, SkipNodes, SkipEdges, InsertNodes, InsertEdges, Move

\* Every step of an update keeps the graph in order.
LEMMA UpdateGraph ==
  ASSUME TypeOK, GraphInv, NEW q \in Slots, UpdateStep(q)
  PROVE  GraphInv'
<1>1. InFlight(q, "update") /\ UNCHANGED <<runs, gate>>
  BY UpdateMoves DEF UpdateStep
<1>2. CASE InsertNodes(q)
  BY <1>1, <1>2, InsertNodesGraph
<1>3. CASE ~InsertNodes(q)
  <2>1. UNCHANGED <<workflows, nodes, gen>> /\ (InsertEdges(q) \/ edges' = edges)
    BY <1>3 DEF UpdateStep, SkipNodes, SkipEdges, DeleteNodes, DeleteEdges, InsertEdges,
                UpdateFails, Respond, graphVars
  <2>2. BodyInv'
    <3> SUFFICES ASSUME NEW p \in Slots, InFlight(p, "update")'
                 PROVE  /\ req'[p].at = "nodesTx" => req'[p].nodes # None
                        /\ req'[p].at = "edgesTx" => req'[p].edges # None
      BY DEF BodyInv
    <3>1. CASE p # q
      BY <3>1, UpdateMoves DEF GraphInv, BodyInv, InFlight
    <3>2. CASE p = q
      BY <3>2, UpdateMoves, ZenonT(30) DEF InFlight, DeleteNodes, DeleteEdges
    <3> QED BY <3>1, <3>2
  <2>3. GenInv'
    <3>1. ASSUME NEW p \in Slots, InFlight(p, "update")', NEW g \in req'[p].seen
          PROVE  g <= gen
      <4>1. CASE p # q
        BY <3>1, <4>1, UpdateMoves DEF GraphInv, GenInv, InFlight
      <4>2. CASE p = q /\ req'[q].seen = req[q].seen
        BY <1>1, <3>1, <4>2 DEF GraphInv, GenInv
      <4>3. CASE p = q /\ req'[q].seen = {nodes[n].gen : n \in NodesOf(req[q].wf)}
        BY <3>1, <4>3 DEF GraphInv, GenInv, NodesOf
      <4> QED BY <3>1, <4>1, <4>2, <4>3, UpdateMoves DEF InFlight
    <3> QED BY <2>1, <3>1 DEF GraphInv, GenInv
  <2>4. LockInv'
    <3> SUFFICES ASSUME NEW p \in Slots, req'[p] # None, req'[p].at = "nodesTx",
                        NEW n \in NodesOf(req'[p].wf), nodes[n].gen \in req'[p].seen
                 PROVE  ~Gated(n)
      BY <1>1, <2>1 DEF LockInv, NodesOf, Gated
    <3>1. CASE p # q
      BY <3>1, UpdateMoves DEF GraphInv, LockInv
    <3>2. CASE p = q
      <4>1. DeleteNodes(q) /\ req'[q].wf = req[q].wf
        BY <3>2, UpdateMoves
      <4> QED BY <3>2, <4>1 DEF DeleteNodes
    <3> QED BY <3>1, <3>2
  <2>5. ReferencesHold'
    BY <1>1, <2>1 DEF GraphInv, ReferencesHold
  <2>6. EdgesAreCurrent'
    <3>1. CASE edges' = edges
      BY <2>1, <3>1 DEF GraphInv, EdgesAreCurrent
    <3>2. CASE InsertEdges(q)
      <4> SUFFICES ASSUME NEW e \in EdgeIds, edges'[e] # None
                   PROVE  /\ edges'[e].wf \in workflows
                          /\ nodes[edges'[e].src] # None /\ nodes[edges'[e].src].gen = edges'[e].srcGen
                          /\ nodes[edges'[e].dst] # None /\ nodes[edges'[e].dst].gen = edges'[e].dstGen
        BY <2>1 DEF EdgesAreCurrent
      <4>1. CASE edges'[e] = edges[e]
        BY <4>1 DEF GraphInv, EdgesAreCurrent
      <4>2. CASE \E b \in req[q].edges :
                 /\ nodes[b.src] # None /\ nodes[b.dst] # None
                 /\ edges'[e] = [wf |-> req[q].wf, src |-> b.src, dst |-> b.dst,
                                 srcGen |-> nodes[b.src].gen, dstGen |-> nodes[b.dst].gen]
        <5>1. req[q].wf \in workflows
          BY <3>2 DEF InsertEdges
        <5> QED BY <4>2, <5>1
      <4> QED BY <1>1, <3>2, <4>1, <4>2, EdgeStored DEF GraphInv
    <3> QED BY <2>1, <3>1, <3>2
  <2> QED BY <2>2, <2>3, <2>4, <2>5, <2>6 DEF GraphInv
<1> QED BY <1>2, <1>3

\* Every step keeps the graph in order.
LEMMA GraphStep ==
  ASSUME TypeOK, GraphInv, [Next]_vars
  PROVE  GraphInv'
<1>1. ASSUME NEW w \in WorkflowIds, CreateWorkflow(w)
      PROVE  GraphInv'
  <2>1. UNCHANGED <<nodes, edges, gen, runs, gate, req>> /\ workflows \subseteq workflows'
    BY <1>1 DEF CreateWorkflow, Statement
  <2> QED BY <2>1 DEF GraphInv, BodyInv, GenInv, LockInv, ReferencesHold, EdgesAreCurrent, InFlight,
                  NodesOf, Gated
<1>2. ASSUME NEW w \in WorkflowIds, DeleteWorkflow(w)
      PROVE  GraphInv'
  BY <1>2, DeleteWorkflowGraph
<1>3. ASSUME NEW q \in Slots, NEW w \in WorkflowIds, RunWorkflow(q, w)
      PROVE  GraphInv'
  BY <1>3, EnterGraph DEF RunWorkflow, Enter
<1>4. ASSUME NEW q \in Slots, NEW w \in WorkflowIds,
             NEW ns \in NodeLists \cup {None}, NEW es \in EdgeLists \cup {None},
             UpdateWorkflow(q, w, ns, es)
      PROVE  GraphInv'
  BY <1>4, EnterGraph DEF UpdateWorkflow, Enter
<1>5. ASSUME NEW q \in Slots, UpdateStep(q)
      PROVE  GraphInv'
  BY <1>5, UpdateGraph
<1>6. ASSUME NEW q \in Slots, CreateWorkflowRun(q)
      PROVE  GraphInv'
  BY <1>6, EnterGraph DEF CreateWorkflowRun
<1>7. ASSUME NEW a \in ApprovalIds, NEW n \in NodeIds, CreateApproval(a, n)
      PROVE  GraphInv'
  <2>1. UNCHANGED <<workflows, nodes, edges, gen, runs, req>>
    BY <1>7 DEF CreateApproval, graphVars
  <2>2. /\ nodes[n] # None /\ ~Locked(n)
        /\ \A b \in ApprovalIds : gate'[b] = gate[b] \/ gate'[b] = n
    BY <1>7 DEF CreateApproval, TypeOK
  <2>3. LockInv'
    BY <2>1, <2>2 DEF GraphInv, LockInv, NodesOf, Gated, Locked
  <2> QED BY <2>1, <2>2, <2>3
          DEF GraphInv, BodyInv, GenInv, ReferencesHold, EdgesAreCurrent, InFlight
<1>8. ASSUME \/ UNCHANGED vars
             \/ \E a \in ApprovalIds, who \in Reviewers, d \in Decisions : ResolveApproval(a, who, d)
      PROVE  GraphInv'
  <2>1. UNCHANGED <<workflows, nodes, edges, gen, runs, gate, req>>
    BY <1>8 DEF vars, graphVars, ResolveApproval, Statement
  <2> QED BY <2>1 DEF GraphInv, BodyInv, GenInv, LockInv, ReferencesHold, EdgesAreCurrent, InFlight,
                  NodesOf, Gated
<1> QED BY <1>1, <1>2, <1>3, <1>4, <1>5, <1>6, <1>7, <1>8 DEF Next

-----------------------------------------------------------------------------
\* A request that is alone after a step has just entered, with nobody else in flight; or
\* it was alone before, and what happened was its own step or none of a request.
LEMMA AloneSteps ==
  ASSUME TypeOK, AloneInv, [Next]_vars, NEW q \in Slots, req'[q] # None, alone'[q]
  PROVE  \/ /\ req[q] = None /\ \A p \in Slots \ {q} : req[p] = None /\ req'[p] = None
            /\ req'[q].op = "run" \/ req'[q].at = "nodes"
         \/ req[q] # None /\ alone[q] /\ UpdateStep(q)
         \/ req[q] # None /\ alone[q] /\ req' = req /\ UNCHANGED graphVars
<1>1. CASE Statement
  <2>1. req' = req /\ (alone'[q] = (alone[q] /\ req[q] = None))
    BY <1>1 DEF Statement
  <2> QED BY <2>1
<1>2. ASSUME NEW p \in Slots, NEW r \in Request, Enter(p, r), r.op = "run" \/ r.at = "nodes"
      PROVE  /\ req[q] = None /\ \A x \in Slots \ {q} : req[x] = None /\ req'[x] = None
             /\ req'[q].op = "run" \/ req'[q].at = "nodes"
  <2> DEFINE busy == {x \in Slots \ {p} : req[x] # None}
  <2>1. /\ req[p] = None /\ req' = [req EXCEPT ![p] = r]
        /\ alone' = [x \in Slots |-> IF x = p THEN busy = {} ELSE alone[x] /\ x \notin busy]
    BY <1>2 DEF Enter
  <2>2. alone'[q] = IF q = p THEN busy = {} ELSE alone[q] /\ q \notin busy
    BY <2>1
  <2>3. CASE q # p
    <3>1. req'[q] = req[q] /\ q \notin busy
      BY <2>1, <2>2, <2>3 DEF TypeOK
    <3> QED BY <2>3, <3>1
  <2>4. CASE q = p
    <3>1. busy = {}
      BY <2>2, <2>4
    <3>2. \A x \in Slots \ {q} : req[x] = None /\ req'[x] = req[x]
      BY <2>1, <2>4, <3>1 DEF TypeOK
    <3>3. req'[q] = r
      BY <2>1, <2>4 DEF TypeOK
    <3> QED BY <1>2, <2>1, <2>4, <3>2, <3>3
  <2> QED BY <2>3, <2>4
<1>3. ASSUME NEW p \in Slots, NEW w \in WorkflowIds, RunWorkflow(p, w)
      PROVE  /\ req[q] = None /\ \A x \in Slots \ {q} : req[x] = None /\ req'[x] = None
             /\ req'[q].op = "run" \/ req'[q].at = "nodes"
  <2>1. [op |-> "run", at |-> "check", wf |-> w] \in Request
    BY DEF Request
  <2> QED BY <1>2, <1>3, <2>1 DEF RunWorkflow
<1>4. ASSUME NEW p \in Slots, NEW w \in WorkflowIds,
             NEW ns \in NodeLists \cup {None}, NEW es \in EdgeLists \cup {None},
             UpdateWorkflow(p, w, ns, es)
      PROVE  /\ req[q] = None /\ \A x \in Slots \ {q} : req[x] = None /\ req'[x] = None
             /\ req'[q].op = "run" \/ req'[q].at = "nodes"
  <2>1. [op |-> "update", at |-> "nodes", wf |-> w, nodes |-> ns, edges |-> es,
         seen |-> {}, old |-> {}] \in Request
    BY DEF Request
  <2> QED BY <1>2, <1>4, <2>1 DEF UpdateWorkflow
<1>5. ASSUME NEW p \in Slots, UpdateStep(p)
      PROVE  req[q] # None /\ alone[q] /\ UpdateStep(q)
  <2>1. req[p] # None /\ alone' = alone /\ (p # q => req'[q] = req[q])
    BY <1>5, UpdateMoves DEF UpdateStep, InFlight
  <2> QED BY <1>5, <2>1 DEF AloneInv
<1>6. ASSUME NEW p \in Slots, CreateWorkflowRun(p)
      PROVE  FALSE
  <2>1. req[p] # None /\ alone' = alone /\ req'[p] = None /\ (p # q => req'[q] = req[q])
    BY <1>6 DEF CreateWorkflowRun, TypeOK
  <2> QED BY <2>1 DEF AloneInv
<1>7. CASE \/ UNCHANGED vars
           \/ \E a \in ApprovalIds, n \in NodeIds : CreateApproval(a, n)
  BY <1>7 DEF vars, CreateApproval
<1> QED BY <1>1, <1>3, <1>4, <1>5, <1>6, <1>7
        DEF Next, CreateWorkflow, DeleteWorkflow, ResolveApproval

\* Who is alone stays the only one in flight.
LEMMA AloneStep ==
  ASSUME TypeOK, AloneInv, [Next]_vars
  PROVE  AloneInv'
<1> SUFFICES ASSUME NEW q \in Slots, req'[q] # None, alone'[q]
             PROVE  \A p \in Slots \ {q} : req'[p] = None
  BY DEF AloneInv
<1>1. CASE req[q] # None /\ alone[q] /\ UpdateStep(q)
  BY <1>1, UpdateMoves DEF AloneInv
<1>2. CASE req[q] # None /\ alone[q] /\ req' = req
  BY <1>2 DEF AloneInv
<1> QED BY <1>1, <1>2, AloneSteps

\* The nodes of the workflow, after InsertNodes of an update that is alone.
LEMMA NodesStored ==
  ASSUME TypeOK, GraphInv, EffectInv, NEW q \in Slots, InFlight(q, "update"), alone[q],
         InsertNodes(q)
  PROVE  NodesOf(req[q].wf)' = req'[q].nodes
<1> DEFINE r == req[q]
           gone == {n \in NodesOf(r.wf) : nodes[n].gen \in r.seen}
<1>1. /\ r.at = "nodesTx"
      /\ nodes' = [n \in NodeIds |-> CASE n \in r.nodes -> [wf |-> r.wf, gen |-> gen + 1]
                                       [] n \in gone \ r.nodes -> None
                                       [] OTHER -> nodes[n]]
      /\ req' = [req EXCEPT ![q] = [r EXCEPT !.at = "edges"]]
  BY DEF InsertNodes, Move
<1>2. r.nodes \in SUBSET NodeIds /\ r.wf \in WorkflowIds
  BY <1>1, UpdateRequest, ListsAssumption DEF GraphInv, BodyInv
<1>3. gone = NodesOf(r.wf)
  BY <1>1 DEF EffectInv
<1>4. None # [wf |-> r.wf, gen |-> gen + 1]
  BY <1>2, ListsAssumption DEF TypeOK, NodeRow
<1> HIDE DEF gone
<1>5. \A n \in NodeIds : nodes'[n] # None /\ nodes'[n].wf = r.wf <=> n \in r.nodes
  BY <1>1, <1>3, <1>4 DEF NodesOf
<1>6. req'[q].nodes = r.nodes /\ req'[q].wf = r.wf
  BY <1>1, UpdateRequest DEF TypeOK
<1> QED BY <1>2, <1>5, <1>6 DEF NodesOf

\* The edges of the workflow, after InsertEdges of an update that is alone.
LEMMA EdgesStored ==
  ASSUME TypeOK, GraphInv, EffectInv, NEW q \in Slots, InFlight(q, "update"), alone[q],
         InsertEdges(q)
  PROVE  EdgesOf(req[q].wf)' = {b.id : b \in req[q].edges}
<1>1. req[q].at = "edgesTx" /\ req'[q].wf = req[q].wf
  BY UpdateRequest DEF InsertEdges, Move, TypeOK
<1>2. req[q].old = EdgesOf(req[q].wf)
  BY <1>1 DEF EffectInv
<1>3. req[q].edges \in SUBSET EdgeBody /\ req[q].wf \in WorkflowIds
  BY <1>1, UpdateRequest, ListsAssumption DEF GraphInv, BodyInv
<1>4. \A e \in EdgeIds : edges'[e] # None /\ edges'[e].wf = req[q].wf <=>
                         \E b \in req[q].edges : b.id = e
  <2> SUFFICES ASSUME NEW e \in EdgeIds
               PROVE  edges'[e] # None /\ edges'[e].wf = req[q].wf <=>
                      \E b \in req[q].edges : b.id = e
    OBVIOUS
  <2>1. CASE \E b \in req[q].edges :
               /\ b \in EdgeBody /\ b.id = e
               /\ nodes[b.src] # None /\ nodes[b.dst] # None
               /\ edges'[e] = [wf |-> req[q].wf, src |-> b.src, dst |-> b.dst,
                               srcGen |-> nodes[b.src].gen, dstGen |-> nodes[b.dst].gen]
    <3>1. PICK b \in req[q].edges :
               /\ b \in EdgeBody /\ b.id = e
               /\ nodes[b.src] # None /\ nodes[b.dst] # None
               /\ edges'[e] = [wf |-> req[q].wf, src |-> b.src, dst |-> b.dst,
                               srcGen |-> nodes[b.src].gen, dstGen |-> nodes[b.dst].gen]
      BY <2>1
    <3>2. nodes[b.src] \in NodeRow /\ nodes[b.dst] \in NodeRow
      BY <3>1 DEF TypeOK, EdgeBody
    <3>3. edges'[e] \in EdgeRow /\ edges'[e].wf = req[q].wf
      BY <1>3, <3>1, <3>2 DEF EdgeRow, EdgeBody, NodeRow
    <3> QED BY <3>1, <3>3, ListsAssumption
  <2>2. CASE /\ ~\E b \in req[q].edges : b.id = e
             /\ edges'[e] = IF e \in req[q].old THEN None ELSE edges[e]
    BY <1>2, <2>2 DEF EdgesOf
  <2> QED BY <2>1, <2>2, EdgeStored DEF GraphInv
<1>5. {b.id : b \in req[q].edges} \subseteq EdgeIds
  BY <1>3 DEF EdgeBody
<1> QED BY <1>1, <1>4, <1>5 DEF EdgesOf

\* An update that is alone sees and stores what it should.
LEMMA EffectStep ==
  ASSUME TypeOK, GraphInv, AloneInv, EffectInv, [Next]_vars
  PROVE  EffectInv'
<1> SUFFICES ASSUME NEW q \in Slots, req'[q] # None, req'[q].op = "update", alone'[q]
             PROVE
    /\ req'[q].at = "nodesTx" => req'[q].seen = {nodes'[n].gen : n \in NodesOf(req[q].wf)'}
    /\ req'[q].at \in {"edges", "edgesTx", "answered"} /\ req'[q].nodes # None =>
         NodesOf(req[q].wf)' = req'[q].nodes
    /\ req'[q].at = "edgesTx" => req'[q].old = EdgesOf(req[q].wf)'
    /\ req'[q].at = "answered" /\ req'[q].edges # None =>
         EdgesOf(req[q].wf)' = {b.id : b \in req'[q].edges}
  BY DEF EffectInv, InFlight
<1>1. CASE req'[q].at = "nodes"
  BY <1>1
<1>2. CASE req[q] # None /\ alone[q] /\ req' = req /\ UNCHANGED graphVars
  BY <1>2 DEF EffectInv, InFlight, NodesOf, EdgesOf, graphVars
<1>3. CASE req[q] # None /\ alone[q] /\ UpdateStep(q)
  <2>1. /\ InFlight(q, "update") /\ req'[q].wf = req[q].wf /\ req'[q].nodes = req[q].nodes
        /\ req'[q].edges = req[q].edges
    BY <1>3, UpdateMoves
  <2>2. CASE DeleteNodes(q) /\ req'[q].at = "nodesTx"
             /\ req'[q].seen = {nodes[n].gen : n \in NodesOf(req[q].wf)}
    <3>1. nodes' = nodes
      BY <2>2 DEF DeleteNodes, graphVars
    <3> QED BY <2>1, <2>2, <3>1 DEF NodesOf
  <2>3. CASE DeleteEdges(q) /\ req'[q].at = "edgesTx" /\ req'[q].old = EdgesOf(req[q].wf)
    <3>1. nodes' = nodes /\ edges' = edges /\ req[q].at = "edges"
      BY <2>3 DEF DeleteEdges, graphVars
    <3> QED BY <1>3, <2>1, <2>3, <3>1 DEF EffectInv, NodesOf, EdgesOf
  <2>4. CASE req'[q].at = "edges" /\ SkipNodes(q)
    BY <2>1, <2>4 DEF SkipNodes
  <2>5. CASE req'[q].at = "edges" /\ InsertNodes(q)
    BY <1>3, <2>1, <2>5, NodesStored
  <2>6. CASE req'[q].at = "answered" /\ SkipEdges(q)
    <3>1. nodes' = nodes /\ req[q].at = "edges" /\ req[q].edges = None
      BY <2>6 DEF SkipEdges, graphVars
    <3> QED BY <1>3, <2>1, <2>6, <3>1 DEF EffectInv, NodesOf
  <2>7. CASE req'[q].at = "answered" /\ InsertEdges(q)
    <3>1. nodes' = nodes /\ req[q].at = "edgesTx"
      BY <2>7 DEF InsertEdges
    <3>2. req'[q].nodes # None => NodesOf(req[q].wf)' = req'[q].nodes
      BY <1>3, <2>1, <3>1 DEF EffectInv, NodesOf
    <3> QED BY <1>3, <2>1, <2>7, <3>2, EdgesStored
  <2> QED BY <1>3, <2>2, <2>3, <2>4, <2>5, <2>6, <2>7, UpdateMoves
<1> QED BY <1>1, <1>2, <1>3, AloneSteps

\* The UPDATE of an approval finds it pending, hence unanswered.
LEMMA AnswerStep ==
  ASSUME TypeOK, AnswerInv, [Next]_vars
  PROVE  AnswerInv'
<1>1. ASSUME NEW a \in ApprovalIds, NEW who \in Reviewers, NEW d \in Decisions,
             ResolveApproval(a, who, d)
      PROVE  AnswerInv'
  <2>1. /\ decision[a] = "pending" /\ answers[a] = {}
        /\ decision' = [decision EXCEPT ![a] = d]
        /\ answers' = [answers EXCEPT ![a] = @ \cup {<<who, d>>}]
    BY <1>1 DEF ResolveApproval, AnswerInv
  <2>2. answers'[a] = {<<who, d>>} /\ decision'[a] = d /\ d # "pending"
    BY <2>1 DEF TypeOK, Decisions
  <2>3. \A b \in ApprovalIds \ {a} : answers'[b] = answers[b] /\ decision'[b] = decision[b]
    BY <2>1 DEF TypeOK
  <2>4. ASSUME NEW b \in ApprovalIds
        PROVE  /\ \A x, y \in answers'[b] : x = y
               /\ \A x \in answers'[b] : decision'[b] = x[2]
               /\ decision'[b] = "pending" => answers'[b] = {}
    <3>1. CASE b = a
      BY <2>2, <3>1
    <3>2. CASE b # a
      BY <2>3, <3>2 DEF AnswerInv, OneDecision
    <3> QED BY <3>1, <3>2
  <2> QED BY <2>4 DEF AnswerInv, OneDecision
<1>2. CASE UNCHANGED <<decision, answers>>
  BY <1>2 DEF AnswerInv, OneDecision
<1> QED BY <1>1, <1>2 DEF Next, vars, CreateWorkflow, DeleteWorkflow, RunWorkflow, UpdateWorkflow,
                          UpdateStep, CreateWorkflowRun, CreateApproval

-----------------------------------------------------------------------------
\* The inductive invariant of the workflow tables.
THEOREM Invariance == Spec => []IInv
<1>1. Init => IInv
  <2> SUFFICES ASSUME Init PROVE IInv
    OBVIOUS
  <2>1. TypeOK
    BY DEF Init, TypeOK
  <2>2. GraphInv
    BY DEF Init, GraphInv, BodyInv, GenInv, LockInv, ReferencesHold, EdgesAreCurrent, InFlight
  <2>3. AloneInv /\ EffectInv
    BY DEF Init, AloneInv, EffectInv, InFlight
  <2>4. AnswerInv
    BY DEF Init, AnswerInv, OneDecision
  <2> QED BY <2>1, <2>2, <2>3, <2>4 DEF IInv
<1>2. IInv /\ [Next]_vars => IInv'
  BY TypeStep, GraphStep, AloneStep, EffectStep, AnswerStep DEF IInv, GraphInv
<1> QED BY <1>1, <1>2, PTL DEF Spec

\* Every reachable state of the tables and of the requests has its types.
THEOREM TypeCorrect == Spec => []TypeOK
<1>1. IInv => TypeOK
  BY DEF IInv
<1> QED BY <1>1, Invariance, PTL

\* No edge outlives a node row it was stored with, however updates interleave or fail.
THEOREM CurrentEdges == Spec => []EdgesAreCurrent
<1>1. IInv => EdgesAreCurrent
  BY DEF IInv, GraphInv
<1> QED BY <1>1, Invariance, PTL

\* Runs and approvals keep the workflow and the node they refer to.
THEOREM ReferencesAreKept == Spec => []ReferencesHold
<1>1. IInv => ReferencesHold
  BY DEF IInv, GraphInv
<1> QED BY <1>1, Invariance, PTL

\* An update that met no other request and is answered with 200 has stored what was sent.
THEOREM UpdateIsStored == Spec => []UpdateTakesEffect
<1>1. IInv => UpdateTakesEffect
  <2> SUFFICES ASSUME IInv, NEW q \in Slots, req[q] # None, req[q].at = "answered", alone[q]
               PROVE  /\ req[q].nodes # None => NodesOf(req[q].wf) = req[q].nodes
                      /\ req[q].edges # None => EdgesOf(req[q].wf) = {b.id : b \in req[q].edges}
    BY DEF UpdateTakesEffect
  <2>1. req[q].op = "update"
    BY DEF IInv, TypeOK, Request
  <2> QED BY <2>1 DEF IInv, EffectInv, InFlight
<1> QED BY <1>1, Invariance, PTL

\* At most one decision of an approval is acknowledged, and it is the one that stands.
THEOREM SingleDecision == Spec => []OneDecision
<1>1. IInv => OneDecision
  BY DEF IInv, AnswerInv
<1> QED BY <1>1, Invariance, PTL

=============================================================================
