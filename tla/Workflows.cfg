SPECIFICATION Spec
CONSTANTS
  w1 = w1
  w2 = w2
  n1 = n1
  n2 = n2
  e1 = e1
  e2 = e2
  q1 = q1
  q2 = q2
  WorkflowIds = {w1, w2}
  NodeIds = {n1, n2}
  EdgeIds = {e1, e2}
  NodeLists <- MCNodeLists
  EdgeLists <- MCEdgeLists
  ApprovalIds = {a1}
  Reviewers = {u1, u2}
  Slots = {q1, q2}
  MaxRequests = 5
  None = None
SYMMETRY Symmetry
CHECK_DEADLOCK FALSE
INVARIANTS EdgesAreCurrent UpdateTakesEffect ReferencesHold OneDecision
