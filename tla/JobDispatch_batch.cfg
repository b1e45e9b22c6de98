SPECIFICATION Spec
CONSTANTS
  None = None
  Controllers = {c1}
  Procs = {p1, p2}
  AgentIds = {a1, a2}
  Slots = {r1}
  NJobs = 2
  Capacity = 1
  BatchLimit = 2
  MaxFaults = 0
SYMMETRY Symmetry
INVARIANT CounterMatchesExecutions
PROPERTY OldestFirst
