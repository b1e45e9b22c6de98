SPECIFICATION Spec
CONSTANTS
  None = None
  Controllers = {c1}
  Procs = {p1}
  AgentIds = {a1}
  Slots = {r1}
  NJobs = 1
  Capacity = 1
  BatchLimit = 1
  MaxFaults = 0
PROPERTY TerminalIsFinal
