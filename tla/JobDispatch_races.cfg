SPECIFICATION Spec
CONSTANTS
  None = None
  Controllers = {c1, c2}
  Procs = {p1}
  AgentIds = {a1, a2}
  Slots = {r1, r2}
  NJobs = 1
  Capacity = 1
  BatchLimit = 1
  MaxFaults = 2
SYMMETRY Symmetry
INVARIANTS TypeOK AtMostOneStart ClaimsAreExclusive DispatchErrorNeverRan SuccessWasEarned OwnershipInv ResultInv
PROPERTIES NeverBack RefinesLifecycle
