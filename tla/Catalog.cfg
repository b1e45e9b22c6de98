SPECIFICATION Spec
CONSTANTS
  CredIds = {k1}
  ProjectIds = {p1}
  TemplateIds = {t1}
  JobIds = {j1}
  Controllers = {c1}
  Secrets = {s1, s2}
  Repos = {r1}
  Plays = {a, b}
  Keys = {x}
  Values = {v, w}
  ApiKey = ApiKey
  ControllerKeys = {ApiKey, None}
  MaxEdits = 6
  None = None
CHECK_DEADLOCK FALSE
INVARIANTS ReferencesExist NothingMissing PayloadIsCoherent
