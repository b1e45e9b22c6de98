SPECIFICATION FairSpec
CONSTANTS
  Controllers = {c1}
  Repos = {r1, r2}
  Branches = {main}
  Main = main
  Creds = {k1}
  Commits <- MCCommits
  Paths <- MCPaths
  FileAt <- MCFileAt
  Files <- MCFiles
  Unparsable <- MCUnparsable
  HostsOf <- MCHostsOf
  Ungrouped <- MCUngrouped
  MaxPushes = 1
  MaxEdits = 2
  MaxKills = 1
  None = None
  web = web
  db = db
CHECK_DEADLOCK FALSE
INVARIANTS RowsAreWhole OkMeansStored
PROPERTIES InventoryIsKept SyncIsAnswered HeadIsStored
