SPECIFICATION FairSpec
CONSTANTS
  CredLists <- MCCredLists
  Scripts <- MCScripts
  ScanBuffer = 2
CHECK_DEADLOCK FALSE
INVARIANTS SecretsAreRemoved SuccessIsComplete
PROPERTY RunReturns
