SPECIFICATION Spec
CONSTANTS
  Names <- MCNames
  GroupNames = {"g", "h"}
  Fields <- MCFields
  Keys <- MCKeys
  Values <- MCValues
  MaxLines = 4
  None = None
CHECK_DEADLOCK FALSE
INVARIANTS TypeOK ParserIsRight WrittenReadsBack
