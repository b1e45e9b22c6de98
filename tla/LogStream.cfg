SPECIFICATION FairSpec
CONSTANTS
  MaxLines = 2
CHECK_DEADLOCK FALSE
INVARIANTS TypeOK LinesConserved NothingStranded RowsAreSent
PROPERTY EveryLineIsShipped
