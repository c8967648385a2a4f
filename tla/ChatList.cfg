SPECIFICATION FairSpec
CONSTANTS
  Room = {r1, r2}
  MaxMessages = 2
  MaxAppear = 2
  MaxIndex = 2
CHECK_DEADLOCK FALSE
INVARIANTS RowsHaveCounts AlertsFitRows
PROPERTY NewestListed
