SPECIFICATION FairSpec
CONSTANTS
  Rows = {1, 2, 3, 4}
  PageSize = 3
  MaxTies = 2
  MaxChanges = 3
INVARIANTS TypeOK BehindTheCursor
PROPERTIES Implements ListingEnds
CHECK_DEADLOCK FALSE
