SPECIFICATION FibSpec
CONSTANTS
  Recents = Recents
  Entries <- MCEntries
  Home <- MCHome
  Rows = {1, 2}
  ShownRows = 2
  Columns = {1, 2}
  MaxRecent = 2
  MaxMissing = 1
  MaxAge = 0
  MaxTime = 1
  TooLong <- MCTooLong
  Calm = TRUE
INVARIANTS
  ScrollPositionNotNegative
CHECK_DEADLOCK FALSE
