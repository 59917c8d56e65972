SPECIFICATION FibSpec
CONSTANTS
  Recents = Recents
  Entries <- MCEntries
  Home <- MCHome
  Rows <- MCTinyRows
  ShownRows = 2
  Columns = {1, 2}
  MaxRecent = 2
  MaxMissing = 1
  MaxAge = 0
  MaxTime = 1
  TooLong <- MCTooLong
  Calm = TRUE
INVARIANTS
  AssertionsHold
CHECK_DEADLOCK FALSE
