SPECIFICATION FairStartupSpec
CONSTANTS
  Processes = {p1, p2}
  Files <- MCFiles
  FirstRelease = 3
  MaxPending = 2
  Catalog = {openai, groq}
  Defaults = {openai}
  MaxFaults = 2
  MaxOps = 2
INVARIANTS UpMeansCurrent RowsOnce DeletedProvidersStayDeleted
PROPERTIES ComesUp
CHECK_DEADLOCK FALSE
