\* A refresh that meets a reconciliation already in flight.
CONSTANTS
  f1 = f1
  f2 = f2
  Files <- OneFile
  MaxAttempts = 3
  VersionBound = 2
  GenerationBound = 2
  RequestBound = 1
SPECIFICATION HistorySpec
\* A closed server whose requests are served has nothing left to do.
CHECK_DEADLOCK FALSE
PROPERTIES
  RefreshCompletes
