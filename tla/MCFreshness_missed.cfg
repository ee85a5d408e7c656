\* A save reported while the reconciliation that missed it is running.
CONSTANTS
  f1 = f1
  f2 = f2
  Files <- OneFile
  MaxAttempts = 3
  VersionBound = 2
  GenerationBound = 1
  RequestBound = 0
SPECIFICATION FairSpec
\* A closed server whose requests are served has nothing left to do.
CHECK_DEADLOCK FALSE
PROPERTIES
  SavesBecomeVisible
