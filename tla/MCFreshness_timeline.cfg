\* Saves between the reads of two files, refreshes, polls, close and progress.
CONSTANTS
  f1 = f1
  f2 = f2
  Files <- TwoFiles
  MaxAttempts = 2
  VersionBound = 2
  GenerationBound = 2
  RequestBound = 2
SPECIFICATION ServingSpec
\* A closed server whose requests are served has nothing left to do.
CHECK_DEADLOCK FALSE
INVARIANTS
  TypeOK
  StatusTruthful
  ClosedStopsPolling
PROPERTIES
  ReadyIsReal
  TimelineKept
  EveryRequestServed
