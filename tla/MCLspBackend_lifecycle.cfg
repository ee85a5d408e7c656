\* Crashes, timeouts, malformed output, restarts, refresh and shutdown.
CONSTANTS
  Closer = Closer
  q1 = q1
  Queries <- OneQuery
  RestartDelays = 1
  ClientBound = 2
  ProcBound = 2
  RefreshBound = 1
SPECIFICATION FairSpec
\* A backend that has been shut down has nothing left to do.
CHECK_DEADLOCK FALSE
INVARIANTS
  TypeOK
  PendingIsCurrent
  ServersNotAbandoned
  RestartsReplaceFailures
  ReadyHasProcess
PROPERTIES
  UnavailableIsFinal
  NothingSpawnsAfterShutdown
  QueriesSettle
  ShutdownEnds
