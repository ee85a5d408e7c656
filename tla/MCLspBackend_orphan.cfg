\* A failed start, a later one, and shutdown.
CONSTANTS
  Closer = Closer
  q1 = q1
  Queries <- OneQuery
  RestartDelays = 2
  ClientBound = 2
  ProcBound = 3
  RefreshBound = 0
SPECIFICATION Spec
\* A backend that has been shut down has nothing left to do.
CHECK_DEADLOCK FALSE
INVARIANT
  ShutdownStopsServers
