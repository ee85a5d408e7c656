\* Three crashes and an explicit refresh.
CONSTANTS
  Closer = Closer
  q1 = q1
  Queries <- OneQuery
  RestartDelays = 2
  ClientBound = 1
  ProcBound = 3
  RefreshBound = 1
SPECIFICATION Spec
\* A backend that has been shut down has nothing left to do.
CHECK_DEADLOCK FALSE
PROPERTY
  RefreshRevives
