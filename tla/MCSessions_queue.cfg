\* Requests of deleted sessions are not counted against the queue limit.
CONSTANTS
  c1 = c1
  c2 = c2
  r1 = r1
  r2 = r2
  Connections <- TwoConnections
  RequestIds <- TwoRequestIds
  MaxSessions = 2
  MaxQueued = 1
  MaxRequests = 2
  MaxViews = 1
  MaxBodyBytes = 0
  Retention = 1
  IdleLimit = 2
  BodySizes <- NoBodies
  MaxCandidates = 1
  SessionBound = 2
  RequestBound = 3
  ViewBound = 0
  TimeBound = 3
  GenerationBound = 0
SPECIFICATION Spec


INVARIANTS
  QueueBounded
