\* The handles of follow candidates at generation 1.
CONSTANTS
  c1 = c1
  c2 = c2
  r1 = r1
  r2 = r2
  Connections <- OneConnection
  RequestIds <- OneRequestId
  MaxSessions = 2
  MaxQueued = 2
  MaxRequests = 1
  MaxViews = 2
  MaxBodyBytes = 2
  Retention = 0
  IdleLimit = 1
  BodySizes <- TwoBodySizes
  MaxCandidates = 2
  SessionBound = 2
  RequestBound = 2
  ViewBound = 2
  TimeBound = 1
  GenerationBound = 1
SPECIFICATION Spec
INVARIANTS
  FreshHandlesResolve
