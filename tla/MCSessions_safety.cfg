\* Requests, histories and expiry of two sessions: retries, evictions, limits.
CONSTANTS
  c1 = c1
  c2 = c2
  r1 = r1
  r2 = r2
  Connections <- OneConnection
  RequestIds <- TwoRequestIds
  MaxSessions = 2
  MaxQueued = 1
  MaxRequests = 1
  MaxViews = 2
  MaxBodyBytes = 3
  Retention = 1
  IdleLimit = 1
  BodySizes <- OneBodySize
  MaxCandidates = 2
  SessionBound = 2
  RequestBound = 4
  ViewBound = 4
  TimeBound = 1
  GenerationBound = 1
SPECIFICATION Spec
SYMMETRY Symmetry
INVARIANTS
  TypeOK
  RetryRunsOnce
  SlotsNotLeaked
  HistoryCoherent
  EvictedViewsAreStale
  BytesAccounted
PROPERTIES
  ShownViewKept
