\* Components that share no state, one per behaviour.
CONSTANTS
\* Sessions: progress of the promise chains, with refused and evicted views.
  c1 = c1
  r1 = r1
  Connections <- OneConnection
  RequestIds <- OneRequestId
  MaxSessions = 2
  MaxQueued = 2
  MaxRequests = 1
  MaxViews = 2
  MaxBodyBytes = 1
  Retention = 0
  IdleLimit = 1
  BodySizes <- OneBodySize
  MaxCandidates = 2
  SessionBound = 2
  RequestBound = 2
  ViewBound = 2
  TimeBound = 0
  GenerationBound = 1
\* RootAccess: a check and the retry, or starts and a refresh that overlap.
  Adapters = {a1}
  Checks = {k1, k2}
  Refreshes = {e1}
  RunBound = 3
\* ProcessLifetime: a process starts while another lives or after it ended.
  Processes = {p1, p2}
  Pids = {n1, n2}
  NoPid = NoPid
  TempRoots = {t1}
  ChildBound = 1
\* DashboardOwnership: one dashboard replaces another.
  Dashboards = {d1, d2}
  Nobody = Nobody
\* DashboardRuntimes: two projects compete for one place.
  Projects = {j1, j2}
  MaxRuntimes = 1
  IdentityBound = 2
  LaunchBound = 2
  ClockBound = 1
\* Closure: a chain of three issues whose leaf is replaced by a root.
  epic = epic
  split = split
  original = original
  successor = successor
  Issues <- ChainIssues
  NoIssue = NoIssue
  Parent <- ChainParent
  Supersedes <- ChainSupersedes
  Pulls = {m1}
  NoPull = NoPull
  ParentWalkLimit = 1
  Hierarchies <- SplitOnly
  EditBound = 1
SPECIFICATION ComponentsSpec
\* Processes and dashboards that have all ended, and issues nobody edits, stop.
CHECK_DEADLOCK FALSE
INVARIANTS
  ComponentsTypeOK
  BuiltOnce
  BackendsFollowGate
  LiveRootsKept
  ExitLeavesNothing
  RuntimesBounded
  OneRuntimePerProject
  NothingOutlivesShutdown
  EvidencePostedOnce
PROPERTIES
  EveryRequestSettles
  RootLossIsFinal
  ClosedAdaptersStayDown
  InaccessibilityEnds
  StdioCloseEnds
  PriorStopsFirst
  AdmissionDrains
  ParentsCloseLast
  ClosuresConverge
