\* The root becomes inaccessible and comes back.
CONSTANTS
  Adapters = {a1}
  Checks = {k1, k2}
  Refreshes = {e1}
  RunBound = 3
SPECIFICATION RootSpec
INVARIANTS
  SurvivesRetry
