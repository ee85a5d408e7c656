\* A hierarchy record is closed in the same plan as its parent.
CONSTANTS
  epic = epic
  split = split
  original = original
  successor = successor
  Issues <- ChainIssues
  NoIssue = NoIssue
  Parent <- ChainParent
  Supersedes <- ChainSupersedes
  Pulls = {m1}
  NoPull = NoPull
  ParentWalkLimit = 1
  Hierarchies <- SplitOnly
  EditBound = 2
SPECIFICATION ClosureSpec
PROPERTIES
  ParentWaitsForDelivery
