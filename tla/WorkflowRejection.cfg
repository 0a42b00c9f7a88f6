SPECIFICATION Spec
CONSTANTS
  parent = parent
  child = child
  NoRun = NoRun
  MaxRequests = 2
  Runs = {parent, child}
  Parent <- MCParent
  Plans <- MCPlans
INVARIANTS
  RejectionStops
CHECK_DEADLOCK FALSE
