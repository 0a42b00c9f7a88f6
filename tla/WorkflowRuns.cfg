SPECIFICATION Spec
CONSTANTS
  parent = parent
  child = child
  NoRun = NoRun
  MaxRequests = 2
  Runs = {parent, child}
  Parent <- MCParent
  Plans <- MCPlans
INVARIANTS
  TypeOK
  BlameHolds
  SeenCancelStands
  EngineHasTheLastWord
  ToldTheTruth
  CancelStopsSoon
  ChildCompletedFirst
PROPERTIES
  EngineEnds
CHECK_DEADLOCK FALSE
