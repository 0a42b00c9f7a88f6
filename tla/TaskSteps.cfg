SPECIFICATION Spec
CONSTANTS
  Kinds <- MCKinds
  MaxSteps = 3
  MaxRetries = 1
  MaxFaults = 2
INVARIANTS
  TypeOK
  StepLedger
  OneMoreStart
  VerdictHasGround
  NoStepLeftCreated
  CancelStands
  ToldTheTruth
  BrowserClosed
  
PROPERTIES
  ExecutorEnds
  DiscardIsDone
  PromiseKept
CHECK_DEADLOCK FALSE
