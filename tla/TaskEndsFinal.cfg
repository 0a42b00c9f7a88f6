SPECIFICATION Spec
CONSTANTS
  Kinds <- MCKinds
  MaxSteps = 2
  MaxRetries = 1
  MaxFaults = 0
INVARIANTS
  EndsFinal
CHECK_DEADLOCK FALSE
