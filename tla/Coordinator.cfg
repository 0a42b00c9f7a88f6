SPECIFICATION FairSpec
CONSTANTS
  modelled = modelled
  plain = plain
  Tasks = {modelled, plain}
  Modes <- MCModes
  WithLLM = {modelled}
  Goals <- MCGoals
  Keywords <- MCKeywords
  NavGoal <- MCNavGoal
  LLMPlans <- MCPlans
  MaxReplans = 1
  MaxRestarts <- MCRestarts
INVARIANTS
  TypeOK
  GateHolds
  CompletedAccounts
  ReplacedPlanIsOver
PROPERTIES
  EveryTaskEnds
CHECK_DEADLOCK FALSE
