SPECIFICATION Spec
CONSTANTS
  modelled = modelled
  plain = plain
  Tasks = {modelled}
  Modes <- LoopOnly
  WithLLM = {modelled}
  Goals <- MCGoals
  Keywords <- MCKeywords
  NavGoal <- MCNavGoal
  LLMPlans <- TwoSteps
  MaxReplans = 1
  MaxRestarts <- MCRestarts
INVARIANTS
  ResumeContinues
CHECK_DEADLOCK FALSE
