SPECIFICATION Spec
CONSTANTS
  Pipelines <- MCPipelines
INVARIANTS
  TypeOK
  ResultIsHonest
  RepeatsAreWarranted
  AuditFollows
CHECK_DEADLOCK FALSE
