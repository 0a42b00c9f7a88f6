SPECIFICATION FairSpec
CONSTANTS
  credit = credit
  compliance = compliance
  home = home
  abroad = abroad
  dual = dual
  checker = checker
  auditor = auditor
  watcher = watcher
  stranger = stranger
  Users <- MCUsers
  Orgs <- MCOrgs
  Depts <- MCDepts
  Compliance = compliance
  Context <- MCContext
  Requests = {r1, r2}
  MaxMishaps = 1
INVARIANTS
  TypeOK
  NoSplitVerdict
  ApprovedByAuthority
PROPERTIES
  SettledOnce
  EveryWaitEnds
  GivesUpLate
  PromiseKept
CHECK_DEADLOCK FALSE
