SPECIFICATION Spec
CONSTANTS
  credit = credit
  compliance = compliance
  home = home
  abroad = abroad
  dual = dual
  checker = checker
  auditor = auditor
  watcher = watcher
  stranger = stranger
  Users <- MCUsers
  Orgs <- MCOrgs
  Depts <- MCDepts
  Compliance = compliance
  Context <- MCContext
  Requests = {r1}
  MaxMishaps = 0
INVARIANT
  FourEyes
CHECK_DEADLOCK FALSE
