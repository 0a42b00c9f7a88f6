SPECIFICATION Spec
CONSTANTS
  kept = kept
  Sessions = {kept, second, third}
  Runs = {agent}
  LongRuns = {agent}
  Clients = {client}
  SessionOf <- MCSessionOf
  Ports = {9223}
  Local = TRUE
  MaxMishaps = 1
SYMMETRY MCSymmetry
INVARIANTS
  TypeOK
  PortsApart
  RunningHasBrowser
  OccupantIsActive
CHECK_DEADLOCK FALSE
