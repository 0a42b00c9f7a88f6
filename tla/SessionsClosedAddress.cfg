SPECIFICATION Spec
CONSTANTS
  kept = kept
  Sessions = {kept, second}
  Runs = {}
  LongRuns = {}
  Clients = {client}
  SessionOf <- MCSessionOf
  Ports = {9223}
  Local = FALSE
  MaxMishaps = 0
INVARIANT
  ClosedAddressIsFree
CHECK_DEADLOCK FALSE
