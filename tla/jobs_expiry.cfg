SPECIFICATION Spec
CONSTANTS
  Jobs = {j1}
  Streams = {}
  Pollers = {}
  MaxTickets = 1
  BatchSize = 1
  MaxCrashes = 0
CHECK_DEADLOCK FALSE
INVARIANT
  AcceptedExpires
