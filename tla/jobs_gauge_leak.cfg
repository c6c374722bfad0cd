SPECIFICATION Spec
CONSTANTS
  Jobs = {j1, j2}
  Streams = {}
  Pollers = {}
  MaxTickets = 1
  BatchSize = 1
  MaxCrashes = 1
SYMMETRY Symmetry
CHECK_DEADLOCK FALSE
INVARIANT
  ActiveCountsRunning
