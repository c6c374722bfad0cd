SPECIFICATION FairSpec
CONSTANTS
  Jobs = {j1}
  Streams = {s1}
  Pollers = {}
  MaxTickets = 3
  BatchSize = 2
  MaxCrashes = 1
CHECK_DEADLOCK FALSE
PROPERTY
  StreamStops
