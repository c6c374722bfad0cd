SPECIFICATION FairSpec
CONSTANTS
  j1 = j1
  j2 = j2
  Jobs = {j1, j2}
  Tickets <- MCTickets
  Requests <- MCRequests
  WordCount <- MCWordCount
  SimpleSize = 2
  MediumSize = 2
  ComplexSize = 1
  DefaultLatency = 1200
  Durations = {2000, 3000}
CHECK_DEADLOCK FALSE
INVARIANTS
  TypeOK
  EveryTicketOnce
  HardestFirst
  FewestBatches
  EtaCovers
  LatencyIsObserved
PROPERTY
  Drains
