SPECIFICATION FairSpec
CONSTANTS
  Jobs = {j1}
  Streams = {s1}
  Pollers = {p1}
  MaxTickets = 3
  BatchSize = 2
  MaxCrashes = 1
CHECK_DEADLOCK FALSE
INVARIANTS
  TypeOK
  ProgressAgrees
  DoneIsComplete
  ResultsComplete
  ActiveIsExact
  OnlyLeftoversStay
  ResultsAvailable
PROPERTIES
  EndedIsDecided
  AnswersMoveOn
  ImplementsLifecycle
  TaskEnds
