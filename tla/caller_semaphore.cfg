SPECIFICATION FairSpec
CONSTANTS
  t1 = t1
  t2 = t2
  t3 = t3
  t4 = t4
  k1 = k1
  k2 = k2
  Tasks = {t1, t2, t3, t4}
  Keys = {k1, k2}
  Key <- MCKey
  NoAnswer = NoAnswer
  MaxConcurrent = 2
  MaxRetries = 1
  MinInterval = 2
  CbEnabled = FALSE
  FailureThreshold = 9
  WindowSeconds = 1
  RecoveryTimeout = 1
INVARIANTS
  NoWaiterForgotten
PROPERTIES
  CallsAreSpaced
  EveryTicketAnswered
