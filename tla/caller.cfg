SPECIFICATION FairSpec
CONSTANTS
  t1 = t1
  t2 = t2
  t3 = t3
  t4 = t4
  k1 = k1
  k2 = k2
  Tasks = {t1, t2, t3}
  Keys = {k1, k2}
  Key <- MCKey
  NoAnswer = NoAnswer
  MaxConcurrent = 2
  MaxRetries = 2
  MinInterval = 1
  CbEnabled = TRUE
  FailureThreshold = 2
  WindowSeconds = 1
  RecoveryTimeout = 1
INVARIANTS
  TypeOK
  PermitsConserved
  AnswersBelong
PROPERTIES
  CallsAreSpaced
  ImplementsService
  EveryTicketAnswered
