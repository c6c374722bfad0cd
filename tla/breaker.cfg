SPECIFICATION FairSpec
CONSTANTS
  Callers = {c1, c2, c3}
  FailureThreshold = 2
  WindowSeconds = 2
  RecoveryTimeout = 2
INVARIANTS
  TypeOK
  ProbeExclusive
  ClosedBelowThreshold
  HalfOpenIsBeingResolved
PROPERTIES
  NoAdmissionWhileOpen
  WaiterReturns
  Recovers
