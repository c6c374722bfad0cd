SPECIFICATION Spec
CONSTANTS
  Callers = {c1, c2, c3}
  FailureThreshold = 2
  WindowSeconds = 2
  RecoveryTimeout = 1
SYMMETRY Symmetry
PROPERTY
  OneRequestWhileProbing
