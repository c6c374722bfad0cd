SPECIFICATION Spec
CONSTANTS
  Texts <- MCTexts
CHECK_DEADLOCK FALSE
INVARIANTS
  TypeOK
  CleanAnswerIsReturned
  ReasoningOnlyAsFallback
  ObjectsAreFound
PROPERTY
  Terminates
