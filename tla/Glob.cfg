CONSTANTS
  Patterns <- MCPatterns
  Texts <- MCTexts
SPECIFICATION Spec
INVARIANTS
  AnswerIsRight
  NothingLost
PROPERTY Terminates
CHECK_DEADLOCK FALSE
