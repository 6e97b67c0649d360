SPECIFICATION Spec
CONSTANTS
  Texts <- MCTexts
INVARIANTS
  AcceptsOnlyJson
CHECK_DEADLOCK FALSE
