SPECIFICATION FairSpec
CONSTANTS
  Texts <- MCTexts
INVARIANTS
  CursorSafe
  JsonIsAccepted
  ElementsAreCounted
PROPERTIES
  Terminates
CHECK_DEADLOCK FALSE
