CONSTANTS
  Texts <- MCTexts
  Strings <- MCStrings
  ExpDigits = 2
  MantDigits = 4
SPECIFICATION FairSpec
INVARIANTS
  
  JsonIsRead
  AcceptsKnownForms

  
CHECK_DEADLOCK FALSE
