CONSTANTS
  Texts <- MCTexts
  MaxPapers = 2
SPECIFICATION Spec
CHECK_DEADLOCK FALSE
INVARIANTS
  TypeOK
  CitedVerified
  EmptySaysSo
