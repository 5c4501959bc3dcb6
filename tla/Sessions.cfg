CONSTANTS
  Turns = {t1, t2, t3}
  Papers = {p1, p2}
  MaxSessions = 2
  MaxFound = 1
SYMMETRY Symmetry
SPECIFICATION Spec
INVARIANTS
  TypeOK
  RestorableFromHistory
  NumbersReferToList
PROPERTIES
  TurnsKept
