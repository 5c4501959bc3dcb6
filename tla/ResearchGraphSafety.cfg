CONSTANTS
  Searches = {s1, s2}
  Chapters = {c1, c2}
  Requested = 1
  Classes = {"atomic", "contextual", "research"}
  LLM = {TRUE, FALSE}
  RunEval = {TRUE, FALSE}
SYMMETRY Symmetry
SPECIFICATION Spec
INVARIANTS
  TypeOK
  StepsBounded
  PassedReportCurrent
  DegradedNeverPasses
PROPERTY
  ReplanKeepsUnaffected
