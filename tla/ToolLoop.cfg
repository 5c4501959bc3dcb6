CONSTANTS
  w1 = w1
  w2 = w2
  a = a
  b = b
  Workers <- MCWorkers
  Teams <- MCTeams
  Calls <- MCCalls
  ItemCalls = 2
  RunCalls = 3
  MaxIter = 3
  MaxErrors = 2
  MaxBatch = 2
SPECIFICATION Spec
INVARIANTS
  TypeOK
  CallsPaid
  OutcomeHonest
PROPERTY
  ItemsEnd
