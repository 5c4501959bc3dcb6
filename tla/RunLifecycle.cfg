CONSTANTS
  Runs = {r1, r2}
  Sessions = {s1}
SPECIFICATION FairSpec
INVARIANTS
  TypeOK
  FinishedRunsSettled
  SnapshotAsAnnounced
  BudgetReleased
PROPERTIES
  CancelPrevails
  RunsSettle
