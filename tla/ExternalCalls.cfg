CONSTANTS
  m1 = m1
  m2 = m2
  a = a
  b = b
  n1 = n1
  n2 = n2
  Servers <- MCServers
  Remote <- MCRemote
  Public <- MCPublic
  Disabled = {}
  FailOpen = {TRUE, FALSE}
  LlmRetries = 2
  S2Retries = 2
  S2Limited = 3
  S2Wait = 7
  OaRetries = 2
  HeaderDelays = {0, 3}
  HeaderCap = 4
  BackoffCap = 4
  Kinds = {"generate", "functions", "search", "recommend", "details", "relation", "openalex", "detail"}
  KindsBeside = {"functions"}
SPECIFICATION FairSpec
INVARIANTS
  TypeOK
  WaitWithinBudget
  AnswersHonest
  ShutdownClean
PROPERTY
  ImplementsBounded
CHECK_DEADLOCK FALSE
