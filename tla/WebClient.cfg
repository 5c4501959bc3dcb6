CONSTANTS
  saved = saved
  first = first
  second = second
  Runs <- MCRuns
  Found <- MCFound
  Saved = {saved}
  Research = {saved}
  PageSize = 1
  MaxList = 1
  MaxNumber = 2
  MaxFlight = 2
SPECIFICATION FairSpec
INVARIANTS
  TypeOK
  NumbersDistinct
PROPERTIES FormReleased
