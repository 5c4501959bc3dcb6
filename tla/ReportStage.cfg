SPECIFICATION StageSpec
CONSTANTS
  Papers <- MCPapers
  Yields <- MCYields
  Topics <- MCTopics
  Plans <- MCPlans
  Modes = {"rule", "llm", "only"}
  Wanted = 2
  Breadth = 2
  Guard = 0
  MaxWish = 1
  MaxNamed = 2
  MaxFound = 2
  MaxSections = 3
  OutlineCards = 2
  OutlineTries = 2
  ChapterCards = 2
  Bare = {2}
INVARIANTS StageTypeOK SeedsKept CitesOwnEvidence AbsencesShown
