CONSTANTS
  Searches = {s1}
  Chapters = {c1, c2}
  Requested = 1
  Classes = {"atomic", "contextual", "research"}
  LLM = {TRUE, FALSE}
  RunEval = {TRUE, FALSE}
SPECIFICATION Spec
PROPERTY
  ImplementsReview
