CONSTANTS
  Searches = {s1, s2}
  Chapters = {c1, c2}
  Requested = 1
  Classes = {"research"}
  LLM = {FALSE}
  RunEval = {FALSE}
SPECIFICATION Spec
PROPERTY
  ReplanNeverRaises
