--------------------------- MODULE MCReportStage ---------------------------
EXTENDS ReportStage

Paper(id, doi, title, score, text, local, fits, buckets) ==
  [id |-> id, doi |-> doi, arxiv |-> IF doi = "" THEN id ELSE "", url |-> "", title |-> title,
   score |-> score, quality |-> 0, fields |-> 3, text |-> text, local |-> local, fits |-> fits,
   buckets |-> buckets]

\* A paper and its preprint with more text, a record of the preprint without title,
\* which is another paper to the first, and one in the library that does not fit and
\* has no text.
MCPapers ==
  {Paper("a", "d1", "t", 2, 1, FALSE, TRUE, {"methods"}),
   Paper("a2", "", "t", 3, 2, FALSE, TRUE, {"full_text"}),
   [Paper("a3", "", "", 1, 1, FALSE, TRUE, {"datasets"}) EXCEPT !.arxiv = "a2"],
   Paper("l", "", "", 1, 0, TRUE, FALSE, {})}

Card(claim, valid, facets, quotes) ==
  [claim |-> claim, theme |-> claim, facets |-> facets, valid |-> valid, quotes |-> quotes]
\* The claim on limitations quotes "[2]".
MCYields ==
  {<<>>, <<Card("one", TRUE, {"methods"}, {})>>,
   <<Card("two", TRUE, {"limitations"}, {2}), Card("one", FALSE, {"scope"}, {})>>}

MCTopics ==
  {[dimensions |-> {}, comprehensive |-> FALSE],
   [dimensions |-> {"limitations"}, comprehensive |-> FALSE],
   [dimensions |-> {"methods", "results"}, comprehensive |-> TRUE]}

MCPlans ==
  {[heading |-> {"methods"}, asks |-> {}, evidence |-> <<1, 2>>],
   [heading |-> {"limitations"}, asks |-> {"results"}, evidence |-> <<1, 9>>]}
=============================================================================
