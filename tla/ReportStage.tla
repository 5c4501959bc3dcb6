---------------------------- MODULE ReportStage ----------------------------
(***************************************************************************)
(* What becomes of the papers of a research run inside the stages that       *)
(* ResearchGraph sends (graph/runtime.py): the pool (PaperPool), the cards    *)
(* that are made of it and checked, an outline that assigns cards to          *)
(* sections (agents/report_outline.py), one chapter for each section, written *)
(* with its own cards only (agents/llm_reviewer.py, agents/draft_reviewer.py), *)
(* and the report put together of them.                                      *)
(*                                                                          *)
(* It is one pass, without repair and replan.  A chapter is who wrote it, the *)
(* numbers that the program put into it for cards, and those that stood in    *)
(* brackets before: the model's own, or quoted.  Chapters are written in      *)
(* parallel, but share nothing, so their order makes no difference.          *)
(***************************************************************************)
EXTENDS PaperPool

CONSTANTS
  Papers,        \* papers that searches find, and that a session has
  Yields,        \* what can come of a paper: sequences of cards
  Topics,        \* requests: the dimensions they name, comprehensive or not
  Plans,         \* sections the model may answer with
  Modes,         \* rule, llm, or only (the model without rules to fall back on)
  Wanted,        \* max_sources
  MaxNamed,      \* bound on the papers of the session that the user names
  MaxFound,      \* bound on the papers found
  MaxSections,   \* most sections of an outline, eight in the code
  OutlineCards,  \* LLM_OUTLINE_EVIDENCE_LIMIT
  OutlineTries,  \* LLM_OUTLINE_ATTEMPTS
  ChapterCards,  \* LLM_CHAPTER_EVIDENCE_LIMIT
  Bare           \* numbers that the model may put in brackets by itself

ASSUME StageAssumption ==
  /\ {Wanted, MaxSections, OutlineCards, OutlineTries} \subseteq Nat \ {0}
  /\ {MaxNamed, MaxFound} \subseteq Nat /\ ChapterCards \in Nat \ {0, 1}
ASSUME DataAssumption ==
  /\ Papers \subseteq PaperRecords /\ IsFiniteSet(Papers)
  /\ \A yield \in Yields :
       yield \in Seq([claim : STRING, theme : STRING, facets : SUBSET STRING, valid : BOOLEAN,
                      quotes : SUBSET Nat])

VARIABLES
  pc,        \* the stage, or how the run ended
  run,       \* the request: mode, topic
  seeds,     \* the papers of the session that the user named
  found,     \* what the search branches returned, until the papers are read
  sources,   \* sources, numbered by position
  cards,     \* evidence_cards
  outline,   \* the sections
  asked,     \* calls of the model for the outline, or for a chapter
  chapters,  \* the chapters so far
  report     \* the draft: whether it is complete, and the issues it lists

stageVars == <<pc, run, seeds, found, sources, cards, outline, asked, chapters, report>>

NoReport == [ready |-> FALSE, issues |-> {}, text |-> [lead |-> {}, traced |-> {}]]

StageInit ==
  /\ pc = "search" /\ asked = 0
  /\ run \in [mode : Modes, topic : Topics]
  /\ \E named \in SUBSET Papers :
       /\ Cardinality(named) <= MaxNamed
       /\ seeds = SetToSeq(named)
  /\ found = <<>> /\ sources = <<>> /\ cards = <<>> /\ outline = <<>> /\ chapters = <<>> /\ report = NoReport

Raise == pc' = "failed" /\ UNCHANGED <<run, seeds, found, sources, cards, outline, asked, chapters, report>>

(***************************************************************************)
(* Papers and cards                                                        *)
(***************************************************************************)
\* The branches run in parallel and may find a paper more than once, or fail.
Search ==
  /\ pc = "search" /\ pc' = "merge"
  /\ found' \in SeqOf(Papers, MaxFound)
  /\ UNCHANGED <<run, seeds, sources, cards, outline, asked, chapters, report>>

SeedIds == {p.id : p \in ToSet(seeds)}

\* max_sources: there is room for every paper that the user named.
Room == Max({Wanted, Len(seeds)})

\* The papers of all branches, behind the session's.  With no paper there is
\* nothing to read.
MergeSearch ==
  /\ pc = "merge"
  /\ \E chosen \in Selections(Candidates(SeedIds, seeds \o found), SeedIds, Room,
                              run.topic.comprehensive, run.mode) :
       /\ sources' = chosen
       /\ pc' = IF chosen = <<>> THEN "stopped" ELSE "read"
  /\ UNCHANGED <<run, seeds, found, cards, outline, asked, chapters, report>>

\* The model may not choose, and rules must not.
SearchRaises ==
  /\ pc = "merge" /\ run.mode = "only"
  /\ LET papers == Candidates(SeedIds, seeds \o found)
         first == Min({Room, Len(Named(papers, SeedIds))})
     IN first < Room /\ Asks(papers, Room - first, "only")
  /\ Raise

\* Each paper has a reader, which scores it; a report is only made if all succeed.
MergeReading ==
  /\ pc = "read"
  /\ sources' = DedupSources(Score(sources))
  /\ seeds' = <<>> /\ found' = <<>>
  /\ pc' = "analyze"
  /\ UNCHANGED <<run, cards, outline, asked, chapters, report>>

\* A card has its claim as it is compared ("" if it has no Latin letter or digit), and
\* the numbers that what is quoted of it has in brackets.  evidence_id:
Id(card) == <<card.source, card.place>>
CardsOf(paper, yield) ==
  [k \in DOMAIN yield |->
     [claim |-> yield[k].claim, theme |-> yield[k].theme, facets |-> yield[k].facets,
      valid |-> yield[k].valid, quotes |-> yield[k].quotes, source |-> paper.id, place |-> k, confidence |-> paper.quality]]
CardsUpTo(yields) ==
  LET upTo[n \in 0 .. Len(sources)] ==
        IF n = 0 THEN <<>> ELSE upTo[n - 1] \o CardsOf(sources[n], yields[n])
  IN upTo

\* Every card is checked.  An analysis without cards does not succeed.
Analyze ==
  /\ pc = "analyze"
  /\ \E yields \in [DOMAIN sources -> Yields] :
       /\ cards' = CardsUpTo(yields)[Len(sources)]
       /\ pc' = IF cards' = <<>> THEN "stopped" ELSE "outline"
  /\ UNCHANGED <<run, seeds, found, sources, outline, asked, chapters, report>>

\* A stage that fails in another way is for the reviewer.
Stop ==
  /\ pc \in {"read", "analyze"} /\ pc' = "stopped"
  /\ UNCHANGED <<run, seeds, found, sources, cards, outline, asked, chapters, report>>

(***************************************************************************)
(* The outline                                                             *)
(***************************************************************************)
DimensionOrder == <<"scope", "methods", "datasets", "metrics", "results", "limitations">>
Required ==
  At(DimensionOrder, {i \in DOMAIN DimensionOrder : DimensionOrder[i] \in run.topic.dimensions})
OnlyLimitations == run.topic.dimensions = {"limitations"}

\* The cards whose check was passed, one of each claim that can be compared.
Verified ==
  LET First1(k) == \A j \in DOMAIN cards : j < k /\ cards[j].valid => cards[j].claim # cards[k].claim
  IN At(cards, {k \in DOMAIN cards : cards[k].valid /\ cards[k].claim # "" /\ First1(k)})

SourcesOf(assigned) == Distinct([k \in DOMAIN assigned |-> assigned[k].source])
Section(heading, asks, assigned) ==
  [heading |-> heading, asks |-> asks, evidence |-> [k \in DOMAIN assigned |-> Id(assigned[k])],
   sources |-> SourcesOf(assigned)]

\* What a Chinese heading is scored by: those on metrics and results as the scope.
FacetKey(dimension) ==
  IF dimension \in {"methods", "datasets", "limitations"} THEN dimension ELSE "scope"

\* A card goes to the two sections that it fits best, the earlier ones first.
Places(card) ==
  LET fit == {i \in DOMAIN Required : FacetKey(Required[i]) \in card.facets}
  IN ToSet(First(At(Required, fit) \o At(Required, DOMAIN Required \ fit), 2))

DimensionSections ==
  [i \in DOMAIN Required |->
     Section({Required[i]}, {Required[i]},
             At(Verified, {k \in DOMAIN Verified : Required[i] \in Places(Verified[k])}))]

\* One section for each theme, six at most; empty ones show what is missing.
ThemeSections ==
  LET themes == Distinct([k \in DOMAIN Verified |-> Verified[k].theme])
      of == [i \in 1 .. Min({6, Len(themes)}) |->
               Section({themes[i]} \intersect ToSet(DimensionOrder), {},
                       At(Verified, {k \in DOMAIN Verified : Verified[k].theme = themes[i]}))]
      empty == <<Section({"scope"}, {}, <<>>), Section({"methods"}, {}, <<>>),
                 Section({"limitations"}, {}, <<>>)>>
  IN of \o First(empty, 3 - Len(of))

RuleOutline ==
  IF Len(Required) >= 2 \/ OnlyLimitations THEN DimensionSections ELSE ThemeSections

\* The cards shown to the model: for each group of fields the surest card that has
\* one, then one of each paper, then the others.
PromptCards ==
  LET verified == Verified
      Surest(d) == SelectSeq(verified, LAMBDA c : d \in c.facets /\
                     \A o \in ToSet(verified) : d \in o.facets => o.confidence <= c.confidence)
      With(chosen, c) == IF c \in ToSet(chosen) THEN chosen ELSE Append(chosen, c)
      surest == FoldLeft(LAMBDA chosen, d : IF Surest(d) = <<>> THEN chosen ELSE With(chosen, Surest(d)[1]),
                         <<>>, <<"methods", "datasets", "metrics", "results", "limitations">>)
      OfNewPaper(acc, c) ==
        IF c.source \in acc.papers \/ c \in ToSet(acc.chosen) THEN acc
        ELSE [chosen |-> Append(acc.chosen, c), papers |-> acc.papers \union {c.source}]
      papers == FoldLeft(OfNewPaper, [chosen |-> surest, papers |-> {}], verified).chosen
      all == FoldLeft(With, papers, verified)
  IN SubSeq(all, 1, Min({OutlineCards, Len(all)}))

\* The model names cards by number.  Unknown numbers are dropped, and what exceeds
\* two uses; a number twice in a section counts as two.
Normalize(plans) ==
  LET shown == PromptCards
      Number(m) == plans[m[1]].evidence[m[2]]
      mentions == UNION {{<<i, k>> : k \in DOMAIN plans[i].evidence} : i \in DOMAIN plans}
      Earlier(m) == {e \in mentions : /\ Number(e) = Number(m)
                                      /\ e[1] < m[1] \/ (e[1] = m[1] /\ e[2] < m[2])}
      taken == {m \in mentions : Number(m) \in DOMAIN shown /\ Cardinality(Earlier(m)) < 2}
      Taken(i) == At(plans[i].evidence, {k \in DOMAIN plans[i].evidence : <<i, k>> \in taken})
  IN [i \in 1 .. Min({MaxSections, Len(plans)}) |->
        LET numbers == Distinct(Taken(i))
        IN Section(plans[i].heading, plans[i].asks, [k \in DOMAIN numbers |-> shown[numbers[k]]])]

MissingDimensions(sections) ==
  run.topic.dimensions \ UNION {s.heading \union s.asks : s \in ToSet(sections)}

\* In how many sections a card is.
Uses(id, sections) == Cardinality({i \in DOMAIN sections : id \in ToSet(sections[i].evidence)})

Validate(sections) ==
  LET known == {Id(c) : c \in ToSet(Verified)}
      named == UNION {ToSet(s.evidence) : s \in ToSet(sections)}
  IN IF Len(sections) \notin (IF OnlyLimitations THEN 1 ELSE 2) .. MaxSections THEN "count"
     ELSE IF MissingDimensions(sections) # {} THEN "missing"
     ELSE IF \/ \E id \in named : id \notin known \/ Uses(id, sections) > 2
             \/ \E s \in ToSet(sections) : \E id \in ToSet(s.evidence) : id[1] \notin ToSet(s.sources)
     THEN "binding"
     ELSE "none"

\* The sections that were valid are there unchanged and in their order.
Preserves(old, new) ==
  \E at \in [DOMAIN old -> DOMAIN new] :
    /\ \A i \in DOMAIN old : new[at[i]] = old[i]
    /\ \A i, j \in DOMAIN old : i < j => at[i] < at[j]

Adopt(sections) ==
  /\ outline' = sections /\ pc' = "write" /\ asked' = 0
  /\ UNCHANGED <<run, seeds, found, sources, cards, chapters, report>>

\* An outline of the model that is no good is replaced, or ends the run.
OutlineFails == IF run.mode = "only" THEN Raise ELSE Adopt(RuleOutline)

OutlineByRule ==
  /\ pc = "outline" /\ (run.mode = "rule" \/ Verified = <<>>)
  /\ IF run.mode = "only" THEN Raise ELSE Adopt(RuleOutline)

\* A draft that lacks a dimension is repaired, once.
AskOutline ==
  /\ pc = "outline" /\ run.mode # "rule" /\ Verified # <<>>
  /\ \/ IF asked + 1 < OutlineTries
        THEN asked' = asked + 1
             /\ UNCHANGED <<pc, run, seeds, found, sources, cards, outline, chapters, report>>
        ELSE OutlineFails
     \/ \E plans \in SeqOf(Plans, MaxSections + 1) :
          LET draft == Normalize(plans) IN
          CASE Validate(draft) = "none" -> Adopt(draft)
            [] Validate(draft) = "missing" ->
                 /\ outline' = draft /\ pc' = "repair" /\ asked' = asked + 1
                 /\ UNCHANGED <<run, seeds, found, sources, cards, chapters, report>>
            [] OTHER -> OutlineFails

RepairOutline ==
  /\ pc = "repair"
  /\ \/ OutlineFails
     \/ \E plans \in SeqOf(Plans, MaxSections + 1) :
          LET repaired == Normalize(plans) IN
          IF Preserves(outline, repaired) /\ Validate(repaired) = "none"
          THEN Adopt(repaired) ELSE OutlineFails

(***************************************************************************)
(* The chapters                                                            *)
(***************************************************************************)
This == outline[Len(chapters) + 1]
Own == {c \in ToSet(cards) : Id(c) \in ToSet(This.evidence)}
PapersOf(set) == {c.source : c \in set}

\* Mutant: a chapter numbers the papers it was given.
SourceNumberOwn(id) == Max({i \in DOMAIN This.sources : This.sources[i] = id})

\* source_number: one for all chapters, so that they agree with the references.
SourceNumber(id) == Max({i \in DOMAIN sources : sources[i].id = id})
Numbers(papers) == {SourceNumber(id) : id \in papers}

Chapter(by, cites, bare) == [by |-> by, cites |-> cites, bare |-> bare]
Written(chapter) ==
  /\ chapters' = Append(chapters, chapter) /\ asked' = 0
  /\ UNCHANGED <<pc, run, seeds, found, sources, cards, outline, report>>

\* One paper alone does not make a limitation of the field.
AboutLimitations == "limitations" \in This.heading
LimitationGap == AboutLimitations /\ Cardinality(PapersOf(Own)) < 2

\* Rules cite every card, eight at most; of limitations two papers for each kind.
RuleCites ==
  IF LimitationGap THEN {{}}
  ELSE IF AboutLimitations THEN SUBSET Numbers(PapersOf(Own))
  ELSE {Numbers(PapersOf(Own))}

\* English chapters quote claims, results and limitations, Chinese ones describe them.
RuleQuotes == IF LimitationGap THEN {{}} ELSE SUBSET UNION {c.quotes : c \in Own}
RuleWrites == \E cites \in RuleCites, bare \in RuleQuotes : Written(Chapter("rule", cites, bare))

ChapterByRule ==
  /\ pc = "write" /\ Len(chapters) < Len(outline) /\ run.mode = "rule"
  /\ RuleWrites

Gap == Own = {} \/ LimitationGap
ChapterGap ==
  /\ pc = "write" /\ Len(chapters) < Len(outline) /\ run.mode = "llm" /\ Gap
  /\ Written(Chapter("gap", {}, {}))

\* One card of each claim that can be compared; the order of cards is that of a set.
OfEachClaim ==
  {set \in SUBSET {c \in Own : c.claim # ""} :
     \A d \in Own : d.claim # "" => Cardinality({c \in set : c.claim = d.claim}) = 1}

\* The cards of the prompt: the papers take turns.
Shown ==
  UNION {{s \in SUBSET distinct :
            /\ Cardinality(s) = Min({ChapterCards, Cardinality(distinct)})
            /\ LET In(set, paper) == Cardinality({c \in set : c.source = paper})
               IN \A a, b \in PapersOf(distinct) :
                    In(s, b) < In(distinct, b) => In(s, a) <= In(s, b) + 1} :
         distinct \in OfEachClaim}

\* Markers: cards, cards without the prefix of their paper, and inventions.
Markers(shown) ==
  {Id(c) : c \in shown} \union {<<"", c.place>> : c \in shown} \union {<<"unknown", 0>>}
NormalizeMarker(marker, shown) ==
  LET same == {c \in shown : marker = Id(c) \/ (marker[1] = "" /\ marker[2] = c.place)}
  IN IF Cardinality(same) = 1 THEN Id(CHOOSE c \in same : TRUE) ELSE marker

\* A chapter on methods, datasets or limitations needs two papers; without rules to
\* fall back on even if it has one.
TwoPapers(shown) ==
  /\ This.heading \intersect {"methods", "datasets", "limitations"} # {}
  /\ run.mode = "only" \/ Cardinality(PapersOf(shown)) >= 2

\* What is wrong with an answer: findings without a card cannot be asked for again.
Problem(answer, shown) ==
  LET known == {Id(c) : c \in shown}
  IN IF ~answer.bound THEN "findings"
     ELSE IF shown # {} /\ answer.markers = {} THEN "omitted"
     ELSE IF shown # {} /\ ~(answer.markers \subseteq known) THEN "unknown"
     ELSE IF shown # {} /\ TwoPapers(shown) /\ Cardinality({m[1] : m \in answer.markers}) < 2
     THEN "one paper"
     ELSE IF shown = {} /\ (answer.declared \/ answer.markers # {}) THEN "invented"
     ELSE IF answer.foreign THEN "language"
     ELSE "none"

Repairable(problem) == problem \notin {"none", "findings"}

\* A prompt asks the model for no numbers of its own, and nothing looks for them.
Answers(shown) ==
  {[markers |-> {NormalizeMarker(m, shown) : m \in set}, declared |-> d, bound |-> b, foreign |-> f,
    bare |-> own] :
     set \in SUBSET Markers(shown), d \in BOOLEAN, b \in BOOLEAN, f \in BOOLEAN, own \in SUBSET Bare}

\* What markers become: those that were put together show two papers at most.  The
\* model's own numbers stay.
Cites(answer) ==
  LET numbers == Numbers({m[1] : m \in answer.markers})
  IN {set \in SUBSET numbers : Cardinality(set) >= Min({2, Cardinality(numbers)})}

\* Rules write the chapter, which counts as a success, or it fails.
ChapterFails ==
  IF run.mode = "only" THEN Written(Chapter("none", {}, {}))
  ELSE RuleWrites

\* Answers that become a chapter, and prompts with an answer to be asked for again.
Taken(shown) == {answer \in Answers(shown) : Problem(answer, shown) = "none"}
Unsettled == {shown \in Shown : \E answer \in Answers(shown) : Repairable(Problem(answer, shown))}

\* Mutant: an answer that is no good is asked for again each time.
AskChapterAgain ==
  /\ pc = "write" /\ Len(chapters) < Len(outline)
  /\ run.mode # "rule" /\ ~(run.mode = "llm" /\ Gap)
  /\ \/ \E shown \in Shown : \E answer \in Taken(shown) : \E cites \in Cites(answer) :
          Written(Chapter("llm", cites, answer.bare))
     \/ /\ Unsettled # {} /\ asked' = asked + 1
        /\ UNCHANGED <<pc, run, seeds, found, sources, cards, outline, chapters, report>>
     \/ ChapterFails

\* The model writes; a text with bad markers or language is asked for once more.
\* Without an answer, or with one that is no good, the chapter fails.
AskChapter ==
  /\ pc = "write" /\ Len(chapters) < Len(outline)
  /\ run.mode # "rule" /\ ~(run.mode = "llm" /\ Gap)
  /\ \/ \E shown \in Shown : \E answer \in Taken(shown) : \E cites \in Cites(answer) :
          Written(Chapter("llm", cites, answer.bare))
     \/ /\ asked = 0 /\ Unsettled # {} /\ asked' = 1
        /\ UNCHANGED <<pc, run, seeds, found, sources, cards, outline, chapters, report>>
     \/ ChapterFails

\* The writer runs out of time or fails.
WriterFails ==
  /\ pc = "write" /\ Len(chapters) < Len(outline)
  /\ Written(Chapter("none", {}, {}))

(***************************************************************************)
(* The report                                                              *)
(***************************************************************************)
Lost == {i \in DOMAIN chapters : chapters[i].by = "none"}

\* assemble_generated_chapters: the abstract repeats the first sentence of the first
\* three chapters with its numbers; the references trace each paper with a card
\* whose check was passed.
Assembled ==
  [lead : SUBSET UNION {chapters[i].cites \union chapters[i].bare : i \in 1 .. Min({3, Len(chapters)})},
   traced : {{n \in DOMAIN sources :
                \E c \in ToSet(cards) : c.valid /\ c.source = sources[n].id}}]

\* Mutant: a report is complete when there is text.
MergeChaptersUncounted ==
  /\ pc = "write" /\ Len(chapters) = Len(outline)
  /\ IF run.mode = "only" /\ \E i \in DOMAIN chapters : chapters[i].by = "rule" THEN Raise
     ELSE /\ \E text \in Assembled : report' = [ready |-> TRUE, issues |-> Lost, text |-> text]
          /\ pc' = "completed"
          /\ UNCHANGED <<run, seeds, found, sources, cards, outline, asked, chapters>>

\* Chapters that failed are placeholders and issues.
MergeChapters ==
  /\ pc = "write" /\ Len(chapters) = Len(outline)
  /\ IF run.mode = "only" /\ \E i \in DOMAIN chapters : chapters[i].by = "rule" THEN Raise
     ELSE /\ \E text \in Assembled :
               report' = [ready |-> Lost = {}, issues |-> Lost, text |-> text]
          /\ pc' = "completed"
          /\ UNCHANGED <<run, seeds, found, sources, cards, outline, asked, chapters>>

Done == pc \in {"completed", "failed", "stopped"}

StageNext ==
  \/ Search \/ MergeSearch \/ SearchRaises \/ MergeReading \/ Analyze \/ Stop
  \/ OutlineByRule \/ AskOutline \/ RepairOutline
  \/ ChapterByRule \/ ChapterGap \/ AskChapter \/ WriterFails \/ MergeChapters
  \/ Done /\ UNCHANGED stageVars

StageSpec == StageInit /\ [][StageNext]_stageVars

(***************************************************************************)
(* Properties                                                              *)
(***************************************************************************)
\* Types; and the model is asked no more often than it may be.
StageTypeOK ==
  /\ pc \in {"search", "merge", "read", "analyze", "outline", "repair", "write"} \/ Done
  /\ run \in [mode : Modes, topic : Topics] /\ seeds \in Seq(Papers)
  /\ {p.id : p \in ToSet(sources)} \subseteq {p.id : p \in Papers}
  /\ \A c \in ToSet(cards) : c.source \in {p.id : p \in ToSet(sources)} /\ c.valid \in BOOLEAN
  /\ asked \in 0 .. (IF pc = "write" THEN 1 ELSE OutlineTries)
  /\ Len(outline) <= Max({MaxSections, 6})
  /\ Len(chapters) <= Len(outline)
  /\ \A c \in ToSet(chapters) : c.by \in {"rule", "gap", "llm", "none"}

\* Two records that some signs make one paper and others do not.
Clash(p, q) ==
  /\ p.id = q.id \/ Key(p) = Key(q) \/ (p.title # "" /\ p.title = q.title)
  /\ ~(p.id = q.id /\ Key(p) = Key(q) /\ p.title = q.title)

\* A paper that the user named is in the pool, whatever the filters, the gate for
\* local papers, the room and the model say, unless it was merged at first, or is
\* still beside a record that it clashes with and that may be merged over it.  So is
\* any other record with a named id, if none of them has a clash.
SeedsKept ==
  pc = "read" =>
    LET unique == DedupSources(seeds \o found)
        named == Named(unique, SeedIds)
        Alone(p) == \A q \in ToSet(unique) : ~Clash(p, q)
        kept == ToSet(IdsOf(sources))
    IN /\ \A p \in ToSet(First(unique, Len(seeds))) : p.id \in SeedIds /\ Alone(p) => p.id \in kept
       /\ (\A p \in ToSet(named) : Alone(p)) => ToSet(IdsOf(named)) \subseteq kept

\* Whatever the model answers, a number that the program puts into a chapter is that
\* of a paper, as the references number it, with a card that passed its check and was
\* assigned to this chapter; and no card, if it has its id for itself, serves more
\* than two chapters.  Any other number was written by the model itself, or is quoted
\* of a card of the chapter.  The abstract has no number that the chapters do not
\* have, and the references trace all that the program put.
CitesOwnEvidence ==
  pc = "completed" =>
    /\ \A i \in DOMAIN chapters : \A n \in chapters[i].cites :
         \E c \in ToSet(cards) :
           c.valid /\ Id(c) \in ToSet(outline[i].evidence) /\ sources[n].id = c.source
    /\ \A c \in ToSet(cards) :
         (\A d \in ToSet(cards) : Id(d) = Id(c) => d = c) => Uses(Id(c), outline) <= 2
    /\ \A i \in DOMAIN chapters : \A n \in chapters[i].bare :
         \/ chapters[i].by = "llm"
         \/ \E c \in ToSet(cards) : Id(c) \in ToSet(outline[i].evidence) /\ n \in c.quotes
    /\ report.text.lead \subseteq UNION {c.cites \union c.bare : c \in ToSet(chapters)}
    /\ UNION {c.cites : c \in ToSet(chapters)} \subseteq report.text.traced

\* A report that lacks a chapter says so and is not complete; and if only the model
\* may write, a chapter is the model's or missing.
AbsencesShown ==
  pc = "completed" =>
    /\ report.issues = {i \in DOMAIN outline : chapters[i].by = "none"}
    /\ report.ready <=> report.issues = {}
    /\ run.mode = "only" => \A i \in DOMAIN chapters : chapters[i].by \in {"llm", "none"}
=============================================================================
