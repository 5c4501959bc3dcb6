----------------------------- MODULE PaperPool -----------------------------
(***************************************************************************)
(* How the papers of several searches become the pool of a run               *)
(* (graph/runtime.py, agents/task_relevance.py, agents/source_selector.py):  *)
(* duplicates are merged, papers beside the task and local papers without    *)
(* text are dropped, the rest is ranked, and the papers to analyse are       *)
(* chosen, by rules or by the model, behind the papers the user named.       *)
(*                                                                          *)
(* A paper is a record: id, doi, arxiv, url, title ("" when it has none),    *)
(* score (what the scorer will say), quality (0 until ranked), fields (how   *)
(* many are filled), text (how much), local, fits (the task), buckets.       *)
(***************************************************************************)
EXTENDS Integers, Sequences, SequencesExt, FiniteSets, FiniteSetsExt, Functions

CONSTANTS
  Breadth,   \* papers that a comprehensive request wants at least
  Guard,     \* MAX_ANALYSIS_SOURCES, 0 when it is not set
  MaxWish    \* bound on the papers that the model names

ASSUME PoolAssumption == {Breadth, Guard, MaxWish} \subseteq Nat

Buckets == <<"methods", "datasets", "results", "limitations", "reviews", "recent",
             "full_text", "influential">>

PaperRecords ==
  [id : STRING, doi : STRING, arxiv : STRING, url : STRING, title : STRING,
   score : Int, quality : Int, fields : Nat, text : Nat,
   local : BOOLEAN, fits : BOOLEAN, buckets : SUBSET ToSet(Buckets)]

(***************************************************************************)
(* Sequences, by the positions that are taken: each n-th element is defined  *)
(* by how many come before it, which is what can be proved about.            *)
(***************************************************************************)
\* The n-th element of a set by a strict order, a set of pairs.
Nth(set, order, n) == CHOOSE x \in set : Cardinality({y \in set : <<y, x>> \in order}) = n - 1

\* What a sequence has at the given positions, in its order.
At(q, positions) ==
  LET at == positions \intersect DOMAIN q
  IN [n \in 1 .. Cardinality(at) |-> q[Nth(at, {p \in at \X at : p[1] < p[2]}, n)]]

First(q, count) == At(q, 1 .. count)

\* Without repetitions.
Distinct(q) == At(q, {i \in DOMAIN q : \A j \in DOMAIN q : j < i => q[j] # q[i]})

(***************************************************************************)
(* Duplicates                                                              *)
(***************************************************************************)
Key(p) ==
  CASE p.doi # "" -> <<"doi", p.doi>>
    [] p.doi = "" /\ p.arxiv # "" -> <<"arxiv", p.arxiv>>
    [] p.doi = "" /\ p.arxiv = "" /\ p.url # "" -> <<"url", p.url>>
    [] OTHER -> <<"sid", p.id>>

Better(new, old) ==
  \/ new.quality > old.quality
  \/ new.quality = old.quality /\ new.fields > old.fields
  \/ new.text > old.text

\* titles: the place of the last paper with a title, 0 if there is none.
Unmerged(papers) ==
  [papers |-> <<>>, keys |-> <<>>, titles |-> [t \in {p.title : p \in ToSet(papers)} |-> 0]]

\* Where a paper belongs: with its key, or else with the last paper of its title.
Place(merged, p) ==
  IF Key(p) \in ToSet(merged.keys) THEN CHOOSE i \in DOMAIN merged.keys : merged.keys[i] = Key(p)
  ELSE merged.titles[p.title]

\* A better version takes the place, which keeps the key it was opened with.
Merge(merged, p) ==
  LET i == Place(merged, p)
      place == IF i = 0 THEN Len(merged.papers) + 1 ELSE i
  IN [papers |-> IF i = 0 THEN Append(merged.papers, p)
                 ELSE IF Better(p, merged.papers[i]) THEN [merged.papers EXCEPT ![i] = p]
                 ELSE merged.papers,
      keys |-> IF i = 0 THEN Append(merged.keys, Key(p)) ELSE merged.keys,
      titles |-> IF p.title = "" THEN merged.titles ELSE [merged.titles EXCEPT ![p.title] = place]]

MergedUpTo(papers) ==
  LET upTo[n \in 0 .. Len(papers)] ==
        IF n = 0 THEN Unmerged(papers) ELSE Merge(upTo[n - 1], papers[n])
  IN upTo
DedupSources(papers) == MergedUpTo(papers)[Len(papers)].papers

(***************************************************************************)
(* Candidates                                                              *)
(***************************************************************************)
FilterForTask(papers) == At(papers, {i \in DOMAIN papers : papers[i].fits})
LocalGate(papers) == At(papers, {i \in DOMAIN papers : papers[i].local => papers[i].text > 0})

Named(papers, seeds) == At(papers, {i \in DOMAIN papers : papers[i].id \in seeds})

\* Seeds that a filter took out come back, to the front.
RestoreSeeds(seeds, papers, original) ==
  IF seeds = {} THEN papers ELSE DedupSources(Named(original, seeds) \o papers)

\* Scores are kept by id: of papers with one id, the last one's counts.
ById(papers, id) == papers[Max({i \in DOMAIN papers : papers[i].id = id})]
Score(papers) ==
  [i \in DOMAIN papers |-> [papers[i] EXCEPT !.quality = ById(papers, papers[i].id).score]]

\* By score, then by text; equal ones stay in order.
Rank(papers) ==
  LET scored == Score(papers)
      Before(i, j) ==
        LET p == scored[i] q == scored[j] IN
        \/ p.quality > q.quality
        \/ p.quality = q.quality /\ (p.text > 0 /\ q.text = 0)
        \/ p.quality = q.quality /\ (p.text > 0 <=> q.text > 0) /\ i < j
      order == {p \in (DOMAIN papers) \X (DOMAIN papers) : Before(p[1], p[2])}
  IN [n \in DOMAIN papers |-> scored[Nth(DOMAIN papers, order, n)]]

\* Mutant: after the gate for local papers the seeds are not put back.
CandidatesGated(seeds, raw) ==
  LET unique == DedupSources(raw)
      eligible == RestoreSeeds(seeds, FilterForTask(unique), unique)
  IN LocalGate(Rank(eligible))

Candidates(seeds, raw) ==
  LET unique == DedupSources(raw)
      eligible == RestoreSeeds(seeds, FilterForTask(unique), unique)
  IN RestoreSeeds(seeds, LocalGate(Rank(eligible)), unique)

(***************************************************************************)
(* The choice                                                              *)
(***************************************************************************)
IdsOf(papers) == [i \in DOMAIN papers |-> papers[i].id]

Missing(papers, chosen, b) ==
  {i \in DOMAIN papers : b \in papers[i].buckets /\ papers[i].id \notin ToSet(chosen)}
Pick(papers, count, chosen, b) ==
  IF Len(chosen) < count /\ Missing(papers, chosen, b) # {}
  THEN Append(chosen, At(papers, Missing(papers, chosen, b))[1].id) ELSE chosen

\* Round after round one more paper of each bucket, while there are any, then the
\* rest in order.
PicksUpTo(papers, count) ==
  LET upTo[n \in 0 .. Len(papers) * Len(Buckets)] ==
        IF n = 0 THEN <<>>
        ELSE Pick(papers, count, upTo[n - 1], Buckets[((n - 1) % Len(Buckets)) + 1])
  IN upTo
StratifiedIds(papers, count) ==
  LET rounds == PicksUpTo(papers, count)[Len(papers) * Len(Buckets)]
  IN First(Distinct(rounds \o IdsOf(papers)), count)

Available(papers) == IF Guard = 0 THEN Len(papers) ELSE Min({Len(papers), Guard})
Requested(papers, wanted) == Max({1, Min({wanted, Available(papers)})})
Minimum(papers, wanted, comprehensive) ==
  Min({Available(papers),
       IF comprehensive THEN Max({Requested(papers, wanted), Breadth}) ELSE Requested(papers, wanted)})

\* A comprehensive request takes about twice the root of what there is.
Suggested(papers, wanted, comprehensive) ==
  LET root == CHOOSE k \in 0 .. 2 * Len(papers) :
                k * k >= 4 * Len(papers) /\ (k - 1) * (k - 1) < 4 * Len(papers)
      least == Minimum(papers, wanted, comprehensive)
  IN Min({Available(papers), IF comprehensive THEN Max({least, root}) ELSE least})

\* The model names papers in any order and a number; the rest is filled in.
Answered(papers, wish, number, wanted, comprehensive) ==
  LET count == Max({Minimum(papers, wanted, comprehensive), Min({number, Available(papers)})})
      known == Distinct(At(wish, {i \in DOMAIN wish : wish[i] \in ToSet(IdsOf(papers))}))
      fill == StratifiedIds(papers, Suggested(papers, wanted, comprehensive))
  IN First(Distinct(First(known, count) \o fill), count)

\* The ids that may be chosen.  A model that fails is replaced by the rules, or
\* ends a run that may not use them.
Asks(papers, wanted, mode) == mode # "rule" /\ Len(papers) > Requested(papers, wanted)
IdChoices(papers, wanted, comprehensive, mode) ==
  IF papers = <<>> THEN {<<>>}
  ELSE IF Len(papers) <= Requested(papers, wanted) THEN {Distinct(IdsOf(papers))}
  ELSE (IF mode = "only" THEN {}
        ELSE {StratifiedIds(papers, Suggested(papers, wanted, comprehensive))})
       \union
       (IF mode = "rule" THEN {}
        ELSE {Answered(papers, answer[1], answer[2], wanted, comprehensive) :
                answer \in SeqOf(ToSet(IdsOf(papers)) \union {"unknown"}, MaxWish) \X (0 .. Len(papers))})

Chosen(papers, ids) == [i \in DOMAIN ids |-> ById(papers, ids[i])]

\* Seeds first, as far as there is room, then a choice of the others.
Selections(papers, seeds, wanted, comprehensive, mode) ==
  LET named == Named(papers, seeds)
      first == First(named, wanted)
      others == At(papers, {i \in DOMAIN papers : Key(papers[i]) \notin {Key(p) : p \in ToSet(first)}})
  IN IF seeds = {}
     THEN {Chosen(papers, ids) : ids \in IdChoices(papers, wanted, comprehensive, mode)}
     ELSE IF Len(first) = wanted THEN {first}
     ELSE {first \o Chosen(others, ids) :
             ids \in IdChoices(others, wanted - Len(first), comprehensive, mode)}
=============================================================================
