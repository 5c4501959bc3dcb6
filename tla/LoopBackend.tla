---------------------------- MODULE LoopBackend ----------------------------
(***************************************************************************)
(* The loop backend (services/orchestrator.py) with the rule worker, the     *)
(* evaluation, and the draft and final reviews: a list of four tasks, once   *)
(* more analyze and cite when citations fail, and a report whose markers [n] *)
(* number the papers, while the checks number the evidence cards.            *)
(*                                                                          *)
(* A report is the set of its lines, a line the markers it has: those that   *)
(* the program puts for a card, and those in what it quotes of one.  What     *)
(* the text says otherwise is left out.  Cancelling is in RunLifecycle.      *)
(***************************************************************************)
EXTENDS Naturals, Sequences, FiniteSets

CONSTANTS
  Texts,       \* what extraction yields from a paper: the passages of its cards
  MaxPapers    \* bound on the papers a search finds

Verdicts == {"valid", "unquoted", "unidentified"}

\* What the check will say of a card, and the numbers that stand in brackets in its
\* claim and in its limitation, as in "[3] shows that".
Passages == [verdict : Verdicts, claim : SUBSET Nat, limitation : SUBSET Nat]

ASSUME LoopAssumption == MaxPapers \in Nat /\ Texts \subseteq Seq(Passages)

VARIABLES
  pc,        \* the task that is next, or how the run ended
  runEval,   \* the request's run_eval
  round,     \* 2 from the retry on
  found,     \* papers found: text, and whether they have a title
  scored,    \* all_sources: the papers read, as positions in found
  left,      \* the papers that extraction still has to go through
  fresh,     \* cards that the running analysis has made
  cards,     \* all_evidence_cards
  checks,    \* citation_check_results, with the card that each was made for
  summary,   \* citation_summary: none, or whether all were valid
  tasks,     \* of the trace: the outcome of each task that called a tool
  errors,    \* of the trace: tool calls that failed
  calls,     \* of the trace: tool calls
  warned,    \* the contexts of the first round have warnings
  draft,     \* draft_report
  final,     \* final_report
  notices    \* banners, unresolved issues and warnings of the run

taskVars == <<tasks, errors, calls>>
reportVars == <<draft, final, notices>>
vars == <<pc, runEval, round, found, scored, left, fresh, cards, checks, summary,
          taskVars, warned, reportVars>>

Papers == [text : Texts, titled : BOOLEAN]

Init ==
  /\ pc = "search" /\ runEval \in BOOLEAN /\ round = 1
  /\ found = <<>> /\ scored = <<>> /\ left = <<>>
  /\ fresh = <<>> /\ cards = <<>> /\ checks = <<>> /\ summary = "none"
  /\ tasks = [t \in {} |-> TRUE] /\ errors = 0 /\ calls = 0 /\ warned = FALSE
  /\ draft = {} /\ final = {} /\ notices = {}

(***************************************************************************)
(* The worker's tasks                                                      *)
(***************************************************************************)
\* Tools answer, or fail and leave a warning; a task that failed once stays so.
Called(task, oks) ==
  LET bad == {i \in DOMAIN oks : ~oks[i]} IN
  /\ calls' = calls + Len(oks)
  /\ errors' = errors + Cardinality(bad)
  /\ tasks' = [t \in DOMAIN tasks \union {task} |->
                 IF t = task THEN bad = {} /\ (t \in DOMAIN tasks => tasks[t]) ELSE tasks[t]]
  \* the contexts of a retry are not asked for their warnings
  /\ warned' = (warned \/ (bad # {} /\ round = 1))

Search ==
  /\ pc = "search"
  /\ \/ /\ \E n \in 0 .. MaxPapers : \E list \in [1 .. n -> Papers] : found' = list
        /\ Called("search", <<TRUE>>)
     \/ found' = <<>> /\ Called("search", <<FALSE>>)
  /\ pc' = "read"
  /\ UNCHANGED <<runEval, round, scored, left, fresh, cards, checks, summary, reportVars>>

\* No tool of the plan is registered.
SearchRaises ==
  /\ pc = "search" /\ pc' = "failed"
  /\ UNCHANGED <<runEval, round, found, scored, left, fresh, cards, checks, summary, taskVars,
                 warned, reportVars>>

\* The papers up to the n-th that have a title.
titledUpTo[n \in 0 .. Len(found)] ==
  IF n = 0 THEN <<>>
  ELSE IF found[n].titled THEN Append(titledUpTo[n - 1], n) ELSE titledUpTo[n - 1]
Titled == titledUpTo[Len(found)]

\* Metadata drop papers without a title; scores only add a number.
Read ==
  /\ pc = "read"
  /\ IF found = <<>>
     THEN scored' = <<>> /\ warned' = TRUE /\ UNCHANGED taskVars
     ELSE \E metadata, scores \in BOOLEAN :
            /\ scored' = IF metadata THEN Titled ELSE [i \in 1 .. Len(found) |-> i]
            /\ Called("read", <<metadata, scores>>)
  \* papers that are all without a title are analysed as they were found
  /\ left' = IF scored' = <<>> THEN [i \in 1 .. Len(found) |-> i] ELSE scored'
  /\ pc' = "analyze"
  /\ UNCHANGED <<runEval, round, found, fresh, cards, checks, summary, reportVars>>

Material == IF scored = <<>> THEN [i \in 1 .. Len(found) |-> i] ELSE scored

Cards(p) ==
  [k \in 1 .. Len(found[p].text) |->
     [paper |-> p, place |-> k, says |-> found[p].text[k], round |-> round]]

\* A paper without usable text has no cards, and its extraction fails.
Analyze ==
  /\ pc = "analyze" /\ left # <<>>
  /\ LET p == Head(left) IN
     \/ found[p].text # <<>> /\ fresh' = fresh \o Cards(p) /\ Called("analyze", <<TRUE>>)
     \/ UNCHANGED fresh /\ Called("analyze", <<FALSE>>)
  /\ left' = Tail(left)
  /\ UNCHANGED <<pc, runEval, round, found, scored, cards, checks, summary, reportVars>>

Check(card) == [card |-> card, valid |-> card.says.verdict = "valid"]
AllValid(list) == \A k \in DOMAIN list : list[k].valid

\* Mutant: a check that fails in the retry leaves the results of the first.
CiteKeeping ==
  /\ pc = "analyze" /\ left = <<>>
  /\ cards' = IF round = 2 /\ fresh = <<>> THEN cards ELSE fresh
  /\ IF Material = <<>>
     THEN /\ checks' = <<>> /\ summary' = "none" /\ warned' = TRUE
          /\ UNCHANGED taskVars
     ELSE \/ /\ checks' = [k \in 1 .. Len(fresh) |-> Check(fresh[k])]
             /\ summary' = IF AllValid(checks') THEN "valid" ELSE "invalid"
             /\ Called("cite", <<TRUE>>)
          \/ UNCHANGED <<checks, summary>> /\ Called("cite", <<FALSE>>)
  /\ pc' = "evaluate"
  /\ UNCHANGED <<runEval, round, found, scored, left, fresh, reportVars>>

\* Each card is checked; no cards count as all valid, and no check as no summary.
\* When a retry brings no cards, those of the first round stay.
Cite ==
  /\ pc = "analyze" /\ left = <<>>
  /\ cards' = IF round = 2 /\ fresh = <<>> THEN cards ELSE fresh
  /\ IF Material = <<>>
     THEN /\ checks' = <<>> /\ summary' = "none" /\ warned' = TRUE
          /\ UNCHANGED taskVars
     ELSE \/ /\ checks' = [k \in 1 .. Len(fresh) |-> Check(fresh[k])]
             /\ summary' = IF AllValid(checks') THEN "valid" ELSE "invalid"
             /\ Called("cite", <<TRUE>>)
          \/ checks' = <<>> /\ summary' = "none" /\ Called("cite", <<FALSE>>)
  /\ pc' = "evaluate"
  /\ UNCHANGED <<runEval, round, found, scored, left, fresh, reportVars>>

(***************************************************************************)
(* The draft                                                               *)
(***************************************************************************)
\* The cards whose number has a valid check.
Verified == {k \in DOMAIN cards : k \in DOMAIN checks /\ checks[k].valid}
First(n, set) == {k \in set : Cardinality({j \in set : j < k}) < n}

\* The number of a card's paper in the list of sources, if it has one.
Numbers(set) == {i \in DOMAIN scored : \E k \in set : cards[k].paper = scored[i]}

\* Claims and limitations are quoted with the brackets that they have.
Claimed(set) == UNION {cards[k].says.claim : k \in set}
Limits(set) == UNION {cards[k].says.limitation : k \in set}
Limited == {k \in Verified : cards[k].says.limitation # {}}

Line(kind, of, refs) == [kind |-> kind, of |-> of, refs |-> refs]
Quoting(kind, of, set) == Line(kind, of, Numbers(set) \union Claimed(set))

\* Summary, one theme with its synthesis, the gaps with two limitations, the
\* conclusion, a line for each of ten findings, and the appendix with all sources.
Draft ==
  {Quoting("finding", k, {k}) : k \in First(10, Verified)}
  \union {Line("source", i, {i}) : i \in DOMAIN scored}
  \union {Quoting("summary", 0, First(3, Verified)), Line("theme", 0, Numbers(Verified)),
          Quoting("synthesis", 0, First(3, Verified)), Line("gap", 0, Limits(First(2, Limited))),
          Line("conclusion", 0, Numbers(Verified))}

\* Mutant: bad citations are not mentioned.
DraftWarningsFewer ==
  {w \in {"no sources", "no verified cards", "unchecked"} :
     \/ w = "no sources" /\ scored = <<>>
     \/ w = "no verified cards" /\ Verified = {}
     \/ w = "unchecked" /\ summary = "none"}

DraftWarnings ==
  {w \in {"no sources", "no verified cards", "invalid citations", "unchecked"} :
     \/ w = "no sources" /\ scored = <<>>
     \/ w = "no verified cards" /\ Verified = {}
     \/ w = "invalid citations" /\ summary = "invalid"
     \/ w = "unchecked" /\ summary = "none"}

(***************************************************************************)
(* The evaluation                                                          *)
(***************************************************************************)
NoFakeCitation == summary # "invalid"
CitationIdExists == \A k \in DOMAIN checks : checks[k].card.says.verdict # "unidentified"
ShouldRetry == runEval /\ round = 1 /\ ~(NoFakeCitation /\ CitationIdExists)

\* All tasks have called a tool, and none failed.
TasksSucceeded ==
  \A t \in {"search", "read", "analyze", "cite"} : t \in DOMAIN tasks /\ tasks[t]

\* What the evaluation finds wrong, as far as it has consequences.
FailedMetrics ==
  IF ~runEval THEN {}
  ELSE {m \in {"no_fake_citation", "min_sources", "citation_id_exists", "evidence_available",
               "task_success_rate", "tool_error_rate"} :
          \/ m = "no_fake_citation" /\ ~NoFakeCitation
          \/ m = "min_sources" /\ scored = <<>>
          \/ m = "citation_id_exists" /\ ~CitationIdExists
          \/ m = "evidence_available" /\ cards = <<>>
          \/ m = "task_success_rate" /\ ~TasksSucceeded
          \/ m = "tool_error_rate" /\ 2 * errors > calls}

\* The numbers in the draft, before its appendix, that are of no paper with a card.
Mismatched ==
  (UNION {line.refs : line \in {l \in Draft : l.kind # "source"}}) \ Numbers(DOMAIN cards)

\* Mutant: the cards of the first analysis stay in front of the new ones.
RetryAdding ==
  /\ pc = "evaluate" /\ ShouldRetry
  /\ round' = 2 /\ pc' = "analyze"
  /\ left' = Material
  /\ UNCHANGED <<runEval, found, scored, fresh, cards, checks, summary, taskVars, warned, reportVars>>

\* Analyze and cite are done anew over what was read.
Retry ==
  /\ pc = "evaluate" /\ ShouldRetry
  /\ round' = 2 /\ pc' = "analyze"
  /\ left' = Material /\ fresh' = <<>>
  /\ UNCHANGED <<runEval, found, scored, cards, checks, summary, taskVars, warned, reportVars>>

(***************************************************************************)
(* The final review                                                        *)
(***************************************************************************)
\* The numbers of the cards that failed.
InvalidIds == {k \in DOMAIN checks : ~checks[k].valid}

\* A line that has only bad markers goes, others lose them.  The markers are
\* numbers of papers.
WithoutFakes(lines) ==
  {[line EXCEPT !.refs = @ \ InvalidIds] :
     line \in {l \in lines : l.refs = {} \/ ~(l.refs \subseteq InvalidIds)}}

\* Mismatched numbers are known from the evaluation, and replaced if any listed paper
\* has a card.
Repairing == runEval /\ Numbers(DOMAIN cards) # {}
Misbound(lines) ==
  {l \in lines : Repairing /\ l.refs \intersect Mismatched # {}}

\* A misbound line gets the number that goes with the closest claim of all cards,
\* verified or not, for its mismatched ones.  One without a word of any claim goes;
\* a line that quotes a claim has words of it.
Repaired(lines, lost, closest) ==
  (lines \ DOMAIN closest)
  \union {[l EXCEPT !.refs = (@ \ Mismatched) \union {closest[l]}] : l \in DOMAIN closest \ lost}

\* Which claim is the closest is left open.
Reports ==
  LET lines == WithoutFakes(Draft)
      misbound == Misbound(lines)
  IN {Repaired(lines, lost, closest) :
        lost \in SUBSET {l \in misbound : l.kind \in {"gap", "source"}},
        closest \in [misbound -> Numbers(DOMAIN cards)]}

Banners ==
  FailedMetrics \intersect {"no_fake_citation", "min_sources", "evidence_available", "tool_error_rate"}
Unresolved == FailedMetrics \ {"no_fake_citation"}

\* A run may also be slow, which the review lists.
Finish ==
  /\ pc = "evaluate" /\ ~ShouldRetry
  /\ draft' = Draft
  /\ final' \in Reports
  /\ \E slow \in {{}, {"latency"}} :
       notices' = Banners \union Unresolved \union DraftWarnings
                  \union (IF warned THEN {"task warnings"} ELSE {})
                  \union (IF runEval THEN slow ELSE {})
  /\ pc' = "completed"
  /\ UNCHANGED <<runEval, round, found, scored, left, fresh, cards, checks, summary, taskVars, warned>>

Next == Search \/ SearchRaises \/ Read \/ Analyze \/ Cite \/ Retry \/ Finish

Spec == Init /\ [][Next]_vars

(***************************************************************************)
(* Properties                                                              *)
(***************************************************************************)
CardType == [paper : 1 .. MaxPapers, place : Nat \ {0}, says : Passages, round : {1, 2}]

\* Types; and an analysis brings each card once, of one round only.
TypeOK ==
  /\ pc \in {"search", "read", "analyze", "evaluate", "completed", "failed"}
  /\ runEval \in BOOLEAN /\ round \in {1, 2} /\ warned \in BOOLEAN
  /\ found \in Seq(Papers) /\ {scored, left} \subseteq Seq(DOMAIN found)
  /\ {fresh, cards} \subseteq Seq(CardType)
  /\ \A list \in {fresh, cards} : \A j, k \in DOMAIN list :
       list[j].round = list[k].round /\ (list[j] = list[k] => j = k)
  /\ summary \in {"none", "valid", "invalid"}
  /\ checks \in Seq([card : CardType, valid : BOOLEAN])

\* The check that is kept for card k was made for it, and passed.
Passed(k) == k \in DOMAIN checks /\ checks[k].card = cards[k] /\ checks[k].valid
Quoted(k) == Claimed({k}) \union Limits({k})

\* Whatever the retry brought, a marker left in the text is the number of a paper
\* one of whose cards passed the check that was made for that card; or such a card
\* quotes a number.  Then, after an evaluation, the marker is at least that of a
\* listed paper with a card, quoted so or put for a mismatched one; without, it is
\* what the card quotes.
CitedVerified ==
  pc = "completed" =>
    \A line \in final : line.kind # "source" =>
      \A n \in line.refs :
        \E k \in DOMAIN cards :
          /\ Passed(k)
          /\ \/ n \in Numbers({k})
             \/ /\ Repairing /\ n \in Numbers(DOMAIN cards)
                /\ Quoted(k) \intersect (Mismatched \union {n}) # {}
             \/ ~Repairing /\ n \in Quoted(k)

\* A completed run whose report has lost all findings says so somewhere, whether it
\* is evaluated or not: in a banner, a listed issue or a warning.
EmptySaysSo ==
  pc = "completed" /\ ~(\E line \in final : line.kind = "finding") => notices # {}
=============================================================================
