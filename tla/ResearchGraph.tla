---------------------------- MODULE ResearchGraph ----------------------------
(***************************************************************************)
(* The four-agent graph of a run (graph/runtime.py, build_graph_with_send) *)
(* with what its nodes decide by: the planner's items and revisions        *)
(* (agents/planner.py), the worker results (agents/worker.py) and the      *)
(* reviewer's verdict (agents/reviewer.py).                                *)
(*                                                                         *)
(* A step is one superstep of the graph: one node, or all the workers that *)
(* were sent together.  Papers, evidence cards, citation checks and the    *)
(* report are kept as what they were made from and in which round.         *)
(* The deadline of the run and cancellation, which can end it between any  *)
(* two steps, are in RunLifecycle.                                         *)
(***************************************************************************)
EXTENDS Naturals, FiniteSets

CONSTANTS
  Searches,   \* task ids of the parallel search branches (three in the code)
  Chapters,   \* chapters of the outline
  Requested,  \* max_sources: a pool of that many papers is kept whole
  Classes,    \* execution classes the controller may choose
  LLM,        \* values of agent_mode = "llm" to consider
  RunEval     \* values of run_eval to consider

ASSUME GraphAssumption ==
  /\ IsFiniteSet(Searches) /\ Searches # {}
  /\ IsFiniteSet(Chapters) /\ Chapters # {}
  /\ Searches \intersect ({"direct_1", "context_load", "answer", "read", "analyze",
                           "cite", "write"}) = {}
  /\ Requested \in Nat \ {0}
  /\ Classes \subseteq {"atomic", "contextual", "research"}
  /\ LLM \subseteq BOOLEAN /\ RunEval \subseteq BOOLEAN

VARIABLES
  class,      \* execution class, "none" before the controller
  llm,        \* agent_mode = "llm"
  runEval,    \* run_eval
  pc,         \* the node that runs next ("merge" is the one for the stage), or
              \* "end" after the last node, "raised" after an exception, "done"
  stage,      \* profile of the work items that were sent last
  sent,       \* what was sent: tasks, papers to read, or chapters
  items,      \* task ids of the work plan
  replanned,  \* items the replan marked as affected
  degraded,   \* the write item is marked degraded_source_only
  repairs,    \* repair_count
  replans,    \* replan_count, which is also the revision of the plan
  round,      \* execution_round
  returned,   \* _worker_result_bucket: the results of what was sent last
  results,    \* worker_results: last recorded status per task
  sources,    \* papers of the run
  cards,      \* evidence cards: round they were made in, papers they are from
  checks,     \* citation checks: round, round of the cards they checked
  outlined,   \* an outline exists
  report,     \* final report: round, papers, rounds of the cards and checks
  gaps,       \* chapters expected and not written, none if no count is kept
  verdict,    \* review_verdict
  steps,      \* supersteps taken
  status      \* status of the finished run

modeVars  == <<class, llm, runEval>>
planVars  == <<items, replanned, degraded, replans>>
artVars   == <<sources, cards, checks, outlined, report, gaps>>
countVars == <<repairs, round>>
sendVars  == <<stage, sent>>
vars == <<modeVars, planVars, artVars, sendVars, pc, countVars, returned, results,
          verdict, steps, status>>

(***************************************************************************)
(* The work plan                                                           *)
(***************************************************************************)
Downstream == {"read", "analyze", "cite", "write"}
AllTasks == Searches \union Downstream \union {"direct_1", "context_load", "answer"}

PlanItems(c) ==
  CASE c = "atomic"     -> {"direct_1"}
    [] c = "contextual" -> {"context_load", "answer"}
    [] c = "research"   -> Searches \union Downstream

\* The dependency levels of the plans: an item depends on all the items of the
\* level before its own.
Rank(t) ==
  CASE t \in Searches \union {"direct_1", "context_load"} -> 1
    [] t \in {"read", "answer"} -> 2
    [] t = "analyze" -> 3
    [] t = "cite" -> 4
    [] t = "write" -> 5

\* Mutant: what depends on a failed item is not affected.
AffectedFailedOnly(failed) == failed

\* The failed items and everything downstream of them.
Affected(failed) ==
  failed \union {t \in items : \E f \in failed : Rank(f) < Rank(t)}

Profile(t) ==
  CASE t \in Searches -> "search"
    [] t = "direct_1" -> "direct"
    [] t \notin Searches \union {"direct_1"} -> t

(***************************************************************************)
(* Worker results.  "inconsistent" is a success with a failed tool call,   *)
(* "salvaged" a failure that still carries its output, "refused" a failure *)
(* that is not recoverable, "unanswerable" an answer that asks for         *)
(* clarification, "partial" a result that missed the completion gate.      *)
(***************************************************************************)
Outcomes(profile) ==
  CASE profile = "direct"  -> {"success", "inconsistent", "partial", "failed", "refused"}
    [] profile = "answer"  -> {"success", "failed", "unanswerable"}
    [] profile = "search"  -> {"success", "inconsistent", "partial", "failed", "salvaged"}
    [] profile = "read"    -> {"success", "failed", "salvaged"}
    [] profile = "analyze" -> {"success", "inconsistent", "partial", "failed", "salvaged"}
    [] profile = "write"   -> {"success", "partial", "failed"}
    [] profile \in {"context_load", "cite", "report"} -> {"success", "failed"}

\* Mutant: a failure that carries output is recorded as something else.
RecordedVerbatim(s) == s
Recorded(s) == IF s = "salvaged" THEN "failed" ELSE s
Statuses == {"success", "inconsistent", "partial", "failed", "refused", "unanswerable"}
Succeeds(s) == s \in {"success", "inconsistent", "unanswerable"}
HasOutput(s) == s \in {"success", "inconsistent", "salvaged"}

\* _aggregate_stage_result: a stage that was sent as several items has the status
\* of one that failed, if any did.
Aggregate(statuses) ==
  IF \A s \in statuses : Succeeds(s) THEN statuses
  ELSE {Recorded(s) : s \in {x \in statuses : ~Succeeds(x)}}

\* The results a merge reads: those of the current round and revision.  Rounds
\* only grow and a round sends a stage once, so they are the ones that returned
\* from the last Send; older entries of the bucket stay in it unread.
Current == {returned[t] : t \in sent}

NoCards == [at |-> 0, from |-> {}]
NoChecks == [at |-> 0, cards |-> 0]
NoReport == [at |-> 0, sources |-> {}, cards |-> 0, checks |-> 0]
NoVerdict == [outcome |-> "none", failed |-> {}, scope |-> {}, reusable |-> FALSE]

Init ==
  /\ class = "none" /\ llm \in LLM /\ runEval \in RunEval
  /\ pc = "controller" /\ stage = "none" /\ sent = {}
  /\ items = {} /\ replanned = {} /\ degraded = FALSE
  /\ repairs = 0 /\ replans = 0 /\ round = 0
  /\ returned = <<>> /\ results = [t \in AllTasks |-> "absent"]
  /\ sources = {} /\ cards = NoCards /\ checks = NoChecks
  /\ outlined = FALSE /\ report = NoReport /\ gaps = 0
  /\ verdict = NoVerdict /\ steps = 0 /\ status = "none"

(***************************************************************************)
(* Routing.  A conditional edge that returns no Send ends the graph.       *)
(***************************************************************************)
Goto(node) == pc' = node /\ UNCHANGED sendVars

Send(profile, tasks) ==
  /\ stage' = profile
  /\ sent' = tasks
  /\ pc' = IF tasks = {} THEN "end" ELSE "worker_send"

Step == steps' = steps + 1 /\ UNCHANGED status

(***************************************************************************)
(* Controller and planner                                                  *)
(***************************************************************************)
Controller ==
  /\ pc = "controller"
  /\ class' \in Classes
  /\ Goto("planner") /\ Step
  /\ UNCHANGED <<llm, runEval, planVars, artVars, countVars, returned, results,
                 verdict>>

Plan ==
  /\ pc = "planner"
  /\ verdict.outcome # "replan"
  /\ items' = PlanItems(class)
  /\ CASE class = "atomic"     -> Send("direct", {"direct_1"})
       [] class = "contextual" -> Send("context_load", {"context_load"})
       [] class = "research"   -> Send("search", Searches)
  /\ Step
  /\ UNCHANGED <<modeVars, replanned, degraded, replans, artVars, countVars, returned,
                 results, verdict>>

\* The evidence stage failed on papers that were read: the revised plan keeps
\* what is not affected and writes from the papers alone.
Degrades ==
  class = "research" /\ "analyze" \in verdict.failed /\ verdict.reusable

RevisedItems ==
  IF Degrades THEN (items \ Affected(verdict.failed)) \union {"write"} ELSE items

\* PlannerAgent.replan revises once, and WorkPlan refuses items whose
\* dependencies are not in the plan.
PlanValid == replans < 1 /\ (Degrades => "read" \in RevisedItems)

Marked == IF Degrades THEN {"write"} ELSE Affected(verdict.failed)

\* The marked items that depend on no marked item.
Roots == {t \in Marked : ~\E u \in Marked : Rank(u) < Rank(t)}

\* The edge after the planner can send any roots but an answer.
SendRoots ==
  CASE Roots = {}        -> Send("none", {})
    [] Roots = {"read"}  -> Send("read", sources)
    [] Roots = {"write"} -> IF Degrades THEN Send("report", {"report"})
                            ELSE Send("write", IF outlined THEN Chapters ELSE {})
    [] Roots = {"answer"} -> Goto("raised")
    [] Roots \notin {{}, {"read"}, {"write"}, {"answer"}} ->
         \E t \in Roots : Send(Profile(t), Roots)

\* A replan, made by the planner and sent by the edge after it.
Replan ==
  /\ pc = "planner"
  /\ verdict.outcome = "replan"
  /\ IF PlanValid
     THEN /\ items' = RevisedItems
          /\ replanned' = Marked
          /\ degraded' = Degrades
          /\ replans' = replans + 1
          /\ round' = round + 1
          /\ SendRoots
     ELSE Goto("raised") /\ UNCHANGED <<planVars, round>>
  /\ Step
  /\ UNCHANGED <<modeVars, artVars, repairs, returned, results, verdict>>

(***************************************************************************)
(* Workers and merges                                                      *)
(***************************************************************************)

\* The workers that were sent together run in one superstep.
WorkerSend ==
  /\ pc = "worker_send"
  /\ returned' \in [sent -> Outcomes(stage)]
  /\ Goto("merge") /\ Step
  /\ UNCHANGED <<modeVars, planVars, artVars, countVars, results, verdict>>

AtMerge(profile) ==
  /\ pc = "merge" /\ stage = profile
  /\ returned' = <<>>
  /\ Step
  /\ UNCHANGED <<modeVars, planVars, countVars, verdict>>

Record(task) ==
  \E s \in Aggregate(Current) : results' = [results EXCEPT ![task] = s]

\* The papers that may be selected: the task filter drops new ones only, and a
\* pool of more than Requested papers is cut to a selection of at least that many.
Selections(kept, found) ==
  {S \in SUBSET (kept \union found) : kept \subseteq S \/ Cardinality(S) >= Requested}

\* Mutant: the old report is kept even when a branch found new papers.
MergeSearchReusing ==
  /\ AtMerge("search")
  /\ results' = [t \in AllTasks |->
                   IF t \in sent THEN Recorded(returned[t]) ELSE results[t]]
  /\ sources' \in Selections(IF replans > 0 THEN sources ELSE {},
                             {<<t, replans>> : t \in {u \in sent : HasOutput(returned[u])}})
  /\ IF \/ sources' = {}
        \/ /\ replans > 0
           /\ results["read"] = "success"
     THEN Goto("reviewer")
     ELSE Send("read", sources')
  /\ UNCHANGED <<cards, checks, outlined, report, gaps>>

MergeSearch ==
  /\ AtMerge("search")
  /\ results' = [t \in AllTasks |->
                   IF t \in sent THEN Recorded(returned[t]) ELSE results[t]]
  /\ sources' \in Selections(IF replans > 0 THEN sources ELSE {},
                             {<<t, replans>> : t \in {u \in sent : HasOutput(returned[u])}})
  /\ IF \/ sources' = {}
        \/ /\ replans > 0
           /\ ~\E s \in Current : Succeeds(s)
           /\ results["read"] = "success"
     THEN Goto("reviewer")
     ELSE Send("read", sources')
  /\ UNCHANGED <<cards, checks, outlined, report, gaps>>

MergeRead ==
  /\ AtMerge("read")
  /\ Record("read")
  /\ sources' = {p \in sent : HasOutput(returned[p])}
  /\ IF Succeeds(results'["read"]) THEN Send("analyze", {"analyze"}) ELSE Goto("reviewer")
  /\ UNCHANGED <<cards, checks, outlined, report, gaps>>

MergeAnalyze ==
  /\ AtMerge("analyze")
  /\ Record("analyze")
  /\ cards' = IF HasOutput(returned["analyze"]) THEN [at |-> round + 1, from |-> sources]
              ELSE NoCards
  /\ IF Succeeds(results'["analyze"]) THEN Send("cite", {"cite"}) ELSE Goto("reviewer")
  /\ UNCHANGED <<sources, checks, outlined, report, gaps>>

MergeCite ==
  /\ AtMerge("cite")
  /\ Record("cite")
  /\ checks' = IF HasOutput(returned["cite"]) THEN [at |-> round + 1, cards |-> cards.at]
               ELSE NoChecks
  /\ Goto(IF Succeeds(results'["cite"]) THEN "outline" ELSE "reviewer")
  /\ UNCHANGED <<sources, cards, outlined, report, gaps>>

Outline ==
  /\ pc = "outline"
  /\ outlined' = TRUE
  /\ Send("write", Chapters) /\ Step
  /\ UNCHANGED <<modeVars, planVars, sources, cards, checks, report, gaps, countVars,
                 returned, results, verdict>>

CurrentReport ==
  [at |-> round + 1, sources |-> sources, cards |-> cards.at, checks |-> checks.at]

\* The chapters are put together with a placeholder for each one that failed;
\* the stage is partial when only some did.
MergeChapters ==
  /\ AtMerge("write")
  /\ LET failed == {c \in sent : returned[c] # "success"} IN
     /\ gaps' = Cardinality(failed)
     /\ IF failed # {} /\ failed # sent
        THEN results' = [results EXCEPT !["write"] = "partial"]
        ELSE Record("write")
  /\ report' = CurrentReport
  /\ Goto("reviewer")
  /\ UNCHANGED <<sources, cards, checks, outlined>>

MergeReport ==
  /\ AtMerge("report")
  /\ Record("write")
  /\ gaps' = 0
  /\ report' = IF returned["report"] = "success" THEN CurrentReport ELSE NoReport
  /\ Goto("reviewer")
  /\ UNCHANGED <<sources, cards, checks, outlined>>

MergeDirect ==
  /\ AtMerge("direct")
  /\ Record("direct_1")
  /\ sources' = {t \in sent : HasOutput(returned[t])} \X {replans}
  /\ Goto("reviewer")
  /\ UNCHANGED <<cards, checks, outlined, report, gaps>>

\* The answer is sent whatever became of its context.
MergeContext ==
  /\ AtMerge("context_load")
  /\ Record("context_load")
  /\ Send("answer", {"answer"})
  /\ UNCHANGED artVars

MergeAnswer ==
  /\ AtMerge("answer")
  /\ Record("answer")
  /\ Goto("reviewer")
  /\ UNCHANGED artVars

\* With llm_only set, the source selection, the outline and the assembly of the
\* chapters raise instead of falling back on rules.
StrictModeRaises ==
  /\ llm
  /\ \/ pc = "outline"
     \/ pc = "merge" /\ stage \in {"search", "write"}
  /\ Goto("raised") /\ Step
  /\ UNCHANGED <<modeVars, planVars, artVars, countVars, returned, results, verdict>>

(***************************************************************************)
(* Reviewer                                                                *)
(***************************************************************************)
ItemsWith(statuses) == {t \in items : results[t] \in statuses}
Missing == ItemsWith({"absent"})
Broken == ItemsWith({"failed", "refused", "inconsistent"})
Partial == ItemsWith({"partial"})

\* A failed or partial evidence stage whose input, the read papers, is usable.
Reusable ==
  /\ "analyze" \in items /\ results["analyze"] \in {"failed", "partial"}
  /\ "read" \in items /\ results["read"] = "success"

Replanned(failed, reusable) ==
  [outcome |-> "replan", failed |-> failed, scope |-> {}, reusable |-> reusable]
Repaired(scope) ==
  [outcome |-> "repair", failed |-> {}, scope |-> scope, reusable |-> FALSE]
Settled(outcome) ==
  [outcome |-> outcome, failed |-> {}, scope |-> {}, reusable |-> FALSE]

ReplanOrFail(failed) == IF replans < 1 THEN Replanned(failed, Reusable) ELSE Settled("fail")
\* Mutant: the reviewer does not count the repairs.
RepairAlways(scope) == Repaired(scope)
RepairOrFail(scope) == IF repairs < 1 THEN Repaired(scope) ELSE Settled("fail")

\* A search branch that stays partial after the replan is put up with.
Tolerable(hardFailed) ==
  Partial \subseteq Searches /\ replans >= 1 /\ report # NoReport /\ ~hardFailed

\* Mutant: a degraded plan is not told apart.
FinalGatesUndegraded(hardFailed) ==
  IF gaps > 0 THEN RepairOrFail({"write"})
  ELSE IF hardFailed THEN RepairOrFail({"analyze", "cite", "write"})
  ELSE Settled("pass")

\* The gates on what is delivered, when every task succeeded.
FinalGates(hardFailed) ==
  IF gaps > 0 THEN RepairOrFail({"write"})
  ELSE IF degraded THEN Settled(IF report # NoReport THEN "clarify" ELSE "fail")
  ELSE IF hardFailed THEN RepairOrFail({"analyze", "cite", "write"})
  ELSE Settled("pass")

\* ReviewerAgent.review: the first gate that applies decides.
HardVerdict(hardFailed) ==
  IF \A t \in items : results[t] = "absent" THEN Settled("clarify")
  ELSE IF ItemsWith({"unanswerable"}) # {} THEN Settled("clarify")
  ELSE IF Missing \union Broken # {}
    THEN IF ItemsWith({"failed", "inconsistent", "partial"}) # {}
         THEN ReplanOrFail(Missing \union Broken \union Partial)
         ELSE Settled("fail")
  ELSE IF Partial # {}
    THEN IF Tolerable(hardFailed) THEN Settled("pass")
         ELSE IF Partial \intersect (Searches \union {"direct_1"}) # {}
         THEN ReplanOrFail(Partial)
         ELSE RepairOrFail(Partial)
  ELSE FinalGates(hardFailed)

Repairable == {"analyze", "cite", "write"}

\* _tighten_verdict: what the semantic reviewer can make of a pass.  A repair that
\* names other tasks than Repairable becomes a replan of the tasks it calls
\* failed, which may be none, and a request to the user once there was a replan.
Tightened ==
  {Settled("clarify"), Settled("fail")}
    \union {RepairOrFail(scope) : scope \in (SUBSET (items \intersect Repairable)) \ {{}}}
    \union (IF replans < 1
            THEN {Replanned(failed, FALSE) : failed \in SUBSET items}
            ELSE {})

Verdicts ==
  \E hardFailed \in IF runEval /\ class = "research" THEN BOOLEAN ELSE {FALSE} :
    LET hard == HardVerdict(FALSE)
        evaluated == IF hard.outcome = "pass" THEN HardVerdict(hardFailed) ELSE hard
    IN \/ verdict' = evaluated
       \/ /\ evaluated.outcome = "pass" /\ runEval /\ llm /\ class = "research"
          /\ verdict' \in Tightened

Review ==
  /\ pc = "reviewer"
  /\ Verdicts
  /\ Goto(CASE verdict'.outcome = "repair" -> "begin_repair"
            [] verdict'.outcome = "replan" -> "planner"
            [] verdict'.outcome \notin {"repair", "replan"} -> "end")
  /\ Step
  /\ UNCHANGED <<modeVars, planVars, artVars, countVars, returned, results>>

\* Mutant: a repair gives the replan back.
BeginRepairFresh ==
  /\ pc = "begin_repair"
  /\ IF repairs + 1 > 1 \/ verdict.scope = {} \/ ~(verdict.scope \subseteq Repairable)
     THEN Goto("raised") /\ UNCHANGED countVars
     ELSE /\ repairs' = repairs + 1
          /\ round' = round + 1
          /\ IF "analyze" \in verdict.scope THEN Send("analyze", {"analyze"})
             ELSE IF "cite" \in verdict.scope THEN Send("cite", {"cite"})
             ELSE Send("write", IF outlined THEN Chapters ELSE {})
  /\ Step
  /\ replans' = 0
  /\ UNCHANGED <<modeVars, items, replanned, degraded, artVars, returned, results, verdict>>

\* begin_repair and the edge after it, which sends the first stage to be redone.
BeginRepair ==
  /\ pc = "begin_repair"
  /\ IF repairs + 1 > 1 \/ verdict.scope = {} \/ ~(verdict.scope \subseteq Repairable)
     THEN Goto("raised") /\ UNCHANGED countVars
     ELSE /\ repairs' = repairs + 1
          /\ round' = round + 1
          /\ IF "analyze" \in verdict.scope THEN Send("analyze", {"analyze"})
             ELSE IF "cite" \in verdict.scope THEN Send("cite", {"cite"})
             ELSE Send("write", IF outlined THEN Chapters ELSE {})
  /\ Step
  /\ UNCHANGED <<modeVars, planVars, artVars, returned, results, verdict>>

\* _finalize_run, or the exception handler of the run.  A report with some of its
\* chapters is delivered as partial even when the reviewer failed it.
Finalize ==
  /\ pc \in {"end", "raised"}
  /\ status' =
       CASE pc = "raised" -> "failed"
         [] pc = "end" /\ verdict.outcome = "pass" -> "completed"
         [] pc = "end" /\ verdict.outcome = "clarify" -> "partial"
         [] pc = "end" /\ verdict.outcome \notin {"pass", "clarify"} ->
              IF 0 < gaps /\ gaps < Cardinality(Chapters) THEN "partial" ELSE "failed"
  /\ pc' = "done"
  /\ UNCHANGED <<modeVars, planVars, artVars, sendVars, countVars, returned, results,
                 verdict, steps>>

Merge ==
  \/ MergeSearch \/ MergeRead \/ MergeAnalyze \/ MergeCite
  \/ MergeChapters \/ MergeReport
  \/ MergeDirect \/ MergeContext \/ MergeAnswer

Work ==
  \/ Controller \/ Plan \/ Replan
  \/ WorkerSend \/ Merge \/ Outline \/ StrictModeRaises
  \/ Review \/ BeginRepair \/ Finalize

Finished == pc = "done" /\ UNCHANGED vars

Next == Work \/ Finished

\* Every node returns, by its own timeout at the latest, so the graph goes on.
Spec == Init /\ [][Next]_vars /\ WF_vars(Work)

(***************************************************************************)
(* Properties                                                              *)
(***************************************************************************)
Nodes == {"controller", "planner", "worker_send", "merge", "outline", "reviewer",
          "begin_repair", "end", "raised", "done"}
Stages == {"none", "direct", "context_load", "answer", "search", "read", "analyze", "cite",
           "write", "report"}
Papers == (Searches \union {"direct_1"}) \X {0, 1}

\* Every variable keeps to its values; what was sent fits the stage.
TypeOK ==
  /\ class \in Classes \union {"none"} /\ llm \in BOOLEAN /\ runEval \in BOOLEAN
  /\ pc \in Nodes /\ stage \in Stages
  /\ items \subseteq AllTasks /\ replanned \subseteq AllTasks /\ degraded \in BOOLEAN
  /\ repairs \in {0, 1} /\ replans \in {0, 1} /\ round \in 0 .. 2
  /\ results \in [AllTasks -> Statuses \union {"absent"}]
  /\ sources \subseteq Papers
  /\ cards \in [at : 0 .. 3, from : SUBSET Papers]
  /\ checks \in [at : 0 .. 3, cards : 0 .. 3]
  /\ outlined \in BOOLEAN
  /\ report \in [at : 0 .. 3, sources : SUBSET Papers, cards : 0 .. 3, checks : 0 .. 3]
  /\ gaps \in 0 .. Cardinality(Chapters)
  /\ verdict.outcome \in {"none", "pass", "clarify", "repair", "replan", "fail"}
  /\ verdict.failed \subseteq AllTasks /\ verdict.scope \subseteq AllTasks
  /\ steps \in Nat
  /\ status \in {"none", "completed", "partial", "failed"}

\* The most supersteps a run can take: fourteen from the controller to the
\* verdict, nine for a repair and thirteen for a replan.
StepLimit == 36

\* The loops of the graph end: with a repair and a replan, in either order and
\* whatever fails in them, a run takes at most StepLimit supersteps.  The graph
\* engine is given no recursion limit of its own by the code.
StepsBounded == steps <= StepLimit

\* A research run that passes delivers a report made of what the run holds in the
\* end: every paper it lists was there when the report was written, and the
\* evidence cards and citation checks the report rests on are the last ones made,
\* the checks of those very cards.  No round leaves a stale part behind.
PassedReportCurrent ==
  verdict.outcome = "pass" /\ class = "research" =>
    /\ report # NoReport /\ cards # NoCards /\ checks # NoChecks
    /\ sources \subseteq report.sources
    /\ report.cards = cards.at /\ report.checks = checks.at
    /\ checks.cards = cards.at

\* A run whose plan was reduced to a report from the papers alone never counts as
\* completed, though the gate for partial searches comes before the one for it.
DegradedNeverPasses == degraded => status # "completed"

\* Until the next verdict a replan changes the results of the affected tasks only.
ReplanKeepsUnaffected ==
  [][verdict.outcome = "replan" =>
       \A t \in AllTasks : results'[t] # results[t] => t \in replanned]_vars

\* The run is a bounded review loop: at most one repair and one replan, then one
\* final status, which always comes.
Bounded == INSTANCE BoundedReview
ImplementsReview == Bounded!ReviewSpec

\* "When replanning, resend the ready roots of the affected part": a replan that
\* was decided can be carried out.
ReplanNeverRaises == [][pc = "planner" => pc' # "raised"]_vars
=============================================================================
