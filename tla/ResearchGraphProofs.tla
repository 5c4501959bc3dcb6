------------------------- MODULE ResearchGraphProofs -------------------------
(***************************************************************************)
(* Proofs about ResearchGraph, for any search branches and chapters.       *)
(***************************************************************************)
EXTENDS ResearchGraph, FiniteSetTheorems, TLAPS

\* How far the workers of a stage are from the controller.
Level(s) ==
  IF s \in {"answer", "read"} THEN 4
  ELSE IF s = "analyze" THEN 6
  ELSE IF s = "cite" THEN 8
  ELSE IF s \in {"write", "report"} THEN 11
  ELSE 2

\* The most supersteps that lead to a node without a repair and a replan.
Position ==
  IF pc = "controller" THEN 0
  ELSE IF pc = "planner" THEN (IF verdict.outcome = "replan" THEN 14 ELSE 1)
  ELSE IF pc = "worker_send" THEN Level(stage)
  ELSE IF pc = "merge" THEN Level(stage) + 1
  ELSE IF pc = "outline" THEN 10
  ELSE IF pc = "reviewer" THEN 13
  ELSE 14

\* Where the run stands and what its two loops have used up.  The reviewer sends
\* it round again only while the loop it takes is unused.
Control ==
  /\ steps \in Nat /\ repairs \in {0, 1} /\ replans \in {0, 1}
  /\ pc \notin {"raised", "done"} => steps <= Position + 9 * repairs + 13 * replans
  /\ steps <= StepLimit
  /\ pc = "controller" => verdict = NoVerdict
  /\ pc \in {"controller", "planner"} => replans = 0
  /\ pc # "controller" => class \in Classes
  /\ pc = "begin_repair" => repairs = 0
  /\ pc # "done" => status = "none"

LEMMA LevelType == \A s : Level(s) \in 2 .. 11
  BY DEF Level

\* What the reviewer decides keeps to the two limits.
LEMMA VerdictWithinLimits ==
  ASSUME Verdicts
  PROVE  /\ verdict'.outcome = "replan" => replans < 1
         /\ verdict'.outcome = "repair" => repairs < 1
<1> USE DEF Settled, Replanned, Repaired, ReplanOrFail, RepairOrFail
<1>1. ASSUME NEW hardFailed
      PROVE  /\ HardVerdict(hardFailed).outcome = "replan" => replans < 1
             /\ HardVerdict(hardFailed).outcome = "repair" => repairs < 1
  BY DEF HardVerdict, FinalGates
<1>2. ASSUME NEW v \in Tightened
      PROVE  /\ v.outcome = "replan" => replans < 1
             /\ v.outcome = "repair" => repairs < 1
  BY <1>2 DEF Tightened
<1> QED BY <1>1, <1>2 DEF Verdicts

LEMMA InitControl == Init => Control
  BY DEF Init, Control, Position, StepLimit

LEMMA NextControl == Control /\ [Next]_vars => Control'
<1> SUFFICES ASSUME Control, [Next]_vars PROVE Control'
  OBVIOUS
<1> USE DEF Control, Position, StepLimit, Step, Goto, Send, modeVars, countVars, planVars,
       sendVars
<1>1. CASE Controller
  BY <1>1 DEF Controller, NoVerdict
<1>2. CASE Plan
  <2>1. class \in {"atomic", "contextual", "research"}
    BY <1>2, GraphAssumption DEF Plan
  <2>2. pc' \in {"worker_send", "end"}
    BY <1>2, <2>1 DEF Plan
  <2>3. /\ steps' = steps + 1 /\ repairs' = repairs /\ replans' = replans
        /\ status' = status /\ class' = class /\ verdict' = verdict
    BY <1>2 DEF Plan
  <2> QED BY <1>2, <2>2, <2>3, LevelType DEF Plan
<1>3. CASE Replan
  <2>1. CASE PlanValid
    <3>1. /\ replans = 0 /\ replans' = 1 /\ repairs' = repairs /\ verdict' = verdict
          /\ steps' = steps + 1 /\ status' = status
      BY <1>3, <2>1 DEF Replan, PlanValid
    <3>2. pc' \in {"end", "worker_send", "raised"}
      <4>1. SendRoots
        BY <1>3, <2>1 DEF Replan
      <4> QED BY <4>1 DEF SendRoots
    <3> QED BY <1>3, <3>1, <3>2, LevelType DEF Replan
  <2>2. CASE ~PlanValid
    BY <1>3, <2>2 DEF Replan
  <2> QED BY <2>1, <2>2
<1>4. CASE WorkerSend
  BY <1>4, LevelType DEF WorkerSend
<1>5. CASE Merge
  <2>1. CASE MergeSearch
    BY <2>1 DEF MergeSearch, AtMerge, Level
  <2>2. CASE MergeRead
    BY <2>2 DEF MergeRead, AtMerge, Level
  <2>3. CASE MergeAnalyze
    BY <2>3 DEF MergeAnalyze, AtMerge, Level
  <2>4. CASE MergeCite
    BY <2>4 DEF MergeCite, AtMerge, Level
  <2>5. CASE MergeChapters
    BY <2>5 DEF MergeChapters, AtMerge, Level
  <2>6. CASE MergeReport
    <3>1. /\ pc = "merge" /\ Level(stage) = 11 /\ pc' = "reviewer"
          /\ steps' = steps + 1 /\ repairs' = repairs /\ replans' = replans
          /\ status' = status /\ class' = class
      BY <2>6 DEF MergeReport, AtMerge, Level
    <3> QED BY <3>1
  <2>7. CASE MergeDirect
    BY <2>7 DEF MergeDirect, AtMerge, Level
  <2>8. CASE MergeContext
    BY <2>8 DEF MergeContext, AtMerge, Level
  <2>9. CASE MergeAnswer
    BY <2>9 DEF MergeAnswer, AtMerge, Level
  <2> QED BY <1>5, <2>1, <2>2, <2>3, <2>4, <2>5, <2>6, <2>7, <2>8,
         <2>9 DEF Merge
<1>6. CASE Outline
  BY <1>6 DEF Outline, Level
<1>7. CASE StrictModeRaises
  BY <1>7 DEF StrictModeRaises, Level
<1>8. CASE Review
  <2>1. /\ verdict'.outcome = "replan" => replans = 0
        /\ verdict'.outcome = "repair" => repairs = 0
    BY <1>8, VerdictWithinLimits DEF Review
  <2> QED BY <1>8, <2>1 DEF Review
<1>9. CASE BeginRepair
  BY <1>9 DEF BeginRepair, Level
<1>10. CASE Finalize
  BY <1>10 DEF Finalize
<1>11. CASE UNCHANGED vars
  BY <1>11 DEF vars
<1> QED
  BY <1>1, <1>2, <1>3, <1>4, <1>5, <1>6, <1>7, <1>8, <1>9, <1>10, <1>11
     DEF Next, Work, Finished

LEMMA AlwaysControl == Spec => []Control
  BY InitControl, NextControl, PTL DEF Spec

\* The loops of the graph end: no run takes more than StepLimit supersteps.
THEOREM StepsAreBounded == Spec => []StepsBounded
<1>1. Control => StepsBounded BY DEF Control, StepsBounded
<1> QED BY <1>1, AlwaysControl, PTL

\* Once the plan was reduced, no search branch is partial any more and none is
\* sent again, so only the gate for degraded plans is left.
Degradation ==
  /\ results = [t \in AllTasks |-> results[t]]
  /\ pc = "planner" /\ verdict.outcome = "replan" /\ verdict.reusable =>
       Partial \subseteq verdict.failed
  /\ degraded =>
       /\ pc \notin {"controller", "planner"}
       /\ pc \in {"worker_send", "merge"} => stage # "search"
       /\ Partial \intersect Searches = {}
       /\ verdict.outcome # "pass" /\ status # "completed"
       /\ replans = 1

\* A hard verdict that calls for a replan names all that is partial.
LEMMA ReplanNamesPartial ==
  ASSUME NEW hardFailed, HardVerdict(hardFailed).outcome = "replan"
  PROVE  Partial \subseteq HardVerdict(hardFailed).failed
  BY DEF HardVerdict, FinalGates, ReplanOrFail, RepairOrFail, Replanned, Repaired, Settled

LEMMA DegradedNotPassed ==
  ASSUME degraded, Partial \intersect Searches = {}, NEW hardFailed
  PROVE  HardVerdict(hardFailed).outcome # "pass"
  BY DEF HardVerdict, FinalGates, Tolerable, ReplanOrFail, RepairOrFail, Replanned, Repaired,
         Settled

LEMMA VerdictDegradation ==
  ASSUME Verdicts
  PROVE  /\ verdict'.outcome = "replan" /\ verdict'.reusable => Partial \subseteq verdict'.failed
         /\ degraded /\ Partial \intersect Searches = {} => verdict'.outcome # "pass"
<1>1. ASSUME NEW v \in Tightened PROVE ~(v.outcome = "replan" /\ v.reusable)
  BY <1>1 DEF Tightened, Settled, Replanned, RepairOrFail, Repaired
<1> QED BY <1>1, ReplanNamesPartial, DegradedNotPassed DEF Verdicts

LEMMA InitDegradation == Init => Degradation
  BY DEF Init, Degradation

LEMMA NextDegradation == Control /\ Degradation /\ [Next]_vars => Degradation'
<1> SUFFICES ASSUME Control, Degradation, [Next]_vars PROVE Degradation'
  OBVIOUS
<1> USE DEF Degradation, Step, Goto, Send, planVars, sendVars
<1>1. CASE Controller
  BY <1>1 DEF Controller, Control, NoVerdict
<1>2. CASE Plan
  BY <1>2 DEF Plan
<1>3. CASE Replan
  <2>1. CASE PlanValid /\ Degrades
    <3>1. Partial' \intersect Searches = {}
      <4>1. /\ results' = results
            /\ items' = (items \ Affected(verdict.failed)) \union {"write"}
            /\ Partial \subseteq verdict.failed
        BY <1>3, <2>1 DEF Replan, Degrades, RevisedItems
      <4> QED BY <4>1, GraphAssumption DEF Partial, ItemsWith, Affected
    <3>2. Roots = {"write"}
      BY <2>1, GraphAssumption DEF Roots, Marked, Rank
    <3>3. stage' = "report" /\ pc' \in {"worker_send", "end"}
      BY <1>3, <2>1, <3>2 DEF Replan, SendRoots
    <3> QED BY <1>3, <2>1, <3>1, <3>3 DEF Replan, PlanValid, Control
  <2>2. CASE PlanValid /\ ~Degrades
    BY <1>3, <2>2 DEF Replan, SendRoots
  <2>3. CASE ~PlanValid
    BY <1>3, <2>3 DEF Replan
  <2> QED BY <2>1, <2>2, <2>3
<1>4. CASE WorkerSend
  BY <1>4 DEF WorkerSend, Partial, ItemsWith
<1>5. CASE Merge
  <2>1. ASSUME NEW t \in AllTasks \ Searches, items' = items,
               Record(t) \/ results' = [results EXCEPT ![t] = "partial"]
        PROVE  /\ results' = [u \in AllTasks |-> results'[u]]
               /\ Partial' \intersect Searches = Partial \intersect Searches
    <3>1. \E s : results' = [results EXCEPT ![t] = s]
      BY <2>1 DEF Record
    <3>2. PICK s : results' = [u \in AllTasks |-> IF u = t THEN s ELSE results[u]]
      BY <3>1
    <3> QED BY <2>1, <3>2 DEF Partial, ItemsWith, AllTasks
  <2>2. {"read", "analyze", "cite", "write", "direct_1", "context_load", "answer"}
          \subseteq AllTasks \ Searches
    BY GraphAssumption DEF AllTasks, Downstream
  <2>3. /\ pc = "merge" /\ pc' \in {"reviewer", "outline", "worker_send", "end"}
        /\ stage = "search" \/ stage' # "search" \/ pc' \notin {"worker_send", "merge"}
        /\ degraded' = degraded /\ replans' = replans /\ items' = items
        /\ verdict' = verdict /\ status' = status
    BY <1>5 DEF Merge, MergeSearch, MergeRead, MergeAnalyze, MergeCite, MergeChapters,
         MergeReport, MergeDirect, MergeContext, MergeAnswer, AtMerge
  <2>4. CASE MergeSearch
    BY <2>3, <2>4 DEF MergeSearch, AtMerge
  <2>5. CASE ~MergeSearch
    <3>1. \E t \in AllTasks \ Searches :
            Record(t) \/ results' = [results EXCEPT ![t] = "partial"]
      BY <1>5, <2>2, <2>5 DEF Merge, MergeRead, MergeAnalyze, MergeCite, MergeChapters,
           MergeReport, MergeDirect, MergeContext, MergeAnswer
    <3>2. stage # "search"
      BY <1>5, <2>5 DEF Merge, MergeRead, MergeAnalyze, MergeCite, MergeChapters,
           MergeReport, MergeDirect, MergeContext, MergeAnswer, AtMerge
    <3> QED BY <2>1, <2>3, <3>1, <3>2
  <2> QED BY <2>4, <2>5
<1>6. CASE Outline
  BY <1>6 DEF Outline, Partial, ItemsWith
<1>7. CASE StrictModeRaises
  BY <1>7 DEF StrictModeRaises, Partial, ItemsWith
<1>8. CASE Review
  <2>1. Partial' = Partial /\ results' = results
    BY <1>8 DEF Review, Partial, ItemsWith
  <2> QED BY <1>8, <2>1, VerdictDegradation, VerdictWithinLimits DEF Review
<1>9. CASE BeginRepair
  BY <1>9 DEF BeginRepair, Partial, ItemsWith
<1>10. CASE Finalize
  BY <1>10 DEF Finalize, Partial, ItemsWith
<1>11. CASE UNCHANGED vars
  BY <1>11 DEF vars, Partial, ItemsWith
<1> QED
  BY <1>1, <1>2, <1>3, <1>4, <1>5, <1>6, <1>7, <1>8, <1>9, <1>10, <1>11
     DEF Next, Work, Finished

\* A run whose plan was reduced to a report from the papers alone is never
\* completed.
THEOREM DegradedIsNotCompleted == Spec => []DegradedNeverPasses
<1>1. Control /\ Degradation /\ [Next]_vars => (Control /\ Degradation)'
  BY NextControl, NextDegradation
<1>2. Init => Control /\ Degradation
  BY InitControl, InitDegradation
<1>3. Degradation => DegradedNeverPasses
  BY DEF Degradation, DegradedNeverPasses
<1> QED BY <1>1, <1>2, <1>3, PTL DEF Spec

\* The graph is a bounded review loop: in any run, at most one repair and one
\* replan are made, and nothing follows the run's status.
THEOREM GraphImplementsReview == Spec => Bounded!ReviewSafety
<1>1. Init => Bounded!ReviewInit
  BY DEF Init, Bounded!ReviewInit
<1>2. Control /\ [Next]_vars => [Bounded!ReviewNext]_(Bounded!reviewVars)
  <2> SUFFICES ASSUME Control, [Next]_vars PROVE [Bounded!ReviewNext]_(Bounded!reviewVars)
    OBVIOUS
  <2> USE DEF Bounded!ReviewNext, Bounded!reviewVars, Step
  <2>1. CASE Replan
    BY <2>1 DEF Replan, Control, PlanValid, Bounded!Replan, planVars
  <2>2. CASE BeginRepair
    BY <2>2 DEF BeginRepair, Control, Bounded!Repair, planVars, countVars
  <2>3. CASE Finalize
    BY <2>3 DEF Finalize, Control, Bounded!Conclude, planVars, countVars
  <2>4. CASE Controller \/ Plan \/ WorkerSend \/ Outline \/ StrictModeRaises \/ Review
    BY <2>4 DEF Controller, Plan, WorkerSend, Outline, StrictModeRaises, Review, planVars,
         countVars
  <2>5. CASE Merge
    BY <2>5 DEF Merge, MergeSearch, MergeRead, MergeAnalyze, MergeCite, MergeChapters,
         MergeReport, MergeDirect, MergeContext, MergeAnswer, AtMerge, planVars, countVars
  <2>6. CASE UNCHANGED vars
    BY <2>6 DEF vars, planVars, countVars
  <2> QED BY <2>1, <2>2, <2>3, <2>4, <2>5, <2>6 DEF Next, Work, Finished
<1> QED BY <1>1, <1>2, AlwaysControl, PTL DEF Spec, Bounded!ReviewSafety

\* The workers of a stage of S are at work or to be merged.
InFlight(S) == pc \in {"worker_send", "merge"} /\ stage \in S

ResearchStages == {"search", "read", "analyze", "cite", "write", "report"}

\* The stages of a class.
StageFits ==
  \/ class = "atomic" /\ stage = "direct"
  \/ class = "contextual" /\ stage \in {"context_load", "answer"}
  \/ class = "research" /\ stage \in ResearchStages

\* What is sent in each stage.
SentFits ==
  CASE stage = "search" -> sent \subseteq Searches
    [] stage = "read"   -> sent \subseteq Papers
    [] stage = "write"  -> sent = Chapters
    [] stage = "direct" -> sent = {"direct_1"}
    [] stage \notin {"search", "read", "write", "direct"} -> sent = {stage}

\* There is a plan the work in flight belongs to.
Planned == pc \notin {"controller", "planner"} \/ verdict.outcome = "replan"

\* The plan belongs to the class, and the work in flight to the plan.
Shape ==
  /\ round = repairs + replans
  /\ pc = "controller" => items = {} /\ gaps = 0
  /\ Planned /\ ~degraded => items = PlanItems(class)
  /\ degraded => replans = 1 /\ class = "research"
  /\ pc = "planner" => verdict.failed \subseteq items
  /\ pc = "planner" /\ verdict.outcome # "replan" => verdict = NoVerdict /\ items = {}
  /\ pc \in {"worker_send", "merge"} => StageFits /\ SentFits
  /\ pc = "merge" => returned \in [sent -> Outcomes(stage)]
  /\ pc = "outline" \/ gaps # 0 => class = "research"
  /\ pc = "begin_repair" /\ verdict.scope # {} /\ verdict.scope \subseteq Repairable =>
       class = "research"

LEMMA TaskNames ==
  /\ {"direct_1", "context_load", "answer", "read", "analyze", "cite", "write"}
       \subseteq AllTasks \ Searches
  /\ \A c \in {"atomic", "contextual", "research"} : PlanItems(c) \subseteq AllTasks
  /\ Searches \subseteq AllTasks
  BY GraphAssumption DEF AllTasks, Downstream, PlanItems

LEMMA Ranks ==
  /\ \A t \in Searches : Rank(t) = 1 /\ Profile(t) = "search"
  /\ Rank("direct_1") = 1 /\ Rank("context_load") = 1 /\ Rank("read") = 2 /\ Rank("answer") = 2
  /\ Rank("analyze") = 3 /\ Rank("cite") = 4 /\ Rank("write") = 5
  /\ Profile("direct_1") = "direct" /\ Profile("context_load") = "context_load"
  /\ Profile("read") = "read" /\ Profile("answer") = "answer" /\ Profile("analyze") = "analyze"
  /\ Profile("cite") = "cite" /\ Profile("write") = "write"
<1>1. \A t \in Searches : Rank(t) = 1 /\ Profile(t) = "search"
  BY GraphAssumption DEF Rank, Profile
<1>2. /\ Rank("direct_1") = 1 /\ Rank("context_load") = 1 /\ Rank("read") = 2 /\ Rank("answer") = 2
      /\ Rank("analyze") = 3 /\ Rank("cite") = 4 /\ Rank("write") = 5
  BY GraphAssumption DEF Rank
<1>3. /\ Profile("direct_1") = "direct" /\ Profile("context_load") = "context_load"
      /\ Profile("read") = "read" /\ Profile("answer") = "answer" /\ Profile("analyze") = "analyze"
      /\ Profile("cite") = "cite" /\ Profile("write") = "write"
  BY GraphAssumption DEF Profile
<1> QED BY <1>1, <1>2, <1>3

LEMMA OutcomeStatuses ==
  ASSUME NEW p \in Stages \ {"none"}
  PROVE  Outcomes(p) \subseteq Statuses \union {"salvaged"}
  BY DEF Stages, Outcomes, Statuses

\* What a stage records: a status, and success only when every item succeeded.
LEMMA AggregateStatus ==
  ASSUME NEW S \in SUBSET (Statuses \union {"salvaged"}), NEW s \in Aggregate(S)
  PROVE  /\ s \in Statuses
         /\ Succeeds(s) => s \in S /\ \A x \in S : Succeeds(x)
<1>1. CASE \A x \in S : Succeeds(x)
  BY <1>1 DEF Aggregate, Statuses, Succeeds
<1>2. CASE ~\A x \in S : Succeeds(x)
  <2>1. PICK x \in S : ~Succeeds(x) /\ s = Recorded(x)
    BY <1>2 DEF Aggregate
  <2> QED BY <2>1 DEF Recorded, Statuses, Succeeds
<1> QED BY <1>1, <1>2

\* The stages the edge after the planner can send belong to the plan.
LEMMA RootsFit ==
  ASSUME TypeOK, Shape, Control, Degradation, pc = "planner", verdict.outcome = "replan", PlanValid, SendRoots,
         class' = class
  PROVE  /\ pc' \in {"worker_send", "end", "raised"}
         /\ pc' = "worker_send" => stage' \in Stages /\ (StageFits /\ SentFits)'
<1>0. /\ items = PlanItems(class) /\ verdict.failed \subseteq items /\ ~degraded
      /\ class \in {"atomic", "contextual", "research"}
  BY GraphAssumption DEF Shape, Planned, Control, Degradation
<1>1. ASSUME class' = class, pc' = "worker_send" PROVE stage' \in Stages /\ (StageFits /\ SentFits)'
  <2>1. CASE Degrades
    <3>1. Roots = {"write"}
      BY <2>1, GraphAssumption DEF Roots, Marked, Rank
    <3>2. stage' = "report" /\ sent' = {"report"}
      BY <2>1, <3>1 DEF SendRoots, Send
    <3> QED BY <1>1, <2>1, <3>2 DEF Degrades, StageFits, SentFits, ResearchStages, Stages
  <2>2. CASE ~Degrades
    <3>1. Marked \subseteq PlanItems(class) /\ Roots \subseteq Marked
      BY <1>0, <2>2 DEF Marked, Affected, Roots
    <3>2. CASE Roots = {}
      BY <1>1, <3>2 DEF SendRoots, Send
    <3>3. CASE Roots = {"read"}
      <4>1. class = "research"
        BY <1>0, <3>1, <3>3, TaskNames DEF PlanItems
      <4>2. stage' = "read" /\ sent' = sources
        BY <3>3 DEF SendRoots, Send
      <4> QED BY <1>1, <4>1, <4>2 DEF StageFits, SentFits, ResearchStages, Stages, TypeOK
    <3>4. CASE Roots = {"write"}
      <4>1. class = "research"
        BY <1>0, <3>1, <3>4, TaskNames DEF PlanItems
      <4>2. stage' = "write" /\ sent' = Chapters
        BY <1>1, <2>2, <3>4 DEF SendRoots, Send
      <4> QED BY <1>1, <4>1, <4>2 DEF StageFits, SentFits, ResearchStages, Stages
    <3>5. CASE Roots = {"answer"}
      BY <1>1, <3>5 DEF SendRoots, Goto
    <3>6. CASE Roots \notin {{}, {"read"}, {"write"}, {"answer"}}
      <4>1. PICK t \in Roots : stage' = Profile(t) /\ sent' = Roots
        BY <3>6 DEF SendRoots, Send
      <4>2. \A u \in Roots : ~(Rank(t) < Rank(u)) /\ ~(Rank(u) < Rank(t))
        BY <3>1, <4>1 DEF Roots
      <4>3. CASE class = "atomic"
        <5>1. Roots = {"direct_1"}
          BY <3>1, <4>1, <4>3 DEF PlanItems
        <5> QED BY <1>1, <4>1, <4>3, <5>1, Ranks DEF StageFits, SentFits, Stages
      <4>4. CASE class = "contextual"
        <5>1. t \in {"context_load", "answer"} /\ Roots \subseteq {"context_load", "answer"}
          BY <3>1, <4>1, <4>4 DEF PlanItems
        <5>2. Roots = {"context_load"}
          <6>1. \A u, v \in {"context_load", "answer"} :
                  u = v \/ Rank(u) < Rank(v) \/ Rank(v) < Rank(u)
            BY Ranks
          <6>2. Roots = {t}
            BY <4>1, <4>2, <5>1, <6>1
          <6> QED BY <3>6, <5>1, <6>2
        <5> QED BY <1>1, <4>1, <4>4, <5>2, Ranks DEF StageFits, SentFits, Stages
      <4>5. CASE class = "research"
        <5>1. Roots \subseteq Searches \union {"read", "analyze", "cite", "write"}
          BY <3>1, <4>5 DEF PlanItems, Downstream
        <5>2. CASE t \in Searches
          <6>1. Roots \subseteq Searches
            BY <4>2, <5>1, <5>2, Ranks
          <6> QED BY <1>1, <4>1, <4>5, <5>2, <6>1, Ranks DEF StageFits, SentFits, ResearchStages, Stages
        <5>3. CASE t \in {"read", "analyze", "cite", "write"}
          <6>1. Roots = {t}
            <7>1. \A u \in Roots : u \notin Searches
              BY <4>2, <5>3, Ranks
            <7>2. \A u, v \in {"read", "analyze", "cite", "write"} :
                    u = v \/ Rank(u) < Rank(v) \/ Rank(v) < Rank(u)
              BY Ranks
            <7> QED BY <4>1, <4>2, <5>1, <5>3, <7>1, <7>2
          <6>2. t \in {"analyze", "cite"}
            BY <3>6, <5>3, <6>1
          <6> QED BY <1>1, <4>1, <4>5, <6>1, <6>2, Ranks DEF StageFits, SentFits, ResearchStages, Stages
        <5> QED BY <4>1, <5>1, <5>2, <5>3
      <4> QED BY <1>0, <4>3, <4>4, <4>5
    <3> QED BY <3>2, <3>3, <3>4, <3>5, <3>6
  <2> QED BY <2>1, <2>2
<1>2. pc' \in {"worker_send", "end", "raised"}
  BY DEF SendRoots, Send, Goto
<1> QED BY <1>1, <1>2

LEMMA VerdictType ==
  ASSUME TypeOK, Verdicts
  PROVE  /\ verdict'.outcome \in {"pass", "clarify", "repair", "replan", "fail"}
         /\ verdict'.failed \subseteq items /\ verdict'.scope \subseteq AllTasks
<1> USE DEF Settled, Replanned, Repaired, ReplanOrFail, RepairOrFail, TypeOK
<1>1. /\ Missing \subseteq items /\ Broken \subseteq items /\ Partial \subseteq items
      /\ items \subseteq AllTasks
      /\ {"write"} \subseteq AllTasks /\ {"analyze", "cite", "write"} \subseteq AllTasks
  BY TaskNames DEF Missing, Broken, Partial, ItemsWith
<1>2. ASSUME NEW hardFailed
      PROVE  /\ FinalGates(hardFailed).outcome \in {"pass", "clarify", "repair", "replan", "fail"}
             /\ FinalGates(hardFailed).failed \subseteq items
             /\ FinalGates(hardFailed).scope \subseteq AllTasks
  BY <1>1 DEF FinalGates
<1>3. ASSUME NEW hardFailed
      PROVE  /\ HardVerdict(hardFailed).outcome \in {"pass", "clarify", "repair", "replan", "fail"}
             /\ HardVerdict(hardFailed).failed \subseteq items
             /\ HardVerdict(hardFailed).scope \subseteq AllTasks
  BY <1>1, <1>2 DEF HardVerdict
<1>4. ASSUME NEW v \in Tightened
      PROVE  /\ v.outcome \in {"pass", "clarify", "repair", "replan", "fail"}
             /\ v.failed \subseteq items /\ v.scope \subseteq AllTasks
  BY <1>1, <1>4 DEF Tightened
<1> QED BY <1>3, <1>4 DEF Verdicts

LEMMA Results ==
  ASSUME TypeOK, NEW S \in SUBSET (Statuses \union {"salvaged"}), NEW task \in AllTasks,
         NEW s \in Aggregate(S), results' = [results EXCEPT ![task] = s]
  PROVE  results' \in [AllTasks -> Statuses \union {"absent"}]
  BY AggregateStatus DEF TypeOK

LEMMA InitShape == Init => TypeOK /\ Shape
<1> SUFFICES ASSUME Init PROVE TypeOK /\ Shape
  OBVIOUS
<1>1. Cardinality(Chapters) \in Nat
  BY GraphAssumption, FS_CardinalityType
<1>2. TypeOK
  <2>1. /\ cards \in [at : 0 .. 3, from : SUBSET Papers]
        /\ checks \in [at : 0 .. 3, cards : 0 .. 3]
        /\ report \in [at : 0 .. 3, sources : SUBSET Papers, cards : 0 .. 3, checks : 0 .. 3]
    BY DEF Init, NoCards, NoChecks, NoReport
  <2>2. /\ verdict.outcome = "none" /\ verdict.failed = {} /\ verdict.scope = {}
    BY DEF Init, NoVerdict
  <2>3. gaps \in 0 .. Cardinality(Chapters) /\ round \in 0 .. 2 /\ llm \in BOOLEAN /\ runEval \in BOOLEAN
    BY <1>1, GraphAssumption DEF Init
  <2>4. results \in [AllTasks -> Statuses \union {"absent"}]
    BY DEF Init
  <2> QED BY <2>1, <2>2, <2>3, <2>4 DEF Init, TypeOK, Nodes, Stages
<1>3. verdict.outcome = "none" /\ pc = "controller" /\ items = {} /\ degraded = FALSE
      /\ round = 0 /\ repairs = 0 /\ replans = 0 /\ gaps = 0
  BY DEF Init, NoVerdict
<1> QED BY <1>2, <1>3 DEF Shape, Planned

\* A merge records results, changes the artifacts and sends the next stage.
LEMMA MergeShape ==
  ASSUME TypeOK, Shape, Control, Merge
  PROVE  TypeOK' /\ Shape'
<1> USE DEF Goto, Send, Step, countVars, modeVars, planVars, artVars, sendVars
<1>0. /\ pc = "merge" /\ StageFits /\ SentFits /\ returned \in [sent -> Outcomes(stage)]
      /\ stage \in Stages \ {"none"}
      /\ pc # "planner" /\ pc # "controller"
      /\ class \in {"atomic", "contextual", "research"}
      /\ UNCHANGED <<class, llm, runEval, items, replanned, degraded, replans, repairs, round, verdict, status>>
      /\ steps' = steps + 1
  BY GraphAssumption DEF Merge, MergeSearch, MergeRead, MergeAnalyze, MergeCite, MergeChapters, MergeReport,
     MergeDirect, MergeContext, MergeAnswer, AtMerge, Shape, StageFits, ResearchStages, Stages, Control
<1>1. Outcomes(stage) \subseteq Statuses \union {"salvaged"} /\ Current \subseteq Statuses \union {"salvaged"}
  BY <1>0, OutcomeStatuses DEF Current
<1>2. results' \in [AllTasks -> Statuses \union {"absent"}]
  <2>1. CASE MergeSearch
    <3>1. \A t \in sent : Recorded(returned[t]) \in Statuses
      BY <1>0, <1>1 DEF Recorded, Statuses
    <3> QED BY <2>1, <3>1 DEF MergeSearch, TypeOK
  <2>2. CASE \E t \in AllTasks : Record(t)
    BY <1>1, <2>2, Results DEF Record
  <2>3. CASE results' = [results EXCEPT !["write"] = "partial"]
    BY <2>3 DEF TypeOK, Statuses
  <2> QED BY <1>0, <2>1, <2>2, <2>3, TaskNames DEF Merge, MergeRead, MergeAnalyze, MergeCite, MergeChapters,
          MergeReport, MergeDirect, MergeContext, MergeAnswer
<1>3. sources' \subseteq Papers
  <2>1. CASE MergeSearch
    <3>1. /\ sent \subseteq Searches /\ replans \in {0, 1} /\ sources \subseteq Papers
      BY <1>0, <2>1 DEF MergeSearch, AtMerge, SentFits, TypeOK
    <3>2. {<<t, replans>> : t \in {u \in sent : HasOutput(returned[u])}} \subseteq Papers
      BY <3>1 DEF Papers
    <3> QED BY <2>1, <3>1, <3>2 DEF MergeSearch, Selections
  <2>2. CASE MergeRead
    BY <1>0, <2>2 DEF MergeRead, AtMerge, SentFits
  <2>3. CASE MergeDirect
    BY <1>0, <2>3 DEF MergeDirect, AtMerge, SentFits, Papers, TypeOK
  <2>4. CASE UNCHANGED sources
    BY <2>4 DEF TypeOK
  <2> QED BY <1>0, <2>1, <2>2, <2>3, <2>4 DEF Merge, MergeAnalyze, MergeCite, MergeChapters, MergeReport,
          MergeContext, MergeAnswer
<1>4. /\ cards' \in [at : 0 .. 3, from : SUBSET Papers]
      /\ checks' \in [at : 0 .. 3, cards : 0 .. 3]
      /\ outlined' \in BOOLEAN
      /\ report' \in [at : 0 .. 3, sources : SUBSET Papers, cards : 0 .. 3, checks : 0 .. 3]
  <2>1. round + 1 \in 0 .. 3
    BY DEF TypeOK
  <2> QED BY <1>0, <2>1 DEF Merge, MergeSearch, MergeRead, MergeAnalyze, MergeCite, MergeChapters, MergeReport,
     MergeDirect, MergeContext, MergeAnswer, AtMerge, TypeOK, CurrentReport, NoCards, NoChecks, NoReport
<1>5. gaps' \in 0 .. Cardinality(Chapters)
  <2>0. Cardinality(Chapters) \in Nat
    BY GraphAssumption, FS_CardinalityType
  <2>1. CASE MergeChapters
    <3>1. {c \in sent : returned[c] # "success"} \subseteq Chapters
      BY <1>0, <2>1 DEF MergeChapters, AtMerge, SentFits
    <3> DEFINE failed == {c \in sent : returned[c] # "success"}
    <3>2. IsFiniteSet(failed) /\ Cardinality(failed) <= Cardinality(Chapters) /\ Cardinality(failed) \in Nat
      BY <3>1, GraphAssumption, FS_Subset, FS_CardinalityType
    <3>3. gaps' = Cardinality(failed)
      BY <2>1 DEF MergeChapters
    <3> QED BY <2>0, <3>2, <3>3
  <2>2. CASE gaps' \in {0, gaps}
    BY <2>0, <2>2 DEF TypeOK
  <2> QED BY <2>1, <2>2 DEF Merge, MergeSearch, MergeRead, MergeAnalyze, MergeCite, MergeReport,
     MergeDirect, MergeContext, MergeAnswer, AtMerge
<1>6. /\ pc' \in {"worker_send", "reviewer", "outline", "end"} /\ stage' \in Stages
      /\ pc' = "worker_send" => (StageFits /\ SentFits)'
      /\ pc' = "outline" => class = "research"
  <2>1. CASE MergeSearch
    BY <1>0, <1>3, <2>1 DEF MergeSearch, AtMerge, StageFits, SentFits, ResearchStages, Stages
  <2>2. CASE MergeRead \/ MergeAnalyze \/ MergeCite
    BY <1>0, <2>2 DEF MergeRead, MergeAnalyze, MergeCite, AtMerge, StageFits, SentFits, ResearchStages, Stages
  <2>3. CASE MergeContext
    BY <1>0, <2>3 DEF MergeContext, AtMerge, StageFits, SentFits, ResearchStages, Stages
  <2>4. CASE MergeChapters \/ MergeReport \/ MergeDirect \/ MergeAnswer
    BY <1>0, <2>4 DEF MergeChapters, MergeReport, MergeDirect, MergeAnswer, AtMerge
  <2> QED BY <2>1, <2>2, <2>3, <2>4 DEF Merge
<1>7. TypeOK'
  BY <1>0, <1>2, <1>3, <1>4, <1>5, <1>6 DEF TypeOK, Nodes
<1>8. Shape'
  <2>1. gaps' # 0 => class' = "research"
    <3>1. CASE MergeChapters
      BY <1>0, <3>1 DEF MergeChapters, AtMerge, StageFits
    <3>2. CASE gaps' = 0 \/ gaps' = gaps
      BY <1>0, <3>2 DEF Shape
    <3> QED BY <3>1, <3>2 DEF Merge, MergeSearch, MergeRead, MergeAnalyze, MergeCite, MergeReport,
       MergeDirect, MergeContext, MergeAnswer, AtMerge
  <2> QED BY <1>0, <1>6, <2>1 DEF Shape, Planned
<1> QED BY <1>7, <1>8

\* Only a research run has anything that can be repaired.
LEMMA RepairsResearch ==
  ASSUME TypeOK, Shape, Control, pc = "reviewer", Verdicts, verdict'.outcome = "repair",
         verdict'.scope # {}, verdict'.scope \subseteq Repairable
  PROVE  class = "research"
<1> USE DEF Settled, Replanned, Repaired, ReplanOrFail, RepairOrFail
<1>1. class \in {"atomic", "contextual", "research"} /\ (items = PlanItems(class) \/ class = "research")
  BY GraphAssumption DEF Shape, Planned, Control, TypeOK
<1>2. (\E t \in items : t \in Repairable) => class = "research"
  <2>1. PlanItems("atomic") \intersect Repairable = {} /\ PlanItems("contextual") \intersect Repairable = {}
    BY DEF PlanItems, Repairable
  <2> QED BY <1>1, <2>1
<1>3. ASSUME NEW hardFailed, HardVerdict(hardFailed).outcome = "repair", hardFailed => class = "research",
             HardVerdict(hardFailed).scope # {}, HardVerdict(hardFailed).scope \subseteq Repairable
      PROVE  class = "research"
  <2>1. CASE HardVerdict(hardFailed) = Repaired(Partial)
    <3>1. \E t \in Partial : t \in Repairable
      BY <1>3, <2>1
    <3> QED BY <1>2, <3>1 DEF Partial, ItemsWith
  <2>2. CASE HardVerdict(hardFailed) = FinalGates(hardFailed)
    BY <1>3, <2>2 DEF FinalGates, Shape
  <2> QED BY <1>3, <2>1, <2>2 DEF HardVerdict
<1> QED BY <1>3 DEF Verdicts

LEMMA NextShape == TypeOK /\ Shape /\ Control /\ Degradation /\ [Next]_vars => TypeOK' /\ Shape'
<1> SUFFICES ASSUME TypeOK, Shape, Control, Degradation, [Next]_vars PROVE TypeOK' /\ Shape'
  OBVIOUS
<1> USE DEF Goto, Send, Step, countVars, modeVars, planVars, artVars, sendVars
<1>1. CASE Controller
  <2>1. class' \in {"atomic", "contextual", "research"} /\ verdict.outcome = "none" /\ verdict' = verdict
    BY <1>1, GraphAssumption DEF Controller, Control, NoVerdict
  <2>2. TypeOK'
    BY <1>1, <2>1 DEF Controller, TypeOK, Nodes
  <2>3. gaps' # 0 => class' = "research"
    BY <1>1 DEF Controller, Shape, Control
  <2> QED BY <1>1, <2>1, <2>2, <2>3 DEF Controller, Shape, Planned, Control, NoVerdict
<1>2. CASE Plan
  <2>1. class \in {"atomic", "contextual", "research"} /\ ~degraded /\ replans = 0
    BY <1>2, GraphAssumption DEF Plan, Control, Shape
  <2>2. /\ items' = PlanItems(class) /\ items' \subseteq AllTasks
        /\ UNCHANGED <<class, degraded, replans, repairs, round, verdict, gaps>>
    BY <1>2, <2>1, TaskNames DEF Plan
  <2>3. stage' \in Stages /\ pc' \in {"worker_send", "end"} /\ (StageFits /\ SentFits)'
    <3>1. CASE class = "atomic"
      BY <1>2, <2>2, <3>1 DEF Plan, Stages, StageFits, SentFits
    <3>2. CASE class = "contextual"
      BY <1>2, <2>2, <3>2 DEF Plan, Stages, StageFits, SentFits
    <3>3. CASE class = "research"
      BY <1>2, <2>2, <3>3 DEF Plan, Stages, StageFits, SentFits, ResearchStages
    <3> QED BY <2>1, <3>1, <3>2, <3>3
  <2>4. TypeOK'
    BY <1>2, <2>2, <2>3 DEF Plan, TypeOK, Nodes
  <2> QED BY <2>1, <2>2, <2>3, <2>4 DEF Shape, Planned
<1>3. CASE Replan
  <2>1. CASE ~PlanValid
    <3>1. TypeOK'
      BY <1>3, <2>1 DEF Replan, TypeOK, Nodes
    <3> QED BY <1>3, <2>1, <3>1 DEF Replan, Shape, Planned
  <2>2. CASE PlanValid
    <3>1. /\ pc = "planner" /\ verdict.outcome = "replan" /\ replans = 0 /\ ~degraded
          /\ items = PlanItems(class) /\ verdict.failed \subseteq items
          /\ class \in {"atomic", "contextual", "research"}
      <4>1. pc = "planner" /\ verdict.outcome = "replan"
        BY <1>3 DEF Replan
      <4>2. replans = 0
        BY <4>1 DEF Control
      <4>3. ~degraded
        BY <4>2 DEF Shape
      <4>4. items = PlanItems(class) /\ verdict.failed \subseteq items
        BY <4>1, <4>3 DEF Shape, Planned
      <4> QED BY <4>1, <4>2, <4>3, <4>4, GraphAssumption DEF Control
    <3>2. /\ items' = RevisedItems /\ replanned' = Marked /\ degraded' = Degrades
          /\ replans' = 1 /\ round' = round + 1 /\ SendRoots
          /\ UNCHANGED <<class, llm, runEval, artVars, repairs, results, verdict, status>> /\ steps' = steps + 1
      BY <1>3, <2>2, <3>1 DEF Replan
    <3>3. items \subseteq AllTasks /\ RevisedItems \subseteq AllTasks /\ Marked \subseteq AllTasks
          /\ Degrades \in BOOLEAN
      BY <3>1, TaskNames DEF RevisedItems, Marked, Affected, Degrades, TypeOK
    <3>4. /\ pc' \in {"worker_send", "end", "raised"}
          /\ pc' = "worker_send" => stage' \in Stages /\ (StageFits /\ SentFits)'
      BY <2>2, <3>1, <3>2, RootsFit
    <3>5. stage' \in Stages
      <4>1. pc' \in {"end", "raised"} => stage' = "none" \/ stage' = stage \/ stage' \in Stages
        <5>1. \A u \in AllTasks : Profile(u) \in Stages
          BY Ranks DEF AllTasks, Downstream, Stages
        <5>2. Roots \subseteq AllTasks
          BY <3>3 DEF Roots
        <5> QED BY <3>2, <5>1, <5>2 DEF SendRoots, Stages
      <4> QED BY <3>4, <4>1 DEF TypeOK, Stages
    <3>6. TypeOK'
      BY <3>1, <3>2, <3>3, <3>4, <3>5 DEF TypeOK, Nodes, Shape
    <3>7. degraded' \/ items' = PlanItems(class)'
      BY <3>1, <3>2 DEF RevisedItems
    <3>8. gaps' # 0 => class' = "research"
      BY <3>2 DEF Shape
    <3>9. round' = repairs' + replans'
      BY <3>1, <3>2 DEF Shape, TypeOK
    <3> QED BY <3>1, <3>2, <3>4, <3>6, <3>7, <3>8, <3>9 DEF Shape, Planned, Degrades
  <2> QED BY <2>1, <2>2
<1>4. CASE WorkerSend
  <2>1. /\ pc = "worker_send" /\ pc' = "merge" /\ returned' \in [sent -> Outcomes(stage)]
        /\ UNCHANGED <<class, llm, runEval, items, replanned, degraded, replans, sources, cards, checks,
                       outlined, report, gaps, repairs, round, stage, sent, results, verdict, status>>
        /\ steps' = steps + 1
    BY <1>4 DEF WorkerSend
  <2>2. TypeOK'
    BY <2>1 DEF TypeOK, Nodes
  <2> QED BY <2>1, <2>2 DEF Shape, Planned, StageFits, SentFits
<1>5. CASE Merge
  BY <1>5, MergeShape
<1>6. CASE Outline
  <2>1. class = "research"
    BY <1>6 DEF Outline, Shape
  <2>2. TypeOK'
    BY <1>6 DEF Outline, TypeOK, Nodes, Stages
  <2> QED BY <1>6, <2>1, <2>2 DEF Outline, Shape, Planned, StageFits, SentFits, ResearchStages
<1>7. CASE StrictModeRaises
  <2>1. TypeOK'
    BY <1>7 DEF StrictModeRaises, TypeOK, Nodes
  <2> QED BY <1>7, <2>1 DEF StrictModeRaises, Shape, Planned
<1>8. CASE Review
  <2>1. /\ pc = "reviewer" /\ pc' \in {"begin_repair", "planner", "end"}
        /\ pc' = "planner" => verdict'.outcome = "replan"
        /\ UNCHANGED <<class, llm, runEval, items, replanned, degraded, replans, sources, cards, checks,
                       outlined, report, gaps, repairs, round, stage, sent, results, returned, status>>
        /\ steps' = steps + 1
    BY <1>8 DEF Review
  <2>2. /\ verdict'.outcome \in {"pass", "clarify", "repair", "replan", "fail"}
        /\ verdict'.failed \subseteq items /\ verdict'.scope \subseteq AllTasks
    BY <1>8, VerdictType DEF Review
  <2>3. TypeOK'
    BY <2>1, <2>2 DEF TypeOK, Nodes
  <2>4. pc' = "begin_repair" /\ verdict'.scope # {} /\ verdict'.scope \subseteq Repairable =>
          class' = "research"
    BY <1>8, <2>1, RepairsResearch DEF Review
  <2> QED BY <2>1, <2>2, <2>3, <2>4 DEF Shape, Planned
<1>9. CASE BeginRepair
  <2>1. CASE repairs + 1 > 1 \/ verdict.scope = {} \/ ~(verdict.scope \subseteq Repairable)
    <3>1. TypeOK'
      BY <1>9, <2>1 DEF BeginRepair, TypeOK, Nodes
    <3> QED BY <1>9, <2>1, <3>1 DEF BeginRepair, Shape, Planned
  <2>2. CASE ~(repairs + 1 > 1 \/ verdict.scope = {} \/ ~(verdict.scope \subseteq Repairable))
    <3>1. /\ class = "research" /\ pc' \in {"worker_send", "end"} /\ repairs = 0
          /\ repairs' = 1 /\ round' = round + 1 /\ stage' \in {"analyze", "cite", "write"}
          /\ pc' = "worker_send" => (StageFits /\ SentFits)'
          /\ UNCHANGED <<class, llm, runEval, planVars, artVars, returned, results, verdict, status>>
          /\ steps' = steps + 1
      <4>1. repairs = 0 /\ class = "research"
        BY <1>9, <2>2 DEF BeginRepair, Shape, TypeOK
      <4>2. /\ repairs' = repairs + 1 /\ round' = round + 1
            /\ UNCHANGED <<class, llm, runEval, planVars, artVars, returned, results, verdict, status>>
            /\ steps' = steps + 1
        BY <1>9, <2>2 DEF BeginRepair
      <4>3. \/ Send("analyze", {"analyze"}) \/ Send("cite", {"cite"}) 
            \/ Send("write", IF outlined THEN Chapters ELSE {})
        BY <1>9, <2>2 DEF BeginRepair
      <4>4. /\ pc' \in {"worker_send", "end"} /\ stage' \in {"analyze", "cite", "write"}
            /\ pc' = "worker_send" => \/ stage' = "analyze" /\ sent' = {"analyze"}
                                      \/ stage' = "cite" /\ sent' = {"cite"}
                                      \/ stage' = "write" /\ sent' = Chapters
        <5>1. CASE Send("analyze", {"analyze"})
          BY <5>1
        <5>2. CASE Send("cite", {"cite"})
          BY <5>2
        <5>3. CASE Send("write", IF outlined THEN Chapters ELSE {})
          <6>1. CASE outlined
            BY <5>3, <6>1
          <6>2. CASE ~outlined
            BY <5>3, <6>2
          <6> QED BY <6>1, <6>2
        <5> QED BY <4>3, <5>1, <5>2, <5>3
      <4>5. pc' = "worker_send" => (StageFits /\ SentFits)'
        BY <4>1, <4>2, <4>4 DEF StageFits, SentFits, ResearchStages
      <4> QED BY <4>1, <4>2, <4>4, <4>5
    <3>2. round' \in 0 .. 2 /\ round' = repairs' + replans'
      BY <3>1 DEF Shape, TypeOK
    <3>3. TypeOK'
      BY <3>1, <3>2 DEF TypeOK, Nodes, Stages
    <3>4. gaps' # 0 => class' = "research"
      BY <3>1
    <3> QED BY <1>9, <3>1, <3>2, <3>3, <3>4 DEF BeginRepair, Shape, Planned
  <2> QED BY <2>1, <2>2
<1>10. CASE Finalize
  <2>1. TypeOK'
    BY <1>10 DEF Finalize, TypeOK, Nodes
  <2> QED BY <1>10, <2>1 DEF Finalize, Shape, Planned
<1>11. CASE UNCHANGED vars
  <2>1. TypeOK'
    BY <1>11 DEF vars, TypeOK
  <2>2. Shape'
    BY <1>11 DEF vars, Shape, Planned, StageFits, SentFits
  <2> QED BY <2>1, <2>2
<1> QED
  BY <1>1, <1>2, <1>3, <1>4, <1>5, <1>6, <1>7, <1>8, <1>9, <1>10, <1>11
     DEF Next, Work, Finished

\* What the runtime keeps of the last rounds fits together.
Working == pc \notin {"raised", "done"}
Succeeded(tasks) == class = "research" /\ \A t \in tasks : results[t] = "success"

\* Papers that came after the report, from a round in which something failed.
NewPapersFailed ==
  /\ replans = 1 /\ ~InFlight({"search"})
  /\ (\E t \in Searches : results[t] = "failed") \/ results["read"] # "success"

CardsMade == Succeeded({"analyze"}) => cards.at # 0

ChecksFollow ==
  Working /\ Succeeded({"analyze", "cite"}) /\ ~InFlight({"cite"}) =>
    checks.at # 0 /\ checks.cards = cards.at

Writing == InFlight({"cite", "write", "report"}) \/ pc = "outline"

ReportFollows ==
  Working /\ Succeeded({"analyze", "cite", "write"}) /\ ~Writing =>
    /\ report.at # 0 /\ report.cards = cards.at /\ report.checks = checks.at
    /\ sources \subseteq report.sources \/ InFlight({"read", "analyze"}) \/ NewPapersFailed

Fresh ==
  /\ ~Planned => \A t \in AllTasks : results[t] = "absent"
  /\ replans = 0 /\ InFlight({"search", "read"}) => results["write"] = "absent"

Currency == CardsMade /\ ChecksFollow /\ ReportFollows /\ Fresh

Passed ==
  /\ verdict.outcome = "pass" => pc \in {"end", "done"}
  /\ PassedReportCurrent

\* A step that changes none of the artifacts.
LEMMA CurrencyFrame ==
  ASSUME Currency, UNCHANGED <<class, results, sources, cards, checks, report, replans>>,
         Working' => Working,
         Working' /\ InFlight({"cite"}) => InFlight({"cite"})',
         Working' /\ Writing => Writing',
         Working' /\ InFlight({"read", "analyze"}) => InFlight({"read", "analyze"})',
         InFlight({"search"})' => InFlight({"search"}) \/ replans # 1,
         Fresh'
  PROVE  Currency'
<1>1. \A S : Succeeded(S)' = Succeeded(S)
  BY DEF Succeeded
<1>2. CardsMade' /\ ChecksFollow'
  BY <1>1 DEF Currency, CardsMade, ChecksFollow
<1>3. NewPapersFailed => NewPapersFailed'
  BY DEF NewPapersFailed
<1>4. ReportFollows'
  BY <1>1, <1>3 DEF Currency, ReportFollows
<1> QED BY <1>2, <1>4 DEF Currency

LEMMA InitCurrency == Init => Currency /\ Passed
  BY TaskNames DEF Init, Currency, CardsMade, ChecksFollow, ReportFollows, Fresh, Succeeded, Passed,
     PassedReportCurrent, NoVerdict, Planned, InFlight

\* A stage records for its task what its items returned.
LEMMA RecordOne ==
  ASSUME TypeOK, Shape, pc = "merge", NEW task \in AllTasks, Record(task)
  PROVE  /\ \A u \in AllTasks : u # task => results'[u] = results[u]
         /\ results'[task] # "absent"
         /\ Succeeds(results'[task]) =>
              results'[task] \in Current /\ \A t \in sent : Succeeds(returned[t])
<1>1. returned \in [sent -> Outcomes(stage)] /\ stage \in Stages \ {"none"}
  BY DEF Shape, StageFits, ResearchStages, Stages
<1>2. Current \subseteq Statuses \union {"salvaged"}
  BY <1>1, OutcomeStatuses DEF Current
<1>3. PICK s \in Aggregate(Current) : results' = [results EXCEPT ![task] = s]
  BY DEF Record
<1>4. results'[task] = s /\ \A u \in AllTasks : u # task => results'[u] = results[u]
  BY <1>3 DEF TypeOK
<1>5. s \in Statuses /\ (Succeeds(s) => s \in Current /\ \A x \in Current : Succeeds(x))
  BY <1>2, AggregateStatus
<1> QED BY <1>4, <1>5 DEF Current, Statuses

\* What a merge makes is current.
LEMMA MergeCurrency ==
  ASSUME TypeOK, Shape, Control, Currency, Merge
  PROVE  Currency'
<1> USE DEF Goto, Send, Step, countVars, modeVars, planVars, artVars, sendVars
<1>0. /\ pc = "merge" /\ Working /\ Planned' /\ StageFits /\ SentFits /\ returned \in [sent -> Outcomes(stage)]
      /\ class' = class /\ replans' = replans /\ Planned
  BY DEF Merge, MergeSearch, MergeRead, MergeAnalyze, MergeCite, MergeChapters, MergeReport,
     MergeDirect, MergeContext, MergeAnswer, AtMerge, Shape, Planned, Working
<1>9. {"read", "analyze", "cite", "write"} \subseteq AllTasks
  BY TaskNames
<1>1. CASE MergeSearch
  <2>1. /\ stage = "search" /\ class = "research" /\ sent \subseteq Searches
        /\ UNCHANGED <<cards, checks, outlined, report, gaps>>
        /\ pc' \in {"reviewer", "worker_send", "end"}
        /\ pc' = "worker_send" => stage' = "read"
    BY <1>0, <1>1 DEF MergeSearch, AtMerge, StageFits, SentFits
  <2>2. \A t \in Downstream : t \in AllTasks /\ results'[t] = results[t]
    BY <1>1, <1>9, <2>1, GraphAssumption DEF MergeSearch, Downstream
  <2>3. /\ Succeeded({"analyze"})' = Succeeded({"analyze"})
        /\ Succeeded({"analyze", "cite"})' = Succeeded({"analyze", "cite"})
        /\ Succeeded({"analyze", "cite", "write"})' = Succeeded({"analyze", "cite", "write"})
    BY <1>0, <2>2 DEF Succeeded, Downstream
  <2>4. CardsMade' /\ ChecksFollow'
    BY <1>0, <2>1, <2>3 DEF Currency, CardsMade, ChecksFollow, InFlight
  <2>5. Fresh'
    BY <1>0, <2>1, <2>2 DEF Currency, Fresh, InFlight, Downstream
  <2>6. ASSUME Working', Succeeded({"analyze", "cite", "write"})', ~Writing'
        PROVE  /\ report'.at # 0 /\ report'.cards = cards'.at /\ report'.checks = checks'.at
               /\ \/ sources' \subseteq report'.sources \/ InFlight({"read", "analyze"})'
                  \/ NewPapersFailed'
    <3>1. /\ report.at # 0 /\ report.cards = cards.at /\ report.checks = checks.at
          /\ sources \subseteq report.sources
      BY <1>0, <2>1, <2>3, <2>6 DEF Currency, ReportFollows, Writing, InFlight, NewPapersFailed
    <3>2. CASE sources' = {}
      BY <2>1, <3>1, <3>2
    <3>3. CASE replans > 0 /\ pc' = "reviewer" /\ ~\E s \in Current : Succeeds(s)
      <4>1. CASE \E t \in sent : returned[t] = "salvaged"
        <5>1. PICK t \in sent : returned[t] = "salvaged"
          BY <4>1
        <5>2. t \in Searches /\ results'[t] = "failed"
          BY <1>1, <2>1, <5>1, TaskNames DEF MergeSearch, Recorded
        <5> QED BY <1>0, <2>1, <3>1, <3>3, <5>2 DEF NewPapersFailed, InFlight, TypeOK
      <4>2. CASE ~\E t \in sent : returned[t] = "salvaged"
        <5>1. \A t \in sent : ~HasOutput(returned[t])
          BY <3>3, <4>2 DEF Current, Succeeds, HasOutput
        <5>2. sources' \in Selections(sources, {})
          BY <1>1, <3>3, <5>1 DEF MergeSearch
        <5> QED BY <2>1, <3>1, <5>2 DEF Selections
      <4> QED BY <4>1, <4>2
    <3>4. CASE Send("read", sources') /\ sources' # {}
      BY <2>1, <3>1, <3>4 DEF InFlight
    <3> QED BY <1>1, <3>2, <3>3, <3>4 DEF MergeSearch
  <2> QED BY <2>4, <2>5, <2>6 DEF Currency, ReportFollows
<1>2. CASE MergeRead
  <2>1. /\ stage = "read" /\ Record("read") /\ UNCHANGED <<cards, checks, outlined, report, gaps>>
        /\ pc' \in {"reviewer", "worker_send", "end"}
        /\ pc' = "worker_send" => stage' = "analyze"
        /\ IF Succeeds(results'["read"]) THEN Send("analyze", {"analyze"}) ELSE pc' = "reviewer"
    BY <1>2 DEF MergeRead, AtMerge
  <2>2. /\ \A u \in AllTasks : u # "read" => results'[u] = results[u]
        /\ Succeeds(results'["read"]) \/ results'["read"] # "success"
    BY <1>0, <1>9, <2>1, RecordOne DEF Succeeds
  <2>3. /\ Succeeded({"analyze"})' = Succeeded({"analyze"})
        /\ Succeeded({"analyze", "cite"})' = Succeeded({"analyze", "cite"})
        /\ Succeeded({"analyze", "cite", "write"})' = Succeeded({"analyze", "cite", "write"})
    BY <1>0, <1>9, <2>2 DEF Succeeded
  <2>4. CardsMade' /\ ChecksFollow' /\ Fresh'
    BY <1>0, <2>1, <2>3 DEF Currency, CardsMade, ChecksFollow, InFlight, Fresh
  <2>5. ASSUME Working', Succeeded({"analyze", "cite", "write"})', ~Writing'
        PROVE  /\ report'.at # 0 /\ report'.cards = cards'.at /\ report'.checks = checks'.at
               /\ InFlight({"read", "analyze"})' \/ NewPapersFailed'
    <3>1. report.at # 0 /\ report.cards = cards.at /\ report.checks = checks.at
      BY <1>0, <2>1, <2>3, <2>5 DEF Currency, ReportFollows, Writing, InFlight
    <3>2. replans = 1
      BY <1>0, <2>1, <2>3, <2>5 DEF Currency, Fresh, InFlight, Succeeded, TypeOK
    <3>3. CASE Succeeds(results'["read"])
      <4>1. pc' = "worker_send" /\ stage' = "analyze"
        BY <2>1, <3>3
      <4> QED BY <2>1, <3>1, <4>1 DEF InFlight
    <3>4. CASE ~Succeeds(results'["read"])
      BY <1>0, <2>1, <2>2, <3>1, <3>2, <3>4 DEF NewPapersFailed, InFlight
    <3> QED BY <3>3, <3>4
  <2> QED BY <2>4, <2>5 DEF Currency, ReportFollows
<1>3. CASE MergeAnalyze
  <2>1. /\ stage = "analyze" /\ sent = {"analyze"} /\ Record("analyze")
        /\ IF Succeeds(results'["analyze"]) THEN Send("cite", {"cite"}) ELSE pc' = "reviewer" /\ stage' = stage
        /\ cards' = IF HasOutput(returned["analyze"]) THEN [at |-> round + 1, from |-> sources]
                    ELSE NoCards
    BY <1>0, <1>3 DEF MergeAnalyze, AtMerge, SentFits
  <2>2. results'["analyze"] = "success" => HasOutput(returned["analyze"])
    BY <1>0, <1>9, <2>1, RecordOne DEF Succeeds, HasOutput, Current
  <2>3. results'["analyze"] = "success" => InFlight({"cite"})'
    <3>1. Send("cite", {"cite"}) => InFlight({"cite"})'
      BY DEF InFlight
    <3> QED BY <2>1, <3>1 DEF Succeeds
  <2>4. round + 1 # 0
    BY DEF TypeOK
  <2>5. CardsMade'
    BY <1>9, <2>1, <2>2, <2>4 DEF CardsMade, Succeeded
  <2>6. ChecksFollow' /\ ReportFollows'
    BY <2>3 DEF ChecksFollow, ReportFollows, Succeeded, Writing, InFlight
  <2>7. Fresh'
    BY <1>0, <2>1 DEF Fresh, InFlight
  <2> QED BY <2>5, <2>6, <2>7 DEF Currency
<1>4. CASE MergeCite
  <2>1. /\ stage = "cite" /\ sent = {"cite"} /\ Record("cite") /\ stage' = stage
        /\ pc' = IF Succeeds(results'["cite"]) THEN "outline" ELSE "reviewer"
        /\ checks' = IF HasOutput(returned["cite"]) THEN [at |-> round + 1, cards |-> cards.at]
                     ELSE NoChecks
        /\ cards' = cards
    BY <1>0, <1>4 DEF MergeCite, AtMerge, SentFits
  <2>2. /\ \A u \in AllTasks : u # "cite" => results'[u] = results[u]
        /\ results'["cite"] = "success" => HasOutput(returned["cite"])
    BY <1>0, <1>9, <2>1, RecordOne DEF Succeeds, HasOutput, Current
  <2>3. round + 1 # 0
    BY DEF TypeOK
  <2>4. CardsMade'
    BY <1>0, <1>9, <2>1, <2>2 DEF Currency, CardsMade, Succeeded
  <2>5. ChecksFollow'
    BY <2>1, <2>2, <2>3 DEF ChecksFollow, Succeeded
  <2>6. ReportFollows'
    BY <2>1 DEF ReportFollows, Succeeded, Writing, Succeeds
  <2>7. Fresh'
    BY <1>0, <2>1 DEF Fresh, InFlight
  <2> QED BY <2>4, <2>5, <2>6, <2>7 DEF Currency
<1>5. CASE MergeChapters \/ MergeReport
  <2>1. /\ stage \in {"write", "report"} /\ stage' = stage /\ pc' = "reviewer"
        /\ UNCHANGED <<sources, cards, checks, outlined, round>>
    BY <1>5 DEF MergeChapters, MergeReport, AtMerge
  <2>2. \A u \in AllTasks : u # "write" => results'[u] = results[u]
    <3>1. CASE Record("write")
      BY <1>0, <1>9, <3>1, RecordOne
    <3>2. CASE results' = [results EXCEPT !["write"] = "partial"]
      BY <3>2 DEF TypeOK
    <3> QED BY <1>5, <3>1, <3>2 DEF MergeChapters, MergeReport
  <2>3. results'["write"] = "success" => report' = CurrentReport
    <3>1. CASE MergeChapters
      BY <3>1 DEF MergeChapters
    <3>2. CASE MergeReport
      <4>1. sent = {"report"} /\ Record("write")
        BY <1>0, <3>2 DEF MergeReport, AtMerge, SentFits
      <4>2. results'["write"] = "success" => returned["report"] = "success"
        BY <1>0, <1>9, <4>1, RecordOne DEF Succeeds, Current
      <4> QED BY <3>2, <4>2 DEF MergeReport
    <3> QED BY <1>5, <3>1, <3>2
  <2>4. CardsMade'
    BY <1>0, <1>9, <2>1, <2>2 DEF Currency, CardsMade, Succeeded
  <2>5. ChecksFollow'
    <3>1. Succeeded({"analyze", "cite"})' = Succeeded({"analyze", "cite"})
      BY <1>0, <1>9, <2>2 DEF Succeeded
    <3> QED BY <1>0, <2>1, <3>1 DEF Currency, ChecksFollow, InFlight
  <2>6. ReportFollows'
    <3>1. round + 1 # 0
      BY DEF TypeOK
    <3> QED BY <2>1, <2>3, <3>1 DEF ReportFollows, Succeeded, CurrentReport
  <2>7. Fresh'
    BY <1>0, <2>1 DEF Fresh, InFlight
  <2> QED BY <2>4, <2>5, <2>6, <2>7 DEF Currency
<1>7. CASE MergeDirect \/ MergeContext \/ MergeAnswer
  <2>1. class # "research"
    BY <1>0, <1>7 DEF MergeDirect, MergeContext, MergeAnswer, AtMerge, StageFits, ResearchStages
  <2>2. \A S : ~Succeeded(S)'
    BY <1>0, <2>1 DEF Succeeded
  <2> QED BY <1>0, <1>7, <2>2 DEF Currency, CardsMade, ChecksFollow, ReportFollows, Fresh, InFlight, 
          MergeDirect, MergeContext, MergeAnswer, AtMerge
<1> QED BY <1>1, <1>2, <1>3, <1>4, <1>5, <1>7 DEF Merge

\* What the runtime holds between two steps fits together.
LEMMA NextCurrency ==
  ASSUME TypeOK, Shape, Control, Currency, Passed, [Next]_vars
  PROVE  Currency'
<1> USE DEF Goto, Send, Step, countVars, modeVars, planVars, artVars, sendVars
<1>1. CASE Controller
  <2>1. \A t \in AllTasks : results[t] = "absent" /\ results' = results
    BY <1>1 DEF Controller, Currency, Fresh, Planned, Control, NoVerdict
  <2>2. ~Succeeded({"analyze"})' /\ ~Succeeded({"analyze", "cite"})'
        /\ ~Succeeded({"analyze", "cite", "write"})'
    BY <2>1, TaskNames DEF Succeeded
  <2> QED BY <1>1, <2>1, <2>2 DEF Controller, Currency, CardsMade, ChecksFollow, ReportFollows, Fresh, InFlight
<1>2. CASE Plan
  <2>1. \A t \in AllTasks : results[t] = "absent"
    BY <1>2 DEF Plan, Currency, Fresh, Planned
  <2>2. Fresh' /\ replans = 0 /\ pc = "planner"
    BY <1>2, <2>1, TaskNames DEF Plan, Fresh, Control
  <2> QED BY <1>2, <2>2, CurrencyFrame DEF Plan, Working, Writing, InFlight
<1>3. CASE Replan
  <2>1. /\ pc = "planner" /\ replans = 0 /\ verdict.outcome = "replan"
        /\ UNCHANGED <<class, results, sources, cards, checks, report, verdict>>
    BY <1>3 DEF Replan, Control
  <2>2. CASE PlanValid
    <3>1. replans' = 1 /\ pc' \in {"worker_send", "end", "raised"}
      <4>1. SendRoots
        BY <1>3, <2>2 DEF Replan
      <4>2. pc' \in {"worker_send", "end", "raised"}
        BY <4>1 DEF SendRoots
      <4>3. replans' = replans + 1
        BY <1>3, <2>2 DEF Replan
      <4> QED BY <2>1, <4>2, <4>3
    <3>2. \A S : Succeeded(S)' = Succeeded(S)
      BY <2>1 DEF Succeeded
    <3>3. CardsMade' /\ ChecksFollow'
      BY <2>1, <3>2 DEF Currency, CardsMade, ChecksFollow, Working, InFlight
    <3>4. ReportFollows'
      BY <2>1, <3>2 DEF Currency, ReportFollows, Writing, Working, InFlight, NewPapersFailed
    <3>5. Fresh'
      BY <2>1, <3>1 DEF Fresh, Planned
    <3> QED BY <3>3, <3>4, <3>5 DEF Currency
  <2>3. CASE ~PlanValid
    <3>1. pc' = "raised" /\ replans' = replans
      BY <1>3, <2>3 DEF Replan
    <3>2. Fresh'
      BY <2>1, <3>1 DEF Fresh, Planned, InFlight
    <3> QED BY <2>1, <3>1, <3>2, CurrencyFrame DEF Working, InFlight
  <2> QED BY <2>2, <2>3
<1>4. CASE WorkerSend
  <2>1. Fresh'
    BY <1>4 DEF WorkerSend, Currency, Fresh, Planned, InFlight
  <2> QED BY <1>4, <2>1, CurrencyFrame DEF WorkerSend, Working, Writing, InFlight
<1>5. CASE Merge
  BY <1>5, MergeCurrency
<1>6. CASE Outline
  <2>1. Fresh'
    BY <1>6 DEF Outline, Fresh, Planned, InFlight
  <2>2. Writing'
    BY <1>6, GraphAssumption DEF Outline, Writing, InFlight
  <2> QED BY <1>6, <2>1, <2>2, CurrencyFrame DEF Outline, Working, InFlight
<1>7. CASE StrictModeRaises
  <2>1. Fresh'
    BY <1>7 DEF StrictModeRaises, Fresh, Planned, InFlight
  <2> QED BY <1>7, <2>1, CurrencyFrame DEF StrictModeRaises, Working, InFlight
<1>8. CASE Review
  <2>1. Fresh'
    BY <1>8 DEF Review, Fresh, Planned, InFlight
  <2> QED BY <1>8, <2>1, CurrencyFrame DEF Review, Working, Writing, InFlight
<1>9. CASE BeginRepair
  <2>1. /\ (pc = "begin_repair" /\ stage' \notin {"search", "read"}) \/ pc' = "raised"
        /\ UNCHANGED <<class, results, sources, cards, checks, report, replans, verdict>>
    BY <1>9 DEF BeginRepair
  <2>2. pc = "begin_repair"
    BY <1>9 DEF BeginRepair
  <2>3. pc' \in {"worker_send", "end", "raised"}
    BY <1>9 DEF BeginRepair
  <2>4. Fresh'
    BY <2>1, <2>3 DEF Fresh, Planned, InFlight
  <2> QED BY <2>1, <2>2, <2>3, <2>4, CurrencyFrame DEF Working, Writing, InFlight
<1>10. CASE Finalize
  <2>1. Fresh'
    BY <1>10 DEF Finalize, Fresh, Planned, InFlight
  <2> QED BY <1>10, <2>1, CurrencyFrame DEF Finalize, Working, InFlight
<1>11. CASE UNCHANGED vars
  <2>1. Fresh'
    BY <1>11 DEF vars, Currency, Fresh, Planned, InFlight
  <2> QED BY <1>11, <2>1, CurrencyFrame DEF vars, Working, Writing, InFlight
<1> QED
  BY <1>1, <1>2, <1>3, <1>4, <1>5, <1>6, <1>7, <1>8, <1>9, <1>10, <1>11
     DEF Next, Work, Finished

\* A research run passes only when everything behind its report succeeded.
LEMMA PassMeansSuccess ==
  ASSUME TypeOK, NEW hardFailed, HardVerdict(hardFailed).outcome = "pass", items = PlanItems("research")
  PROVE  /\ \A t \in {"read", "analyze", "cite", "write"} : results[t] = "success"
         /\ \A t \in Searches : results[t] # "failed"
<1> USE DEF Settled, Replanned, Repaired, ReplanOrFail, RepairOrFail
<1>1. /\ ItemsWith({"unanswerable"}) = {} /\ Missing = {} /\ Broken = {}
      /\ Partial \subseteq Searches
  BY DEF HardVerdict, Tolerable
<1>2. \A t \in items : results[t] \in {"success", "partial"}
  BY <1>1 DEF ItemsWith, Missing, Broken, TypeOK, Statuses
<1> QED BY <1>1, <1>2, GraphAssumption DEF PlanItems, Downstream, Partial, ItemsWith

LEMMA NextPassed ==
  ASSUME TypeOK, Shape, Control, Degradation, Currency, Passed, [Next]_vars
  PROVE  Passed'
<1>1. CASE Review
  <2>1. /\ pc = "reviewer" /\ Verdicts
        /\ pc' = CASE verdict'.outcome = "repair" -> "begin_repair"
            [] verdict'.outcome = "replan" -> "planner"
            [] verdict'.outcome \notin {"repair", "replan"} -> "end"
        /\ UNCHANGED <<class, sources, cards, checks, report>>
    BY <1>1 DEF Review, Goto, modeVars, artVars
  <2>2. ASSUME verdict'.outcome = "pass", class = "research" PROVE PassedReportCurrent'
    <3>1. ~degraded
      BY <2>1, <2>2, VerdictDegradation DEF Degradation
    <3>2. items = PlanItems("research")
      BY <2>1, <2>2, <3>1 DEF Shape, Planned
    <3>3. PICK hardFailed : HardVerdict(hardFailed).outcome = "pass"
      <4>1. ASSUME NEW v \in Tightened PROVE v.outcome # "pass"
        BY <4>1 DEF Tightened, Settled, Replanned, RepairOrFail, Repaired
      <4>2. PICK hf \in BOOLEAN :
              verdict' = IF HardVerdict(FALSE).outcome = "pass" THEN HardVerdict(hf) ELSE HardVerdict(FALSE)
        BY <2>1, <2>2, <4>1 DEF Verdicts
      <4> QED BY <2>2, <4>2
    <3>4. /\ Succeeded({"analyze"}) /\ Succeeded({"analyze", "cite"})
          /\ Succeeded({"analyze", "cite", "write"}) /\ ~NewPapersFailed
      BY <2>2, <3>2, <3>3, PassMeansSuccess DEF Succeeded, NewPapersFailed
    <3>5. /\ cards.at # 0 /\ checks.at # 0 /\ checks.cards = cards.at
          /\ report.at # 0 /\ report.cards = cards.at /\ report.checks = checks.at
          /\ sources \subseteq report.sources
      BY <2>1, <3>4 DEF Currency, CardsMade, ChecksFollow, ReportFollows, Working, Writing, InFlight
    <3> QED BY <2>1, <3>5 DEF PassedReportCurrent, NoReport, NoCards, NoChecks
  <2>3. verdict'.outcome = "pass" => pc' = "end"
    BY <2>1
  <2> QED BY <2>1, <2>2, <2>3 DEF Passed, PassedReportCurrent
<1>2. CASE ~Review
  <2>1. verdict' = verdict
    BY <1>2 DEF Next, Work, Finished, vars, Controller, Plan, Replan, WorkerSend, Merge, MergeSearch,
       MergeRead, MergeAnalyze, MergeCite, MergeChapters, MergeReport, MergeDirect, MergeContext,
       MergeAnswer, AtMerge, Outline, StrictModeRaises, BeginRepair, Finalize
  <2>2. CASE verdict.outcome = "pass"
    <3>1. pc \in {"end", "done"}
      BY <2>2 DEF Passed
    <3>2. Finalize \/ UNCHANGED vars
      BY <1>2, <3>1 DEF Next, Work, Finished, Controller, Plan, Replan, WorkerSend, Merge, MergeSearch,
         MergeRead, MergeAnalyze, MergeCite, MergeChapters, MergeReport, MergeDirect, MergeContext,
         MergeAnswer, AtMerge, Outline, StrictModeRaises, BeginRepair
    <3> QED BY <2>2, <3>1, <3>2 DEF Passed, PassedReportCurrent, Finalize, vars, modeVars, artVars
  <2>3. CASE verdict.outcome # "pass"
    BY <2>1, <2>3 DEF Passed, PassedReportCurrent
  <2> QED BY <2>2, <2>3
<1> QED BY <1>1, <1>2

\* The tasks whose results the rest of a round will record.
Pending ==
  IF pc = "outline" THEN {"write"}
  ELSE CASE stage = "search" -> sent \union Downstream
         [] stage = "read" -> Downstream
         [] stage = "analyze" -> {"analyze", "cite", "write"}
         [] stage = "cite" -> {"cite", "write"}
         [] stage \in {"write", "report"} -> {"write"}
         [] stage = "context_load" -> {"context_load", "answer"}
         [] stage = "answer" -> {"answer"}
         [] stage = "direct" -> {"direct_1"}
         [] stage = "none" -> {}

\* A replan marks all of them.
Keeps ==
  /\ pc = "begin_repair" => verdict.outcome = "repair"
  /\ verdict.outcome = "replan" /\ pc \in {"worker_send", "merge", "outline"} =>
       Pending \subseteq replanned

LEMMA InitKeeps == Init => Keeps
  BY DEF Init, Keeps, NoVerdict

LEMMA RankType == \A t \in AllTasks : Rank(t) \in 1 .. 5
  BY Ranks DEF AllTasks, Downstream

\* The roots of a replan carry all that is downstream of them in the plan.
LEMMA RootsKeep ==
  ASSUME TypeOK, Shape, Control, Degradation, pc = "planner", verdict.outcome = "replan", SendRoots,
         pc' = "worker_send"
  PROVE  Pending' \subseteq Marked
<1>0. /\ items = PlanItems(class) /\ verdict.failed \subseteq items /\ ~degraded
      /\ class \in {"atomic", "contextual", "research"}
  BY GraphAssumption DEF Shape, Planned, Control, Degradation
<1>1. CASE Degrades
  <2>1. Roots = {"write"}
    BY <1>1, GraphAssumption DEF Roots, Marked, Rank
  <2>2. stage' = "report"
    BY <1>1, <2>1 DEF SendRoots, Send
  <2> QED BY <1>1, <2>2 DEF Pending, Marked
<1>2. CASE ~Degrades
  <2>1. /\ Marked \subseteq items /\ Roots \subseteq Marked
        /\ \A u \in Marked, v \in items : Rank(u) < Rank(v) => v \in Marked
    <3>1. \A t \in items : Rank(t) \in 1 .. 5
      BY RankType DEF TypeOK
    <3> QED BY <1>0, <1>2, <3>1 DEF Marked, Affected, Roots
  <2>2. PICK t \in Roots : stage' = Profile(t) /\ (stage' = "search" => sent' \subseteq Roots)
    <3>1. CASE Roots = {"read"}
      BY <3>1, Ranks DEF SendRoots, Send
    <3>2. CASE Roots = {"write"}
      BY <1>2, <3>2, Ranks DEF SendRoots, Send
    <3>3. CASE Roots \notin {{"read"}, {"write"}}
      BY <3>3 DEF SendRoots, Send, Goto
    <3> QED BY <3>1, <3>2, <3>3
  <2>3. CASE class = "atomic"
    <3>1. t = "direct_1" /\ stage' = "direct"
      BY <1>0, <2>1, <2>2, <2>3, Ranks DEF PlanItems
    <3> QED BY <2>1, <3>1 DEF Pending
  <2>4. CASE class = "contextual"
    <3>1. items = {"context_load", "answer"}
      BY <1>0, <2>4 DEF PlanItems
    <3>2. CASE t = "context_load"
      <4>1. "answer" \in Marked
        BY <2>1, <3>1, <3>2, Ranks
      <4> QED BY <2>1, <2>2, <3>2, <4>1, Ranks DEF Pending
    <3>3. CASE t = "answer"
      BY <2>1, <2>2, <3>3, Ranks DEF Pending
    <3> QED BY <2>1, <3>1, <3>2, <3>3
  <2>5. CASE class = "research"
    <3>1. items = Searches \union Downstream
      BY <1>0, <2>5 DEF PlanItems
    <3>2. \A u \in {"read", "analyze", "cite", "write"} : Rank(t) < Rank(u) => u \in Marked
      BY <2>1, <3>1 DEF Downstream
    <3>3. CASE t \in Searches
      BY <2>1, <2>2, <3>2, <3>3, Ranks DEF Pending, Downstream
    <3>4. CASE t = "read"
      BY <2>1, <2>2, <3>2, <3>4, Ranks DEF Pending, Downstream
    <3>5. CASE t = "analyze"
      BY <2>1, <2>2, <3>2, <3>5, Ranks DEF Pending
    <3>6. CASE t = "cite"
      BY <2>1, <2>2, <3>2, <3>6, Ranks DEF Pending
    <3>7. CASE t = "write"
      BY <2>1, <2>2, <3>7, Ranks DEF Pending
    <3> QED BY <2>1, <3>1, <3>3, <3>4, <3>5, <3>6, <3>7 DEF Downstream
  <2> QED BY <1>0, <2>3, <2>4, <2>5
<1> QED BY <1>1, <1>2

\* A merge records results of pending tasks only.
LEMMA MergeRecordsPending ==
  ASSUME TypeOK, Shape, Merge
  PROVE  /\ \A t \in AllTasks : results'[t] # results[t] => t \in Pending
         /\ pc' \in {"worker_send", "merge", "outline"} => Pending' \subseteq Pending
<1> USE DEF Goto, Send, planVars, sendVars
<1>0. pc = "merge" /\ StageFits /\ SentFits
  BY DEF Merge, MergeSearch, MergeRead, MergeAnalyze, MergeCite, MergeChapters, MergeReport,
     MergeDirect, MergeContext, MergeAnswer, AtMerge, Shape
<1>1. ASSUME NEW task \in AllTasks, Record(task) \/ results' = [results EXCEPT ![task] = "partial"]
      PROVE  \A t \in AllTasks : t # task => results'[t] = results[t]
  BY <1>0, <1>1, RecordOne DEF TypeOK
<1>2. CASE MergeSearch
  <2>1. stage = "search"
    BY <1>2 DEF MergeSearch, AtMerge
  <2>2. \A t \in AllTasks : results'[t] # results[t] => t \in Pending
    BY <1>0, <1>2, <2>1 DEF MergeSearch, Pending
  <2> QED BY <1>0, <1>2, <2>1, <2>2 DEF MergeSearch, AtMerge, Pending
<1>3. CASE MergeRead
  BY <1>0, <1>1, <1>3, TaskNames DEF MergeRead, AtMerge, Pending, Downstream
<1>4. CASE MergeAnalyze
  BY <1>0, <1>1, <1>4, TaskNames DEF MergeAnalyze, AtMerge, Pending
<1>5. CASE MergeCite
  BY <1>0, <1>1, <1>5, TaskNames DEF MergeCite, AtMerge, Pending
<1>6. CASE MergeChapters
  BY <1>0, <1>1, <1>6, TaskNames DEF MergeChapters, AtMerge, Pending
<1>7. CASE MergeReport
  BY <1>0, <1>1, <1>7, TaskNames DEF MergeReport, AtMerge, Pending
<1>8. CASE MergeDirect
  BY <1>0, <1>1, <1>8, TaskNames DEF MergeDirect, AtMerge, Pending
<1>9. CASE MergeContext
  BY <1>0, <1>1, <1>9, TaskNames DEF MergeContext, AtMerge, Pending
<1>10. CASE MergeAnswer
  BY <1>0, <1>1, <1>10, TaskNames DEF MergeAnswer, AtMerge, Pending
<1> QED BY <1>2, <1>3, <1>4, <1>5, <1>6, <1>7, <1>8, <1>9, <1>10 DEF Merge

LEMMA NextKeeps ==
  ASSUME TypeOK, Shape, Control, Degradation, Keeps, [Next]_vars
  PROVE  Keeps'
<1> USE DEF Goto, Send, planVars, sendVars
<1>1. CASE Controller \/ Plan
  <2>1. CASE Controller
    BY <2>1 DEF Controller, Keeps
  <2>2. CASE Plan
    <3>1. class \in {"atomic", "contextual", "research"}
      BY <2>2, GraphAssumption DEF Plan, Control
    <3>2. pc' \in {"worker_send", "end"}
      BY <2>2, <3>1 DEF Plan
    <3> QED BY <2>2, <3>2 DEF Plan, Keeps
  <2> QED BY <1>1, <2>1, <2>2
<1>2. CASE Replan
  <2>1. pc = "planner" /\ verdict.outcome = "replan" /\ verdict' = verdict
    BY <1>2 DEF Replan
  <2>2. CASE PlanValid
    <3>1. SendRoots /\ replanned' = Marked
      BY <1>2, <2>2 DEF Replan
    <3>2. pc' \in {"worker_send", "end", "raised"}
      BY <3>1 DEF SendRoots
    <3>3. pc' = "worker_send" => Pending' \subseteq Marked
      BY <2>1, <3>1, RootsKeep
    <3> QED BY <3>1, <3>2, <3>3 DEF Keeps
  <2>3. CASE ~PlanValid
    BY <1>2, <2>3 DEF Replan, Keeps
  <2> QED BY <2>2, <2>3
<1>3. CASE WorkerSend
  BY <1>3 DEF WorkerSend, Keeps, Pending
<1>4. CASE Merge
  <2>1. /\ pc = "merge" /\ pc' # "begin_repair" /\ verdict' = verdict /\ replanned' = replanned
    BY <1>4 DEF Merge, MergeSearch, MergeRead, MergeAnalyze, MergeCite, MergeChapters, MergeReport,
       MergeDirect, MergeContext, MergeAnswer, AtMerge
  <2> QED BY <1>4, <2>1, MergeRecordsPending DEF Keeps
<1>5. CASE Outline
  BY <1>5 DEF Outline, Keeps, Pending
<1>6. CASE StrictModeRaises
  BY <1>6 DEF StrictModeRaises, Keeps
<1>7. CASE Review
  BY <1>7 DEF Review, Keeps
<1>8. CASE BeginRepair
  BY <1>8 DEF BeginRepair, Keeps
<1>9. CASE Finalize
  BY <1>9 DEF Finalize, Keeps
<1>10. CASE UNCHANGED vars
  BY <1>10 DEF vars, Keeps, Pending
<1> QED BY <1>1, <1>2, <1>3, <1>4, <1>5, <1>6, <1>7, <1>8, <1>9, <1>10 DEF Next, Work, Finished

\* What every state of the graph satisfies.
GraphInv == TypeOK /\ Shape /\ Control /\ Degradation /\ Currency /\ Passed /\ Keeps

\* It is inductive.
THEOREM GraphInvariant == Spec => []GraphInv
<1>1. Init => GraphInv
  BY InitShape, InitControl, InitDegradation, InitCurrency, InitKeeps DEF GraphInv
<1>2. GraphInv /\ [Next]_vars => GraphInv'
  <2> SUFFICES ASSUME GraphInv, [Next]_vars PROVE GraphInv'
    OBVIOUS
  <2>1. TypeOK' /\ Shape' /\ Control' /\ Degradation'
    BY NextShape, NextControl, NextDegradation DEF GraphInv
  <2>2. Currency' /\ Passed' /\ Keeps'
    BY NextCurrency, NextPassed, NextKeeps DEF GraphInv
  <2> QED BY <2>1, <2>2 DEF GraphInv
<1> QED BY <1>1, <1>2, PTL DEF Spec

\* Every variable keeps to its values, whatever the stages return.
THEOREM TypeCorrect == Spec => []TypeOK
<1>1. GraphInv => TypeOK
  BY DEF GraphInv
<1> QED BY <1>1, GraphInvariant, PTL

\* A research run that passes delivers a report of what it holds: no repair and no
\* replan, with any search branches and any chapters, leaves a stale part behind.
THEOREM PassedReportsAreCurrent == Spec => []PassedReportCurrent
<1>1. GraphInv => PassedReportCurrent
  BY DEF GraphInv, Passed
<1> QED BY <1>1, GraphInvariant, PTL

\* A replan records results of the tasks it marked and of no others.
THEOREM ReplansKeepUnaffected == Spec => ReplanKeepsUnaffected
<1>1. GraphInv /\ [Next]_vars =>
        [verdict.outcome = "replan" =>
           \A t \in AllTasks : results'[t] # results[t] => t \in replanned]_vars
  <2> SUFFICES ASSUME GraphInv, [Next]_vars, verdict.outcome = "replan",
                      NEW t \in AllTasks, results'[t] # results[t]
               PROVE  t \in replanned
    OBVIOUS
  <2>1. Merge
    BY DEF Next, Work, Finished, vars, Controller, Plan, Replan, WorkerSend, Outline, StrictModeRaises,
       Review, BeginRepair, Finalize
  <2>2. pc = "merge"
    BY <2>1 DEF Merge, MergeSearch, MergeRead, MergeAnalyze, MergeCite, MergeChapters, MergeReport,
       MergeDirect, MergeContext, MergeAnswer, AtMerge
  <2> QED BY <2>1, <2>2, MergeRecordsPending DEF GraphInv, Keeps
<1> QED BY <1>1, GraphInvariant, PTL DEF Spec, ReplanKeepsUnaffected
=============================================================================
