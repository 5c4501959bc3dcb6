------------------------------- MODULE ToolLoop -------------------------------
(***************************************************************************)
(* The tool-using workers of a run: the execution of a work item           *)
(* (agents/worker.py, WorkerAgent), the function-calling loop              *)
(* (agents/llm_worker.py), the rule worker it falls back to                *)
(* (agents/worker.py, Worker), the gate in front of every tool             *)
(* (tools/base.py, run) and the budget that the workers of a run share     *)
(* (observability/lifecycle.py).                                           *)
(*                                                                         *)
(* Workers run concurrently on one loop and suspend while they wait for    *)
(* the model or for a tool.  Time is not modelled: what a timeout ends may *)
(* be ended whenever it is waited for.                                     *)
(***************************************************************************)
EXTENDS Naturals, FiniteSetsExt, SequencesExt

CONSTANTS
  Workers,    \* work items sent together
  Teams,      \* which item each worker may be given: functions from Workers to Items
  Calls,      \* tools with their arguments, what duplicates are recognised by
  ItemCalls,  \* max_tool_calls of an item
  RunCalls,   \* max_tool_calls of the run
  MaxIter,    \* max_iterations of the loop
  MaxErrors,  \* max_consecutive_errors of the loop
  MaxBatch    \* bound: calls in one answer of the model

\* resources: papers of the session come with the item.  need: sources that an
\* analysis must cover.  only: no result but the model's is accepted (llm_only).
Items == [kind : {"search", "direct", "analyze", "read", "cite"}, llm : BOOLEAN,
          only : BOOLEAN, resources : BOOLEAN, need : Nat]

ASSUME ToolLoopAssumption ==
  /\ IsFiniteSet(Workers) /\ IsFiniteSet(Calls)
  /\ Teams \subseteq [Workers -> Items]
  /\ {ItemCalls, RunCalls, MaxBatch} \subseteq Nat
  /\ {MaxIter, MaxErrors} \subseteq Nat \ {0}

VARIABLES
  item,     \* item[w]: the work item of w
  work,     \* work[w]: the execution of w's item
  budget,   \* the runtime budget of the run
  refused   \* refused[w]: calls of w that the gate refused, whatever w made of it

vars == <<item, work, budget, refused>>

Idle ==
  [pc |-> "idle", pending |-> <<>>, count |-> 0, iter |-> 0, errors |-> 0,
   called |-> {}, local |-> ItemCalls, gained |-> {}, seeded |-> FALSE, left |-> 0,
   fellBack |-> FALSE, finishes |-> 0, ran |-> 0, failed |-> FALSE, denied |-> FALSE,
   status |-> "none"]

Init ==
  /\ item \in Teams
  /\ work = [w \in Workers |-> Idle]
  /\ budget = [registered |-> TRUE, late |-> FALSE, left |-> RunCalls]
  /\ refused = [w \in Workers |-> 0]

\* The item is a task of retrieval: direct items go through the search channel.
Retrieval(w) == item[w].kind \in {"search", "direct"}
\* The model chooses the tools of the item.
Loops(w) == item[w].llm /\ item[w].kind \in {"search", "direct", "analyze"}
\* strategy_for: one failing call of a deterministic item fails it.
Deterministic(w) ==
  item[w].kind \in {"read", "cite"} \/ (item[w].kind = "direct" /\ ~item[w].llm)

RunOpen == budget.registered /\ ~budget.late

(***************************************************************************)
(* The gate in front of every tool                                         *)
(***************************************************************************)

\* Mutant: the calls of the run are not counted against its budget.
AdmittedUnbounded(w) == work[w].local > 0 /\ RunOpen

\* The call is made if the item and the run have one left; the item's is spent
\* first, and stays spent when the run refuses.
Admitted(w) == work[w].local > 0 /\ RunOpen /\ budget.left > 0

Reserve(w) ==
  /\ Admitted(w)
  /\ budget' = [budget EXCEPT !.left = @ - 1]
  /\ UNCHANGED refused

Refuse(w) ==
  /\ ~Admitted(w)
  /\ refused' = [refused EXCEPT ![w] = @ + 1]
  /\ UNCHANGED budget

Spent(x) == [x EXCEPT !.local = IF @ > 0 THEN @ - 1 ELSE 0]
Called(x) == [Spent(x) EXCEPT !.ran = @ + 1]

(***************************************************************************)
(* The rule worker                                                         *)
(***************************************************************************)

\* Tools the rule worker runs in a row: one search or check, metadata and scores,
\* or an extraction from every source.
RuleCalls(w) ==
  CASE item[w].kind = "read" -> 2
    [] item[w].kind = "analyze" -> Cardinality(Calls)
    [] OTHER -> 1

\* What a loop leaves behind at its end: its trace and the item's budget.
AfterLoop(x) ==
  [Idle EXCEPT !.pc = "rule", !.local = x.local, !.ran = x.ran, !.failed = x.failed,
               !.denied = x.denied, !.finishes = x.finishes]

\* retrieval_finished is recorded for a retrieval, once.
Recorded(w, x) == [x EXCEPT !.finishes = IF Retrieval(w) /\ @ = 0 THEN 1 ELSE @]

\* Mutant: the rule worker gets a budget of its own.
FallBackFresh(w, x) ==
  Recorded(w, [AfterLoop(x) EXCEPT !.left = RuleCalls(w), !.fellBack = TRUE, !.local = ItemCalls])

\* Mutant: the end of the retrieval is recorded where the loop ends only.
FallBackUnrecorded(w, x) == [AfterLoop(x) EXCEPT !.left = RuleCalls(w), !.fellBack = TRUE]

\* _fallback_to_rule: the rule worker starts over, its results replace those of
\* the loop, and the trace of the loop is kept.
FallBack(w, x) ==
  Recorded(w, [AfterLoop(x) EXCEPT !.left = RuleCalls(w), !.fellBack = TRUE])

\* Mutant: a refused call leaves no mark in the trace.
RuleCallUnmarked(w) ==
  LET x == work[w] IN
  /\ x.pc = "rule" /\ x.left > 0
  /\ \/ Reserve(w) /\ work' = [work EXCEPT ![w] = [Called(x) EXCEPT !.pc = "ruletool"]]
     \/ Refuse(w) /\ work' = [work EXCEPT ![w] = [Spent(x) EXCEPT !.left = @ - 1]]
  /\ UNCHANGED item

\* The rule worker's next tool; a refused call is marked in the trace.
RuleCall(w) ==
  LET x == work[w] IN
  /\ x.pc = "rule" /\ x.left > 0
  /\ \/ Reserve(w) /\ work' = [work EXCEPT ![w] = [Called(x) EXCEPT !.pc = "ruletool"]]
     \/ Refuse(w) /\ work' = [work EXCEPT ![w] =
          [Spent(x) EXCEPT !.left = @ - 1, !.denied = TRUE]]
  /\ UNCHANGED item

RuleAnswer(w) ==
  LET x == work[w] IN
  /\ x.pc = "ruletool"
  /\ \E ok, useful \in BOOLEAN :
       /\ useful => ok
       /\ work' = [work EXCEPT ![w] =
            [x EXCEPT !.pc = "rule", !.left = @ - 1, !.failed = @ \/ ~ok,
                      !.gained = IF useful THEN @ \union {x.left} ELSE @]]
  /\ UNCHANGED <<item, budget, refused>>

(***************************************************************************)
(* The function-calling loop                                               *)
(***************************************************************************)

\* What the registry makes of a call: a tool with its arguments as duplicates know
\* them, or one that the worker has not, or may not call, or not with these.
Requests == Calls \union {"invalid"}

\* _accumulate_result: what a useful answer brings is kept beside what is there.
Accumulate(x, k, useful) == [x EXCEPT !.gained = IF useful THEN @ \union {k} ELSE @]

\* _validate_task_completion: a search has a usable source, perhaps one that came
\* with the item; an analysis covers the sources it must.
Complete(w, x) ==
  IF Retrieval(w) THEN x.gained # {} \/ x.seeded ELSE Cardinality(x.gained) >= item[w].need

\* The loop returns what it has brought in.
Return(w, x) ==
  Recorded(w, [AfterLoop(x) EXCEPT !.gained = x.gained, !.seeded = x.seeded])

\* Mutant: a round is counted when its answer has calls.
AskUncounted(w) ==
  LET x == work[w] IN
  /\ x.pc = "loop" /\ x.count < ItemCalls /\ x.iter < MaxIter
  /\ work' = [work EXCEPT ![w] = [x EXCEPT !.pc = "asking"]]
  /\ UNCHANGED <<item, budget, refused>>

Ask(w) ==
  LET x == work[w] IN
  /\ x.pc = "loop" /\ x.count < ItemCalls /\ x.iter < MaxIter
  /\ work' = [work EXCEPT ![w] = [x EXCEPT !.pc = "asking", !.iter = @ + 1]]
  /\ UNCHANGED <<item, budget, refused>>

\* The loop finds the time of its item over before it asks again.
LoopTimeout(w) ==
  LET x == work[w] IN
  /\ x.pc = "loop" /\ x.count < ItemCalls /\ x.iter < MaxIter
  /\ work' = [work EXCEPT ![w] = IF Retrieval(w) THEN Return(w, x) ELSE FallBack(w, x)]
  /\ UNCHANGED <<item, budget, refused>>

\* Mutant: what there is at the limit is returned, complete or not.
LimitUnchecked(w) ==
  LET x == work[w] IN
  /\ x.pc = "loop" /\ (x.count >= ItemCalls \/ x.iter >= MaxIter)
  /\ work' = [work EXCEPT ![w] = Return(w, x)]
  /\ UNCHANGED <<item, budget, refused>>

\* A limit is reached: a search returns what it has, an analysis must be complete.
Limit(w) ==
  LET x == work[w] IN
  /\ x.pc = "loop" /\ (x.count >= ItemCalls \/ x.iter >= MaxIter)
  /\ work' = [work EXCEPT ![w] =
       IF Retrieval(w) \/ Complete(w, x) THEN Return(w, x) ELSE FallBack(w, x)]
  /\ UNCHANGED <<item, budget, refused>>

\* The model fails.
ModelError(w) ==
  LET x == [work[w] EXCEPT !.errors = @ + 1] IN
  /\ work[w].pc = "asking"
  /\ work' = [work EXCEPT ![w] =
       IF x.errors >= MaxErrors THEN FallBack(w, x) ELSE [x EXCEPT !.pc = "loop"]]
  /\ UNCHANGED <<item, budget, refused>>

\* The model says that it is finished: if the task is not complete it is told so.
ModelFinish(w) ==
  LET x == [work[w] EXCEPT !.errors = 0] IN
  /\ work[w].pc = "asking"
  /\ work' = [work EXCEPT ![w] =
       IF Complete(w, x) THEN Return(w, x) ELSE [x EXCEPT !.pc = "loop"]]
  /\ UNCHANGED <<item, budget, refused>>

\* The model answers with calls, known ones or not; those beyond the item's
\* budget are cut off.  An answer without calls, and an exception, end the loop.
ModelCalls(w) ==
  LET x == [work[w] EXCEPT !.errors = 0] IN
  /\ work[w].pc = "asking"
  /\ \E answer \in BoundedSeq(Requests, MaxBatch) :
       work' = [work EXCEPT ![w] =
         IF answer = <<>> THEN FallBack(w, x)
         ELSE [x EXCEPT !.pc = "calls",
                        !.pending = SubSeq(answer, 1, Min({Len(answer), ItemCalls - x.count}))]]
  /\ UNCHANGED <<item, budget, refused>>

\* _handle_tool_call up to the tool: a call that is not valid is an error, one that
\* was made before is skipped, and one that the gate refuses counts and is an error.
HandleCall(w) ==
  LET x == [work[w] EXCEPT !.pending = Tail(@)]
      c == Head(work[w].pending)
      counted == [x EXCEPT !.called = @ \union {c}, !.count = @ + 1]
      continue(y) == work' = [work EXCEPT ![w] = y]
  IN
  /\ work[w].pc = "calls" /\ work[w].pending # <<>>
  /\ \/ c = "invalid" /\ continue([x EXCEPT !.errors = @ + 1])
        /\ UNCHANGED <<budget, refused>>
     \/ c \in x.called /\ continue(x) /\ UNCHANGED <<budget, refused>>
     \/ /\ c \in Calls \ x.called
        /\ \/ Reserve(w) /\ continue([Called(counted) EXCEPT !.pc = "tool"])
           \/ Refuse(w) /\ continue([Spent(counted) EXCEPT !.errors = @ + 1, !.denied = TRUE])
  /\ UNCHANGED item

\* The tool answers, or its time is over.
ToolAnswer(w) ==
  LET x == work[w] IN
  /\ x.pc = "tool"
  /\ \E ok, useful \in BOOLEAN :
       /\ useful => ok
       /\ work' = [work EXCEPT ![w] =
            [Accumulate(x, x.count, useful) EXCEPT
               !.pc = "calls", !.failed = @ \/ ~ok, !.errors = IF ok THEN 0 ELSE @ + 1]]
  /\ UNCHANGED <<item, budget, refused>>

\* All calls of the answer are handled.
EndOfCalls(w) ==
  LET x == work[w] IN
  /\ x.pc = "calls" /\ x.pending = <<>>
  /\ work' = [work EXCEPT ![w] =
       IF x.errors >= MaxErrors THEN FallBack(w, x) ELSE [x EXCEPT !.pc = "loop"]]
  /\ UNCHANGED <<item, budget, refused>>

(***************************************************************************)
(* The execution of a work item                                            *)
(***************************************************************************)
\* The item ends: what is left of its execution is the result.
Ended(w, status) ==
  work' = [work EXCEPT ![w] =
    [Idle EXCEPT !.pc = "done", !.status = status, !.ran = work[w].ran,
       !.gained = work[w].gained, !.fellBack = work[w].fellBack, !.finishes = work[w].finishes]]

\* The loop or the rule worker starts on the item, with the item's budget.  A loop
\* without the model falls back at once.
Started(w, x) ==
  IF Loops(w) THEN {[x EXCEPT !.pc = "loop"], FallBack(w, x)}
  ELSE {[x EXCEPT !.pc = "rule", !.left =
           IF item[w].kind = "analyze" THEN Min({RuleCalls(w), ItemCalls}) ELSE RuleCalls(w)]}

\* The item is started, unless the time of the run is over or its tools are not
\* granted.
Begin(w) ==
  LET x == [work[w] EXCEPT !.seeded = item[w].resources] IN
  /\ work[w].pc = "idle"
  /\ IF ~RunOpen THEN Ended(w, "timeout")
     ELSE \/ Ended(w, "failed")
          \/ \E y \in Started(w, x) : work' = [work EXCEPT ![w] = y]
  /\ UNCHANGED <<item, budget, refused>>

\* _completion_gate.  What a direct item brings must not be in the session yet.
Gate(w) ==
  CASE item[w].kind = "search" -> {work[w].gained # {} \/ work[w].seeded}
    [] item[w].kind = "direct" ->
         {work[w].gained # {}} \union (IF item[w].resources THEN {FALSE} ELSE {})
    [] item[w].kind = "analyze" -> {work[w].gained # {}}
    [] OTHER -> {TRUE}

\* The result is the model's own.
ByModel(w) == Loops(w) /\ ~work[w].fellBack

\* _trace_to_tool_calls: the trace shows more calls than the item has, or one that
\* was refused, in the loop or in the fallback.
Overdrawn(x) == x.ran > ItemCalls \/ x.denied

\* The tools are done, and the result is made of their trace.
Conclude(w) ==
  LET x == work[w] IN
  /\ x.pc = "rule" /\ x.left = 0
  /\ \E passed \in Gate(w) :
       IF \/ Overdrawn(x)
          \/ (item[w].only /\ item[w].kind \notin {"read", "cite"} /\ ~ByModel(w))
       THEN Ended(w, "failed")
       ELSE IF Deterministic(w) /\ x.failed
       THEN Ended(w, "failed") \/ (item[w].kind # "direct" /\ Ended(w, "timeout"))
       ELSE IF passed THEN Ended(w, "success")
       ELSE IF item[w].kind = "direct" /\ x.ran > 0 /\ ~x.failed THEN Ended(w, "failed")
       ELSE Ended(w, "partial")
  /\ UNCHANGED <<item, budget, refused>>

Waiting(w) == work[w].pc \in {"asking", "tool", "ruletool"}

\* The time of the item is over while it waits; what it waits for is cancelled.
ItemTimeout(w) ==
  /\ Waiting(w)
  /\ Ended(w, "timeout")
  /\ UNCHANGED <<item, budget, refused>>

\* The time of the run is over.
Expire ==
  /\ RunOpen
  /\ budget' = [budget EXCEPT !.late = TRUE]
  /\ UNCHANGED <<item, work, refused>>

\* The run ends, whatever its workers do, and clears its budget.
RunEnds ==
  /\ budget.registered
  /\ budget' = [budget EXCEPT !.registered = FALSE]
  /\ UNCHANGED <<item, work, refused>>

\* The graph of a run that has ended cancels the workers that wait.
Cancelled(w) ==
  /\ ~budget.registered
  /\ Waiting(w)
  /\ Ended(w, "cancelled")
  /\ UNCHANGED <<item, budget, refused>>

Work(w) ==
  \/ Begin(w) \/ Ask(w) \/ LoopTimeout(w) \/ Limit(w)
  \/ ModelError(w) \/ ModelFinish(w) \/ ModelCalls(w)
  \/ HandleCall(w) \/ ToolAnswer(w) \/ EndOfCalls(w)
  \/ RuleCall(w) \/ RuleAnswer(w) \/ Conclude(w)

Done == \A w \in Workers : work[w].pc = "done"

Next ==
  \/ \E w \in Workers : Work(w) \/ ItemTimeout(w) \/ Cancelled(w)
  \/ Expire \/ RunEnds
  \/ Done /\ UNCHANGED vars

\* The model and the tools answer or time out, and the loop runs who can go on.
Fairness == \A w \in Workers : WF_vars(Work(w))

Spec == Init /\ [][Next]_vars /\ Fairness

(***************************************************************************)
(* Properties                                                              *)
(***************************************************************************)
TypeOK ==
  /\ item \in [Workers -> Items]
  /\ budget \in [registered : BOOLEAN, late : BOOLEAN, left : 0 .. RunCalls]
  /\ refused \in [Workers -> Nat]
  /\ \A w \in Workers :
       /\ work[w].pc \in {"idle", "loop", "asking", "calls", "tool", "rule", "ruletool", "done"}
       /\ work[w].pending \in Seq(Requests)
       /\ work[w].called \subseteq Calls
       /\ work[w].count \in 0 .. ItemCalls /\ work[w].local \in 0 .. ItemCalls
       /\ work[w].iter \in 0 .. MaxIter
       /\ work[w].status \in {"none", "success", "partial", "failed", "timeout", "cancelled"}

\* The calls the traces show, numbered for each worker.
Made == UNION {{w} \X (1 .. work[w].ran) : w \in Workers}

\* Every call in a trace was paid for by the run, once, and no item, its fallback
\* included, makes more calls than it was given.
CallsPaid ==
  /\ Cardinality(Made) + budget.left = RunCalls
  /\ \A w \in Workers : work[w].ran <= ItemCalls

\* A call that the gate refused, in the loop or in the fallback, is never hidden
\* behind the results of other calls: the item does not succeed, in full or part.
RefusalsReported ==
  \A w \in Workers : refused[w] > 0 => work[w].status \notin {"success", "partial"}

\* A retrieval by the model that comes to a result has recorded its end exactly
\* once, whichever of its exits it took.
RetrievalFinishedOnce ==
  \A w \in Workers : Loops(w) /\ Retrieval(w) =>
    /\ work[w].finishes <= 1
    /\ work[w].pc = "rule" \/ work[w].status \in {"success", "partial"} => work[w].finishes = 1

\* An analysis by the model that succeeds covers the sources it must, although the
\* completion gate asks for a single card only.
EvidenceCovered ==
  \A w \in Workers :
    item[w].kind = "analyze" /\ ByModel(w) /\ work[w].status = "success"
      => Cardinality(work[w].gained) >= item[w].need

\* What an item says of itself is so: no refused call is hidden, the end of a
\* retrieval is recorded once, and an analysis covers what it must.
OutcomeHonest == RefusalsReported /\ RetrievalFinishedOnce /\ EvidenceCovered

\* Every item comes to an end: however often the model fails, repeats itself, asks
\* for tools it may not call or says that it is finished when it is not.
ItemsEnd == \A w \in Workers : <>(work[w].pc = "done")
=============================================================================
