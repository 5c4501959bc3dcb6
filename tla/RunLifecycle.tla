---------------------------- MODULE RunLifecycle -----------------------------
(***************************************************************************)
(* The life of the asynchronous runs: the POST handler, the background     *)
(* task, the cancel handler and the task registry (api/routes.py), the     *)
(* run records in memory and their SQLite snapshots                        *)
(* (services/run_store.py, storage/sqlite_run_repository.py), the finished *)
(* flag and terminal events of the broker (services/event_broker.py) and   *)
(* the runtime budgets (observability/lifecycle.py), for both backends     *)
(* (graph/runtime.py and services/orchestrator.py).                        *)
(*                                                                         *)
(* Everything runs on one asyncio loop.  What a run does inside the graph  *)
(* is left out here; from the moment the graph or the orchestrator is      *)
(* through, the background task does not suspend again, so finishing the   *)
(* run, publishing its end and archiving the turn are one step.            *)
(***************************************************************************)
EXTENDS Naturals, Sequences

CONSTANTS
  Runs,        \* run ids
  Sessions     \* conversation sessions

VARIABLES
  backend,     \* backend[r]: "graph_send" or "loop"
  sessionOf,   \* sessionOf[r]: the session the run was posted in
  alive,       \* the sessions that are neither deleted nor expired
  mem,         \* mem[r]: status in the process's run record, "none" without one
  warned,      \* warned[r]: the record has the warning that a save failed
  sql,         \* sql[r]: status in the SQLite snapshot, "none" without one
  ended,       \* ended[r]: the terminal events published for the run
  announced,   \* announced[r]: status in the run_finished event, "none" before
  finished,    \* finished[r]: broker.finish_run was called
  task,        \* task[r]: "none", "running", "done", or "lost" with its process
  mustCancel,  \* mustCancel[r]: the task will get a CancelledError when it runs next
  begun,       \* begun[r]: the controller node or the orchestrator has started
  registered,  \* registered[r]: _task_registry holds the task
  budget,      \* budget[r]: a runtime budget is registered for the run
  archived,    \* archived[r]: the turn was written back to the session
  up           \* FALSE once the process has been restarted

storeVars   == <<mem, warned, sql>>
streamVars  == <<ended, announced, finished>>
taskVars    == <<task, mustCancel, begun, registered, budget>>
originVars  == <<backend, sessionOf>>
vars == <<originVars, alive, storeVars, streamVars, taskVars, archived, up>>

Backends == {"graph_send", "loop"}

\* The statuses _finalize_run can decide on; completed stands for
\* completed_with_warnings too.
Verdicts == {"completed", "partial", "failed"}
Terminal == Verdicts \union {"cancelled"}
Statuses == Terminal \union {"none", "queued", "running"}

Init ==
  /\ backend = [r \in Runs |-> "graph_send"]
  /\ sessionOf \in [Runs -> Sessions]
  /\ alive = Sessions
  /\ mem = [r \in Runs |-> "none"]
  /\ warned = [r \in Runs |-> FALSE]
  /\ sql = [r \in Runs |-> "none"]
  /\ ended = [r \in Runs |-> <<>>]
  /\ announced = [r \in Runs |-> "none"]
  /\ finished = [r \in Runs |-> FALSE]
  /\ task = [r \in Runs |-> "none"]
  /\ mustCancel = [r \in Runs |-> FALSE]
  /\ begun = [r \in Runs |-> FALSE]
  /\ registered = [r \in Runs |-> FALSE]
  /\ budget = [r \in Runs |-> FALSE]
  /\ archived = [r \in Runs |-> FALSE]
  /\ up = TRUE

(***************************************************************************)
(* Handlers                                                                *)
(***************************************************************************)

\* POST /api/research/runs, once the session turn is prepared.  The session was
\* alive when the preparation began; it may have ended during it.
Post(r, b) ==
  /\ up
  /\ task[r] = "none"
  /\ backend' = [backend EXCEPT ![r] = b]
  /\ mem' = [mem EXCEPT ![r] = "queued"]
  /\ task' = [task EXCEPT ![r] = "running"]
  /\ registered' = [registered EXCEPT ![r] = TRUE]
  /\ UNCHANGED <<sessionOf, alive, warned, sql, streamVars, mustCancel, begun, budget,
                 archived, up>>

\* POST /api/research/runs/{run_id}/cancel with a registered task.  Without
\* one the handler only reports the status.
Cancel(r) ==
  /\ registered[r]
  /\ mustCancel' = [mustCancel EXCEPT ![r] = @ \/ task[r] = "running"]
  /\ mem' = [mem EXCEPT ![r] = "cancelled"]
  /\ UNCHANGED <<originVars, alive, warned, sql, streamVars, task, begun, registered,
                 budget, archived, up>>

\* The done callback of the task, run by the loop some time after its end.
Unregister(r) ==
  /\ task[r] = "done"
  /\ registered[r]
  /\ registered' = [registered EXCEPT ![r] = FALSE]
  /\ UNCHANGED <<originVars, alive, storeVars, streamVars, task, mustCancel, begun, budget,
                 archived, up>>

\* DELETE /api/sessions/{id}, or the session's TTL runs out.
SessionEnds(s) ==
  /\ up
  /\ s \in alive
  /\ alive' = alive \ {s}
  /\ UNCHANGED <<originVars, storeVars, streamVars, taskVars, archived, up>>

\* The process is restarted: only the snapshots survive.
Restart ==
  /\ up
  /\ up' = FALSE
  /\ alive' = {}
  /\ mem' = [r \in Runs |-> "none"]
  /\ warned' = [r \in Runs |-> FALSE]
  /\ task' = [r \in Runs |-> IF task[r] = "none" THEN "none" ELSE "lost"]
  /\ mustCancel' = [r \in Runs |-> FALSE]
  /\ registered' = [r \in Runs |-> FALSE]
  /\ budget' = [r \in Runs |-> FALSE]
  /\ UNCHANGED <<originVars, sql, streamVars, begun, archived>>

(***************************************************************************)
(* The background task                                                     *)
(***************************************************************************)

\* The first node of the graph, or the orchestrator, marks the run as running.
\* A node of the graph is a task of its own: it may still take this step when
\* the background task is about to be cancelled.
Begin(r) ==
  /\ task[r] = "running"
  /\ ~begun[r]
  /\ backend[r] = "loop" => ~mustCancel[r]
  /\ mem' = [mem EXCEPT ![r] = "running"]
  /\ begun' = [begun EXCEPT ![r] = TRUE]
  /\ UNCHANGED <<originVars, alive, warned, sql, streamVars, task, mustCancel, registered,
                 budget, archived, up>>

\* The controller node registers the run's budget once it has decided.
RegisterBudget(r) ==
  /\ task[r] = "running"
  /\ backend[r] = "graph_send"
  /\ begun[r]
  /\ ~budget[r]
  /\ budget' = [budget EXCEPT ![r] = TRUE]
  /\ UNCHANGED <<originVars, alive, storeVars, streamVars, task, mustCancel, begun, registered,
                 archived, up>>

\* Mutant: a later snapshot replaces the first.
SnapshotReplaced(old, status, saved) == IF saved THEN status ELSE old

\* RunStore.finish saves a snapshot; SQLite keeps the first one per run_id.
Snapshot(old, status, saved) == IF old = "none" /\ saved THEN status ELSE old

\* Mutant: the run record keeps the status it has.
SettleRecordKept(r, status, event, saved) ==
  /\ sql' = [sql EXCEPT ![r] = Snapshot(@, status, saved)]
  /\ warned' = [warned EXCEPT ![r] = @ \/ ~saved]
  /\ ended' = [ended EXCEPT ![r] = Append(@, event)]
  /\ announced' = [announced EXCEPT ![r] = IF event = "run_finished" THEN status ELSE @]
  /\ UNCHANGED mem

\* The run ends with a status and a terminal event: run_store.update and
\* finish, broker.publish and finish_run, and the budget is released.
Settle(r, status, event, saved) ==
  /\ mem' = [mem EXCEPT ![r] = status]
  /\ sql' = [sql EXCEPT ![r] = Snapshot(@, status, saved)]
  /\ warned' = [warned EXCEPT ![r] = @ \/ ~saved]
  /\ ended' = [ended EXCEPT ![r] = Append(@, event)]
  /\ announced' = [announced EXCEPT ![r] = IF event = "run_finished" THEN status ELSE @]

\* As Settle, but archiving the turn then fails and the background task's
\* handler for exceptions settles the run once more, as failed.
SettleTwice(r, status, event, saved, savedAgain) ==
  /\ mem' = [mem EXCEPT ![r] = "failed"]
  /\ sql' = [sql EXCEPT ![r] = Snapshot(Snapshot(@, status, saved), "failed", savedAgain)]
  /\ warned' = [warned EXCEPT ![r] = @ \/ ~saved \/ ~savedAgain]
  /\ ended' = [ended EXCEPT ![r] = @ \o <<event, "error">>]
  /\ announced' = [announced EXCEPT ![r] = IF event = "run_finished" THEN status ELSE @]

\* Mutant: no finally clause releases the budget.
TaskDoneBudgetKept(r) ==
  /\ finished' = [finished EXCEPT ![r] = TRUE]
  /\ task' = [task EXCEPT ![r] = "done"]
  /\ mustCancel' = [mustCancel EXCEPT ![r] = FALSE]
  /\ UNCHANGED <<originVars, alive, begun, registered, budget, up>>

\* The task is over; run_graph_async's finally clause clears the budget.
TaskDone(r) ==
  /\ finished' = [finished EXCEPT ![r] = TRUE]
  /\ task' = [task EXCEPT ![r] = "done"]
  /\ mustCancel' = [mustCancel EXCEPT ![r] = FALSE]
  /\ budget' = [budget EXCEPT ![r] = FALSE]
  /\ UNCHANGED <<originVars, alive, begun, registered, up>>

\* Settle the run, then write the turn back to its session if that is alive.
SettleAndArchive(r, status, event) ==
  \/ /\ sessionOf[r] \in alive
     /\ \E saved \in BOOLEAN : Settle(r, status, event, saved)
     /\ archived' = [archived EXCEPT ![r] = TRUE]
  \/ /\ sessionOf[r] \notin alive
     /\ \E saved, savedAgain \in BOOLEAN : SettleTwice(r, status, event, saved, savedAgain)
     /\ UNCHANGED archived

\* Mutant: a pending cancellation does not keep the graph from finishing.
GraphFinishesUncancelled(r) ==
  /\ backend[r] = "graph_send" /\ task[r] = "running" /\ budget[r]
  /\ \E status \in Verdicts : SettleAndArchive(r, status, "run_finished")
  /\ TaskDone(r)

\* The graph came to its end: _finalize_run.
GraphFinishes(r) ==
  /\ backend[r] = "graph_send" /\ task[r] = "running" /\ ~mustCancel[r] /\ budget[r]
  /\ \E status \in Verdicts : SettleAndArchive(r, status, "run_finished")
  /\ TaskDone(r)

\* Mutant: the deadline also fails a run that is already over.
GraphFailsLate(r) ==
  /\ backend[r] = "graph_send" /\ task[r] \in {"running", "done"} /\ ~mustCancel[r]
  /\ SettleAndArchive(r, "failed", "error")
  /\ TaskDone(r)

\* A node raised or the run's deadline passed: the graph's entry point
\* settles the run and returns normally, so the turn is archived.
GraphFails(r) ==
  /\ backend[r] = "graph_send" /\ task[r] = "running" /\ ~mustCancel[r]
  /\ SettleAndArchive(r, "failed", "error")
  /\ TaskDone(r)

\* _finalize_run raises before it has stored anything.
FinalizerFails(r) ==
  /\ backend[r] = "graph_send" /\ task[r] = "running" /\ ~mustCancel[r] /\ budget[r]
  /\ \E saved \in BOOLEAN : Settle(r, "failed", "error", saved)
  /\ TaskDone(r)
  /\ UNCHANGED archived

\* The graph's entry point catches the CancelledError and returns normally.
GraphCancelled(r) ==
  /\ backend[r] = "graph_send" /\ task[r] = "running" /\ mustCancel[r]
  /\ SettleAndArchive(r, "cancelled", "cancelled")
  /\ TaskDone(r)

\* The orchestrator catches its exceptions: a failed run also ends with
\* run_finished.
LoopFinishes(r) ==
  /\ backend[r] = "loop" /\ task[r] = "running" /\ ~mustCancel[r] /\ begun[r]
  /\ \E status \in {"completed", "failed"} : SettleAndArchive(r, status, "run_finished")
  /\ TaskDone(r)

\* Mutant: nobody handles the CancelledError of a loop run.
LoopCancelledUnhandled(r) ==
  /\ backend[r] = "loop" /\ task[r] = "running" /\ mustCancel[r]
  /\ task' = [task EXCEPT ![r] = "done"]
  /\ mustCancel' = [mustCancel EXCEPT ![r] = FALSE]
  /\ UNCHANGED <<originVars, alive, storeVars, streamVars, begun, registered, budget,
                 archived, up>>

\* The orchestrator lets a CancelledError pass; the background task's handler
\* settles the run and archives nothing.
LoopCancelled(r) ==
  /\ backend[r] = "loop" /\ task[r] = "running" /\ mustCancel[r]
  /\ \E saved \in BOOLEAN : Settle(r, "cancelled", "cancelled", saved)
  /\ TaskDone(r)
  /\ UNCHANGED archived

TaskEnds(r) ==
  \/ GraphFinishes(r)
  \/ GraphFails(r)
  \/ FinalizerFails(r)
  \/ GraphCancelled(r)
  \/ LoopFinishes(r)
  \/ LoopCancelled(r)

Next ==
  \/ \E r \in Runs :
       \/ \E b \in Backends : Post(r, b)
       \/ Begin(r)
       \/ RegisterBudget(r)
       \/ Cancel(r)
       \/ TaskEnds(r)
       \/ Unregister(r)
  \/ \E s \in Sessions : SessionEnds(s)
  \/ Restart
  \/ ~up /\ UNCHANGED vars

Spec == Init /\ [][Next]_vars

\* The loop runs a task that can go on and the callbacks of a finished one; a
\* graph ends at its deadline at the latest, and the orchestrator's fixed list
\* of tasks is finite.
Fairness ==
  \A r \in Runs : WF_vars(Begin(r)) /\ WF_vars(TaskEnds(r)) /\ WF_vars(Unregister(r))
FairSpec == Spec /\ Fairness

(***************************************************************************)
(* Properties                                                              *)
(***************************************************************************)

\* The ways the stream of a run can end: what EventStream assumes.
Endings == {<<"run_finished">>, <<"cancelled">>, <<"error">>,
            <<"run_finished", "error">>, <<"cancelled", "error">>, <<"error", "error">>}

TypeOK ==
  /\ backend \in [Runs -> Backends]
  /\ sessionOf \in [Runs -> Sessions]
  /\ alive \subseteq Sessions
  /\ mem \in [Runs -> Statuses]
  /\ warned \in [Runs -> BOOLEAN]
  /\ sql \in [Runs -> Terminal \union {"none"}]
  /\ ended \in [Runs -> Endings \union {<<>>}]
  /\ announced \in [Runs -> Verdicts \union {"none"}]
  /\ finished \in [Runs -> BOOLEAN]
  /\ task \in [Runs -> {"none", "running", "done", "lost"}]
  /\ mustCancel \in [Runs -> BOOLEAN]
  /\ begun \in [Runs -> BOOLEAN]
  /\ registered \in [Runs -> BOOLEAN]
  /\ budget \in [Runs -> BOOLEAN]
  /\ archived \in [Runs -> BOOLEAN]
  /\ up \in BOOLEAN

\* A stream that is marked as finished has been given a terminal event, and as
\* long as the process lives the record behind it shows a terminal status: a
\* client that stops waiting never reads "queued" or "running".
FinishedRunsSettled ==
  \A r \in Runs : finished[r] =>
    /\ ended[r] # <<>>
    /\ up => mem[r] \in Terminal

\* The run ended as cancelled: its stream says so, announces no verdict, and no
\* snapshot shows one other than the failure to archive the turn.
EndedCancelled(r) ==
  /\ ended[r] # <<>> /\ ended[r][1] = "cancelled"
  /\ announced[r] = "none"
  /\ sql[r] \in {"cancelled", "failed", "none"}

\* A cancel request accepted while the task runs decides the run: however close
\* to its end the run was, it ends as cancelled, and what is published and stored
\* later never turns it into a run with a verdict.
CancelPrevails ==
  [][\A r \in Runs : (mustCancel[r] /\ finished'[r]) \/ EndedCancelled(r) =>
       EndedCancelled(r)']_vars

\* When every save succeeded, the snapshot has the status that the stream
\* announced, whatever happened to the record in memory afterwards.
SnapshotAsAnnounced ==
  \A r \in Runs : announced[r] # "none" /\ ~warned[r] /\ up => sql[r] = announced[r]

\* No run leaves its tool budget behind, however it ends.
BudgetReleased == \A r \in Runs : budget[r] => task[r] = "running"

\* A posted run settles, whether it ends, fails, is cancelled or loses its
\* session on the way, unless its process dies.
RunsSettle == \A r \in Runs : task[r] = "running" ~> finished[r] \/ ~up
=============================================================================
