# DeepScholar in TLA+

DeepScholar is a research assistant: a FastAPI service (`src/app`) takes a
question, a four-agent graph (controller, planner, workers, reviewer) searches
papers, reads them, extracts evidence, checks citations and writes a report,
and a browser client follows the run over server-sent events (SSE).  This
directory holds TLA+ models of the parts of that service whose correctness
depends on order, concurrency, failure and loops, the TLC configurations that
check them, and proofs of the theorems that hold for every instance.

Source paths below are relative to `src/app/`.

## 1. Inventory

Everything runs on one asyncio loop in one process: a piece of code between two
`await`s is atomic, and every suspension point is a place where other handlers,
runs and callbacks can interleave.  Nothing but the SQLite snapshots (and the
vector index) survives a restart.

| Component | State it keeps | Operations | Hard behaviour | What makes it correct |
|---|---|---|---|---|
| Event broker (`services/event_broker.py`) and SSE generator (`api/routes.py:488-571`) | per run: event history, finished flag, subscriber queues (256) | `init_run`, `publish`, `subscribe`, `unsubscribe`, `finish_run`; replay, live loop, heartbeat timeout | full queues, reconnection with `Last-Event-ID`, a run that ends while a client is being served | nothing lost but a tail, nothing repeated, every client learns of the end, every subscription is returned |
| Run lifecycle (`api/routes.py:348-481`, `services/run_store.py`, `storage/sqlite_run_repository.py`) | run records, task registry, first snapshot per run | post, background task, cancel, finish, snapshot, done callback | cancel close to the end, expired sessions, failing saves, restart | record, stream and snapshot agree; a cancel decides; runs settle |
| Runtime budgets (`observability/lifecycle.py`) | calls left and deadline per run | register, reserve, clear | concurrent workers, clear on every exit | no budget outlives its run; never overspent |
| Four-agent graph (`graph/runtime.py`) | the graph state: plan, results, papers, cards, checks, report, verdict, counters | about twenty nodes and edges, fan-out with Send | repair and replan loops, stages that fail in part, results of earlier rounds | the loops end; a passed report is made of current parts; degraded is not completed |
| Planner (`agents/planner.py`) | none of its own | plan, replan with degradation | affected subgraphs, invalid plans | a replan touches what it must only |
| Reviewer (`agents/reviewer.py`) | none of its own | hard gates in order, tightening by a semantic review | order of gates | same as the graph |
| Session store and archiving (`services/session_store.py`, `api/routes.py:113-292`) | per session: messages, turns, paper pool, batch numbering, active paper, TTL | prepare a turn, archive it, restore from history | turns that overlap, expiry, a summary call in the middle of the preparation | no finished turn is lost; the numbers a user sees point at the papers shown |
| Source selection (`agents/source_selector.py`, `graph/runtime.py:184-504`) | none of its own | deduplicate, filter, rank, choose by rule or model | named papers pass several filters | a paper the user named stays |
| Report text agents (`agents/report_outline.py`, `llm_reviewer.py`, `draft_reviewer.py`, `final_reviewer.py`, `evaluator.py`) | none of their own | outline, chapters, assembly, draft, deletion of fake citations | answers of a model that are repaired once, numbers given before and used after | a report cites what was verified, and says what it lacks |
| Orchestrator, loop backend (`services/orchestrator.py`) | the results of four tasks | the tasks in a row, one citation retry | retry over old results | the retry replaces what it redoes |
| Function-calling worker (`agents/llm_worker.py`), tool gate (`tools/base.py`) | tool loop, local budget | ask, call, time out, fall back | nine ways out, a budget at its limit | calls are paid for, refusals show, every item ends |
| LLM client (`llm/client.py`), providers of papers (`tools/*_provider.py`), paper details | attempts, time waited | request, retry, back off, fall back | failures and rate limits in any order | bounded tries and waiting, an answer is what it says |
| MCP client side (`mcp/`) | connections, adapters, routes | connect, register, call, shut down | a server that fails half way, names that clash | a shutdown gives everything back |
| Web client (`web/app.js`) | active run, stream, form, list and its numbers | ask, page, cancel, open a conversation | answers that come after the user moved on | one stream, distinct numbers, a form that is freed |
| Context compressor, user memory (`services/`) | the message list, memory files | four levels of compression, maintenance after a turn | a summary and a consolidation that wait for the model | no finished turn is lost |
| Retrieval (`retrieval/`) | chunks and vectors | index (a script), search | index update | numerical |
| Controller (`agents/controller.py`), reference resolution (`agents/reference_resolver.py`) | none of their own; the session as the turn copied it | resolve references, decide for an intent | numbers that shift, papers of an older copy, a model that answers anything | a number means the paper it was shown with |
| Catalogue views, harness | — | text, reads | — | not about order or state |

How they interact: the POST handler prepares the session turn, creates the run
record and the broker entry and starts the background task.  The task runs the
graph, which publishes to the broker chunk by chunk and registers the runtime
budget; at its end the run is settled in the record, the snapshot and the
stream, and the turn is written back to the session.  The SSE generator reads
the broker only.  The cancel handler touches the task registry and the record.
The graph calls the planner, the workers and the reviewer; the reviewer's
verdict sends it back to the planner (replan) or to a stage (repair).

## 2. Modules

| Module | Models | Kind |
|---|---|---|
| `EventFeed` | what a run's stream promises, without queues and replays | abstract |
| `EventStream` | broker, SSE generator, browser EventSource | detailed, implements `EventFeed` |
| `MCEventStream` | symmetry of the clients | TLC |
| `EventStreamProofs` | its invariants, no redelivery, refinement of `EventFeed`, proved | proofs |
| `RunLifecycle` | POST, background task, cancel, settle, snapshot, session end, restart | detailed |
| `RunProofs` | the invariants of `RunLifecycle`, the cancel property, and the invariants of `ReportStage`, proved | proofs |
| `BoundedReview` | at most one repair and one replan, then a final status | abstract |
| `ResearchGraph` | the nodes and edges of the four-agent graph | detailed, implements `BoundedReview` |
| `MCResearchGraph` | symmetry of search branches and chapters | TLC |
| `ResearchGraphProofs` | its invariants, replans, refinement of `BoundedReview`, proved | proofs |
| `Sessions` | turns of conversation sessions: preparing, what is asked for and about which paper, archiving, expiry, restart, restoring | detailed |
| `MCSessions` | symmetry of turns and papers | TLC |
| `SessionsProofs` | its types, numbering, transcripts and restoration, proved | proofs |
| `ToolLoop` | execution of a work item: function-calling loop, rule worker, tool gate, budget of the run | detailed |
| `MCToolLoop` | kinds of items | TLC |
| `ToolLoopProofs` | its invariants, proved | proofs |
| `BoundedCalls` | a call is tried a limited number of times and ends with one answer | abstract |
| `McpLink` | the manager of MCP servers: connecting, registering, shutdown | detailed |
| `ExternalCalls` | calls of the model, the providers, the paper details and, over `McpLink`, of MCP tools | detailed, implements `BoundedCalls` |
| `MCExternalCalls` | two servers whose tools clash | TLC |
| `ExternalCallsProofs` | invariants of the calls and of the manager, refinement of `BoundedCalls`, proved | proofs |
| `WebClient` | the page: form, stream, list, late answers | detailed |
| `MCWebClient` | runs | TLC |
| `WebClientProofs` | its invariants, proved | proofs |
| `LoopBackend` | the loop backend from the search to the final report | detailed |
| `MCLoopBackend` | what papers yield | TLC |
| `LoopBackendProofs` | its invariants, proved | proofs |
| `PaperPool` | deduplication, filters, ranking and selection of papers, as operators | functions |
| `ReportStage` | searches, cards, outline, chapters and report of a research run, over `PaperPool` | detailed |
| `MCReportStage` | papers, cards, requests and outlines | TLC |

### EventStream

State: `events`, `finished`, `subs` and `queue` are the broker's `_histories`,
`_finished` and `_subscribers`; `pc`, `finStart`, `snap`, `pos` are the local
state of the generator serving a client; `lastId` and `told` belong to the
browser.  An event's id is its position in the history, as in `publish`, so a
replay snapshot is an interval of ids.

Actions: a step is the code between two suspension points of the generator
(`yield` and `queue.get`).  `StartReplay`, `EmitReplay`, `Subscribe`, `Take`,
`Resume`, `WaitTimeout` and `EndReplayAll` are the generator;
`PublishChunk` and `FinishRun` the publisher, which never suspends inside a
batch; `Leave` and `Cleanup` a broken or closed connection and the generator's
`finally`; `Connect` a request, also the automatic one of an EventSource.
`Deliver` includes what app.js does with the event.

Kept: names of events as far as the generator or the client branches on them
(`trace_error` is an `llm_failed` trace, published under the name `error`).
Left out: payloads, and heartbeats without an id, which change no state.
`told` means that the client knows the end: `run_finished` or an `error` that
is not a cancellation.  `Endings` are the six ways a stream can end; that these
are all is part of `RunLifecycle!TypeOK`.

### RunLifecycle

State: `mem` and `warned` are the run record's status and warning, `sql` the
snapshot's status, `ended`, `announced` and `finished` the stream's end, `task`,
`mustCancel`, `registered` the asyncio task, `budget` the entry of the budget
registry, `archived` whether the turn was written to the session.

The graph or the orchestrator is one wait in the middle of the task.  From the
moment it is through, the background task does not suspend again, so settling
the record, the snapshot and the stream and archiving the turn are one step:
`GraphFinishes` (`_finalize_run`), `GraphFails` (exception or deadline inside
the entry point, which returns normally), `FinalizerFails`, `GraphCancelled`,
`LoopFinishes`, `LoopCancelled`.  When the session has ended, archiving raises
and the task's exception handler settles a second time (`SettleTwice`).

`Cancel` follows asyncio: `task.cancel()` only sets a flag, the CancelledError
arrives when the task runs next.  `Unregister` is the done callback, some time
after the task.  `Restart` loses everything but `sql`.

### ResearchGraph

State: the keys of the graph state that decide where a run goes, and papers,
evidence cards, citation checks and the report reduced to their provenance: the
round in which they were made and what they were made from.  `results` is
`worker_results`, `returned` the current round of the reducer's bucket.

Actions: a step is a superstep of the graph.  `Controller`, `Plan`, `Replan`,
`WorkerSend` (all workers that were sent together), one merge per stage,
`Outline`, `Review`, `BeginRepair`, `Finalize`; `StrictModeRaises` are the
places that raise instead of falling back when `agent_mode` is `llm`.  Every
action includes the conditional edge behind its node, because a node and its
edge run together; an edge that sends nothing ends the graph (`Send`).

Worker results are the statuses the workers of a profile can return, as far as
the merges, gates and edges tell them apart (`Outcomes`).  The reviewer's gates
are in the order of `ReviewerAgent.review` (`HardVerdict`), with the metrics as
one Boolean, and the semantic reviewer is what `_tighten_verdict` lets pass
(`Tightened`).

Left out: the deadline and cancellation (they end the run in between any two
steps; `RunLifecycle` has them), papers the user supplies with the question, the
LLM's candidate plan, which may only narrow the rule plan, and the legacy nodes
that `build_graph_with_send` does not register.

### Sessions

State: `sessions` holds the `SessionContext`s (transcript, paper pool, last batch
and its first number, the papers last mentioned, of which the first is the active
one); `turns` what the POST handler and the background task of a turn hold, which is
a copy of the session as it was when the turn was bound to it (`context`); `runs` the order of the run records, whose results are in
`turns`; `ended` and `listed` are histories: the order in which runs ended, and
the numbered list a session showed last.

A transcript is the set of turns that compression has summarised, snipped or
shortened, and the turns kept in full after them: enough to say whether a turn is
still in it and whether two transcripts are equal, which is what
`merge_conversation_turn` compares.  The first three levels of compression run
without suspending (`Prepare`); the fourth waits for a summary (`Summarise`,
`Summarised`), and the session is read again after it.

`Finish` is the end of a run with everything that `_update_session_after_run` does
to the session, in its order (`Archived`): first number of the batch, papers, active
paper, transcript.  `Drop` is a failed or cancelled run, which archives nothing
but whose record may have sources.  `Restart` keeps the snapshots only.
`Restore` replays the runs of a session in the order of their creation
(`Replayed`), which is other code than `Archived`.

What a run can come to (`Results`) is what the controller makes of a request, given
the copy of the session: the papers that the words refer to, by the rules or, where
these find nothing, by the model (`OrdinalTarget`, `RuleResolved`, `Resolved`), and
what is asked for, in the order in which `decide` tries it (`Decided`: a number that
no paper has, more papers or research on those of the session, a question about a
paper, and otherwise the classification, of whose intent and route nothing is
assumed).  A request is a reference and a kind of wording; which words these are is
left open.

Left out: report sections, the cut of the papers last mentioned at ten, requests that
refer to some but not all papers, the sources of a follow-up, the preview of recent
messages, counters of turns and
compressions, memory maintenance, saves that fail, and papers with different keys
at different providers (a paper is its key).

### ToolLoop

State: `item` is the work item of a worker, reduced to what its execution branches
on; `work` what `WorkerAgent.execute`, `LLMWorker` and `Worker` hold between two
suspensions: the calls of the model's answer that are still to be handled, the
counters, the calls made before, the item's local budget, the sources or cards that
were brought in (`gained`), and of the trace what decides the result: calls made,
calls that failed, a refused one, fallbacks and ends of retrieval.  `budget` is the
entry of the run in `observability/lifecycle.py`.  `refused` is a history of the
gate, kept beside the trace that the code reports from.

Actions: `Begin`, then `Ask` and the answers of the model (`ModelError`,
`ModelFinish`, `ModelCalls`), `HandleCall` up to a tool and `ToolAnswer` from it on,
`EndOfCalls`, `Limit` and `LoopTimeout`; `RuleCall` and `RuleAnswer` are the rule
worker, alone or after `FallBack`; `Conclude` makes the result.  `Reserve` and
`Refuse` are the gate of `BaseTool.run`.  `ItemTimeout`, `Expire`, `RunEnds` and
`Cancelled` end waits from outside.

The registry's validation appears as what it makes of a call (`Requests`): not
valid, or a tool with the arguments by which duplicates are known.

Left out: text synthesis (one call), the gate's other refusals in
`tools/base.py:164-170` (a tool that the item does not grant, and unsafe arguments),
the arguments of calls except whether two are the same, prompts and observations, and
clocks: every timeout may come whenever it is waited for.

### ExternalCalls and McpLink

One call is under way at a time, of any kind with any of its flags (a key is
configured, the paper is given by its id, built-in papers may stand in, ...): calls
share no state with each other, and the one thing they share with the rest, the
MCP tools, is in `McpLink`, whose actions interleave with them.  `step` is the
request the call is at, `phase` what it does, `tries`, `transient`, `limited` and
`waited` are the counters of the code; `sent` and `good` are histories.

A request is answered by every class of answer that its code tells apart.  The
three schemes of retrying are `Chat` (one counter, no waiting; tool arguments that
do not parse are asked for again, structured content is not), `S2RetryAfter` (two
counters over one budget of waiting, with a `Retry-After` in place of the backoff)
and `OaRetryAfter` (one counter, waits).  `GateTimeout` is the timeout of
`BaseTool.run` or of the worker, whenever the call waits.

`McpLink`: `Initialize`, `Open`, `Listed`, `ConnectFails` connect the servers
one by one; tools are registered in the order in which the server lists them until
a public name is taken, which fails the server.  With `config.tools` empty all tools
of a server are registered.  One content fetch stands for several in a row.

### WebClient

State: the variables of `app.js` that outlive a handler: the active run and stream,
the block of the form, the list with its first and next number, what is archived
above it, and the requests under way (`flight`), each aged when the view in which
it was made is left.  The last four variables are histories that the properties
exempt.  A handler is atomic up to its next `await`; what comes behind it is the
action for the answer, which may come in any order, late, or as a failure.  The
server is its runs, as far as an answer depends on them: the numbers that it may send
with a list (`recommendationRange`) are one and up for a search, and otherwise on from
the lists before, which are the lengths of those lists; other numbers it might send are
left out.

### LoopBackend

A step is a task of `Orchestrator.run` with everything it does to the results, and
`Analyze` goes on paper by paper.  Extraction yields passages (`Passages`): the verdict
that the citation check will reach, and the numbers that stand in brackets in the claim
and in the limitation, as papers write "[3] shows".  The draft quotes both as they are
(`Claimed`, `Limits`), and whoever reads markers reads these as well.  So a report is a set
of lines, and a line is the numbers in brackets of it, put there or quoted.
`FailedMetrics` are the metrics that the retry and the banners ask for.

The final review deletes by the numbers of failed cards (`WithoutFakes`) and then repairs
the numbers that are of no paper with a card (`Mismatched`, known if the run was
evaluated): a line that has one gets that of the paper whose claim is the closest to it,
whether its card passed or not, or goes if it shares no word with any (`Repaired`).  Which
claim is the closest is left open (`Reports`).  A line that quotes a claim shares its
words, so only those on limitations and the list of sources can go.

Left out of the draft: more than one theme, and numbers in brackets in a title or in the
topic.  Claims are taken to differ, and to have a Latin letter or digit
(`_deduplicate_cards` drops others).  Left out of the final review: the repair of
addresses, the merging of chapters that are alike, the tag "[citation needed]", and the
text of banners and of the summary of repairs, which lists replaced numbers.  The expansion
of thin reports is not reached (section 6).  `MAX_TOOL_CALLS` (20) is not reached by two
papers.

### PaperPool and ReportStage

`ResearchGraph` knows the papers and cards of a run by the round in which they were
made; `ReportStage` follows them through one pass.  `PaperPool` has what
`node_merge_search_results` does to the papers: `DedupSources` with its keys (DOI,
arXiv number, address, title), `FilterForTask`, `LocalGate`, `Rank`,
`RestoreSeeds`, and `Selections`: what the rules choose, or what a model may bring
about by answering well, badly, too much or not at all.  A paper is a record of its
keys and of what the filters see of it.  Filters, cuts and rankings of lists are
written by the positions that stay (`At`, `First`, `Distinct`) or by how many elements
come before one (`Nth`, `Rank`), and loops over lists as functions of the number of
steps (`MergedUpTo`, `PicksUpTo`, `CardsUpTo`): these forms can be reasoned about.

In `ReportStage` every answer of the model is any answer out of `Plans`, `Answers`
and the selections, and what the code does to it is `Normalize`, `Validate`,
`Preserves`, `NormalizeMarker`, `Problem`, `Cites`.  A chapter keeps two kinds of numbers
apart: `cites` are those that the program put in, in the place of markers of cards or
behind the cards of a chapter by rule; `bare` are those that were in brackets before.
The model may write these itself, which prompts forbid and nothing checks (any of `Bare`,
in any chapter of its own); and rules quote claims, results and limitations with the
numbers they have (`quotes` of a card, `RuleQuotes`).  The abstract takes both over.
A card whose claim has no Latin letter or digit (claim "") is dropped wherever claims
are compared, from the outline's cards (`Verified`) and from a prompt (`OfEachClaim`), so
that a prompt may show less than the chapter has (`Shown`).  Chapters are written in order
because writers share nothing and LangGraph returns the results of one fan-out in
the order of sending.  Rules that replace the model, and those that take over where
only the model may write, are told apart by `run.mode`.

Left out: repair and replan (`ResearchGraph`), wording, titles in two languages.

## 3. Runs

| Run | Instance | Shows |
|---|---|---|
| `EventStream` | 1 client, queue of 2, 5 events before the end, 2 drops | `TypeOK`; `NoLossAfterSubscribe`: after subscribing, what is lost is a tail, and only through a full queue; `NoRedeliveryWhileRunning`; `ImplementsFeed`: refinement of `EventFeed` with its liveness; `SubscriptionsReleased` |
| `EventStreamGap` | 1 client, 5 events | violation of `NoGapOnRunningStream` (section 6) |
| `RunLifecycle` | 2 runs, 1 session | `TypeOK`, `FinishedRunsSettled`, `SnapshotAsAnnounced`, `BudgetReleased`, `CancelPrevails`, `RunsSettle` |
| `ResearchGraphSafety` | 2 searches, 2 chapters, all classes and modes | `TypeOK`, `StepsBounded`, `PassedReportCurrent`, `DegradedNeverPasses`, `ReplanKeepsUnaffected` |
| `ResearchGraphLive` | 1 search, 2 chapters, all classes and modes | `ImplementsReview`: refinement of `BoundedReview` with its liveness |
| `ResearchGraphDegrade` | research | violation of `ReplanNeverRaises` |
| `Sessions` | 3 turns, 2 papers, an original and a restored session | `TypeOK`; `TurnsKept`: archiving a turn erases no other from the transcript, apart from the case of section 6; `NumbersReferToList`: a request that names a number is decided for the paper it was shown with, whatever its other words and the model's answer; `RestorableFromHistory`: the history rebuilds what archiving made, and the active paper is one the session knows |
| `ToolLoop` | 2 workers, 7 kinds of item, 3 calls for the run, 2 for an item | `TypeOK`; `CallsPaid`: each call in a trace was paid for, and no item overspends; `OutcomeHonest`: a refused call is never behind a success, a retrieval records its end once over all exits of the loop, an analysis covers what it must; `ItemsEnd` (liveness) |
| `ExternalCalls` | every kind of call, 2 MCP servers with clashing tools | `TypeOK`; `WaitWithinBudget`; `AnswersHonest`: a success rests on usable answers to all requests it needs, and built-in papers are marked; `ShutdownClean`: nothing stays registered or open; `ImplementsBounded`: refinement of `BoundedCalls` with its liveness |
| `WebClient` | 2 runs to come, 1 saved conversation, pages of 1 | `TypeOK`, with no stream left open behind the active one; `NumbersDistinct`: the cards of a list come after all numbers above it; `FormReleased` (liveness) |
| `LoopBackend` | 2 papers, 6 kinds of yield | `TypeOK`; `CitedVerified`: a marker left in the text is the number of a paper with a card that passed its own check; or such a card quotes a number, and the marker is that number, or, where mismatches are repaired, that of a listed paper with a card; `EmptySaysSo`: a report that lost all findings says so |
| `ReportStage` | 4 papers, 2 found and 2 named, 3 kinds of yield, 3 requests, 3 modes | `StageTypeOK`; `SeedsKept`: a named paper stays in the pool unless a record that clashes with it is merged over it; `CitesOwnEvidence`: the numbers that the program puts into a chapter are those of the references for the cards it was given, a card serves two chapters at most, any other number is the model's own or quoted of a card of the chapter, the abstract has no others, and the references trace those that the program put; `AbsencesShown`: a missing chapter is an issue and the report incomplete |

### Bounds, and why they are enough

* `QueueSize = 2` with batches of up to two events: a batch fits, fits in part,
  or does not fit, and the queue is full before, during or after a replay.
  `MaxEvents = 5` lets the history outgrow the queue after a subscription.
  `MaxEvents` stops progress only: the terminal events come on top.
* `MaxDrops = 2`: a reconnection from every state, and one more from those that a
  reconnection leads to.
* One client: clients share nothing but the history, and the queue of one is not
  touched by what another does.
* Two runs share nothing but the session; one session suffices for both to lose
  it.  Statuses are complete, except that `completed` stands for
  `completed_with_warnings` as well, which no code of this part tells apart.
* Two search branches (three in the code): all, some and none can fail, which is
  what `Aggregate`, the gates and `MergeSearch` tell apart.  Two chapters: all,
  some and none written.  `Requested = 1` makes the source selection able to
  drop a paper.  `ResearchGraphLive` has one branch because the fan-out's width
  does not influence the loop, and temporal checking over all modes is costly.
* Three turns: one that waits or runs, one archived before it was bound and one
  archived meanwhile, which is what merging transcripts tells apart; or two turns of a
  session and a follow-up in the restored one.  `MaxFound = 1`: a list is one
  paper, and lists of several turns make the pool and the numbers; a request names any
  number of these, and at most one too high.  Two sessions:
  restoring a restored one is left out (its history has no runs of the first).
* `ToolLoop`: two workers that need four calls of a run that has three, so each can
  be the one that is refused, at its first or second call, in the loop or in the
  fallback.  Two different calls and an invalid one, at most two in an answer: an
  answer is cut off, repeats a call, and mixes them.  `MaxIter = 3` and `MaxErrors
  = 2` leave room for errors that are forgiven; the code has 4 or more and 3.  An
  analysis needs two sources, one more than the completion gate asks for.
* `ExternalCalls`: the code's numbers of tries; waiting in units in which the budget
  (7) is more than any one kind of retry needs and less than both together.  Calls
  of `Kinds` are checked with a manager that has no servers and those of
  `KindsBeside` and of tools with two servers: calls of other kinds read nothing of
  the servers.  The tools of the two servers clash with each other and within one.
  Deadlock is not checked, because the application may be shut down for good.
* `WebClient`: a saved conversation and two questions, so that one answer is late to
  a second view and to a third; `MaxFlight = 2` requests under way when the user
  acts (answers may make them three); `MaxNumber = 2` and `MaxList = 1` let each
  list have one page.
* `LoopBackend`: two papers with up to two cards each, so that the numbers of papers
  and cards come apart; one passage quotes the number of the second paper, which may be
  listed or not, have a card or not, and be that of a failed card; another quotes one
  beyond the list and has a limitation that quotes as well.  The run ends, and deadlock
  is not checked.
* `ReportStage`: a paper and its preprint that merge by title, a record of the preprint
  without a title, which merges with the preprint and is another paper to the first, and
  one of the local library without text; `MaxNamed = 2` and `MaxFound = 2`, `Wanted = 2`, one less
  than the pool can have; `Breadth = 2` (12 in the code) and `MaxWish = 1`, one
  paper more than wanted; `MaxSections = 3` (8), one more than two dimensions ask
  for; `OutlineCards` and `ChapterCards` of 2, one less than there can be;
  `OutlineTries = 2` and one repair.  `Bare` is one number, that of the second paper, which
  one of the cards quotes too: the model's own number and the quoted one are looked up
  nowhere, so that one stands for any.
* Nothing bounds the review loop: that it ends is what `StepsBounded` and
  `ImplementsReview` say.

### Fairness

* `EventStream`: weak fairness of `Serve(c)`: the loop runs every generator that
  can go on, and `wait_for` has a timeout, so a waiting one can always go on
  once the run is over.  Weak fairness of `Connect(c)`: the EventSource
  reconnects by itself, and a client that was told closes it.  Nothing is assumed
  of the publisher: no property says that a run finishes.
* `RunLifecycle`: weak fairness of `Begin`, of the end of the task and of the
  done callback.  The graph is ended by its deadline (`asyncio.timeout` around the
  stream of chunks), the orchestrator has a finite list of tasks.  Nothing is
  assumed of cancellation, expiry and restart.
* `Sessions` states safety only and assumes no fairness.
* `ToolLoop`: weak fairness of `Work(w)`: the loop runs every worker that can go on,
  and each wait for the model or a tool ends, with an answer or by its timeout.
  Nothing is assumed of what is answered.
* `ExternalCalls`: weak fairness of `Progress`: the loop runs a call that can go on,
  every request has a timeout of its own, and a sleep ends.  Nothing is assumed of
  the answers, of the manager, or of callers.
* `WebClient`: weak fairness of `Starts` (requests that a question waits for are
  answered or fail), `StreamEnds` (an EventSource reconnects until it is told, which
  `EventStream` shows) and `RunEnds` (runs settle, which `RunLifecycle` shows).
  Nothing is assumed of the user or of other answers.
* `LoopBackend` and `ReportStage` state safety only.
* `ResearchGraph`: weak fairness of the whole `Work`: every node returns, at its
  own timeout at the latest, and the engine then runs the next.

## 4. Proofs

TLAPS proves the following for every value of the constants.  What the constants
must satisfy is assumed by name in the module that declares them and evaluated by
TLC in every run: limits are numbers, and positive where the code divides or counts
down from them; the sets that TLC enumerates are finite where the code has a list
(`Servers`, `Remote`, `Saved`, `Workers`, `Calls`).  `RunLifecycle` needs no
assumption.  `ReportStage` assumes of its papers that they are finitely many records of
the fields that the code reads, and of what comes of a paper that it is a sequence of
cards (`DataAssumption`); of its limits, that each is positive where the code needs it,
and that a chapter is shown two cards or more (`StageAssumption`, `PoolAssumption`).
Topics, plans and modes are left open.

None of the invariants below is inductive as it stands.  Each proof starts with the
inductive one, as a conjunction of named parts; that it holds initially and is kept
by every action is proved one action at a time; and the properties follow from it.

`RunProofs`, the run

* `TypeCorrect`: `Spec => []TypeOK`, also a theorem of every module below.
* `FinishedRunsAreSettled`, `SnapshotAgrees`, `BudgetsAreReleased`: the invariant
  adds what the steps rely on: a task that has not ended has published no end and
  saved no snapshot; one that is done has finished its stream; a flag to cancel
  exists for running tasks only; a record whose task is done is terminal.
* `CancelDecides`: `CancelPrevails`, an action property, from the invariant: a
  task that has the flag and finishes does so in `GraphCancelled` or
  `LoopCancelled`, and what happens to the record afterwards cannot touch its
  stream.

`RunProofs`, the stages of a report

* `StageTypeCorrect` (`StageTypeOK`), `AbsencesAreShown` (`AbsencesShown`), and the two
  below, from one inductive invariant (`StageIInv`).  To the properties it adds what
  the state holds at each stage (`StageData`: papers read and found are records, cards
  are those of the papers, and there is no card or chapter before its stage); and, while
  chapters are written (`WritesOwn`), that the outline binds verified cards
  (`BindsValid`), whether it is by rule (`RuleOutlineFacts`) or the model's
  (`ValidateFacts`), and that the chapters so far cite what they were given (`Traced`)
  and have other numbers only as the property says (`Explained`).
* `SeedsAreKept` (`SeedsKept`).  The argument is about places: deduplication keeps a
  record that clashes with no other, at one place, and no later than where it stood
  (`DedupKeeps`, by an invariant of the loop over the papers, `MergeInv`).  So the named
  papers, which come first, are still among the first after it, and are candidates behind
  filter, ranking and gate (`SeedsAreCandidates`); and as they are at most as many as
  `Room` has, the choice finds room for them (`SeedsHaveRoom`).  What rules or model choose
  beside them does not matter, except that they only choose what there is (`PoolIds`).
* `CitationsAreOwn` (`CitesOwnEvidence`), of the numbers that the program puts, and of
  where the others come from; it does not say that the model writes none itself, which is
  not so.  A marker that passes `Problem` names a card
  that was shown, so one of this chapter; its number is the place of a paper of that id
  in the references (`SourceNumberFacts`), so that there is a valid card to trace it by
  (`OwnFacts`).  That a card serves two chapters at most is counted: a rule gives it two
  dimensions (`PlacesFacts`) or one theme, and an outline of the model with a third use is
  refused (`FewUses`).

`EventStreamProofs`

* `NothingLostAfterSubscribing` (`NoLossAfterSubscribe`) and `NothingSentTwice`
  (`NoRedeliveryWhileRunning`, an action property).  The invariant (`ConnInv`) says
  where a generator is between history, snapshot and queue: while it replays it is
  inside its snapshot, which is the whole history if the run was over; once it is
  subscribed, the ids in its queue continue those it has sent without a gap, and
  reach the end of the history as long as the broker has not dropped it.  That a
  queue is a run of consecutive ids (`Continues`) is what both properties rest on.
* `StreamImplementsFeed`: `Spec => Feed!FeedSafety`: every step of broker, generator
  and browser is a step of the abstract feed or leaves it alone.  It needs that an
  event that settles a client is published only when the run ends (`EndsLast`).

`ResearchGraphProofs`

* `StepsAreBounded`: a run takes at most 36 supersteps.  The inductive invariant
  bounds, for each node and stage, the steps already taken plus the longest way
  to the next verdict, with an allowance for a repair and a replan not yet made;
  36 is reached, so the bound is tight.
* `DegradedIsNotCompleted`: a degraded plan is made by the one replan of a run,
  so `replans = 1` afterwards, its search results are not partial (or the plan
  would have been refused), and the gate for degraded plans is then reached
  before any verdict of pass.
* `PassedReportsAreCurrent` (`PassedReportCurrent`): the invariant follows the
  provenance of papers, cards and checks through every merge: what a stage has
  recorded as a success was made in this round from what the state holds, and the
  stages behind it are to be done again until they are sent again.  It needs the
  shape of the state (`Shape`: the plan belongs to the class, and the work in flight
  to the plan), without which an edge could send what the plan does not have.
* `ReplansKeepUnaffected` (`ReplanKeepsUnaffected`, an action property): the stages
  that a replan sends again are affected ones, up to the next verdict.
* `GraphImplementsReview`: `Spec => Bounded!ReviewSafety`: every step of the graph
  is a step of the bounded review loop or leaves its variables alone.

`ToolLoopProofs`

* `CallsArePaid` (`CallsPaid`): calls in the traces of all workers and calls left in
  the budget add up to what the run was given (`Paid`), whichever worker reserves
  first; for one item, the calls made and those that it may still make are within its
  limit through loop and fallback (`WithinItem`).
* `OutcomesAreHonest` (`OutcomeHonest`): a refusal has marked the trace until the item
  ends without a result (`RefusalMarked`); the end of a retrieval is recorded before
  its results are looked at (`EndRecorded`); what an analysis returned without a
  fallback covers what it must (`ModelCovers`).

`LoopBackendProofs`

* `CitationsAreVerified` (`CitedVerified`): the check at a place in the list is that
  of the card at this place, in both rounds (`Checked`), and the cards that are kept
  are of one round and distinct (`Analysed`), so that the draft's numbers are those of
  verified cards or quoted of them (`DraftRefs`).  Deletion only takes numbers away
  (`FakesGone`), and repair puts the number of a listed paper with a card only into lines
  with a number that no card of a listed paper explains, which a verified card must then
  quote (`WhatMismatches`, `RepairedLines`).
* `EmptyReportsSaySo` (`EmptySaysSo`): a draft without findings has its warning, and
  a draft that loses them in the final review has a banner or a listed issue.

`WebClientProofs`

* `NumbersAreDistinct` (`NumbersDistinct`): the numbers still to be given come after
  those given, unless two conversations share the view (`Numbered`), whatever
  requests are in flight; two answers that open a conversation do not both count
  (`Opened`).

`ExternalCallsProofs`

* `WaitsWithinBudget`, `AnswersAreHonest`: the invariant says which requests a call is
  made of and what has been brought before each (`OnTheWay`), and that the two
  counters of retries add up to the tries (`Counted`).
* `ShutdownIsClean` (`ShutdownClean`): while the manager is up, the registry has the
  tools of the adapters, of failed servers as well (`Tables`); an open connection is one
  that a shutdown closes, or is being opened by the start (`Transports`).
* `CallsAreBounded`: `Spec => Bounded!CallSafety`: the safety part of the refinement.
  The most that the requests before the present one may have sent (`Before`) bounds
  a call of several requests.

`SessionsProofs`

* `NumbersAlwaysReferToList` (`NumbersReferToList`): as long as a list was undisturbed,
  it is the last batch of its session, under the number it was shown with
  (`BatchIsList`).  That archiving brings this about rests on what `Without` leaves of
  the sources of a run (`WithoutFacts`): all of them, if none is known, in their order.
  A number then finds its paper, and no branch of the decision changes that.
* `TurnsAlwaysKept` (`TurnsKept`, an action property): the transcript that archiving
  starts from is the session's own, or the turn's if that was made from the same.
* `HistoryRebuilds` (`RestorableFromHistory`): both what archiving makes of a session and
  what a replay makes of its runs are compared with a third thing, the papers that a
  sequence of runs brings (`Pool`, proof only).  The invariant (`History`) says that the
  papers of a new session that is alive are the pool of its ended turns, in the order in
  which they ended (`SessionSound`); that the transcript copies that turns hold, and may
  write back, cover ended turns only; and that what a turn's request is about is among
  the papers of its session (`TurnSound`), because whatever rules and model decide names
  papers of the copy the turn is bound to (`ResultsAbout`).  `RestoredHistory` says that a
  replay makes the pool of the runs in the order of their creation.  Runs without sources
  drop out of a pool (`PoolWithout`), so that the two are equal when no run overtook
  another, and equal as sets otherwise.
* `TypeCorrect`: a session lists no paper twice, although turns append what they decided
  on older copies, and although a restored session is the result of a replay of any
  length (`RestoredType`).

Recursion: `titledUpTo` of `LoopBackend`, `WithoutUpTo` and `RestoredUpTo` of `Sessions`,
`PoolUpTo` of `SessionsProofs`, `MergedUpTo`, `PicksUpTo` and `CardsUpTo` of the report's
stages, and the sums over sets in `WebClient`, are functions defined by recursion.  That such a definition has a solution, and what the
solution does, is proved by the least counterexample (`Least`, `UpTo`, from the library's
well-foundedness of the naturals), because the induction theorems with an operator
for a parameter cannot be used by the installed provers.

Only model-checked:

* liveness: `RunsSettle`, `SubscriptionsReleased`, `ItemsEnd`, `FormReleased`, and the
  fair parts of the three refinements (liveness under fairness is beyond the prover);
* what the cards in a prompt for an outline are (`PromptCards`, with `SelectSeq` and
  folds, which the prover cannot expand) and what a draft made of them is (`Normalize`):
  no theorem needs more of a draft than its shape and that `Validate` passes it.

## 5. What `StepsBounded` says of the engine's limit

`_run_graph_async_impl` passes no `recursion_limit` to LangGraph
(`graph/runtime.py:4064-4075`), and `requirements.txt` allows any release from
1.0.0 to 2.  A run with a replan from the first stage takes 27 supersteps and one
with a repair as well up to 36; whether the engine's default suffices depends on
the release that is installed.  The model has no engine limit.

## 6. Disagreements between the code and what it says

Two are runs that TLC must find violated, listed as findings with the line.

* `EventStreamGap`: events published while the replay is being sent are neither
  in its snapshot nor in the queue, because the subscription comes after it.
* `ResearchGraphDegrade`: the degraded plan is refused when a search branch failed
  along with the evidence stage, because `write` depends on an affected `read`.

The others are visible in the models, as an exemption in a property or as what an
action does.

Runs and their graph:

* A run that fails while its turn is archived is failed in memory and on the stream;
  its snapshot keeps the first status (`SettleTwice`).
* A cancel request between the end of a task and its done callback turns a completed
  record into a cancelled one (`Cancel` needs `registered` only).
* When all readers fail, the merge overwrites the papers with none, and the replan of
  the reading stage has nothing to send.
* A contextual run whose answer failed is replanned to the root `answer`, which the
  edge behind the planner cannot send, so that it raises.
* A semantic repair that names a search or reading task and no failed task becomes a
  replan of no task, which ends the run (`Tightened`, `SendRoots`).
* A replanned search without new papers keeps the old report although `MergeSearch`
  has selected the papers again (`PassedReportCurrent` therefore says `\subseteq`).

Sessions:

* A turn whose transcript waits for its summary is bound, after the wait, to the
  session as it is then: a turn archived meanwhile is in the baseline, not in the
  summary, and is erased when the waiting one is archived, although
  `services/session_store.py:180` means to keep it (the exemption of `TurnsKept`).
* A recommendation in a session that has papers is shown from one and archived as
  numbered on from them, although the comment at `api/routes.py:217` says that it is
  numbered from one, and a list that repeats known papers shifts its batch
  (`Undisturbed`).
* The clarification that `agents/controller.py:95` promises for a number that no paper
  has becomes the answer only in `node_conversation` (`graph/runtime.py:988-990`), which
  the graph does not register; the conversation worker answers in its place
  (`Clarification` is a conversation about no paper).

Workers and the loop backend:

* A loop that used up `max_tool_calls` falls back to a rule worker that shares the
  item's budget, so that its first call is refused and the item fails, although
  `agents/llm_worker.py:18` promises the rule worker (`FallBack`, `Refuse`).
* The check that an analysis called any tool counts trace entries, of which there is
  always one (`Complete`).
* Citation ids number the evidence cards (`agents/worker.py:318-322`), markers `[n]`
  the papers; `FinalReviewer` deletes the markers of paper `k` when the check of card
  `k` failed (`agents/final_reviewer.py:680-748`), so that verified findings lose
  theirs, although line 14 of it says that only fake citations go (`WithoutFakes`).
* A number in brackets that a quoted claim or limitation has is taken for a marker of this
  report: it is deleted as a fake, or "repaired" to the paper with the closest claim, and
  `_repair_citation_mismatches` (`agents/final_reviewer.py:386-427`) looks for that among
  all cards, those that failed their check included (`Repaired`).
* `answer_not_empty` never fails for drafts by rule, so that the expansion of thin
  reports is not reached; `repair_payload` (`agents/worker.py:965`) is never set; an
  empty citation summary counts as one without fakes; the warnings of a retry are not
  collected; a task that failed stays failed in the trace after a retry that succeeds.

Outside services:

* A server that fails because a public name is taken is closed and not listed, while
  the tools it had registered by then stay in the registry and the routes
  (`ShutdownClean` holds at the end, `Reaches` in between).
* The LLM client does not retry a 429; it asks again for tool arguments that do not
  parse, although its comment speaks of timeouts and server errors only.
* A 200 of another shape raises out of the Semantic Scholar provider, although
  `tools/semantic_scholar_provider.py:26` says it never does.  Its budget of waiting
  (45 s) exceeds the timeout of the gate in front of it (30 s).

The page:

* A result that arrives after the next question is shown in the view of that question
  and is never archived; `run_finished` frees the form before the result is fetched,
  so that the next question's numbers may not come after its papers.
* A late answer to a cancel closes whatever stream is active.  Opening a saved
  conversation closes the stream and leaves the form blocked; a run cancelled
  elsewhere sends an error that the page does not settle (the two exemptions of
  `FormReleased`), although `web/app.js:1867-1869` says that terminal errors settle.
* Two conversations opened quickly mix; a late refresh of the session may put the
  first question of a new conversation into the old one.
* The page numbers papers on through a conversation; the server numbers searches from
  one (`api/routes.py:216-218`).

The report:

* A Chinese outline scores cards for metrics and results as for the scope
  (`FacetKey`).  The model's sections never name sources.
* With only the model allowed, a chapter on methods, datasets or limitations that has
  one paper cannot pass the gate of two (`TwoPapers`).  Chapters that rules wrote
  count as successes, so that the report has no warning of them.
* A number in brackets that the model writes into a chapter by itself stays, is not
  checked, and reads like a reference of the report, although
  `agents/llm_reviewer.py:18` says that the program alone assigns citation ids
  (`Answers`, `Bare`; `CitesOwnEvidence` therefore tells such numbers apart).  Numbers in
  quoted claims of chapters by rule read so as well (`RuleQuotes`).
* The sentence of a placeholder may get into the abstract (`Assembled`).
* Named and chosen papers may exceed `max_sources` in a comprehensive request; a named
  paper that a better duplicate replaced is no longer known as named, although
  `graph/runtime.py:502` means to keep it (an exemption of `SeedsKept`).  Two records
  that one deduplication leaves apart may be merged by the next, which sees them in
  another order or without a third that kept them apart: `RestoreSeeds` deduplicates
  again, and a named paper may then be replaced by one of its title (the other exemption
  of `SeedsKept`, `Clash`).  Two papers
  with one address stay apart when only one has a DOI, although the docstring at
  `graph/runtime.py:236-237` merges them; `DedupSources` is not idempotent.

## 7. Plan

1. Done: the event stream, the run lifecycle, the four-agent graph, sessions, the
   tool loop, the calls to outside services, the page, the loop backend, and the
   stages of a report.
2. Done: proofs of every invariant and action property that a run checks, and of the
   safety part of every refinement.  Liveness stays with TLC.
3. Compositions: a client whose server was restarted (`RunLifecycle` with
   `EventStream`), and the numbers of the page with those of the session.
4. The conversation worker (`agents/conversation.py`, `agents/context_loader.py`): loading
   the papers that a decision of `Sessions` names, and answers that cite loaded ones only.
5. User memory (`services/user_memory.py`).  It is files without a lock, maintained
   after a turn by tasks that may overlap, and two things in it wait for a model: a
   consolidation that was read before another task stored a memory, and that deletes
   every file it does not know; and one whose new entry has a type that `write`
   refuses, after the old files are gone.

Not modelled, and not planned: wording, numerical ranking and
the index of local papers (built by a script), external services, rendering,
configuration, catalogue views, and the developers' harness.  `PROJECT.json` lists
them with reasons.
