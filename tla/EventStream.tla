----------------------------- MODULE EventStream -----------------------------
(***************************************************************************)
(* The event stream of one run: the in-memory broker                       *)
(* (services/event_broker.py) and the generator that serves an SSE         *)
(* connection (api/routes.py, research_stream), with the browser's         *)
(* EventSource as the client (web/app.js, connectSSE).                     *)
(*                                                                         *)
(* The service is one asyncio loop: a step of this specification is the    *)
(* code between two suspension points.  The generator suspends at every    *)
(* yield and in queue.get(); the publisher never suspends while it pushes  *)
(* one batch of events.  An event's id is its position in the history, so  *)
(* a replay snapshot is an interval of ids, kept here as its upper bound.  *)
(***************************************************************************)
EXTENDS Naturals, Sequences, FiniteSets

CONSTANTS
  Clients,     \* clients of the stream
  QueueSize,   \* capacity of a subscriber queue (256 in the code)
  MaxEvents,   \* bound: the run stops producing progress before this many events
  MaxDrops     \* bound: how often the network breaks one client's connection

ASSUME StreamAssumption ==
  /\ QueueSize \in Nat \ {0}
  /\ MaxEvents \in Nat
  /\ MaxDrops \in Nat

VARIABLES
  events,      \* history of published event types, events[id]
  finished,    \* broker.finish_run was called
  subs,        \* clients whose queue is in the broker's subscriber list
  queue,       \* queue[c]: ids waiting in the queue of c's connection
  pc,          \* pc[c]: where the generator of c's connection is suspended
  finStart,    \* finStart[c]: is_finished_at_start, read when the request came
  snap,        \* snap[c]: last id of the replay snapshot
  subAt,       \* subAt[c]: length of the history when c subscribed
  pos,         \* pos[c]: id of the last event sent on this connection
  lastId,      \* lastId[c]: Last-Event-ID kept by the EventSource, 0 for none
  told,        \* clients that have settled: they know the run is over
  drops        \* drops[c]: how often c's connection broke

brokerVars == <<events, finished>>
connVars   == <<pc, finStart, snap, subAt, pos>>
clientVars == <<lastId, told, drops>>
vars == <<events, finished, subs, queue, connVars, clientVars>>

(***************************************************************************)
(* SSE names.  "trace_error" is an llm_failed trace event, which the       *)
(* runtime publishes under the name error; "error" is a terminal error     *)
(* with an error_type; "cancelled" is the one whose error_type is          *)
(* CancelledError; "progress" stands for every other event, the heartbeat  *)
(* that ends each batch included.                                          *)
(***************************************************************************)
EventTypes == {"run_started", "progress", "trace_error", "error", "cancelled", "run_finished"}
NamedError(e) == e \in {"trace_error", "error", "cancelled"}

\* What ends app.js's wait: run_finished, or an error whose error_type is not
\* CancelledError.
Settles(e) == e \in {"run_finished", "error"}

\* The events one chunk of the graph publishes: its trace, then a heartbeat.
Chunks == {<<"progress">>, <<"trace_error", "progress">>}

\* The events that end a run: completed; cancelled; failed; and each of them
\* followed by the error published when archiving the turn fails.
Endings == {<<"run_finished">>, <<"cancelled">>, <<"error">>,
            <<"run_finished", "error">>, <<"cancelled", "error">>, <<"error", "error">>}

PCs == {"idle", "opened", "replay", "replayAll", "live", "sent", "gone"}

Init ==
  /\ events = <<"run_started">>
  /\ finished = FALSE
  /\ subs = {}
  /\ queue = [c \in Clients |-> <<>>]
  /\ pc = [c \in Clients |-> "idle"]
  /\ finStart = [c \in Clients |-> FALSE]
  /\ snap = [c \in Clients |-> 0]
  /\ subAt = [c \in Clients |-> 0]
  /\ pos = [c \in Clients |-> 0]
  /\ lastId = [c \in Clients |-> 0]
  /\ told = {}
  /\ drops = [c \in Clients |-> 0]

(***************************************************************************)
(* The publisher                                                           *)
(***************************************************************************)
Smaller(a, b) == IF a < b THEN a ELSE b
Larger(a, b) == IF a < b THEN b ELSE a

\* Mutant: subscriber queues without a limit.
FittingAll(c, n) == n

\* Ids of the n events of a batch that still fit in the queue of c.
Fitting(c, n) == Smaller(n, QueueSize - Len(queue[c]))

\* Mutant: a subscriber stays subscribed when its queue is full.
PublishKeepingAll(batch) ==
  /\ events' = events \o batch
  /\ queue' = [c \in Clients |->
       IF c \in subs
       THEN queue[c] \o [i \in 1 .. Fitting(c, Len(batch)) |-> Len(events) + i]
       ELSE queue[c]]
  /\ subs' = subs

\* publish: append to the history, offer the event to every subscriber, and
\* drop a subscriber whose queue is full.
Publish(batch) ==
  LET n == Len(batch) IN
  /\ events' = events \o batch
  /\ queue' = [c \in Clients |->
       IF c \in subs
       THEN queue[c] \o [i \in 1 .. Fitting(c, n) |-> Len(events) + i]
       ELSE queue[c]]
  /\ subs' = {c \in subs : Fitting(c, n) = n}

PublishChunk(batch) ==
  /\ ~finished
  /\ Len(events) + Len(batch) <= MaxEvents
  /\ Publish(batch)
  /\ UNCHANGED <<finished, connVars, clientVars>>

\* The terminal events and finish_run happen in one step of the loop.
FinishRun(batch) ==
  /\ ~finished
  /\ Publish(batch)
  /\ finished' = TRUE
  /\ UNCHANGED <<connVars, clientVars>>

(***************************************************************************)
(* The generator of a connection                                           *)
(***************************************************************************)

\* Send event id on c's connection.
Deliver(c, id) ==
  /\ pos' = [pos EXCEPT ![c] = id]
  /\ lastId' = [lastId EXCEPT ![c] = id]
  /\ told' = IF Settles(events[id]) THEN told \union {c} ELSE told
  /\ UNCHANGED drops

\* Mutant: the generator ends without unsubscribing.
CloseSubscribed(c) ==
  /\ pc' = [pc EXCEPT ![c] = "idle"]
  /\ queue' = [queue EXCEPT ![c] = <<>>]
  /\ UNCHANGED subs

\* unsubscribe, and the generator ends.
Close(c) ==
  /\ pc' = [pc EXCEPT ![c] = "idle"]
  /\ subs' = subs \ {c}
  /\ queue' = [queue EXCEPT ![c] = <<>>]

\* The request: is_finished is read now, the generator starts later.  A run
\* that is over is replayed from its first event, a running one from
\* Last-Event-ID on.
Connect(c) ==
  /\ pc[c] = "idle"
  /\ c \notin told
  /\ pc' = [pc EXCEPT ![c] = "opened"]
  /\ finStart' = [finStart EXCEPT ![c] = finished]
  /\ pos' = [pos EXCEPT ![c] = IF finished THEN 0 ELSE lastId[c]]
  /\ UNCHANGED <<brokerVars, subs, queue, snap, subAt, clientVars>>

\* Mutant: the replay includes the event of Last-Event-ID itself.
StartReplayInclusive(c) ==
  /\ pc[c] = "opened"
  /\ pos[c] < Len(events)
  /\ snap' = [snap EXCEPT ![c] = Len(events)]
  /\ Deliver(c, Larger(pos[c], 1))
  /\ pc' = [pc EXCEPT ![c] = IF finStart[c] THEN "replayAll" ELSE "replay"]
  /\ UNCHANGED <<brokerVars, subs, queue, finStart, subAt>>

\* The generator starts: it takes the snapshot of what is to be replayed and
\* sends the first event of it.
StartReplay(c) ==
  /\ pc[c] = "opened"
  /\ pos[c] < Len(events)
  /\ snap' = [snap EXCEPT ![c] = Len(events)]
  /\ Deliver(c, pos[c] + 1)
  /\ pc' = [pc EXCEPT ![c] = IF finStart[c] THEN "replayAll" ELSE "replay"]
  /\ UNCHANGED <<brokerVars, subs, queue, finStart, subAt>>

EmitReplay(c) ==
  /\ pc[c] \in {"replay", "replayAll"}
  /\ pos[c] < snap[c]
  /\ Deliver(c, pos[c] + 1)
  /\ UNCHANGED <<brokerVars, subs, queue, pc, finStart, snap, subAt>>

\* Nothing is left to replay: subscribe.  With nothing to replay at all this
\* happens in the step that takes the snapshot.
Subscribe(c) ==
  /\ \/ pc[c] = "replay" /\ pos[c] = snap[c]
     \/ pc[c] = "opened" /\ ~finStart[c] /\ pos[c] = Len(events)
  /\ pc' = [pc EXCEPT ![c] = "live"]
  /\ subs' = subs \union {c}
  /\ queue' = [queue EXCEPT ![c] = <<>>]
  /\ subAt' = [subAt EXCEPT ![c] = Len(events)]
  /\ UNCHANGED <<brokerVars, finStart, snap, pos, clientVars>>

\* Mutant: a complete replay that does not end with run_finished just stops.
EndReplayAllSilently(c) ==
  /\ pc[c] = "replayAll"
  /\ pos[c] = snap[c]
  /\ Close(c)
  /\ UNCHANGED <<brokerVars, finStart, snap, subAt, pos, clientVars>>

\* The end of a complete replay; run_finished is made up if it is not last.
EndReplayAll(c) ==
  /\ pc[c] = "replayAll"
  /\ pos[c] = snap[c]
  /\ told' = IF events[snap[c]] = "run_finished" THEN told ELSE told \union {c}
  /\ Close(c)
  /\ UNCHANGED <<brokerVars, finStart, snap, subAt, pos, lastId, drops>>

Take(c) ==
  /\ pc[c] = "live"
  /\ queue[c] # <<>>
  /\ Deliver(c, Head(queue[c]))
  /\ queue' = [queue EXCEPT ![c] = Tail(@)]
  /\ pc' = [pc EXCEPT ![c] = "sent"]
  /\ UNCHANGED <<brokerVars, subs, finStart, snap, subAt>>

\* After the yield: run_finished ends the stream, an error ends it only if the
\* run is over by now.
EndsStream(c) ==
  \/ events[pos[c]] = "run_finished"
  \/ NamedError(events[pos[c]]) /\ finished

Resume(c) ==
  /\ pc[c] = "sent"
  /\ IF EndsStream(c)
     THEN Close(c)
     ELSE pc' = [pc EXCEPT ![c] = "live"] /\ UNCHANGED <<subs, queue>>
  /\ UNCHANGED <<brokerVars, finStart, snap, subAt, pos, clientVars>>

\* queue.get() timed out after the run's end.  Before it, a heartbeat without
\* id is sent and the wait starts again: no variable changes.
WaitTimeout(c) ==
  /\ pc[c] = "live"
  /\ queue[c] = <<>>
  /\ finished
  /\ Close(c)
  /\ UNCHANGED <<brokerVars, finStart, snap, subAt, pos, clientVars>>

(***************************************************************************)
(* The client                                                              *)
(***************************************************************************)

\* The client goes away: because it has settled, or because the network broke
\* the connection (the EventSource then connects again).
Leave(c) ==
  /\ pc[c] \notin {"idle", "gone"}
  /\ \/ c \in told /\ UNCHANGED drops
     \/ c \notin told /\ drops[c] < MaxDrops /\ drops' = [drops EXCEPT ![c] = @ + 1]
  /\ pc' = [pc EXCEPT ![c] = "gone"]
  /\ UNCHANGED <<brokerVars, subs, queue, finStart, snap, subAt, pos, lastId, told>>

\* The server notices; the generator's finally clause unsubscribes.
Cleanup(c) ==
  /\ pc[c] = "gone"
  /\ Close(c)
  /\ UNCHANGED <<brokerVars, finStart, snap, subAt, pos, clientVars>>

\* The steps that send a numbered event.
Sends(c) == StartReplay(c) \/ EmitReplay(c) \/ Take(c)

Attached(c) == pc[c] \notin {"idle", "gone"}

Serve(c) ==
  \/ StartReplay(c)
  \/ EmitReplay(c)
  \/ Subscribe(c)
  \/ EndReplayAll(c)
  \/ Take(c)
  \/ Resume(c)
  \/ WaitTimeout(c)
  \/ Cleanup(c)

Done == finished /\ \A c \in Clients : c \in told /\ pc[c] = "idle"

Next ==
  \/ \E batch \in Chunks : PublishChunk(batch)
  \/ \E batch \in Endings : FinishRun(batch)
  \/ \E c \in Clients : Connect(c) \/ Serve(c) \/ Leave(c)
  \/ Done /\ UNCHANGED vars

Spec == Init /\ [][Next]_vars

\* The event loop runs every generator that can go on, and an EventSource
\* reconnects by itself when its stream was closed.
Fairness == \A c \in Clients : WF_vars(Serve(c)) /\ WF_vars(Connect(c))
FairSpec == Spec /\ Fairness

(***************************************************************************)
(* Properties                                                              *)
(***************************************************************************)
TypeOK ==
  /\ events \in Seq(EventTypes)
  /\ finished \in BOOLEAN
  /\ subs \subseteq Clients
  /\ queue \in [Clients -> Seq(Nat)]
  /\ \A c \in Clients : Len(queue[c]) <= QueueSize
  /\ pc \in [Clients -> PCs]
  /\ finStart \in [Clients -> BOOLEAN]
  /\ snap \in [Clients -> Nat]
  /\ subAt \in [Clients -> Nat]
  /\ pos \in [Clients -> Nat]
  /\ lastId \in [Clients -> Nat]
  /\ told \subseteq Clients
  /\ drops \in [Clients -> 0 .. MaxDrops]

\* What a subscribed connection has still to send starts right after what it
\* has sent since it subscribed, without a hole, and reaches the newest event
\* as long as the broker has not dropped its queue: events are lost after the
\* subscription only as a tail, and only through a full queue.
NoLossAfterSubscribe ==
  \A c \in Clients : pc[c] \in {"live", "sent"} =>
    LET from == Larger(pos[c], subAt[c]) IN
    /\ \A i \in 1 .. Len(queue[c]) : queue[c][i] = from + i
    /\ c \in subs => from + Len(queue[c]) = Len(events)

\* A connection to a run that was going when it was opened never sends an
\* event that the client has already received, on it or on an earlier one.
NoRedeliveryWhileRunning ==
  [][\A c \in Clients : Sends(c) /\ ~finStart[c] => lastId'[c] > lastId[c]]_vars

\* Every subscription is given back after the end of the run, also that of a
\* client that vanished or whose queue was dropped.
SubscriptionsReleased == finished ~> subs = {}

Feed == INSTANCE EventFeed WITH
  length <- Len(events), over <- finished, cursor <- pos, told <- told,
  attached <- {c \in Clients : Attached(c)}

\* The stream implements the feed: forward-only delivery on a connection,
\* nobody is told of an end that did not happen, everybody is told eventually.
ImplementsFeed == Feed!FeedSpec

\* What the handler's docstring says of a run that is going: the existing
\* events are replayed and then the new ones follow, so none is skipped.
NoGapOnRunningStream ==
  [][\A c \in Clients : Sends(c) /\ ~finStart[c] => lastId'[c] = lastId[c] + 1]_vars
=============================================================================
