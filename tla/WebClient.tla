----------------------------- MODULE WebClient -----------------------------
(***************************************************************************)
(* The page (web/app.js): one view of one conversation, a form, at most one *)
(* event stream, and requests whose answers may come after the user has     *)
(* moved on.  The server appears as far as its answers matter; which session *)
(* they belong to is left out.                                              *)
(***************************************************************************)
EXTENDS Naturals, FiniteSets, FiniteSetsExt

CONSTANTS
  Runs,        \* runs, saved ones and those to come
  Saved,       \* runs that were saved earlier
  Research,    \* runs that write a report; the others list papers
  Found,       \* how many papers a run lists
  PageSize,    \* most papers that one page adds
  MaxList,     \* bound on the number of papers loaded into one list
  MaxNumber,   \* bound on the numbers after which another question is asked
  MaxFlight    \* bound on the requests under way when the user does something

ASSUME ClientAssumption ==
  /\ Saved \subseteq Runs /\ IsFiniteSet(Saved) /\ Research \subseteq Runs
  /\ Found \in [Runs -> Nat] /\ {PageSize, MaxList, MaxNumber, MaxFlight} \subseteq Nat

None == "none"

VARIABLES
  activeRun,   \* activeRunId
  stream,      \* activeEventSource
  streams,     \* the runs to which an EventSource is open
  submitting,  \* the form is blocked
  cancelOn,    \* the cancel button is enabled
  shown,       \* lastResultData
  start,       \* currentPaperOrdinalStart
  next,        \* nextPaperOrdinal
  list,        \* cards in the list of papers
  hasMore,     \* directHasMore
  paging,      \* directPageLoading
  archived,    \* the archived exchanges: the highest number of their papers
  flight,      \* requests under way
  state,       \* the server's runs
  \* history:
  left,        \* a saved conversation was opened while the form was blocked
  opening,     \* a saved conversation was opened and has not been shown yet
  restored,    \* the list shown was loaded with a saved conversation
  mixed        \* two conversations share the view

formVars == <<submitting, cancelOn>>
streamVars == <<stream, streams>>
listVars == <<start, next, list, hasMore, paging>>
viewVars == <<archived, shown, left, opening, restored, mixed>>
vars == <<activeRun, formVars, streamVars, listVars, state, viewVars, flight>>

\* How a run ends is told apart where the page does: not whether it failed.
Ended == {"done", "cancelled"}
Over == {r \in Runs : state[r] \in Ended}

Request(kind, run) == [kind |-> kind, run |-> run, late |-> FALSE]
\* The view is no longer the one that the requests were made in.
Aged == {[q EXCEPT !.late = q.kind \in {"result", "conversation"}] : q \in flight}

Init ==
  /\ activeRun = None /\ stream = None /\ streams = {}
  /\ submitting = FALSE /\ cancelOn = FALSE
  /\ shown = None /\ start = 0 /\ next = 0 /\ list = 0 /\ hasMore = FALSE /\ paging = FALSE
  /\ archived = 0 /\ flight = {}
  /\ state = [r \in Runs |-> IF r \in Saved THEN "done" ELSE "none"]
  /\ left = FALSE /\ opening = FALSE /\ restored = FALSE /\ mixed = FALSE

(***************************************************************************)
(* Parts of the handlers                                                   *)
(***************************************************************************)
Larger(a, b) == IF a < b THEN b ELSE a
Smaller(a, b) == IF a < b THEN a ELSE b

\* Mutant: the old stream is dropped without being closed.
ConnectKeeping(r) == stream' = r /\ streams' = streams \union {r}

\* Only one stream is open.
Connect(r) == stream' = r /\ streams' = (streams \ {stream}) \union {r}
Disconnect == stream' = None /\ streams' = streams \ {stream}

ResetForm == submitting' = FALSE /\ cancelOn' = FALSE /\ left' = FALSE

\* The list is emptied, and what was loading is forgotten, not its answer.
ResetRunView == Disconnect /\ list' = 0 /\ hasMore' = FALSE /\ paging' = FALSE

Listed(r) == IF r \in Research THEN 0 ELSE Found[r]

\* The answer shown moves into the thread with the numbers it has.
Archived ==
  IF shown = None THEN archived ELSE Larger(archived, start + Listed(shown))

\* The cards of a run's final list replace those that came by the stream; the
\* numbers go on from where the question found them.
RenderDirect(r, from, reached) ==
  IF r \in Research THEN next' = reached /\ UNCHANGED <<list, hasMore>>
  ELSE /\ list' = Found[r]
       /\ next' = Larger(reached, from + Found[r])
       /\ hasMore' \in {Found[r] > 0, FALSE}

\* A result is shown whatever the view is of by now.
ShowResults(r, q) ==
  /\ shown' = r
  /\ flight' = flight \ {q}
  /\ opening' = (opening /\ q.late)

(***************************************************************************)
(* What the user does                                                      *)
(***************************************************************************)
Free == Cardinality(flight) < MaxFlight

\* Mutant: the list goes on from the start of the last one.
SubmitRestarting ==
  /\ ~submitting /\ Free /\ next <= MaxNumber
  /\ submitting' = TRUE /\ cancelOn' = TRUE
  /\ archived' = Archived /\ shown' = None
  /\ ResetRunView
  /\ start' = start
  /\ flight' = Aged \union {Request("ensure", None)}
  /\ mixed' = (mixed \/ opening)
  /\ left' = FALSE /\ restored' = FALSE
  /\ UNCHANGED <<activeRun, next, state, opening>>

\* A question: the form is blocked, the last answer archived, and the numbers of
\* the new list follow on those of the conversation.
Submit ==
  /\ ~submitting /\ Free /\ next <= MaxNumber
  /\ submitting' = TRUE /\ cancelOn' = TRUE
  /\ archived' = Archived /\ shown' = None
  /\ ResetRunView
  /\ start' = next
  /\ flight' = Aged \union {Request("ensure", None)}
  /\ mixed' = (mixed \/ opening)
  /\ left' = FALSE /\ restored' = FALSE
  /\ UNCHANGED <<activeRun, next, state, opening>>

\* A vague question while the session counts no turn is answered by the page; the
\* count comes with answers about the session and may be an old one.
Clarify ==
  /\ ~submitting
  /\ ResetRunView /\ ResetForm
  /\ activeRun' = None
  /\ flight' = Aged
  /\ UNCHANGED <<start, next, state, archived, shown, opening, restored, mixed>>

Cancel ==
  /\ cancelOn /\ activeRun # None /\ Free
  /\ cancelOn' = FALSE
  /\ flight' = flight \union {Request("cancel", activeRun)}
  /\ UNCHANGED <<activeRun, submitting, streamVars, listVars, state, viewVars>>

LoadMore ==
  /\ activeRun # None /\ hasMore /\ ~paging /\ Free
  /\ paging' = TRUE
  /\ flight' = flight \union {Request("page", activeRun)}
  /\ UNCHANGED <<activeRun, formVars, streamVars, start, next, list, hasMore, state, viewVars>>

\* A saved run or conversation: the view is emptied and the stream closed, the
\* form stays as it is, and so does the answer to be archived.
PrepareHistory(r, request) ==
  /\ Free
  /\ next' = 0 /\ start' = 0
  /\ ResetRunView
  /\ archived' = 0
  /\ activeRun' = r
  /\ flight' = Aged \union {request}
  /\ left' = (left \/ submitting) /\ opening' = TRUE /\ restored' = TRUE
  /\ UNCHANGED <<formVars, state, shown, mixed>>

OpenHistory ==
  \E r \in Over : PrepareHistory(r, Request("conversation", r))

QueryRun ==
  \E r \in Runs : state[r] # "none" /\ PrepareHistory(r, Request("result", r))

\* A new conversation forgets everything but the requests under way.
StartNew ==
  /\ archived' = 0 /\ shown' = None /\ next' = 0 /\ start' = 0
  /\ ResetRunView /\ ResetForm
  /\ activeRun' = None
  /\ flight' = Aged
  /\ mixed' = FALSE /\ opening' = FALSE /\ restored' = FALSE
  /\ UNCHANGED state

User == Submit \/ Clarify \/ Cancel \/ LoadMore \/ OpenHistory \/ QueryRun \/ StartNew

(***************************************************************************)
(* What comes back                                                         *)
(***************************************************************************)
Fails(q, kind) == q.kind = kind /\ flight' = flight \ {q}

\* The session is there, was created, or was restored from its runs.
Ensured(q) ==
  /\ q.kind = "ensure"
  /\ flight' = (flight \ {q}) \union {[q EXCEPT !.kind = "post"]}
  /\ UNCHANGED <<activeRun, formVars, streamVars, listVars, state, viewVars>>

\* Starting failed on the way; the server may have begun the run all the same.
StartFails(q) ==
  /\ Fails(q, "ensure") \/ Fails(q, "post")
  /\ ResetForm
  /\ UNCHANGED <<activeRun, streamVars, listVars, state, archived, shown, opening, restored, mixed>>

Posted(q) ==
  /\ Fails(q, "post")
  /\ \E r \in Runs :
       /\ state[r] = "none"
       /\ state' = [state EXCEPT ![r] = "running"]
       /\ activeRun' = r
       /\ Connect(r)
  /\ UNCHANGED <<formVars, listVars, viewVars>>

ResultAnswered(q) ==
  /\ q.kind = "result"
  /\ ShowResults(q.run, q)
  /\ RenderDirect(q.run, start, next)
  /\ UNCHANGED <<activeRun, formVars, streamVars, start, paging, state, archived, left, restored, mixed>>

\* Cards are added to whatever list is shown by now.
PageAnswered(q) ==
  /\ q.kind = "page" /\ flight' = flight \ {q}
  /\ paging' = FALSE
  /\ \E n \in 0 .. PageSize :
       /\ list' = Smaller(list + n, Larger(list, MaxList))
       /\ next' = Larger(next, start + list')
  /\ hasMore' \in BOOLEAN
  /\ UNCHANGED <<activeRun, formVars, streamVars, start, state, viewVars>>

PageFails(q) ==
  /\ Fails(q, "page")
  /\ paging' = FALSE
  /\ UNCHANGED <<activeRun, formVars, streamVars, start, next, list, hasMore, state, viewVars>>

\* The answer to a cancel ends whatever is followed by now.
CancelAnswered(q) ==
  /\ Fails(q, "cancel")
  /\ state' = IF state[q.run] = "running" THEN [state EXCEPT ![q.run] = "cancelled"] ELSE state
  /\ Disconnect /\ ResetForm
  /\ activeRun' = None
  /\ UNCHANGED <<listVars, archived, shown, opening, restored, mixed>>

CancelFails(q) ==
  /\ Fails(q, "cancel")
  /\ cancelOn' = TRUE
  /\ UNCHANGED <<activeRun, submitting, streamVars, listVars, state, viewVars>>

ResultFails(q) ==
  /\ Fails(q, "result")
  /\ UNCHANGED <<activeRun, formVars, streamVars, listVars, state, viewVars>>

\* All turns but the last are archived, the last one is shown.
ConversationAnswered(q) ==
  /\ q.kind = "conversation"
  \* A search has the numbers from one, other lists follow on those before.
  /\ \E runs \in SUBSET Over : \E latest \in runs, searches \in SUBSET (runs \ Research) :
       LET before == runs \ {latest}
           offset == MapThenSumSet(Listed, before)
           at(r) == IF r \in searches THEN 0 ELSE offset
       IN /\ archived' = Larger(archived, offset)
          /\ start' = at(latest)
          /\ RenderDirect(latest, at(latest), Larger(offset, at(latest) + Listed(latest)))
          /\ activeRun' = latest
          /\ ShowResults(latest, q)
  /\ mixed' = (mixed \/ q.late)
  /\ UNCHANGED <<formVars, streamVars, paging, state, left, restored>>

\* At least the run that was asked for.
ConversationFails(q) ==
  /\ q.kind = "conversation"
  /\ flight' = (flight \ {q}) \union {[q EXCEPT !.kind = "result"]}
  /\ UNCHANGED <<activeRun, formVars, streamVars, listVars, state, viewVars>>

Starts == \E q \in flight : Ensured(q) \/ StartFails(q) \/ Posted(q)
Answers ==
  \E q \in flight :
    \/ ResultAnswered(q) \/ PageAnswered(q) \/ PageFails(q)
    \/ CancelAnswered(q) \/ CancelFails(q) \/ ConversationAnswered(q) \/ ConversationFails(q)
    \/ ResultFails(q)

\* A paper found by a tool is shown at once.
SourceFound ==
  /\ stream # None /\ stream \notin Research /\ state[stream] = "running"
  /\ list < Found[stream]
  /\ list' = list + 1
  /\ UNCHANGED <<activeRun, formVars, streamVars, start, next, hasMore, paging, state, viewVars, flight>>

\* Mutant: the form stays blocked until the result is there.
StreamEndsBlocked ==
  \E r \in streams :
    /\ state[r] = "done"
    /\ Disconnect
    /\ flight' = flight \union {[Request("result", r) EXCEPT !.late = (r # stream)]}
    /\ UNCHANGED <<activeRun, formVars, listVars, state, viewVars>>

\* The terminal event of a run that ended or failed: the result is fetched, and
\* the form is free before it is there.
StreamEnds ==
  \E r \in streams :
    /\ state[r] = "done"
    /\ Disconnect /\ ResetForm
    /\ flight' = flight \union {[Request("result", r) EXCEPT !.late = (r # stream)]}
    /\ UNCHANGED <<activeRun, listVars, state, archived, shown, opening, restored, mixed>>

RunEnds ==
  \E r \in Runs :
    /\ state[r] = "running"
    /\ state' = [state EXCEPT ![r] = "done"]
    /\ UNCHANGED <<activeRun, formVars, streamVars, listVars, viewVars, flight>>

\* Another page cancels the run: this one is sent an error that settles nothing.
CancelledElsewhere ==
  \E r \in Runs :
    /\ state[r] = "running"
    /\ state' = [state EXCEPT ![r] = "cancelled"]
    /\ UNCHANGED <<activeRun, formVars, streamVars, listVars, viewVars, flight>>

Next == User \/ Starts \/ Answers \/ SourceFound \/ StreamEnds \/ RunEnds \/ CancelledElsewhere

Spec == Init /\ [][Next]_vars
\* Requests are answered or fail, runs settle (RunLifecycle) and an EventSource
\* reconnects until it has been told (EventStream).
FairSpec == Spec /\ WF_vars(Starts) /\ WF_vars(StreamEnds) /\ WF_vars(RunEnds)

Kinds == {"ensure", "post", "result", "page", "cancel", "conversation"}
\* Types; and no EventSource is left open behind the active one, however late
\* the answer to a post comes.
TypeOK ==
  /\ activeRun \in Runs \union {None} /\ shown \in Runs \union {None}
  /\ stream \in Runs \union {None} /\ streams \subseteq Runs \intersect {stream}
  /\ {submitting, cancelOn, hasMore, paging, left, opening, restored, mixed} \subseteq BOOLEAN
  /\ {start, next, list, archived} \subseteq Nat
  /\ flight \subseteq [kind : Kinds, run : Runs \union {None}, late : BOOLEAN]
  /\ state \in [Runs -> {"none", "running"} \union Ended]

\* "Let a continued recommendation go on from the numbers of the last round": the
\* cards of a list come after all numbers that were archived above it, with pages,
\* results and failures coming late.  Saved lists have the server's numbers, and a
\* question asked into a conversation that has not been shown is exempt.
NumbersDistinct ==
  list > 0 => mixed \/ opening \/ restored \/ archived <= start

\* A question does not block the form for ever.  Two ways out are left to the
\* user: opening a saved conversation closes the stream and leaves the form as it
\* is, and a run that was cancelled elsewhere sends nothing that frees it.
FormReleased ==
  submitting ~> \/ ~submitting
                \/ left
                \/ stream # None /\ state[stream] = "cancelled"
=============================================================================
