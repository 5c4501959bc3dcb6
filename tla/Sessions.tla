------------------------------- MODULE Sessions -------------------------------
(***************************************************************************)
(* Conversation sessions over their turns: preparing a turn and archiving  *)
(* its run (api/routes.py, _prepare_session_turn and                       *)
(* _update_session_after_run), the store's operations                      *)
(* (services/session_store.py), the compression of the transcript as far   *)
(* as it decides what a turn writes back (services/context_compressor.py), *)
(* restoring a session from the run history (services/run_store.py), and   *)
(* what a request refers to and asks for, as far as the session decides it *)
(* (agents/reference_resolver.py, agents/controller.py).                   *)
(*                                                                         *)
(* A handler is atomic between two awaits.  A turn suspends while its      *)
(* summary is written, while memories are selected and while its run goes  *)
(* on; other turns of the same session are prepared and archived           *)
(* meanwhile.  Preparing works on a copy of the session.                   *)
(***************************************************************************)
EXTENDS Naturals, SequencesExt

CONSTANTS
  Turns,        \* POST requests, each with its run
  Papers,       \* papers, by their key
  MaxSessions,  \* bound: sessions that are opened or restored
  MaxFound      \* bound: papers a run returns

ASSUME SessionsAssumption ==
  /\ MaxSessions \in Nat \ {0}
  /\ MaxFound \in Nat
  /\ "none" \notin Turns \union Papers

VARIABLES
  sessions,  \* every session opened so far; its number is its id
  turns,     \* turns[t]: what the handler and the background task of t hold
  runs,      \* the runs in the order in which they were created
  ended,     \* the turns whose run ended with a result, in that order
  listed     \* listed[s]: the last numbered list shown in session s

vars == <<sessions, turns, runs, ended, listed>>

(***************************************************************************)
(* Data.  A transcript is what compression made of older turns (a summary, *)
(* snipped or shortened messages), then turns kept in full.                *)
(***************************************************************************)
Transcripts == [compacted : SUBSET Turns, full : Seq(Turns)]
Covered(m) == m.compacted \union ToSet(m.full)
Compacted(m) == [compacted |-> Covered(m), full |-> <<>>]
With(m, t) == [m EXCEPT !.full = Append(@, t)]
NoMessages == [compacted |-> {}, full |-> <<>>]

\* recommend: paper_recommendation.  search: literature_search and
\* paper_graph_lookup.  research: deep_research and research_from_session, and
\* the default of a run that failed early.  follow_up: every other intent.
Intents == {"recommend", "recommend_more", "search", "research", "follow_up"}
Recommending == {"recommend", "recommend_more"}
Listing == Recommending \union {"search"}

NoResult == [intent |-> "research", sources |-> <<>>, resolved |-> <<>>]

\* The elements of a sequence that are not in S, in their order.
WithoutUpTo(q, S) ==
  LET upTo[n \in 0 .. Len(q)] ==
        IF n = 0 THEN <<>>
        ELSE IF q[n] \in S THEN upTo[n - 1] ELSE Append(upTo[n - 1], q[n])
  IN upTo
Without(q, S) == WithoutUpTo(q, S)[Len(q)]

\* SessionContext: alive is FALSE once the session was deleted or has expired;
\* from is the session it was restored from, 0 for a new one.  mentioned lists the
\* papers that were active, the last one first; it is cut at ten in the code.
NoPapers == [papers |-> <<>>, batch |-> <<>>, start |-> 1, mentioned |-> <<>>]
Fresh(from) ==
  [alive |-> TRUE, from |-> from, messages |-> NoMessages,
   papers |-> <<>>, batch |-> <<>>, start |-> 1, mentioned |-> <<>>]

Idle == [phase |-> "idle", session |-> 0, base |-> NoMessages, prepared |-> NoMessages,
         context |-> NoPapers, result |-> NoResult]
NoList == [first |-> 1, papers |-> <<>>]

Init ==
  /\ sessions = <<>>
  /\ turns = [t \in Turns |-> Idle]
  /\ runs = <<>>
  /\ ended = <<>>
  /\ listed = <<>>

Alive(s) == sessions[s].alive

Open(context) ==
  /\ Len(sessions) < MaxSessions
  /\ sessions' = Append(sessions, context)
  /\ listed' = Append(listed, NoList)

(***************************************************************************)
(* Preparing a turn                                                        *)
(***************************************************************************)

\* POST /api/sessions, or a POST of a run without a session.
Create == Open(Fresh(0)) /\ UNCHANGED <<turns, runs, ended>>

\* The papers of the session, as the turn copies them.
PapersOf(c) ==
  [papers |-> c.papers, batch |-> c.batch, start |-> c.start, mentioned |-> c.mentioned]

\* The turn goes on with the session as it is now, under the given transcript.
Bind(t, s, prepared) ==
  turns' = [turns EXCEPT ![t] =
    [@ EXCEPT !.phase = "bound", !.session = s, !.base = sessions[s].messages,
              !.prepared = prepared, !.context = PapersOf(sessions[s])]]

\* The turn is over, and what its handler and task held is gone.
Over(t, phase, r) ==
  turns' = [turns EXCEPT ![t] =
    [Idle EXCEPT !.phase = phase, !.session = turns[t].session, !.result = r]]

\* The transcript is copied and compressed without suspending, or not at all.
Prepare(t, s) ==
  /\ turns[t].phase = "idle"
  /\ Alive(s)
  /\ \E prepared \in {sessions[s].messages, Compacted(sessions[s].messages)} :
       Bind(t, s, prepared)
  /\ UNCHANGED <<sessions, runs, ended, listed>>

\* The fourth level of compression, for a conversation that has gone on for some
\* turns, waits for the model's summary.
Summarise(t, s) ==
  /\ turns[t].phase = "idle"
  /\ Alive(s)
  /\ Covered(sessions[s].messages) # {}
  /\ turns' = [turns EXCEPT ![t] =
       [@ EXCEPT !.phase = "summarising", !.session = s,
                 !.prepared = Compacted(sessions[s].messages)]]
  /\ UNCHANGED <<sessions, runs, ended, listed>>

\* The summary is there: the session is updated and read again.  If it has ended
\* meanwhile the request fails.
Summarised(t) ==
  /\ turns[t].phase = "summarising"
  /\ IF Alive(turns[t].session)
     THEN Bind(t, turns[t].session, turns[t].prepared)
     ELSE Over(t, "refused", NoResult)
  /\ UNCHANGED <<sessions, runs, ended, listed>>

\* Memories have been selected: the run record is created and the task started.
Start(t) ==
  /\ turns[t].phase = "bound"
  /\ turns' = [turns EXCEPT ![t].phase = "running"]
  /\ runs' = Append(runs, t)
  /\ UNCHANGED <<sessions, ended, listed>>

(***************************************************************************)
(* What a turn asks for.  The controller decides on the copy of the session *)
(* that the turn is bound to.  Bounds: a request refers to one paper, or to *)
(* all of them, and by a number that is one too high at most.              *)
(***************************************************************************)
Active(c) == IF c.mentioned = <<>> THEN <<>> ELSE <<Head(c.mentioned)>>

\* _ordinal_target: the paper a number refers to, the last batch first.
OrdinalTarget(c, n) ==
  IF n \in c.start .. c.start + Len(c.batch) - 1 THEN c.batch[n - c.start + 1]
  ELSE IF n \in DOMAIN c.papers THEN c.papers[n]
  ELSE "none"

\* The words that refer to a paper: a number, an id or a title, "the former",
\* "the latter", "this paper", or none that a rule knows.
References(c) ==
  [kind : {"number"}, n : 1 .. c.start + Len(c.batch) + Len(c.papers)]
    \union [kind : {"paper"}, paper : ToSet(c.papers)]
    \union [kind : {"former", "latter", "this", "other"}]

\* _rule_resolve: the papers that the rules take the words for.
RuleResolved(c, ref) ==
  CASE ref.kind = "number" -> IF OrdinalTarget(c, ref.n) = "none" THEN <<>>
                              ELSE <<OrdinalTarget(c, ref.n)>>
    [] ref.kind = "paper" -> <<ref.paper>>
    [] ref.kind = "former" /\ c.mentioned # <<>> -> <<Last(c.mentioned)>>
    [] ref.kind \in {"latter", "this"} -> Active(c)
    [] OTHER -> <<>>

\* A number that no paper has is not looked for any further.
MissingOrdinal(c, ref) == ref.kind = "number" /\ RuleResolved(c, ref) = <<>>

\* The papers that the model is shown, and of whose ids it may give back any.
Known(c) == ToSet(c.papers) \union ToSet(c.mentioned)

\* resolve: where the rules find nothing the model is asked, if it may be.
Resolved(c, ref) ==
  IF RuleResolved(c, ref) # <<>> \/ MissingOrdinal(c, ref) THEN {RuleResolved(c, ref)}
  ELSE {<<>>} \union {<<p>> : p \in Known(c)}

Routes == {"direct", "research", "conversation"}
Decision(intent, route, resolved) ==
  [intent |-> intent, route |-> route, resolved |-> resolved]

\* The words that ask for something: more papers, research on those of the
\* session, something about a paper, or other words, which may ask for anything.
Wordings == {"more", "from these", "about it", "other"}

\* _continuation_decide, for a session that has papers.
Continuation(c, ids, wording) ==
  CASE wording = "more" -> {Decision("recommend_more", "direct", <<>>)}
    [] wording = "from these" ->
         {Decision("research", "research", IF ids = <<>> THEN c.papers ELSE ids)}
    [] OTHER -> {}

\* _conversation_decide: a question about the papers referred to, or else about
\* the active one.
FollowUp(c, ids, wording) ==
  Decision("follow_up", "conversation",
           IF ids = <<>> /\ wording = "about it" THEN Active(c) ELSE ids)

\* _rule_decide, or the model's classification, whose intent and route need not
\* fit each other: no reference.
Classified == [intent : Intents, route : Routes, resolved : {<<>>}]

\* _missing_reference_decide
Clarification == Decision("follow_up", "conversation", <<>>)

\* decide: what becomes of a request.  Words that no rule for follow-ups knows, in
\* a request that resolves to no paper, leave it to the classification.
Decided(c, ref, wording) ==
  IF MissingOrdinal(c, ref) THEN {Clarification}
  ELSE UNION {
    IF c.papers # <<>> /\ wording \in {"more", "from these"}
    THEN Continuation(c, ids, wording)
    ELSE {FollowUp(c, ids, wording)} \union (IF ids = <<>> THEN Classified ELSE {})
      : ids \in Resolved(c, ref)}

\* ControllerAgent.execute: the papers of the session that the run is handed.
Handed(c, d) ==
  IF d.intent = "recommend_more" /\ d.resolved = <<>> THEN ToSet(c.papers)
  ELSE ToSet(c.papers) \intersect ToSet(d.resolved)

\* The papers that a search can bring, each once.
Finds == {q \in BoundedSeq(Papers, MaxFound) : IsInjective(q)}

\* What a run finds for a decision: a conversation has no sources of its own, those
\* of a run with an intent that is not archived with its sources are left out, and
\* a direct task leaves out the papers that the run was handed.
Sources(c, d) ==
  {q \in Finds :
     /\ d.route = "conversation" \/ d.intent = "follow_up" => q = <<>>
     /\ d.route = "direct" => ToSet(q) \intersect Handed(c, d) = {}}

\* node_controller: what the run of a turn can come to.
Results(t) ==
  LET c == turns[t].context
      decisions == UNION {Decided(c, ref, wording) :
                            ref \in References(c), wording \in Wordings}
  IN UNION {[intent : {d.intent}, resolved : {d.resolved}, sources : Sources(c, d)] :
              d \in decisions}

(***************************************************************************)
(* Archiving a turn                                                        *)
(***************************************************************************)

\* Mutant: papers are appended without looking at those that are there.
NewPapersAll(c, sources) == sources

\* The papers of a result that are not among the session's yet.
NewPapers(c, sources) == Without(sources, ToSet(c.papers))

\* append_recommended_papers
AppendPapers(c, sources, updateBatch) ==
  [c EXCEPT !.papers = @ \o NewPapers(c, sources),
            !.batch = IF updateBatch THEN NewPapers(c, sources) ELSE @]

\* set_active_paper, for each of some papers, the first of them last.
SetActive(c, mentioned) ==
  [c EXCEPT !.mentioned = mentioned \o Without(@, ToSet(mentioned))]

\* Mutant: a transcript is always replaced by that of the turn.
MergeTurnReplacing(c, t) == [c EXCEPT !.messages = With(turns[t].prepared, t)]

\* merge_conversation_turn: the compressed transcript is written back only if
\* the session's is still the one the turn was bound to.
MergeTurn(c, t) ==
  [c EXCEPT !.messages = With(IF @ = turns[t].base THEN turns[t].prepared ELSE @, t)]

\* Mutant: every batch is numbered on from the papers of the session.
BatchStartCumulative(t, r) == Len(turns[t].context.papers) + 1

\* The number of the batch's first paper, from the session as it was bound.
BatchStart(t, r) == IF r.intent \in Recommending THEN Len(turns[t].context.papers) + 1 ELSE 1

\* Mutant: only listed papers are kept.
ArchivedListsOnly(c, t, r) ==
  LET numbered == r.intent \in Listing /\ r.sources # <<>>
      started == [c EXCEPT !.start = IF numbered THEN BatchStart(t, r) ELSE @]
      supplied == IF r.intent \in Listing
                  THEN AppendPapers(started, r.sources, TRUE)
                  ELSE started
      active == SetActive(supplied, IF r.resolved # <<>> THEN r.resolved
                                    ELSE IF numbered THEN <<Head(r.sources)>> ELSE <<>>)
  IN MergeTurn(active, t)

\* _update_session_after_run: the session after turn t with result r.
Archived(c, t, r) ==
  LET numbered == r.intent \in Listing /\ r.sources # <<>>
      started == [c EXCEPT !.start = IF numbered THEN BatchStart(t, r) ELSE @]
      supplied == IF \/ r.intent \in Recommending
                     \/ r.intent # "follow_up" /\ r.sources # <<>>
                  THEN AppendPapers(started, r.sources, r.intent \in Listing)
                  ELSE started
      active == SetActive(supplied, IF r.resolved # <<>> THEN r.resolved
                                    ELSE IF numbered THEN <<Head(r.sources)>> ELSE <<>>)
  IN MergeTurn(active, t)

\* The number node_merge_direct_results gives to the first paper of a list.
FirstNumber(t, r) == IF r.intent = "recommend_more" THEN Len(turns[t].context.papers) + 1 ELSE 1

\* No papers came into the session while the run went on, and the list shows new
\* papers only: NewPapers leaves the others out of the batch, which shifts it.  A
\* recommendation is the session's first: a later one is shown from one, like a
\* search, while BatchStart numbers it on from the papers of the session.
Undisturbed(t, r) ==
  LET c == sessions[turns[t].session] IN
  /\ c.papers = turns[t].context.papers
  /\ ToSet(r.sources) \intersect ToSet(c.papers) = {}
  /\ r.intent = "recommend" => c.papers = <<>>

\* The run ends with result r, which goes into its record, and the turn is
\* archived, unless its session has ended.
Finish(t, r) ==
  /\ turns[t].phase = "running"
  /\ Over(t, "over", r)
  /\ ended' = Append(ended, t)
  /\ LET s == turns[t].session IN
     IF Alive(s)
     THEN /\ sessions' = [sessions EXCEPT ![s] = Archived(@, t, r)]
          /\ listed' = [listed EXCEPT ![s] =
               IF r.intent \notin Listing THEN @
               ELSE IF Undisturbed(t, r)
               THEN [first |-> FirstNumber(t, r), papers |-> r.sources]
               ELSE NoList]
     ELSE UNCHANGED <<sessions, listed>>
  /\ UNCHANGED runs

\* The run fails or is cancelled, and nothing is archived.  Its record has what
\* the run had stored by then: perhaps its intent and sources, no reference yet.
Drop(t, r) ==
  /\ turns[t].phase = "running"
  /\ r = NoResult \/ (r.sources # <<>> /\ r.resolved = <<>>)
  /\ Over(t, "over", r)
  /\ UNCHANGED <<sessions, runs, ended, listed>>

(***************************************************************************)
(* The end of a session and its restoration                                *)
(***************************************************************************)

Gone(c) == [Fresh(c.from) EXCEPT !.alive = FALSE]

\* The session is deleted or its TTL has run out.
End(s) ==
  /\ Alive(s)
  /\ sessions' = [sessions EXCEPT ![s] = Gone(@)]
  /\ listed' = [listed EXCEPT ![s] = NoList]
  /\ UNCHANGED <<turns, runs, ended>>

\* The process is restarted: sessions and runs that were going on are lost, the
\* snapshots of the others are not.
Restart ==
  /\ sessions' = [s \in DOMAIN sessions |-> Gone(sessions[s])]
  /\ listed' = [s \in DOMAIN listed |-> NoList]
  /\ turns' = [t \in Turns |->
       IF turns[t].phase \in {"idle", "over"} THEN turns[t]
       ELSE [Idle EXCEPT !.phase = "lost", !.session = turns[t].session]]
  /\ runs' = Without(runs, {t \in Turns : turns[t].phase # "over"})
  /\ UNCHANGED ended

\* list_session_runs: the runs posted in session s, in the order of creation.
RunsOf(s) == Without(runs, {t \in Turns : turns[t].session # s})

\* Mutant: a run of research leaves no papers in a restored session.
ReplayedListsOnly(c, t) ==
  LET r == turns[t].result
      numbered == r.intent \in Listing /\ r.sources # <<>>
      started == [c EXCEPT !.start =
                    IF ~numbered THEN @
                    ELSE IF r.intent = "recommend_more" THEN Len(c.papers) + 1 ELSE 1]
      supplied == IF numbered THEN AppendPapers(started, r.sources, TRUE) ELSE started
  IN [SetActive(supplied, r.resolved) EXCEPT !.messages = With(@, t)]

\* restore_from_runs, one run: the session after a run of its history.
Replayed(c, t) ==
  LET r == turns[t].result
      numbered == r.intent \in Listing /\ r.sources # <<>>
      started == [c EXCEPT !.start =
                    IF ~numbered THEN @
                    ELSE IF r.intent = "recommend_more" THEN Len(c.papers) + 1 ELSE 1]
      supplied == IF r.intent # "follow_up" /\ r.sources # <<>>
                  THEN AppendPapers(started, r.sources, r.intent \in Listing)
                  ELSE started
  IN [SetActive(supplied, r.resolved) EXCEPT !.messages = With(@, t)]

RestoredUpTo(s) ==
  LET upTo[n \in 0 .. Len(RunsOf(s))] ==
        IF n = 0 THEN Fresh(s) ELSE Replayed(upTo[n - 1], RunsOf(s)[n])
  IN upTo
Restored(s) == RestoredUpTo(s)[Len(RunsOf(s))]

\* POST /api/sessions/{id}/restore, or opening the conversation in the history.
\* A session that is alive is given back as it is.
Restore(s) ==
  /\ ~Alive(s)
  /\ RunsOf(s) # <<>>
  /\ Open(Restored(s))
  /\ UNCHANGED <<turns, runs, ended>>

Done ==
  /\ \A s \in DOMAIN sessions : ~Alive(s)
  /\ Len(sessions) = MaxSessions
  /\ \A t \in Turns : turns[t].phase \notin {"bound", "summarising", "running"}

Next ==
  \/ Create
  \/ \E t \in Turns :
       \/ \E s \in DOMAIN sessions : Prepare(t, s) \/ Summarise(t, s)
       \/ Summarised(t)
       \/ Start(t)
       \/ /\ turns[t].phase = "running"
          /\ \E r \in Results(t) : Finish(t, r) \/ Drop(t, r)
  \/ \E s \in DOMAIN sessions : End(s) \/ Restore(s)
  \/ Restart
  \/ Done /\ UNCHANGED vars

Spec == Init /\ [][Next]_vars

(***************************************************************************)
(* Properties                                                              *)
(***************************************************************************)
Phases == {"idle", "summarising", "bound", "running", "over", "refused", "lost"}

\* Every variable keeps to its values; a session lists no paper twice.
TypeOK ==
  /\ \A s \in DOMAIN sessions :
       /\ sessions[s].alive \in BOOLEAN
       /\ sessions[s].from \in 0 .. s - 1
       /\ sessions[s].messages \in Transcripts
       /\ sessions[s].papers \in Seq(Papers) /\ IsInjective(sessions[s].papers)
       /\ sessions[s].batch \in Seq(Papers)
       /\ sessions[s].start \in Nat \ {0}
       /\ sessions[s].mentioned \in Seq(Papers) /\ IsInjective(sessions[s].mentioned)
  /\ \A t \in Turns :
       /\ turns[t].phase \in Phases
       /\ turns[t].session \in 0 .. Len(sessions)
       /\ turns[t].base \in Transcripts /\ turns[t].prepared \in Transcripts
       /\ turns[t].result.intent \in Intents
  /\ runs \in Seq(Turns) /\ ended \in Seq(Turns)
  /\ Len(listed) = Len(sessions)

\* A turn that has been archived stays in the transcript of its session, in full
\* or compressed, whatever other turns are archived meanwhile.  The one exception
\* is a turn that was archived while another waited for its summary: it is in what
\* that one compares with and not in what it summarised, and is erased, although
\* merge_conversation_turn means to preserve the turns that others completed.
TurnsKept ==
  [][\A s \in DOMAIN sessions, t \in Turns :
       sessions'[s].alive
       /\ t \in Covered(sessions[s].messages) \ Covered(sessions'[s].messages) =>
         \E u \in Turns :
           /\ turns[u].phase = "running" /\ turns'[u].phase = "over"
           /\ turns[u].session = s
           /\ t \in Covered(turns[u].base) \ Covered(turns[u].prepared)]_vars

\* The papers, in the same order unless runs overtook each other.  A run that was
\* dropped adds the sources it had stored.
PapersRestorable(s, c) ==
  LET dropped == {t \in ToSet(RunsOf(s)) \ ToSet(ended) : turns[t].phase = "over"}
      extra == UNION {ToSet(turns[t].result.sources) : t \in dropped}
  IN /\ ToSet(c.papers) = ToSet(sessions[s].papers) \union extra
     /\ /\ extra = {}
        /\ Without(RunsOf(s), Turns \ ToSet(ended))
             = Without(ended, {t \in Turns : turns[t].session # s})
        => c.papers = sessions[s].papers

\* "This paper" refers to one that the session can load.
ActivePaperKnown(s) == ToSet(Active(sessions[s])) \subseteq ToSet(sessions[s].papers)

\* Restoring a session from the run history rebuilds what archiving had put into
\* it, its papers and every turn of its transcript, and the paper that it then
\* takes for "this paper" is one of them.
RestorableFromHistory ==
  \A s \in DOMAIN sessions :
    /\ Alive(s) /\ sessions[s].from = 0 =>
         LET c == Restored(s) IN
         /\ PapersRestorable(s, c)
         /\ Covered(sessions[s].messages) \subseteq Covered(c.messages)
    /\ sessions[s].from = 0 \/ sessions[sessions[s].from].from = 0 => ActivePaperKnown(s)

\* The numbers of the list shown last refer to the papers they were shown with,
\* as long as the list was undisturbed, whatever other turns add to the session
\* afterwards: a request that names one is about that paper, or asks for more
\* papers, whatever its other words are and whatever the model makes of them.
NumbersReferToList ==
  \A s \in DOMAIN sessions : \A i \in DOMAIN listed[s].papers, wording \in Wordings :
    LET number == [kind |-> "number", n |-> listed[s].first + i - 1] IN
    \A d \in Decided(sessions[s], number, wording) :
      d.intent = "recommend_more" \/ d.resolved = <<listed[s].papers[i]>>
=============================================================================
