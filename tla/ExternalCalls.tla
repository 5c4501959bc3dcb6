--------------------------- MODULE ExternalCalls ---------------------------
(***************************************************************************)
(* What stands between a caller and an outside service: the LLM client      *)
(* (llm/client.py), the paper providers (tools/semantic_scholar_provider.py,*)
(* tools/academic_search_provider.py), paper details, and the tools of MCP  *)
(* servers.  A call is one operation of those; it may take several requests *)
(* one after the other, each with its own tries.                            *)
(***************************************************************************)
EXTENDS McpLink

CONSTANTS
  LlmRetries,     \* max_retries of the LLM client
  S2Retries,      \* retries after a timeout, a broken transport or a 5xx
  S2Limited,      \* retries after a 429
  S2Wait,         \* seconds that the tries of one request may wait in all
  OaRetries,      \* max_retries of OpenAlex
  HeaderDelays,   \* delays a service may ask for
  HeaderCap,      \* what they are cut off at
  BackoffCap,     \* cap of the exponential backoff
  Kinds,          \* kinds of calls to consider without MCP servers
  KindsBeside     \* and beside them; calls of other kinds share no state with those

CallKinds ==
  {"generate", "functions", "search", "recommend", "details", "relation", "openalex", "detail"}
ASSUME CallAssumption ==
  /\ Kinds \union KindsBeside \subseteq CallKinds
  /\ {LlmRetries, S2Retries, S2Limited, S2Wait, OaRetries, HeaderCap, BackoffCap} \subseteq Nat
  /\ HeaderDelays \subseteq Nat

VARIABLES
  op,         \* the call, or NoCall
  step,       \* the request it is at
  phase,      \* what that request does
  tries,      \* its attempts
  transient,  \* its retries after failures that may pass
  limited,    \* its retries after a 429
  waited,     \* the seconds it slept
  sent,       \* history: requests sent for the call
  good,       \* history: steps of the call that brought what they are for
  result      \* the answer to the caller

reqVars == <<tries, transient, limited, waited>>
callVars == <<op, step, phase, reqVars, sent, good, result>>
vars == <<linkVars, callVars>>

(***************************************************************************)
(* Calls, by their flags.  direct: the paper to ask about is given by its   *)
(* id; ready: a key is configured; mock: fall back to the built-in papers;  *)
(* fetch: full texts are fetched; gated: the caller is BaseTool.run; later: *)
(* not the first page, which no tool asks for; local: the local library has *)
(* the paper.                                                               *)
(***************************************************************************)
Flags(kind) ==
  CASE kind \in {"generate", "functions"} -> {"ready"}
    [] kind = "search" -> {"gated"}
    [] kind = "recommend" -> {"direct", "gated"}
    [] kind = "details" -> {"direct", "gated"}
    [] kind = "relation" -> {"direct", "gated", "later"}
    [] kind = "openalex" -> {"ready", "mock", "fetch"}
    [] kind = "detail" -> {"direct", "ready", "local"}

NoCall == [kind |-> "none", flags |-> {}, tool |-> Nobody]
ToolCalls == [kind : {"mcp"}, flags : {{"gated"}}, tool : Names]
Operations ==
  UNION {[kind : {kind},
          flags : {flags \in SUBSET Flags(kind) : ~({"gated", "later"} \subseteq flags)},
          tool : {Nobody}] : kind \in Kinds \union KindsBeside}

Is(flag) == flag \in op.flags
Gated == Is("gated") \/ op.kind = "openalex"

S2Steps == {"search", "seed", "recommend", "match", "details", "relation"}
OaSteps == {"oa_search", "oa_title"}
Steps == {"chat", "oa_content", "mcp"} \union S2Steps \union OaSteps

Pending == [kind |-> "none", from |-> "none", marked |-> FALSE]
Answer(kind, from, marked) == [kind |-> kind, from |-> from, marked |-> marked]
Failure == Answer("failure", "none", FALSE)
Service == Answer("success", "service", FALSE)

Init ==
  /\ LinkInit
  /\ op = NoCall /\ step = "chat" /\ phase = "idle"
  /\ tries = 0 /\ transient = 0 /\ limited = 0 /\ waited = 0
  /\ sent = 0 /\ good = {} /\ result = Pending

(***************************************************************************)
(* One request and its end                                                 *)
(***************************************************************************)
\* The next request of the call, with fresh counters.
Request(s) ==
  /\ step' = s /\ phase' = "ready"
  /\ tries' = 0 /\ transient' = 0 /\ limited' = 0 /\ waited' = 0
  /\ UNCHANGED result

Finish(answer) ==
  /\ phase' = "done" /\ result' = answer
  /\ UNCHANGED <<step, reqVars>>

\* Without a key or after a failed search: the built-in papers, marked as such,
\* if that is configured.
Fallback ==
  Finish(IF Is("mock") THEN Answer("success", "mock", TRUE) ELSE Failure)

(***************************************************************************)
(* What each operation makes of the end of a request.  "full" and "empty"   *)
(* are usable answers with and without what was asked for; "raised" is an   *)
(* exception that leaves the provider.                                      *)
(***************************************************************************)
Outcome(served) == Finish(IF served THEN Service ELSE Failure)

\* An answer without papers serves a search.
SearchEnds(how) == Outcome(how \in {"full", "empty"})

\* Mutant: recommending goes on when no seed paper was found.
RecommendEndsSeedless(how) ==
  IF step = "seed" /\ how \in {"full", "empty"} THEN Request("recommend")
  ELSE Outcome(step = "recommend" /\ how \in {"full", "empty"})

\* Without given papers, the first hit for the topic is the seed.
RecommendEnds(how) ==
  IF step = "seed" /\ how = "full" THEN Request("recommend")
  ELSE Outcome(step = "recommend" /\ how \in {"full", "empty"})

\* The title led to the id of a paper; any failure on the way is no match.
Matched(how) == step = "match" /\ how = "full"

\* A page of relations behind the first may be empty: the list is exhausted.
GraphEnds(how) ==
  IF Matched(how) THEN Request(op.kind)
  ELSE Outcome(step # "match" /\ (how = "full" \/ (how = "empty" /\ Is("later"))))

\* A failed search is replaced by the built-in papers, an empty one is not.
OpenAlexEnds(how) ==
  IF step = "oa_search" /\ how = "full" /\ Is("fetch") THEN Request("oa_content")
  ELSE IF step = "oa_search" /\ how = "failed" THEN Fallback
  ELSE Finish(Service)

\* Semantic Scholar by id or title, then OpenAlex by title, whatever went wrong.
DetailEnds(how) ==
  IF Matched(how) THEN Request("details")
  ELSE IF how # "full" /\ step # "oa_title" /\ Is("ready") THEN Request("oa_title")
  ELSE Outcome(how = "full")

\* The adapter turns whatever the server reports into a result of the tool.
McpEnds(how) == Outcome(how = "full")

\* An exception is a failure to BaseTool.run, and to the paper details.
Ended(how) ==
  CASE how = "raised" /\ op.kind # "detail" ->
         Finish(IF Gated THEN Failure ELSE Answer("raised", "none", FALSE))
    [] op.kind = "detail" -> DetailEnds(how)
    [] how # "raised" /\ op.kind = "search" -> SearchEnds(how)
    [] how # "raised" /\ op.kind = "recommend" -> RecommendEnds(how)
    [] how # "raised" /\ op.kind \in {"details", "relation"} -> GraphEnds(how)
    [] how # "raised" /\ op.kind = "openalex" -> OpenAlexEnds(how)
    [] how # "raised" /\ op.kind = "mcp" -> McpEnds(how)
    [] how # "raised" /\ op.kind \in {"generate", "functions"} -> Outcome(how = "full")

\* What the step was for has been brought, or is known not to exist.
Usable(how) ==
  \/ how = "full"
  \/ how = "empty" /\ (step \in {"search", "recommend", "oa_search"} \/ Is("later"))

Over(how) ==
  /\ Ended(how)
  /\ good' = IF Usable(how) THEN good \union {step} ELSE good
  /\ UNCHANGED <<op, sent>>

\* The same request once more, now or after a delay.
Again(delay) ==
  /\ phase' = IF delay = 0 THEN "ready" ELSE "asleep"
  /\ waited' = waited + delay
  /\ UNCHANGED <<op, step, tries, sent, good, result>>

Low(a, b) == IF a < b THEN a ELSE b
Backoff(n) == Low(BackoffCap, 2 ^ n)

(***************************************************************************)
(* LLM client                                                              *)
(***************************************************************************)
ChatAnswers == {"full", "bad_content", "unparsable", "refused", "limited", "down", "timeout", "broken"}

\* Mutant: a server error is not counted against the retries.
ChatUncounted(answer) ==
  IF answer = "full" THEN Over("full")
  ELSE IF answer \in {"refused", "limited"} \/ (tries > LlmRetries /\ answer # "down")
  THEN Over("failed")
  ELSE Again(0) /\ UNCHANGED <<transient, limited>>

\* A client error, 429 included, ends the request at once; anything else that
\* goes wrong is tried again.
Chat(answer) ==
  IF answer = "full" THEN Over("full")
  ELSE IF answer \in {"refused", "limited"} \/ tries > LlmRetries THEN Over("failed")
  ELSE Again(0) /\ UNCHANGED <<transient, limited>>

\* Content that is no JSON of the schema ends the request as well.
Generate(answer) == IF answer = "bad_content" THEN Over("failed") ELSE Chat(answer)

\* Tool arguments that are no JSON are asked for again.
FunctionCall(answer) == Chat(answer)

(***************************************************************************)
(* Semantic Scholar                                                        *)
(***************************************************************************)
ServiceAnswers == {"full", "empty", "unparsable", "misshapen", "refused", "limited", "down", "odd",
                   "timeout", "broken"}

\* Mutant: each kind of retry has the budget for itself.
RetryAlone(count, most, delay) == count < most /\ delay <= S2Wait

\* Mutant: one retry more than configured.
RetryOneMore(count, most, delay) == count <= most /\ waited + delay <= S2Wait

\* A retry of its own kind, if that kind has one left and the waiting of both
\* kinds together stays within the budget.
Retry(count, most, delay) == count < most /\ waited + delay <= S2Wait

\* Retry-After when the service sends it, capped, and the backoff otherwise.
Delays(n) == {Backoff(n)} \union {Low(d, HeaderCap) : d \in HeaderDelays}

S2RetryAfter(answer) ==
  LET slow == answer = "limited"
      count == IF slow THEN limited ELSE transient
      most == IF slow THEN S2Limited ELSE S2Retries
  IN \E delay \in IF answer \in {"timeout", "broken"} THEN {Backoff(count)} ELSE Delays(count) :
       IF Retry(count, most, delay)
       THEN /\ Again(delay)
            /\ limited' = IF slow THEN limited + 1 ELSE limited
            /\ transient' = IF slow THEN transient ELSE transient + 1
       ELSE Over("failed")

\* A body of another shape is no match and no paper; elsewhere it raises.
S2(answer) ==
  CASE answer \in {"full", "empty"} -> Over(answer)
    [] answer = "misshapen" ->
         Over(IF step \in {"match", "details"} THEN "empty" ELSE "raised")
    [] answer \in {"unparsable", "refused", "odd"} -> Over("failed")
    [] answer \in {"limited", "down", "timeout", "broken"} -> S2RetryAfter(answer)

(***************************************************************************)
(* OpenAlex                                                                *)
(***************************************************************************)
OaRetryAfter(answer) ==
  IF tries <= OaRetries
  THEN /\ \E delay \in IF answer = "limited" THEN {Low(d, HeaderCap) : d \in HeaderDelays \ {0}}
                       ELSE {Backoff(tries - 1)} : Again(delay)
       /\ UNCHANGED <<transient, limited>>
  ELSE Over("failed")

\* A body of another shape raises inside the try and is asked for again.
OpenAlex(answer) ==
  CASE answer \in {"full", "empty"} -> Over(answer)
    [] answer \in {"unparsable", "refused", "odd"} -> Over("failed")
    [] answer \in {"misshapen", "limited", "down", "timeout", "broken"} -> OaRetryAfter(answer)

\* The search by title has a loop of its own with the same rules.
OpenAlexTitle(answer) == OpenAlex(answer)

\* The full text of a paper: one try, and whatever goes wrong leaves the abstract.
Content(answer) == Over(IF answer = "full" THEN "full" ELSE "empty")

(***************************************************************************)
(* MCP                                                                     *)
(***************************************************************************)
\* The connection that call_tool finds for the tool, which it may find closed.
Reaches(n) ==
  adapters[n] # Nobody /\ adapters[n][1] \in links /\ session[adapters[n][1]] = "open"

\* Only an open session can answer; one call, no retry.
McpAnswer(answer) ==
  /\ answer = "full" => Reaches(op.tool)
  /\ Over(IF answer = "full" THEN "full" ELSE "failed")

(***************************************************************************)
(* The call                                                                *)
(***************************************************************************)
Fresh == tries' = 0 /\ transient' = 0 /\ limited' = 0 /\ waited' = 0

Begin(o) == phase = "idle" /\ op' = o /\ sent' = 0 /\ good' = {} /\ Fresh
Start(s) == step' = s /\ phase' = "ready" /\ result' = Pending
\* The answer of a call that needs no request.
AtOnce(answer) == phase' = "done" /\ result' = answer /\ UNCHANGED step

BeginChat(o) ==
  /\ o.kind \in {"generate", "functions"}
  /\ IF "ready" \in o.flags THEN Start("chat") ELSE AtOnce(Failure)

\* A blank query, or years in the wrong order, fail without a request.
BeginSearch(o) == o.kind = "search" /\ (Start("search") \/ AtOnce(Failure))

BeginRecommend(o) ==
  /\ o.kind = "recommend"
  /\ Start(IF "direct" \in o.flags THEN "recommend" ELSE "seed")

BeginGraph(o) ==
  /\ o.kind \in {"details", "relation"}
  /\ Start(IF "direct" \in o.flags THEN o.kind ELSE "match")

BeginOpenAlex(o) ==
  /\ o.kind = "openalex"
  /\ \/ AtOnce(Failure)
     \/ IF "ready" \in o.flags THEN Start("oa_search")
        ELSE AtOnce(IF "mock" \in o.flags THEN Answer("success", "mock", TRUE) ELSE Failure)

BeginDetail(o) ==
  /\ o.kind = "detail"
  /\ IF "local" \in o.flags THEN AtOnce(Answer("success", "local", FALSE))
     ELSE Start(IF "direct" \in o.flags THEN "details" ELSE "match")

BeginMcp(o) == o.kind = "mcp" /\ Start("mcp")

Begins ==
  /\ life \in {"up", "closing"}
  /\ \E o \in {c \in Operations : c.kind \in IF enabled THEN KindsBeside ELSE Kinds}
              \union {c \in ToolCalls : registry[c.tool] # Nobody} :
       /\ Begin(o)
       /\ \/ BeginChat(o) \/ BeginSearch(o) \/ BeginRecommend(o) \/ BeginGraph(o)
          \/ BeginOpenAlex(o) \/ BeginDetail(o) \/ BeginMcp(o)
  /\ UNCHANGED linkVars

\* The request goes out; a tool whose server is gone fails without one.
Send ==
  /\ phase = "ready"
  /\ IF step = "mcp" /\ ~Reaches(op.tool)
     THEN Over("failed")
     ELSE /\ phase' = "sent" /\ tries' = tries + 1 /\ sent' = sent + 1
          /\ UNCHANGED <<op, step, transient, limited, waited, good, result>>
  /\ UNCHANGED linkVars

Answers ==
  /\ phase = "sent"
  /\ \E answer \in IF step = "chat" THEN ChatAnswers ELSE ServiceAnswers :
       CASE step = "chat" /\ op.kind = "generate" -> Generate(answer)
         [] step = "chat" /\ op.kind = "functions" -> FunctionCall(answer)
         [] step \in S2Steps -> S2(answer)
         [] step = "oa_search" -> OpenAlex(answer)
         [] step = "oa_title" -> OpenAlexTitle(answer)
         [] step = "oa_content" -> Content(answer)
         [] step = "mcp" -> McpAnswer(answer)
  /\ UNCHANGED linkVars

Wake ==
  /\ phase = "asleep"
  /\ phase' = "ready"
  /\ UNCHANGED <<linkVars, op, step, reqVars, sent, good, result>>

\* The gate's wait_for ends a tool wherever it waits; a worker's timeout or the
\* end of the run cancel tools and the model.
GateTimeout ==
  /\ phase \in {"sent", "asleep"}
  /\ \/ Gated /\ Finish(Failure)
     \/ (Gated \/ step = "chat") /\ Finish(Answer("cancelled", "none", FALSE))
  /\ UNCHANGED <<linkVars, op, sent, good>>

Returned ==
  /\ phase = "done"
  /\ phase' = "idle" /\ op' = NoCall /\ result' = Pending /\ good' = {} /\ sent' = 0
  /\ Fresh /\ UNCHANGED <<linkVars, step>>

Progress == Send \/ Answers \/ Wake \/ GateTimeout
Next ==
  \/ Begins \/ Progress \/ Returned
  \/ LinkNext /\ UNCHANGED callVars

Spec == Init /\ [][Next]_vars
\* The loop runs a call that can go on; every request has a timeout of its own.
FairSpec == Spec /\ WF_vars(Progress)

TypeOK ==
  /\ LinkTypeOK
  /\ op \in Operations \union ToolCalls \union {NoCall}
  /\ step \in Steps /\ phase \in {"idle", "ready", "sent", "asleep", "done"}
  /\ tries \in Nat /\ transient \in 0 .. S2Retries /\ limited \in 0 .. S2Limited
  /\ waited \in Nat /\ sent \in Nat /\ good \subseteq Steps
  /\ result \in [kind : {"none", "success", "failure", "raised", "cancelled"},
                 from : {"none", "service", "mock", "local"}, marked : BOOLEAN]

\* However the answers alternate between failures and rate limits, the tries of
\* one request to Semantic Scholar wait no longer than the configured budget.
WaitWithinBudget == step \in S2Steps => waited <= S2Wait

\* The requests without whose answer the call has nothing to return.
Needed ==
  CASE op.kind = "recommend" -> {{"recommend"} \union IF Is("direct") THEN {} ELSE {"seed"}}
    [] op.kind \in {"details", "relation"} ->
         {{op.kind} \union IF Is("direct") THEN {} ELSE {"match"}}
    [] op.kind = "detail" ->
         {{"oa_title"}, {"details"} \union IF Is("direct") THEN {} ELSE {"match"}}
    [] op.kind \in {"generate", "functions"} -> {{"chat"}}
    [] op.kind = "openalex" -> {{"oa_search"}}
    [] op.kind \in {"search", "mcp"} -> {{op.kind}}

\* A success is what it says: it rests on a usable answer to every request it
\* needs, in whatever retries, or it is the built-in or a local paper, and the
\* built-in papers are never passed off as search results.
AnswersHonest ==
  phase = "done" /\ result.kind = "success" =>
    /\ result.from = "service" => \E needed \in Needed : needed \subseteq good
    /\ result.from = "mock" <=> result.marked
    /\ result.marked => Is("mock")

\* The requests a call may send in all.
PerRequest(s) ==
  CASE s = "chat" -> LlmRetries + 1
    [] s \in S2Steps -> S2Retries + S2Limited + 1
    [] s \in OaSteps -> OaRetries + 1
    [] s \in {"oa_content", "mcp"} -> 1
Limit ==
  CASE op.kind = "none" -> 0
    [] op.kind \in {"generate", "functions"} -> PerRequest("chat")
    [] op.kind \in {"search", "mcp"} -> PerRequest(op.kind)
    [] op.kind \in {"recommend", "details", "relation"} ->
         IF Is("direct") THEN PerRequest(op.kind) ELSE 2 * PerRequest("match")
    [] op.kind = "openalex" -> PerRequest("oa_search") + PerRequest("oa_content")
    [] op.kind = "detail" -> 2 * PerRequest("match") + PerRequest("oa_title")

\* Calls are bounded and end with one answer, each by its own limit.
Bounded == INSTANCE BoundedCalls WITH
  busy <- phase \in {"ready", "sent", "asleep"}, limit <- Limit, sent <- sent
ImplementsBounded == Bounded!CallSpec
=============================================================================
