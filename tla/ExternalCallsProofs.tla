------------------------ MODULE ExternalCallsProofs ------------------------
(***************************************************************************)
(* Proofs about ExternalCalls and the manager of MCP servers in it, for any *)
(* servers, tools, retries and delays.                                      *)
(***************************************************************************)
EXTENDS ExternalCalls, FiniteSetTheorems, SequenceTheorems, NaturalsInduction, WellFoundedInduction, TLAPS

\* While the manager is up, the registry has the tools that the adapters have; from
\* the shutdown on it has none.
Tables ==
  IF life \in {"closing", "down"} THEN \A n \in Names : registry[n] = Nobody
  ELSE registry = adapters

\* Only the server at the head of the list is being connected, and an open
\* connection is one that a shutdown closes.
Transports ==
  \A s \in Servers :
    /\ session[s] = "opening" =>
         life = "starting" /\ todo # <<>> /\ s = Head(todo) /\ s \notin Disabled
    /\ session[s] = "open" =>
         \/ life \in {"starting", "up", "failed"} /\ s \in links
         \/ life = "closing" /\ \E i \in DOMAIN todo : todo[i] = s

LinkInv == LinkTypeOK /\ Tables /\ Transports

Busy == phase \in {"ready", "sent", "asleep"}

CallTypes ==
  /\ op \in Operations \union ToolCalls \union {NoCall}
  /\ step \in Steps /\ phase \in {"idle", "ready", "sent", "asleep", "done"}
  /\ tries \in Nat /\ transient \in 0 .. S2Retries /\ limited \in 0 .. S2Limited
  /\ waited \in Nat /\ sent \in Nat /\ good \subseteq Steps
  /\ result \in [kind : {"none", "success", "failure", "raised", "cancelled"},
                 from : {"none", "service", "mock", "local"}, marked : BOOLEAN]
  /\ phase # "idle" => op.kind # "none"

\* The requests that a call is made of, and what has been brought before each.
OnTheWay ==
  \/ op.kind \in {"generate", "functions"} /\ step = "chat"
  \/ op.kind \in {"search", "mcp"} /\ step = op.kind
  \/ op.kind = "recommend" /\ step = "seed" /\ ~Is("direct")
  \/ op.kind = "recommend" /\ step = "recommend" /\ (Is("direct") \/ "seed" \in good)
  \/ op.kind \in {"details", "relation", "detail"} /\ step = "match" /\ ~Is("direct")
  \/ op.kind \in {"details", "relation"} /\ step = op.kind /\ (Is("direct") \/ "match" \in good)
  \/ op.kind = "detail" /\ step = "details" /\ (Is("direct") \/ "match" \in good)
  \/ op.kind = "detail" /\ step = "oa_title"
  \/ op.kind = "openalex" /\ step = "oa_search"
  \/ op.kind = "openalex" /\ step = "oa_content" /\ "oa_search" \in good

\* The most that the requests before this one may have sent.
Before ==
  CASE step = "oa_title" -> 2 * PerRequest("match")
    [] step = "oa_content" -> PerRequest("oa_search")
    [] step \in {"recommend", "details", "relation"} /\ ~Is("direct") -> PerRequest("match")
    [] OTHER -> 0

\* The attempts of the request, and what was sent in all.
Counted ==
  /\ tries <= PerRequest(step)
  /\ IF phase = "sent" THEN tries # 0 ELSE tries < PerRequest(step)
  /\ sent <= Before + tries
  /\ step \in S2Steps => tries = transient + limited + (IF phase = "sent" THEN 1 ELSE 0)

CallInv ==
  /\ CallTypes
  /\ Busy => OnTheWay /\ Counted
  /\ WaitWithinBudget /\ AnswersHonest

Inv == LinkInv /\ CallInv

\* --------------------------------------------------------------------------
\* A set of numbers has a least one.
LEMMA Least ==
  ASSUME NEW S \in SUBSET Nat, S # {}
  PROVE \E m \in S : \A k \in S : m <= k
<1>1. PICK m \in S : \A k \in S : <<k, m>> \notin OpToRel(<, Nat)
  BY WFMin, NatLessThanWellFounded, Zenon
<1>2. \A k \in S : ~(k < m)
  BY <1>1, Zenon DEF OpToRel
<1>3. \A k \in S : m <= k
  BY <1>2
<1> QED
  BY <1>3, Zenon

\* The orders of a finite set are lists of its elements, and have all of them.
LEMMA OrdersFacts ==
  ASSUME NEW S, IsFiniteSet(S), NEW f \in SetToSeqs(S)
  PROVE /\ f \in Seq(S) /\ f \in [1 .. Cardinality(S) -> S]
        /\ \A s \in S : \E i \in DOMAIN f : f[i] = s
<1> DEFINE D == 1 .. Cardinality(S)
<1>1. Cardinality(S) \in Nat
  BY FS_CardinalityType
<1>2. f \in [D -> S] /\ \A i, j \in D : i # j => f[i] # f[j]
  BY DEF SetToSeqs
<1>3. f \in Seq(S)
  BY <1>1, <1>2
<1>4. IsFiniteSet(D) /\ Cardinality(D) = Cardinality(S)
  BY <1>1, FS_Interval
<1>5. f \in Injection(D, S)
  BY <1>2 DEF Injection, IsInjective
<1>6. f \in Surjection(D, S)
  BY <1>4, <1>5, FS_Injection
<1> QED
  BY <1>2, <1>3, <1>6 DEF Surjection

\* Within the bound of the list.
LEMMA TailType ==
  ASSUME todo \in SeqOf(Servers, Cardinality(Servers)), todo # <<>>
  PROVE /\ Tail(todo) \in SeqOf(Servers, Cardinality(Servers)) /\ Head(todo) \in Servers
        /\ \A i \in DOMAIN todo : todo[i] # Head(todo) => \E j \in DOMAIN Tail(todo) : Tail(todo)[j] = todo[i]
<1> DEFINE k == Cardinality(Servers)
<1>1. k \in Nat
  BY McpAssumption, FS_CardinalityType
<1> HIDE DEF k
<1>2. PICK m \in 0 .. k : todo \in [1 .. m -> Servers]
  BY DEF SeqOf, k
<1>3. m \in Nat /\ todo \in Seq(Servers) /\ Len(todo) = m
  BY <1>1, <1>2
<1>4. m # 0 /\ m - 1 \in 0 .. k /\ m - 1 \in Nat
  BY <1>1, <1>3
<1>5. /\ Tail(todo) \in [1 .. m - 1 -> Servers] /\ Head(todo) = todo[1] /\ 1 \in 1 .. m
      /\ \A j \in 1 .. m - 1 : Tail(todo)[j] = todo[j + 1]
  <2>1. /\ Tail(todo) \in Seq(Servers) /\ Len(Tail(todo)) = m - 1
        /\ \A j \in 1 .. m - 1 : Tail(todo)[j] = todo[j + 1]
    BY <1>3, HeadTailProperties
  <2>2. Head(todo) = todo[1] /\ 1 \in 1 .. m
    BY <1>3, <1>4
  <2>3. Tail(todo) \in [1 .. Len(Tail(todo)) -> Servers]
    BY <2>1, LenProperties
  <2> QED
    BY <2>1, <2>2, <2>3
<1>6. \A i \in 1 .. m : i # 1 => i - 1 \in 1 .. m - 1 /\ (i - 1) + 1 = i
  BY <1>3
<1>7. Tail(todo) \in SeqOf(Servers, k)
  BY <1>4, <1>5 DEF SeqOf
<1> QED
  BY <1>2, <1>5, <1>6, <1>7 DEF k

LEMMA OrderType ==
  ASSUME NEW S \in SUBSET Servers, NEW f \in SetToSeqs(S)
  PROVE f \in SeqOf(Servers, Cardinality(Servers)) /\ \A s \in S : \E i \in DOMAIN f : f[i] = s
<1>1. IsFiniteSet(S) /\ Cardinality(S) <= Cardinality(Servers)
  BY McpAssumption, FS_Subset
<1>2. Cardinality(S) \in Nat /\ Cardinality(Servers) \in Nat
  BY <1>1, McpAssumption, FS_CardinalityType
<1>3. f \in [1 .. Cardinality(S) -> Servers] /\ \A s \in S : \E i \in DOMAIN f : f[i] = s
  BY <1>1, OrdersFacts
<1>4. Cardinality(S) \in 0 .. Cardinality(Servers)
  BY <1>1, <1>2
<1> QED
  BY <1>3, <1>4 DEF SeqOf

\* The tools before the first clash are tools of the list.
LEMMA RegisteredType ==
  ASSUME NEW s, NEW listed \in Seq(Remote)
  PROVE Registered(s, listed) \in 0 .. Len(listed)
<1> DEFINE taken(i) == \/ registry[Public[<<s, listed[i]>>]] # Nobody
                       \/ \E j \in 1 .. i - 1 : Public[<<s, listed[j]>>] = Public[<<s, listed[i]>>]
           clashes == {i \in DOMAIN listed : taken(i)}
<1> HIDE DEF taken
<1>1. Len(listed) \in Nat /\ DOMAIN listed = 1 .. Len(listed)
  OBVIOUS
<1>2. CASE clashes = {}
  <2>1. Registered(s, listed) = Len(listed)
    BY <1>2 DEF Registered, taken
  <2> QED
    BY <1>1, <2>1
<1>3. CASE clashes # {}
  <2>1. clashes \in SUBSET Nat
    BY <1>1
  <2>2. \E m \in clashes : \A j \in clashes : m <= j
    BY <1>3, <2>1, Least
  <2>3. (CHOOSE i \in clashes : \A j \in clashes : i <= j) \in clashes
    BY <2>2, Zenon
  <2>4. Registered(s, listed) = (CHOOSE i \in clashes : \A j \in clashes : i <= j) - 1
    BY <1>3 DEF Registered, taken
  <2> DEFINE c == CHOOSE i \in clashes : \A j \in clashes : i <= j
  <2>5. c \in 1 .. Len(listed)
    BY <1>1, <2>3
  <2> HIDE DEF c
  <2>6. c - 1 \in 0 .. Len(listed)
    BY <1>1, <2>5
  <2> QED
    BY <2>4, <2>6 DEF c
<1> QED
  BY <1>2, <1>3

LEMMA LinkInitially == LinkInit => LinkInv
<1> SUFFICES ASSUME LinkInit PROVE LinkInv
  OBVIOUS
<1>1. todo \in SeqOf(Servers, Cardinality(Servers))
  <2>1. Cardinality(Servers) \in Nat
    BY McpAssumption, FS_CardinalityType
  <2>2. 0 \in 0 .. Cardinality(Servers) /\ todo \in [1 .. 0 -> Servers]
    BY <2>1 DEF LinkInit
  <2> QED
    BY <2>2 DEF SeqOf
<1>2. LinkTypeOK
  BY <1>1, McpAssumption DEF LinkInit, LinkTypeOK
<1>3. Tables /\ Transports
  BY DEF LinkInit, Tables, Transports
<1> QED
  BY <1>2, <1>3 DEF LinkInv

\* The list is empty or an order of servers at the beginning of a phase.
LEMMA EmptyType == <<>> \in SeqOf(Servers, Cardinality(Servers))
<1>1. Cardinality(Servers) \in Nat
  BY McpAssumption, FS_CardinalityType
<1>2. 0 \in 0 .. Cardinality(Servers) /\ <<>> \in [1 .. 0 -> Servers]
  BY <1>1
<1> QED
  BY <1>2 DEF SeqOf

LEMMA InitializeKeeps == LinkInv /\ Initialize => LinkInv'
<1> SUFFICES ASSUME LinkInv, Initialize PROVE LinkInv'
  OBVIOUS
<1>1. /\ life = "off" /\ life' \in {"up", "failed", "starting"}
      /\ UNCHANGED <<enabled, failOpen, session, links, adapters, registry, status>>
  BY DEF Initialize, Unreadable, modeVars
<1>2. todo' \in SeqOf(Servers, Cardinality(Servers))
  BY EmptyType, OrderType DEF Initialize, Unreadable
<1>3. \A s \in Servers : session[s] # "opening" /\ session[s] # "open"
  BY <1>1 DEF LinkInv, Transports
<1> QED
  BY <1>1, <1>2, <1>3 DEF LinkInv, LinkTypeOK, Tables, Transports

LEMMA SkipKeeps ==
  ASSUME LinkInv, life = "starting", todo # <<>>, Skip(Head(todo))
  PROVE LinkInv'
<1>1. /\ Tail(todo) \in SeqOf(Servers, Cardinality(Servers)) /\ Head(todo) \in Servers
  BY TailType DEF LinkInv, LinkTypeOK
<1>2. LinkTypeOK'
  BY <1>1 DEF LinkInv, LinkTypeOK, Skip, modeVars
<1>3. Tables'
  BY DEF LinkInv, Tables, Skip
<1>4. Transports'
  BY DEF LinkInv, Transports, Skip
<1> QED
  BY <1>2, <1>3, <1>4 DEF LinkInv

LEMMA OpenKeeps ==
  ASSUME LinkInv, life = "starting", todo # <<>>, Open(Head(todo))
  PROVE LinkInv'
<1>1. Head(todo) \in Servers
  BY TailType DEF LinkInv, LinkTypeOK
<1>2. LinkTypeOK'
  BY <1>1 DEF LinkInv, LinkTypeOK, Open, modeVars
<1>3. Tables'
  BY DEF LinkInv, Tables, Open
<1>4. Transports'
  BY <1>1 DEF LinkInv, LinkTypeOK, Transports, Open
<1> QED
  BY <1>2, <1>3, <1>4 DEF LinkInv

LEMMA ConnectFailsKeeps ==
  ASSUME LinkInv, life = "starting", todo # <<>>, ConnectFails(Head(todo))
  PROVE LinkInv'
<1>1. /\ Tail(todo) \in SeqOf(Servers, Cardinality(Servers)) /\ Head(todo) \in Servers
  BY TailType DEF LinkInv, LinkTypeOK
<1>2. LinkTypeOK'
  BY <1>1 DEF LinkInv, LinkTypeOK, ConnectFails, Fail, modeVars
<1>3. Tables'
  BY DEF LinkInv, Tables, ConnectFails, Fail
<1>4. Transports'
  BY <1>1 DEF LinkInv, LinkTypeOK, Transports, ConnectFails, Fail
<1> QED
  BY <1>2, <1>3, <1>4 DEF LinkInv

LEMMA ListedKeeps ==
  ASSUME LinkInv, life = "starting", todo # <<>>, Listed(Head(todo))
  PROVE LinkInv'
<1> DEFINE s == Head(todo)
<1>1. /\ Tail(todo) \in SeqOf(Servers, Cardinality(Servers)) /\ s \in Servers
  BY TailType DEF LinkInv, LinkTypeOK
<1>2. PICK listed \in UNION {SetToSeqs(tools) : tools \in SUBSET Remote} :
       LET n == Registered(s, listed)
           added == [name \in Names |->
                       IF \E i \in 1 .. n : Public[<<s, listed[i]>>] = name
                       THEN <<s, listed[CHOOSE i \in 1 .. n : Public[<<s, listed[i]>>] = name]>>
                       ELSE Nobody]
           With(table) == [name \in Names |->
                             IF added[name] # Nobody THEN added[name] ELSE table[name]]
       IN /\ registry' = With(registry)
          /\ adapters' = With(adapters)
          /\ links' = links \union {s}
          /\ IF n = Len(listed)
             THEN /\ session' = [session EXCEPT ![s] = "open"]
                  /\ status' = [status EXCEPT ![s] = "connected"]
                  /\ todo' = Tail(todo)
                  /\ UNCHANGED life
             ELSE Fail(s)
  BY DEF Listed
<1> DEFINE n == Registered(s, listed)
           Has(i, name) == Public[<<s, listed[i]>>] = name
           added == [name \in Names |->
                       IF \E i \in 1 .. n : Has(i, name)
                       THEN <<s, listed[CHOOSE i \in 1 .. n : Has(i, name)]>>
                       ELSE Nobody]
           With(table) == [name \in Names |->
                             IF added[name] # Nobody THEN added[name] ELSE table[name]]
<1>3. /\ registry' = With(registry) /\ adapters' = With(adapters)
      /\ links' = links \union {s} /\ todo' = Tail(todo)
      /\ life' \in {life, "failed"} /\ enabled' = enabled /\ failOpen' = failOpen
      /\ \/ session' = [session EXCEPT ![s] = "open"] /\ life' = life
         \/ session' = [session EXCEPT ![s] = "closed"]
      /\ \E x \in {"connected", "failed"} : status' = [status EXCEPT ![s] = x]
  BY <1>2 DEF Listed, Fail, modeVars
<1>4. listed \in Seq(Remote)
  <2>1. PICK tools \in SUBSET Remote : listed \in SetToSeqs(tools)
    OBVIOUS
  <2>2. IsFiniteSet(tools)
    BY McpAssumption, FS_Subset
  <2> QED
    BY <2>1, <2>2, OrdersFacts
<1>5. n \in 0 .. Len(listed) /\ Len(listed) \in Nat
  BY <1>4, RegisteredType
<1> HIDE DEF s, n
<1>6. added \in [Names -> Owners \union {Nobody}]
  <2> SUFFICES ASSUME NEW name \in Names, \E i \in 1 .. n : Has(i, name)
               PROVE <<s, listed[CHOOSE i \in 1 .. n : Has(i, name)]>> \in Owners
    OBVIOUS
  <2> DEFINE c == CHOOSE i \in 1 .. n : Has(i, name)
  <2>1. c \in 1 .. n
    OBVIOUS
  <2> HIDE DEF c
  <2>2. listed[c] \in Remote
    BY <1>4, <1>5, <2>1
  <2> QED
    BY <1>1, <2>2 DEF Owners, c
<1> HIDE DEF added
<1>7. \A table \in [Names -> Owners \union {Nobody}] : With(table) \in [Names -> Owners \union {Nobody}]
  BY <1>6
<1>8. registry = adapters /\ registry \in [Names -> Owners \union {Nobody}]
  BY DEF LinkInv, Tables, LinkTypeOK
<1>9. registry' = adapters' /\ registry' \in [Names -> Owners \union {Nobody}]
  BY <1>3, <1>7, <1>8
<1> HIDE DEF With
<1>10. LinkTypeOK'
  BY <1>1, <1>3, <1>9 DEF LinkInv, LinkTypeOK
<1>11. Tables'
  BY <1>3, <1>9 DEF Tables
<1>12. Transports'
  BY <1>1, <1>3 DEF LinkInv, LinkTypeOK, Transports, s
<1> QED
  BY <1>10, <1>11, <1>12 DEF LinkInv

LEMMA StartedKeeps == LinkInv /\ Started => LinkInv'
  BY DEF LinkInv, LinkTypeOK, Tables, Transports, Started, modeVars

LEMMA ShutdownKeeps == LinkInv /\ Shutdown => LinkInv'
<1> SUFFICES ASSUME LinkInv, Shutdown PROVE LinkInv'
  OBVIOUS
<1>1. /\ life = "up" /\ life' = "closing" /\ todo' \in SetToSeqs(links)
      /\ UNCHANGED <<enabled, failOpen, session, links, adapters, status>>
  BY DEF Shutdown, modeVars
<1>2. todo' \in SeqOf(Servers, Cardinality(Servers)) /\ \A s \in links : \E i \in DOMAIN todo' : todo'[i] = s
  BY <1>1, OrderType DEF LinkInv, LinkTypeOK
<1>3. registry' = [n \in Names |-> Nobody]
  BY <1>1 DEF Shutdown, LinkInv, Tables
<1>4. LinkTypeOK'
  BY <1>1, <1>2, <1>3 DEF LinkInv, LinkTypeOK
<1>5. Tables'
  BY <1>1, <1>3 DEF Tables
<1>6. Transports'
  BY <1>1, <1>2 DEF LinkInv, Transports
<1> QED
  BY <1>4, <1>5, <1>6 DEF LinkInv

LEMMA CloseKeeps == LinkInv /\ (CloseNext \/ Closed) => LinkInv'
<1> SUFFICES ASSUME LinkInv, CloseNext \/ Closed PROVE LinkInv'
  OBVIOUS
<1>1. CASE CloseNext
  <2>1. /\ life = "closing" /\ todo # <<>> /\ todo' = Tail(todo)
        /\ session' = [session EXCEPT ![Head(todo)] = "closed"]
        /\ UNCHANGED <<life, enabled, failOpen, links, adapters, registry, status>>
    BY <1>1 DEF CloseNext, modeVars
  <2>2. /\ Tail(todo) \in SeqOf(Servers, Cardinality(Servers)) /\ Head(todo) \in Servers
        /\ \A i \in DOMAIN todo : todo[i] # Head(todo) => \E j \in DOMAIN Tail(todo) : Tail(todo)[j] = todo[i]
    BY <2>1, TailType DEF LinkInv, LinkTypeOK
  <2>3. LinkTypeOK'
    BY <2>1, <2>2 DEF LinkInv, LinkTypeOK
  <2>4. Tables'
    BY <2>1 DEF LinkInv, Tables
  <2>5. Transports'
    BY <2>1, <2>2 DEF LinkInv, LinkTypeOK, Transports
  <2> QED
    BY <2>3, <2>4, <2>5 DEF LinkInv
<1>2. CASE Closed
  <2>1. \A s \in Servers : session[s] # "opening" /\ session[s] # "open"
    BY <1>2 DEF Closed, LinkInv, Transports
  <2> QED
    BY <1>2, <2>1 DEF Closed, LinkInv, LinkTypeOK, Tables, Transports, modeVars
<1> QED
  BY <1>1, <1>2

\* --------------------------------------------------------------------------
Results == [kind : {"none", "success", "failure", "raised", "cancelled"},
            from : {"none", "service", "mock", "local"}, marked : BOOLEAN]
Hows == {"full", "empty", "raised", "failed"}

\* How often each request is sent at most.
LEMMA PerRequestFacts ==
  /\ LlmRetries \in Nat /\ S2Retries \in Nat /\ S2Limited \in Nat /\ S2Wait \in Nat
  /\ OaRetries \in Nat /\ HeaderCap \in Nat /\ BackoffCap \in Nat
  /\ PerRequest("chat") = LlmRetries + 1
  /\ \A s \in S2Steps : PerRequest(s) = S2Retries + S2Limited + 1
  /\ PerRequest("oa_search") = OaRetries + 1 /\ PerRequest("oa_title") = OaRetries + 1
  /\ PerRequest("oa_content") = 1 /\ PerRequest("mcp") = 1
  BY CallAssumption DEF PerRequest, S2Steps, OaSteps

LEMMA PerRequestType ==
  ASSUME NEW s \in Steps
  PROVE PerRequest(s) \in Nat /\ PerRequest(s) # 0
  BY PerRequestFacts DEF Steps, S2Steps, OaSteps

LEMMA OpFacts ==
  ASSUME NEW o \in Operations \union ToolCalls \union {NoCall}
  PROVE /\ o.kind \in CallKinds \union {"mcp", "none"}
        /\ o = NoCall <=> o.kind = "none"
  BY CallAssumption DEF Operations, ToolCalls, NoCall, CallKinds

LEMMA BeforeType ==
  ASSUME CallTypes
  PROVE Before \in Nat
  BY PerRequestFacts DEF Before, S2Steps

\* What the answer of a call has to be.
Honest(answer, brought) ==
  answer.kind = "success" =>
    /\ answer.from = "service" => \E needed \in Needed : needed \subseteq brought
    /\ answer.from = "mock" <=> answer.marked
    /\ answer.marked => Is("mock")

LEMMA AnswerFacts ==
  /\ Failure \in Results /\ Failure.kind = "failure"
  /\ Service \in Results /\ Service.kind = "success" /\ Service.from = "service" /\ ~Service.marked
  /\ \A kind \in {"raised", "cancelled"} :
       Answer(kind, "none", FALSE) \in Results /\ Answer(kind, "none", FALSE).kind = kind
  /\ Answer("success", "mock", TRUE) \in Results /\ Answer("success", "mock", TRUE).from = "mock"
  /\ Answer("success", "mock", TRUE).marked
  /\ Answer("success", "local", FALSE) \in Results /\ Answer("success", "local", FALSE).from = "local"
  /\ ~Answer("success", "local", FALSE).marked
  /\ Pending \in Results /\ Pending.kind = "none"
  BY DEF Failure, Service, Answer, Pending, Results

LEMMA Finishes ==
  ASSUME CallInv, Busy, NEW answer \in Results, Finish(answer),
         op' = op, sent' = sent, good' \subseteq Steps, Honest(answer, good')
  PROVE CallInv'
<1>1. CallTypes'
  BY DEF CallInv, CallTypes, Busy, Finish, Results, reqVars
<1>2. ~Busy' /\ phase' = "done" /\ result' = answer
  BY DEF Finish, Busy
<1>3. WaitWithinBudget'
  BY DEF CallInv, WaitWithinBudget, Finish, reqVars
<1>4. Needed' = Needed /\ (Is("mock"))' = Is("mock")
  BY DEF Needed, Is
<1>5. AnswersHonest'
  BY <1>2, <1>4 DEF AnswersHonest, Honest
<1> QED
  BY <1>1, <1>2, <1>3, <1>5 DEF CallInv

LEMMA Requests ==
  ASSUME CallInv, Busy, NEW s \in Steps, Request(s),
         op' = op, sent' = sent, good' \subseteq Steps, OnTheWay', sent <= Before'
  PROVE CallInv'
<1>1. CallTypes'
  BY PerRequestFacts DEF CallInv, CallTypes, Busy, Request
<1>2. Counted'
  <2>1. tries' = 0 /\ transient' = 0 /\ limited' = 0 /\ phase' = "ready" /\ step' = s
    BY DEF Request
  <2>2. PerRequest(s) \in Nat /\ PerRequest(s) # 0
    BY PerRequestType
  <2>3. Before' \in Nat
    BY <1>1, PerRequestFacts DEF Before, S2Steps
  <2>4. tries' <= PerRequest(step') /\ tries' < PerRequest(step')
    BY <2>1, <2>2
  <2>5. sent' <= Before' + tries'
    <3>1. \A b \in Nat : b + 0 = b
      OBVIOUS
    <3>2. sent' <= Before'
      OBVIOUS
    <3>3. Before' + 0 = Before'
      BY <2>3, <3>1, Zenon
    <3> QED
      BY <2>1, <3>2, <3>3, Zenon
  <2> QED
    BY <2>1, <2>4, <2>5 DEF Counted
<1>3. WaitWithinBudget' /\ AnswersHonest'
  BY PerRequestFacts DEF Request, WaitWithinBudget, AnswersHonest
<1> QED
  BY <1>1, <1>2, <1>3 DEF CallInv

\* What was sent before the end of a request.
LEMMA SentFacts ==
  ASSUME CallInv, Busy
  PROVE sent <= Before + PerRequest(step) /\ sent \in Nat /\ Before \in Nat /\ PerRequest(step) \in Nat
  BY BeforeType, PerRequestType DEF CallInv, Counted, CallTypes

\* --------------------------------------------------------------------------
\* The end of a request, for each kind of call.
Brings(how) ==
  /\ good' = (IF Usable(how) THEN good \union {step} ELSE good)
  /\ op' = op /\ sent' = sent

LEMMA BringsFacts ==
  ASSUME CallInv, NEW how \in Hows, Brings(how)
  PROVE good' \subseteq Steps /\ good \subseteq good' /\ op' = op /\ sent' = sent
  BY DEF Brings, CallInv, CallTypes

LEMMA SimpleEnds ==
  ASSUME CallInv, Busy, NEW how \in Hows, Brings(how),
         \/ op.kind \in {"generate", "functions", "mcp"} /\ Outcome(how = "full")
         \/ op.kind = "search" /\ SearchEnds(how)
  PROVE CallInv'
<1>1. good' \subseteq Steps /\ op' = op /\ sent' = sent
  BY BringsFacts
<1>2. CASE Finish(Failure)
  BY <1>1, <1>2, Finishes, AnswerFacts DEF Honest
<1>3. CASE Finish(Service) /\ (how = "full" \/ (op.kind = "search" /\ how = "empty"))
  <2>1. OnTheWay
    BY DEF CallInv
  <2>2. step \in good'
    BY <1>3, <2>1 DEF Brings, Usable, OnTheWay
  <2>3. \E needed \in Needed : needed \subseteq good'
    <3>1. {step} \in Needed
      BY <2>1 DEF OnTheWay, Needed
    <3> QED
      BY <2>2, <3>1
  <2> QED
    BY <1>1, <1>3, <2>3, Finishes, AnswerFacts DEF Honest
<1> QED
  BY <1>2, <1>3 DEF Outcome, SearchEnds

LEMMA RecommendEndKeeps ==
  ASSUME CallInv, Busy, NEW how \in Hows, Brings(how), op.kind = "recommend", RecommendEnds(how)
  PROVE CallInv'
<1>1. good' \subseteq Steps /\ good \subseteq good' /\ op' = op /\ sent' = sent /\ OnTheWay
  BY BringsFacts DEF CallInv
<1>2. CASE Finish(Failure)
  BY <1>1, <1>2, Finishes, AnswerFacts DEF Honest
<1>3. CASE step = "seed" /\ how = "full" /\ Request("recommend")
  <2>1. "seed" \in good' /\ ~Is("direct")
    BY <1>1, <1>3 DEF Brings, Usable, OnTheWay
  <2>2. OnTheWay'
    BY <1>1, <1>3, <2>1 DEF OnTheWay, Request, Is
  <2>3. Before = 0 /\ Before' = PerRequest("match") /\ PerRequest(step) = PerRequest("match")
    BY <1>1, <1>3, <2>1, PerRequestFacts DEF Before, Request, Is, S2Steps, PerRequest
  <2>4. sent <= Before'
    BY <2>3, SentFacts
  <2>5. "recommend" \in Steps
    BY DEF Steps, S2Steps
  <2> QED
    BY <1>1, <1>3, <2>2, <2>4, <2>5, Requests
<1>4. CASE Finish(Service) /\ step = "recommend" /\ how \in {"full", "empty"}
  <2>1. "recommend" \in good' /\ (Is("direct") \/ "seed" \in good')
    BY <1>1, <1>4 DEF Brings, Usable, OnTheWay
  <2>2. \E needed \in Needed : needed \subseteq good'
    BY <2>1 DEF Needed
  <2> QED
    BY <1>1, <1>4, <2>2, Finishes, AnswerFacts DEF Honest
<1> QED
  BY <1>2, <1>3, <1>4 DEF RecommendEnds, Outcome

LEMMA GraphEndKeeps ==
  ASSUME CallInv, Busy, NEW how \in Hows, Brings(how),
         op.kind \in {"details", "relation"}, GraphEnds(how)
  PROVE CallInv'
<1>1. good' \subseteq Steps /\ good \subseteq good' /\ op' = op /\ sent' = sent /\ OnTheWay
  BY BringsFacts DEF CallInv
<1>2. CASE Finish(Failure)
  BY <1>1, <1>2, Finishes, AnswerFacts DEF Honest
<1>3. CASE Matched(how) /\ Request(op.kind)
  <2>1. "match" \in good' /\ ~Is("direct") /\ step = "match"
    BY <1>1, <1>3 DEF Brings, Usable, OnTheWay, Matched
  <2>2. OnTheWay'
    BY <1>1, <1>3, <2>1 DEF OnTheWay, Request, Is
  <2>3. Before = 0 /\ Before' = PerRequest("match")
    BY <1>1, <1>3, <2>1 DEF Before, Request, Is
  <2>4. sent <= Before'
    BY <2>1, <2>3, SentFacts
  <2>5. op.kind \in Steps
    BY DEF Steps, S2Steps
  <2> QED
    BY <1>1, <1>3, <2>2, <2>4, <2>5, Requests
<1>4. CASE Finish(Service) /\ step # "match" /\ (how = "full" \/ (how = "empty" /\ Is("later")))
  <2>1. step = op.kind /\ (Is("direct") \/ "match" \in good)
    BY <1>1, <1>4 DEF OnTheWay
  <2>2. op.kind \in good'
    BY <1>4, <2>1 DEF Brings, Usable
  <2>3. \E needed \in Needed : needed \subseteq good'
    BY <1>1, <2>1, <2>2 DEF Needed
  <2> QED
    BY <1>1, <1>4, <2>3, Finishes, AnswerFacts DEF Honest
<1> QED
  BY <1>2, <1>3, <1>4 DEF GraphEnds, Outcome

LEMMA OpenAlexEndKeeps ==
  ASSUME CallInv, Busy, NEW how \in Hows, Brings(how), op.kind = "openalex", OpenAlexEnds(how), how # "raised"
  PROVE CallInv'
<1>1. good' \subseteq Steps /\ good \subseteq good' /\ op' = op /\ sent' = sent /\ OnTheWay
  BY BringsFacts DEF CallInv
<1>2. CASE Fallback
  <2>1. CASE Is("mock") /\ Finish(Answer("success", "mock", TRUE))
    BY <1>1, <2>1, Finishes, AnswerFacts DEF Honest
  <2>2. CASE Finish(Failure)
    BY <1>1, <2>2, Finishes, AnswerFacts DEF Honest
  <2> QED
    BY <1>2, <2>1, <2>2 DEF Fallback
<1>3. CASE step = "oa_search" /\ how = "full" /\ Request("oa_content")
  <2>1. "oa_search" \in good'
    BY <1>3 DEF Brings, Usable
  <2>2. OnTheWay'
    BY <1>1, <1>3, <2>1 DEF OnTheWay, Request
  <2>3. Before = 0 /\ Before' = PerRequest("oa_search")
    BY <1>1, <1>3 DEF Before, Request
  <2>4. sent <= Before'
    BY <1>3, <2>3, SentFacts
  <2>5. "oa_content" \in Steps
    BY DEF Steps
  <2> QED
    BY <1>1, <1>3, <2>2, <2>4, <2>5, Requests
<1>4. CASE Finish(Service) /\ ~(step = "oa_search" /\ how = "failed")
  <2>1. "oa_search" \in good'
    BY <1>1, <1>4 DEF Brings, Usable, OnTheWay, Hows
  <2>2. \E needed \in Needed : needed \subseteq good'
    BY <2>1 DEF Needed
  <2> QED
    BY <1>1, <1>4, <2>2, Finishes, AnswerFacts DEF Honest
<1> QED
  BY <1>2, <1>3, <1>4 DEF OpenAlexEnds

LEMMA DetailEndKeeps ==
  ASSUME CallInv, Busy, NEW how \in Hows, Brings(how), op.kind = "detail", DetailEnds(how)
  PROVE CallInv'
<1>1. good' \subseteq Steps /\ good \subseteq good' /\ op' = op /\ sent' = sent /\ OnTheWay
  BY BringsFacts DEF CallInv
<1>2. CASE Finish(Failure)
  BY <1>1, <1>2, Finishes, AnswerFacts DEF Honest
<1>3. CASE Matched(how) /\ Request("details")
  <2>1. "match" \in good' /\ ~Is("direct") /\ step = "match"
    BY <1>1, <1>3 DEF Brings, Usable, OnTheWay, Matched
  <2>2. OnTheWay'
    BY <1>1, <1>3, <2>1 DEF OnTheWay, Request, Is
  <2>3. Before = 0 /\ Before' = PerRequest("match")
    BY <1>1, <1>3, <2>1 DEF Before, Request, Is
  <2>4. sent <= Before'
    BY <2>1, <2>3, SentFacts
  <2>5. "details" \in Steps
    BY DEF Steps, S2Steps
  <2> QED
    BY <1>1, <1>3, <2>2, <2>4, <2>5, Requests
<1>4. CASE step # "oa_title" /\ Request("oa_title")
  <2>1. OnTheWay'
    BY <1>1, <1>4 DEF OnTheWay, Request
  <2>2. /\ step \in {"match", "details"} /\ Before \in {0, PerRequest("match")}
        /\ Before' = 2 * PerRequest("match") /\ PerRequest(step) = PerRequest("match")
        /\ PerRequest("match") \in Nat
    BY <1>1, <1>4, PerRequestFacts DEF OnTheWay, Before, Request, S2Steps
  <2>3. sent <= Before'
    BY <2>2, SentFacts
  <2>4. "oa_title" \in Steps
    BY DEF Steps, OaSteps
  <2> QED
    BY <1>1, <1>4, <2>1, <2>3, <2>4, Requests
<1>5. CASE Finish(Service) /\ how = "full" /\ step # "match"
  <2>1. step \in good' /\ step \in {"details", "oa_title"}
    BY <1>1, <1>5 DEF Brings, Usable, OnTheWay
  <2>2. step = "details" => Is("direct") \/ "match" \in good'
    BY <1>1, <1>5 DEF OnTheWay
  <2>3. \E needed \in Needed : needed \subseteq good'
    BY <2>1, <2>2 DEF Needed
  <2> QED
    BY <1>1, <1>5, <2>3, Finishes, AnswerFacts DEF Honest
<1> QED
  BY <1>2, <1>3, <1>4, <1>5 DEF DetailEnds, Matched, Outcome

\* However a request ends, the call goes on or is answered honestly.
LEMMA OverKeeps ==
  ASSUME CallInv, Busy, NEW how \in Hows, Over(how)
  PROVE CallInv'
<1>1. Ended(how) /\ Brings(how)
  BY DEF Over, Brings
<1>2. op.kind \in CallKinds \union {"mcp"}
  BY OpFacts DEF CallInv, CallTypes, Busy
<1>3. CASE op.kind = "detail"
  <2>1. DetailEnds(how)
    BY <1>1, <1>3 DEF Ended
  <2> QED
    BY <1>1, <1>3, <2>1, DetailEndKeeps
<1>4. CASE op.kind # "detail" /\ how = "raised"
  <2>1. \E answer \in {Failure, Answer("raised", "none", FALSE)} : Finish(answer)
    BY <1>1, <1>4 DEF Ended
  <2> QED
    BY <1>1, <2>1, BringsFacts, Finishes, AnswerFacts DEF Honest
<1>5. CASE op.kind # "detail" /\ how # "raised"
  <2>1. CASE op.kind = "search"
    BY <1>1, <1>5, <2>1, SimpleEnds DEF Ended
  <2>2. CASE op.kind = "recommend"
    BY <1>1, <1>5, <2>2, RecommendEndKeeps DEF Ended
  <2>3. CASE op.kind \in {"details", "relation"}
    BY <1>1, <1>5, <2>3, GraphEndKeeps DEF Ended
  <2>4. CASE op.kind = "openalex"
    BY <1>1, <1>5, <2>4, OpenAlexEndKeeps DEF Ended
  <2>5. CASE op.kind \in {"generate", "functions", "mcp"}
    BY <1>1, <1>5, <2>5, SimpleEnds DEF Ended, McpEnds
  <2> QED
    BY <1>2, <1>5, <2>1, <2>2, <2>3, <2>4, <2>5 DEF CallKinds
<1> QED
  BY <1>3, <1>4, <1>5

\* --------------------------------------------------------------------------
\* Trying again.
LEMMA PowerType ==
  ASSUME NEW n \in Nat
  PROVE 2 ^ n \in Nat
<1>1. IsFiniteSet(1 .. n) /\ Cardinality(1 .. n) = n
  BY FS_Interval
<1>2. IsFiniteSet(SUBSET (1 .. n)) /\ Cardinality(SUBSET (1 .. n)) = 2 ^ n
  <2>1. Cardinality(SUBSET (1 .. n)) = 2 ^ Cardinality(1 .. n) /\ IsFiniteSet(SUBSET (1 .. n))
    BY <1>1, FS_SUBSET
  <2> QED
    BY <1>1, <2>1, Zenon
<1> QED
  BY <1>2, FS_CardinalityType

LEMMA BackoffType ==
  ASSUME NEW n \in Nat
  PROVE Backoff(n) \in Nat
<1>1. 2 ^ n \in Nat
  BY PowerType
<1> DEFINE power == 2 ^ n
<1> HIDE DEF power
<1>2. Low(BackoffCap, power) \in Nat
  BY <1>1, PerRequestFacts DEF Low, power
<1> QED
  BY <1>2 DEF Backoff, power

LEMMA DelaysType ==
  /\ \A d \in HeaderDelays : Low(d, HeaderCap) \in Nat
  /\ \A n \in Nat : Delays(n) \subseteq Nat
<1>1. \A d \in HeaderDelays : Low(d, HeaderCap) \in Nat
  BY CallAssumption, PerRequestFacts DEF Low
<1>2. \A n \in Nat : Backoff(n) \in Nat
  BY BackoffType
<1> QED
  BY <1>1, <1>2 DEF Delays

LEMMA AgainKeeps ==
  ASSUME CallInv, phase = "sent", NEW delay \in Nat, Again(delay),
         transient' \in 0 .. S2Retries, limited' \in 0 .. S2Limited,
         tries < PerRequest(step),
         step \in S2Steps => waited + delay <= S2Wait /\ tries = transient' + limited'
  PROVE CallInv'
<1>1. /\ phase' \in {"ready", "asleep"} /\ waited' = waited + delay
      /\ UNCHANGED <<op, step, tries, sent, good, result>>
  BY DEF Again
<1>2. CallTypes'
  BY <1>1 DEF CallInv, CallTypes
<1>3. OnTheWay'
  BY <1>1 DEF CallInv, Busy, OnTheWay, Is
<1>4. Before' = Before
  BY <1>1 DEF Before, Is
<1>5. Counted'
  <2>1. Counted /\ tries \in Nat
    BY DEF CallInv, Busy, CallTypes
  <2>2. PerRequest(step') = PerRequest(step) /\ PerRequest(step) \in Nat
    BY <1>1, PerRequestType DEF CallInv, CallTypes
  <2>3. sent' <= Before' + tries'
    BY <1>1, <1>4, <2>1, Zenon DEF Counted
  <2>4. tries' <= PerRequest(step') /\ tries' < PerRequest(step') /\ phase' # "sent"
    BY <1>1, <2>1, <2>2
  <2>5. step' \in S2Steps => tries' = transient' + limited' + 0
    BY <1>1
  <2> QED
    BY <2>3, <2>4, <2>5, Zenon DEF Counted
<1>6. WaitWithinBudget' /\ AnswersHonest'
  BY <1>1 DEF WaitWithinBudget, AnswersHonest
<1> QED
  BY <1>2, <1>3, <1>5, <1>6 DEF CallInv

\* What is known of a request that is answered.
LEMMA AnsweredFacts ==
  ASSUME CallInv, phase = "sent"
  PROVE /\ Busy /\ OnTheWay /\ step \in Steps /\ tries \in Nat /\ tries # 0 /\ waited \in Nat
        /\ transient \in 0 .. S2Retries /\ limited \in 0 .. S2Limited
        /\ step \in S2Steps => tries = transient + limited + 1
  BY DEF CallInv, CallTypes, Counted, Busy

LEMMA ChatKeeps ==
  ASSUME CallInv, phase = "sent", step = "chat", NEW answer,
         Generate(answer) \/ FunctionCall(answer)
  PROVE CallInv'
<1>1. Busy /\ "full" \in Hows /\ "failed" \in Hows
  BY AnsweredFacts DEF Hows
<1>2. CASE \E how \in Hows : Over(how)
  BY <1>1, <1>2, OverKeeps
<1>3. CASE ~(tries > LlmRetries) /\ Again(0) /\ UNCHANGED <<transient, limited>>
  <2>1. tries < PerRequest(step)
    BY <1>3, AnsweredFacts, PerRequestFacts
  <2>2. step \notin S2Steps
    BY DEF S2Steps
  <2> QED
    BY <1>3, <2>1, <2>2, AnsweredFacts, AgainKeeps
<1> QED
  BY <1>1, <1>2, <1>3 DEF Generate, FunctionCall, Chat

LEMMA S2Keeps ==
  ASSUME CallInv, phase = "sent", step \in S2Steps, NEW answer \in ServiceAnswers, S2(answer)
  PROVE CallInv'
<1>1. Busy /\ {"full", "empty", "raised", "failed"} = Hows
  BY AnsweredFacts DEF Hows
<1>2. CASE \E how \in Hows : Over(how)
  BY <1>1, <1>2, OverKeeps
<1>3. CASE S2RetryAfter(answer) /\ ~\E how \in Hows : Over(how)
  <2> DEFINE slow == answer = "limited"
             count == IF slow THEN limited ELSE transient
             most == IF slow THEN S2Limited ELSE S2Retries
  <2>1. count \in Nat
    BY AnsweredFacts
  <2>2. PICK delay \in (IF answer \in {"timeout", "broken"} THEN {Backoff(count)} ELSE Delays(count)) :
          IF Retry(count, most, delay)
          THEN /\ Again(delay)
               /\ limited' = IF slow THEN limited + 1 ELSE limited
               /\ transient' = IF slow THEN transient ELSE transient + 1
          ELSE Over("failed")
    BY <1>3 DEF S2RetryAfter
  <2>3. delay \in Nat
    BY <2>1, BackoffType, DelaysType
  <2>4. /\ count < most /\ waited + delay <= S2Wait /\ Again(delay)
        /\ limited' = (IF slow THEN limited + 1 ELSE limited)
        /\ transient' = (IF slow THEN transient ELSE transient + 1)
    BY <1>1, <1>3, <2>2 DEF Retry
  <2>5. /\ transient' \in 0 .. S2Retries /\ limited' \in 0 .. S2Limited
        /\ tries = transient' + limited'
    BY <2>4, AnsweredFacts, PerRequestFacts
  <2>6. tries < PerRequest(step)
    <3>1. transient' <= S2Retries /\ limited' <= S2Limited /\ transient' \in Nat /\ limited' \in Nat
      BY <2>5
    <3>2. PerRequest(step) = S2Retries + S2Limited + 1
      BY PerRequestFacts
    <3>3. S2Retries \in Nat /\ S2Limited \in Nat
      BY PerRequestFacts
    <3>4. \A x, y, u, v \in Nat : x <= u /\ y <= v => x + y < u + v + 1
      OBVIOUS
    <3>5. transient' + limited' < S2Retries + S2Limited + 1
      BY <3>1, <3>3, <3>4, Zenon
    <3> QED
      BY <2>5, <3>2, <3>5, Zenon
  <2> QED
    BY <2>3, <2>4, <2>5, <2>6, AgainKeeps
<1>4. S2RetryAfter(answer) \/ \E how \in Hows : Over(how)
  <2>1. CASE answer \in {"full", "empty"}
    BY <1>1, <2>1 DEF S2
  <2>2. CASE answer = "misshapen"
    BY <1>1, <2>2 DEF S2
  <2>3. CASE answer \in {"unparsable", "refused", "odd"}
    BY <1>1, <2>3 DEF S2
  <2>4. CASE answer \in {"limited", "down", "timeout", "broken"}
    BY <2>4 DEF S2
  <2> QED
    BY <2>1, <2>2, <2>3, <2>4 DEF ServiceAnswers
<1> QED
  BY <1>2, <1>3, <1>4

LEMMA OpenAlexKeeps ==
  ASSUME CallInv, phase = "sent", step \in OaSteps, NEW answer \in ServiceAnswers, OpenAlex(answer)
  PROVE CallInv'
<1>1. Busy /\ {"full", "empty", "raised", "failed"} = Hows
  BY AnsweredFacts DEF Hows
<1>2. CASE \E how \in Hows : Over(how)
  BY <1>1, <1>2, OverKeeps
<1>3. CASE OaRetryAfter(answer) /\ tries <= OaRetries
  <2>1. tries - 1 \in Nat
    BY AnsweredFacts
  <2>2. UNCHANGED <<transient, limited>> /\ \E delay \in Nat : Again(delay)
    BY <1>3, <2>1, BackoffType, DelaysType DEF OaRetryAfter
  <2>3. tries < PerRequest(step)
    BY <1>3, AnsweredFacts, PerRequestFacts DEF OaSteps
  <2>4. step \notin S2Steps
    BY DEF S2Steps, OaSteps
  <2> QED
    BY <2>2, <2>3, <2>4, AnsweredFacts, AgainKeeps
<1>4. OaRetryAfter(answer) \/ \E how \in Hows : Over(how)
  <2>1. CASE answer \in {"full", "empty"}
    BY <1>1, <2>1 DEF OpenAlex
  <2>2. CASE answer \in {"unparsable", "refused", "odd"}
    BY <1>1, <2>2 DEF OpenAlex
  <2>3. CASE answer \in {"misshapen", "limited", "down", "timeout", "broken"}
    BY <2>3 DEF OpenAlex
  <2> QED
    BY <2>1, <2>2, <2>3 DEF ServiceAnswers
<1> QED
  BY <1>1, <1>2, <1>3, <1>4 DEF OaRetryAfter

\* Whatever the service answers.
LEMMA AnswersKeep == CallInv /\ Answers => CallInv'
<1> SUFFICES ASSUME CallInv, Answers PROVE CallInv'
  OBVIOUS
<1>1. phase = "sent" /\ Busy /\ OnTheWay /\ "full" \in Hows /\ "empty" \in Hows /\ "failed" \in Hows
  BY AnsweredFacts DEF Answers, Hows
<1>2. CASE step = "chat"
  <2>1. op.kind \in {"generate", "functions"}
    BY <1>1, <1>2 DEF OnTheWay
  <2>2. \E answer : Generate(answer) \/ FunctionCall(answer)
    BY <1>2, <2>1 DEF Answers, S2Steps
  <2> QED
    BY <1>1, <1>2, <2>2, ChatKeeps
<1>3. CASE step \in S2Steps
  <2>1. \E answer \in ServiceAnswers : S2(answer)
    BY <1>3 DEF Answers, S2Steps
  <2> QED
    BY <1>1, <1>3, <2>1, S2Keeps
<1>4. CASE step \in OaSteps
  <2>1. \E answer \in ServiceAnswers : OpenAlex(answer)
    BY <1>4 DEF Answers, OpenAlexTitle, S2Steps, OaSteps
  <2> QED
    BY <1>1, <1>4, <2>1, OpenAlexKeeps
<1>5. CASE step \in {"oa_content", "mcp"}
  <2>1. \E how \in Hows : Over(how)
    BY <1>1, <1>5 DEF Answers, S2Steps, Content, McpAnswer
  <2> QED
    BY <1>1, <2>1, OverKeeps
<1> QED
  BY <1>1, <1>2, <1>3, <1>4, <1>5, AnsweredFacts DEF Steps

\* --------------------------------------------------------------------------
\* The beginning and the end of a call.
LEMMA Starts ==
  ASSUME NEW o \in Operations \union ToolCalls, op' = o, sent' = 0, good' = {}, Fresh,
         NEW s \in Steps, Start(s), OnTheWay'
  PROVE CallInv'
<1>1. CallTypes'
  <2>1. o.kind # "none"
    BY CallAssumption DEF Operations, ToolCalls, CallKinds
  <2> QED
    BY <2>1, AnswerFacts, PerRequestFacts DEF CallTypes, Start, Fresh, Results
<1>2. Counted'
  <2>1. tries' = 0 /\ transient' = 0 /\ limited' = 0 /\ phase' = "ready" /\ step' = s
    BY DEF Start, Fresh
  <2>2. tries' <= PerRequest(step') /\ tries' < PerRequest(step')
    BY <2>1, PerRequestType
  <2>3. \A b \in Nat : 0 <= b + 0
    OBVIOUS
  <2>4. Before' \in Nat
    BY <1>1, PerRequestFacts DEF Before, S2Steps, CallTypes
  <2>5. sent' <= Before' + tries'
    BY <2>1, <2>3, <2>4, Zenon
  <2> QED
    BY <2>1, <2>2, <2>5 DEF Counted
<1>3. WaitWithinBudget' /\ AnswersHonest'
  BY PerRequestFacts DEF Start, Fresh, WaitWithinBudget, AnswersHonest
<1> QED
  BY <1>1, <1>2, <1>3 DEF CallInv

LEMMA EndsAtOnce ==
  ASSUME CallInv, NEW o \in Operations \union ToolCalls, op' = o, sent' = 0, good' = {}, Fresh,
         NEW answer \in Results, AtOnce(answer),
         answer.from # "service", answer.from = "mock" <=> answer.marked,
         answer.marked => "mock" \in o.flags
  PROVE CallInv'
<1>1. CallTypes'
  <2>1. o.kind # "none"
    BY CallAssumption DEF Operations, ToolCalls, CallKinds
  <2> QED
    BY <2>1, PerRequestFacts DEF CallInv, CallTypes, AtOnce, Fresh, Results
<1>2. ~Busy'
  BY DEF AtOnce, Busy
<1>3. WaitWithinBudget' /\ AnswersHonest'
  BY PerRequestFacts DEF AtOnce, Fresh, WaitWithinBudget, AnswersHonest, Is
<1> QED
  BY <1>1, <1>2, <1>3 DEF CallInv

LEMMA BeginsKeep == CallInv /\ Begins => CallInv'
<1> SUFFICES ASSUME CallInv, Begins PROVE CallInv'
  OBVIOUS
<1>1. PICK o \in Operations \union ToolCalls :
        /\ Begin(o)
        /\ \/ BeginChat(o) \/ BeginSearch(o) \/ BeginRecommend(o) \/ BeginGraph(o)
           \/ BeginOpenAlex(o) \/ BeginDetail(o) \/ BeginMcp(o)
  BY DEF Begins
<1>2. op' = o /\ sent' = 0 /\ good' = {} /\ Fresh
  BY <1>1 DEF Begin
<1>3. \A s \in Steps : Start(s) /\ OnTheWay' => CallInv'
  BY <1>2, Starts
<1>4. \A answer \in Results :
        AtOnce(answer) /\ answer.from # "service" /\ (answer.from = "mock" <=> answer.marked)
          /\ (answer.marked => "mock" \in o.flags) => CallInv'
  BY <1>2, EndsAtOnce
<1>5. AtOnce(Failure) => CallInv'
  BY <1>4, AnswerFacts DEF Failure, Answer
<1>6. CASE BeginChat(o) \/ BeginSearch(o) \/ BeginMcp(o)
  <2>1. CASE \E s \in {"chat", "search", "mcp"} : Start(s) /\ (o.kind = s \/ (s = "chat" /\ o.kind \in {"generate", "functions"}))
    <3>1. PICK s \in {"chat", "search", "mcp"} :
            Start(s) /\ (o.kind = s \/ (s = "chat" /\ o.kind \in {"generate", "functions"}))
      BY <2>1
    <3>2. o.kind = "chat" => FALSE
      BY CallAssumption DEF Operations, ToolCalls, CallKinds
    <3>3. OnTheWay'
      BY <1>2, <3>1, <3>2 DEF OnTheWay, Start
    <3>4. s \in Steps
      BY DEF Steps, S2Steps
    <3> QED
      BY <1>3, <3>1, <3>3, <3>4
  <2> QED
    BY <1>5, <1>6, <2>1 DEF BeginChat, BeginSearch, BeginMcp
<1>7. CASE BeginRecommend(o)
  <2>1. \E s \in {"recommend", "seed"} : Start(s) /\ (s = "recommend" <=> "direct" \in o.flags)
    BY <1>7 DEF BeginRecommend
  <2> QED
    BY <1>2, <1>3, <1>7, <2>1 DEF OnTheWay, Start, Steps, S2Steps, Is, BeginRecommend
<1>8. CASE BeginGraph(o)
  <2>1. \E s \in {o.kind, "match"} : Start(s) /\ (s = o.kind <=> "direct" \in o.flags)
    BY <1>8 DEF BeginGraph
  <2> QED
    BY <1>2, <1>3, <1>8, <2>1 DEF OnTheWay, Start, Steps, S2Steps, Is, BeginGraph
<1>9. CASE BeginOpenAlex(o)
  <2>1. CASE Start("oa_search")
    BY <1>2, <1>3, <1>9, <2>1 DEF OnTheWay, Start, Steps, OaSteps, BeginOpenAlex
  <2>2. CASE AtOnce(Answer("success", "mock", TRUE)) /\ "mock" \in o.flags
    BY <1>4, <2>2, AnswerFacts
  <2> QED
    BY <1>5, <1>9, <2>1, <2>2 DEF BeginOpenAlex
<1>10. CASE BeginDetail(o)
  <2>1. CASE \E s \in {"details", "match"} : Start(s) /\ (s = "details" <=> "direct" \in o.flags)
    BY <1>2, <1>3, <1>10, <2>1 DEF OnTheWay, Start, Steps, S2Steps, Is, BeginDetail
  <2>2. CASE AtOnce(Answer("success", "local", FALSE))
    BY <1>4, <2>2, AnswerFacts
  <2> QED
    BY <1>10, <2>1, <2>2 DEF BeginDetail
<1> QED
  BY <1>1, <1>6, <1>7, <1>8, <1>9, <1>10

LEMMA SendKeeps == CallInv /\ Send => CallInv'
<1> SUFFICES ASSUME CallInv, Send PROVE CallInv'
  OBVIOUS
<1>1. phase = "ready" /\ Busy /\ OnTheWay /\ Counted /\ "failed" \in Hows
  BY DEF Send, CallInv, Busy, Hows
<1>2. CASE Over("failed")
  BY <1>1, <1>2, OverKeeps
<1>3. CASE /\ phase' = "sent" /\ tries' = tries + 1 /\ sent' = sent + 1
           /\ UNCHANGED <<op, step, transient, limited, waited, good, result>>
  <2>1. CallTypes'
    BY <1>1, <1>3 DEF CallInv, CallTypes
  <2>2. OnTheWay' /\ Before' = Before
    BY <1>1, <1>3 DEF OnTheWay, Before, Is
  <2>3. /\ tries \in Nat /\ sent \in Nat /\ Before \in Nat /\ PerRequest(step) \in Nat
        /\ transient \in Nat /\ limited \in Nat
    BY BeforeType, PerRequestType DEF CallInv, CallTypes
  <2>4. tries < PerRequest(step) /\ sent <= Before + tries /\ (step \in S2Steps => tries = transient + limited + 0)
    BY <1>1, <2>3 DEF Counted
  <2>5. /\ \A t, p \in Nat : t < p => t + 1 <= p /\ t + 1 # 0
        /\ \A s, b, t \in Nat : s <= b + t => s + 1 <= b + (t + 1)
        /\ \A t, x, y \in Nat : t = x + y + 0 => t + 1 = x + y + 1
    OBVIOUS
  <2>6. /\ tries + 1 <= PerRequest(step) /\ tries + 1 # 0 /\ sent + 1 <= Before + (tries + 1)
        /\ step \in S2Steps => tries + 1 = transient + limited + 1
    <3>1. tries + 1 <= PerRequest(step) /\ tries + 1 # 0
      BY <2>3, <2>4, <2>5, Zenon
    <3>2. sent + 1 <= Before + (tries + 1)
      BY <2>3, <2>4, <2>5, Zenon
    <3>3. ASSUME step \in S2Steps PROVE tries + 1 = transient + limited + 1
      <4>1. tries = transient + limited + 0
        BY <2>4, <3>3
      <4> QED
        BY <2>3, <4>1
    <3> QED
      BY <3>1, <3>2, <3>3, Zenon
  <2>7. Counted'
    BY <1>3, <2>2, <2>6, Zenon DEF Counted
  <2>8. WaitWithinBudget' /\ AnswersHonest'
    BY <1>3 DEF CallInv, WaitWithinBudget, AnswersHonest
  <2> QED
    BY <2>1, <2>2, <2>7, <2>8 DEF CallInv
<1> QED
  BY <1>2, <1>3 DEF Send

LEMMA WakeKeeps == CallInv /\ Wake => CallInv'
<1> SUFFICES ASSUME CallInv, Wake PROVE CallInv'
  OBVIOUS
<1>1. /\ phase = "asleep" /\ phase' = "ready"
      /\ UNCHANGED <<op, step, tries, transient, limited, waited, sent, good, result>>
  BY DEF Wake, reqVars
<1>2. CallTypes'
  BY <1>1 DEF CallInv, CallTypes
<1>3. OnTheWay' /\ Before' = Before
  BY <1>1 DEF CallInv, Busy, OnTheWay, Before, Is
<1>4. Counted'
  BY <1>1, <1>3, Zenon DEF CallInv, Busy, Counted
<1>5. WaitWithinBudget' /\ AnswersHonest'
  BY <1>1 DEF CallInv, WaitWithinBudget, AnswersHonest
<1> QED
  BY <1>2, <1>3, <1>4, <1>5 DEF CallInv

LEMMA GateTimeoutKeeps == CallInv /\ GateTimeout => CallInv'
<1> SUFFICES ASSUME CallInv, GateTimeout PROVE CallInv'
  OBVIOUS
<1>1. Busy /\ op' = op /\ sent' = sent /\ good' \subseteq Steps
  BY DEF GateTimeout, Busy, CallInv, CallTypes
<1>2. \E answer \in {Failure, Answer("cancelled", "none", FALSE)} : Finish(answer)
  BY DEF GateTimeout
<1> QED
  BY <1>1, <1>2, Finishes, AnswerFacts DEF Honest

LEMMA ReturnedKeeps == CallInv /\ Returned => CallInv'
<1> SUFFICES ASSUME CallInv, Returned PROVE CallInv'
  OBVIOUS
<1>1. CallTypes'
  BY PerRequestFacts, AnswerFacts DEF CallInv, CallTypes, Returned, Fresh, Results
<1>2. ~Busy' /\ WaitWithinBudget' /\ AnswersHonest'
  BY PerRequestFacts DEF Returned, Fresh, Busy, WaitWithinBudget, AnswersHonest
<1> QED
  BY <1>1, <1>2 DEF CallInv

\* --------------------------------------------------------------------------
LEMMA LinkStepKeeps == LinkInv /\ (LinkNext \/ UNCHANGED linkVars) => LinkInv'
<1> SUFFICES ASSUME LinkInv, LinkNext \/ UNCHANGED linkVars PROVE LinkInv'
  OBVIOUS
<1>1. CASE UNCHANGED linkVars
  BY <1>1 DEF linkVars, modeVars, LinkInv, LinkTypeOK, Tables, Transports
<1>2. CASE InitializeServer
  BY <1>2, SkipKeeps, OpenKeeps, ConnectFailsKeeps, ListedKeeps DEF InitializeServer
<1>3. CASE Initialize \/ Started \/ Shutdown \/ CloseNext \/ Closed
  BY <1>3, InitializeKeeps, StartedKeeps, ShutdownKeeps, CloseKeeps
<1> QED
  BY <1>1, <1>2, <1>3 DEF LinkNext

LEMMA CallStepKeeps == CallInv /\ (Begins \/ Progress \/ Returned \/ UNCHANGED callVars) => CallInv'
<1> SUFFICES ASSUME CallInv, Begins \/ Progress \/ Returned \/ UNCHANGED callVars PROVE CallInv'
  OBVIOUS
<1>1. CASE UNCHANGED callVars
  <2>1. UNCHANGED <<op, step, phase, tries, transient, limited, waited, sent, good, result>>
    BY <1>1 DEF callVars, reqVars
  <2>2. CallTypes' = CallTypes /\ Busy' = Busy /\ OnTheWay' = OnTheWay /\ Before' = Before
    BY <2>1 DEF CallTypes, Busy, OnTheWay, Before, Is
  <2>3. Counted' = Counted
    BY <2>1, <2>2, Zenon DEF Counted
  <2>4. WaitWithinBudget' = WaitWithinBudget /\ AnswersHonest' = AnswersHonest
    BY <2>1 DEF WaitWithinBudget, AnswersHonest, Needed, Is
  <2> QED
    BY <2>2, <2>3, <2>4 DEF CallInv
<1> QED
  BY <1>1, BeginsKeep, AnswersKeep, SendKeeps, WakeKeeps, GateTimeoutKeeps, ReturnedKeeps DEF Progress

\* The steps of a call leave the manager alone, and the manager's leave the call.
LEMMA StepsApart ==
  [Next]_vars =>
    /\ LinkNext \/ UNCHANGED linkVars
    /\ Begins \/ Progress \/ Returned \/ UNCHANGED callVars
BY DEF Next, Begins, Progress, Send, Answers, Wake, GateTimeout, Returned, vars, linkVars, modeVars

\* The inductive invariant: while the manager is up, registry and adapters agree
\* and every open transport belongs to a connection that a shutdown will close;
\* a call that is on its way has brought what the requests before the present
\* one were for, and has sent no more than those and this one may.
THEOREM InductiveInvariant == Spec => []Inv
<1>1. Init => Inv
  <2> SUFFICES ASSUME Init PROVE Inv
    OBVIOUS
  <2>1. LinkInv
    BY LinkInitially DEF Init
  <2>2. CallTypes
    BY PerRequestFacts, AnswerFacts DEF Init, CallTypes, Steps, Results
  <2>3. ~Busy /\ WaitWithinBudget /\ AnswersHonest
    BY PerRequestFacts DEF Init, Busy, WaitWithinBudget, AnswersHonest
  <2> QED
    BY <2>1, <2>2, <2>3 DEF Inv, CallInv
<1>2. Inv /\ [Next]_vars => Inv'
  BY StepsApart, LinkStepKeeps, CallStepKeeps DEF Inv
<1> QED
  BY <1>1, <1>2, PTL DEF Spec

\* Every variable keeps its type; a request is never retried oftener than the
\* configured number of times for its kind of failure.
THEOREM TypeCorrect == Spec => []TypeOK
<1>1. Inv => TypeOK
  BY DEF Inv, LinkInv, CallInv, CallTypes, TypeOK
<1> QED
  BY <1>1, InductiveInvariant, PTL

\* The waiting of one request to Semantic Scholar stays within the budget
\* (_get in semantic_scholar_provider.py), for any delays the service asks for.
THEOREM WaitsWithinBudget == Spec => []WaitWithinBudget
<1>1. Inv => WaitWithinBudget
  BY DEF Inv, CallInv
<1> QED
  BY <1>1, InductiveInvariant, PTL

\* A success rests on usable answers to the requests it needs, or is marked as
\* what it is.
THEOREM AnswersAreHonest == Spec => []AnswersHonest
<1>1. Inv => AnswersHonest
  BY DEF Inv, CallInv
<1> QED
  BY <1>1, InductiveInvariant, PTL

\* After the shutdown no MCP tool is registered and no transport is open, for any
\* number of servers and tools, also when servers failed while they were being
\* connected.
THEOREM ShutdownIsClean == Spec => []ShutdownClean
<1>1. Inv => ShutdownClean
  BY DEF Inv, LinkInv, LinkTypeOK, Tables, Transports, ShutdownClean
<1> QED
  BY <1>1, InductiveInvariant, PTL

\* --------------------------------------------------------------------------
\* The calls are bounded calls.
LEMMA LimitType == CallTypes => Limit \in Nat
<1> SUFFICES ASSUME CallTypes PROVE Limit \in Nat
  OBVIOUS
<1>1. /\ PerRequest("match") \in Nat /\ PerRequest("chat") \in Nat /\ PerRequest("search") \in Nat
      /\ PerRequest("mcp") \in Nat /\ PerRequest("recommend") \in Nat /\ PerRequest("details") \in Nat
      /\ PerRequest("relation") \in Nat /\ PerRequest("oa_search") \in Nat
      /\ PerRequest("oa_content") \in Nat /\ PerRequest("oa_title") \in Nat
  BY PerRequestType DEF Steps, S2Steps, OaSteps
<1>2. op.kind \in CallKinds \union {"mcp", "none"}
  BY OpFacts DEF CallTypes
<1> HIDE DEF PerRequest
<1>3. CASE op.kind \in {"none", "generate", "functions", "search", "mcp"}
  BY <1>1, <1>3 DEF Limit
<1>4. CASE op.kind \in {"recommend", "details", "relation"}
  BY <1>1, <1>4 DEF Limit
<1>5. CASE op.kind \in {"openalex", "detail"}
  BY <1>1, <1>5 DEF Limit
<1> QED
  BY <1>2, <1>3, <1>4, <1>5 DEF CallKinds

\* The requests up to the present one are within the limit of the call.
LEMMA LimitCovers ==
  ASSUME CallInv, Busy
  PROVE Before + PerRequest(step) <= Limit
<1>1. OnTheWay /\ step \in Steps
  BY DEF CallInv, CallTypes
<1>2. \A s \in S2Steps : PerRequest(s) = PerRequest("match")
  BY PerRequestFacts DEF S2Steps
<1>3. PerRequest("match") \in Nat /\ \A s \in Steps : PerRequest(s) \in Nat
  BY PerRequestType DEF Steps, S2Steps
<1>4. CASE op.kind \in {"generate", "functions", "search", "mcp"}
  <2>1. Before = 0 /\ Limit = PerRequest(step)
    BY <1>1, <1>4 DEF OnTheWay, Before, Limit
  <2> QED
    BY <1>1, <1>3, <2>1
<1>5. CASE op.kind \in {"recommend", "details", "relation"}
  <2>1. CASE Is("direct")
    <3>1. Before = 0 /\ Limit = PerRequest(step)
      BY <1>1, <1>5, <2>1 DEF OnTheWay, Before, Limit
    <3> QED
      BY <1>1, <1>3, <3>1
  <2>2. CASE ~Is("direct")
    <3>1. step \in S2Steps /\ Before \in {0, PerRequest("match")} /\ Limit = 2 * PerRequest("match")
      BY <1>1, <1>5, <2>2 DEF OnTheWay, Before, Limit, S2Steps
    <3> QED
      BY <1>2, <1>3, <3>1
  <2> QED
    BY <2>1, <2>2
<1>6. CASE op.kind = "openalex"
  <2>1. /\ Limit = PerRequest("oa_search") + PerRequest("oa_content")
        /\ \/ step = "oa_search" /\ Before = 0
           \/ step = "oa_content" /\ Before = PerRequest("oa_search")
    BY <1>1, <1>6 DEF OnTheWay, Before, Limit
  <2>2. PerRequest("oa_search") \in Nat /\ PerRequest("oa_content") \in Nat
    BY <1>3 DEF Steps, OaSteps
  <2> QED
    BY <2>1, <2>2
<1>7. CASE op.kind = "detail"
  <2>1. /\ Limit = 2 * PerRequest("match") + PerRequest("oa_title")
        /\ \/ step = "oa_title" /\ Before = 2 * PerRequest("match")
           \/ step \in S2Steps /\ Before \in {0, PerRequest("match")}
    BY <1>1, <1>7 DEF OnTheWay, Before, Limit, S2Steps
  <2>2. PerRequest("oa_title") \in Nat
    BY <1>3 DEF Steps, OaSteps
  <2> QED
    BY <1>2, <1>3, <2>1, <2>2
<1> QED
  BY <1>1, <1>4, <1>5, <1>6, <1>7 DEF OnTheWay

\* What a call may send is fixed by the call.
LEMMA LimitFixed ==
  ASSUME op' = op
  PROVE Limit' = Limit
BY DEF Limit, Is

LEMMA OverRefines ==
  ASSUME CallInv, Busy, NEW how, Over(how)
  PROVE Bounded!CallNext \/ UNCHANGED Bounded!callVars
<1>1. op' = op /\ sent' = sent /\ Limit' = Limit
  BY LimitFixed DEF Over
<1>2. phase' \in {"ready", "done"}
  BY OpFacts DEF Over, Ended, DetailEnds, SearchEnds, RecommendEnds, GraphEnds, OpenAlexEnds, McpEnds, Outcome,
        Fallback, Finish, Request, CallInv, CallTypes, Busy, CallKinds
<1> QED
  BY <1>1, <1>2 DEF Busy, Bounded!CallNext, Bounded!Answer, Bounded!callVars

\* An answer ends the request or is followed by another try.
LEMMA AnswersEnd ==
  ASSUME CallInv, Answers
  PROVE (\E how : Over(how)) \/ (\E delay : Again(delay))
<1>1. phase = "sent" /\ OnTheWay /\ step \in Steps
  BY AnsweredFacts DEF Answers
<1>2. CASE step = "chat"
  <2>1. op.kind \in {"generate", "functions"}
    BY <1>1, <1>2 DEF OnTheWay
  <2>2. \E answer : Generate(answer) \/ FunctionCall(answer)
    BY <1>2, <2>1 DEF Answers, S2Steps
  <2> QED
    BY <2>2 DEF Generate, FunctionCall, Chat
<1>3. CASE step \in S2Steps
  <2>1. PICK answer \in ServiceAnswers : S2(answer)
    BY <1>3 DEF Answers, S2Steps
  <2>2. CASE answer \in {"limited", "down", "timeout", "broken"}
    BY <2>1, <2>2 DEF S2, S2RetryAfter
  <2>3. CASE answer \notin {"limited", "down", "timeout", "broken"}
    BY <2>1, <2>3 DEF S2, ServiceAnswers
  <2> QED
    BY <2>2, <2>3
<1>4. CASE step \in OaSteps
  <2>1. PICK answer \in ServiceAnswers : OpenAlex(answer)
    BY <1>4 DEF Answers, OpenAlexTitle, S2Steps, OaSteps
  <2>2. CASE answer \in {"misshapen", "limited", "down", "timeout", "broken"}
    BY <2>1, <2>2 DEF OpenAlex, OaRetryAfter
  <2>3. CASE answer \notin {"misshapen", "limited", "down", "timeout", "broken"}
    BY <2>1, <2>3 DEF OpenAlex, ServiceAnswers
  <2> QED
    BY <2>2, <2>3
<1>5. CASE step \in {"oa_content", "mcp"}
  BY <1>1, <1>5 DEF Answers, S2Steps, Content, McpAnswer
<1> QED
  BY <1>1, <1>2, <1>3, <1>4, <1>5 DEF Steps

\* The safety part of the promise that a call is tried a limited number of times,
\* is answered once and sends nothing after that: every step of the client, the
\* providers and the MCP tools is a step of such a call or none.
THEOREM CallsAreBounded == Spec => Bounded!CallSafety
<1>1. Init => Bounded!CallInit
  BY DEF Init, Bounded!CallInit, Limit, NoCall
<1>2. Inv /\ Inv' /\ [Next]_vars => [Bounded!CallNext]_(Bounded!callVars)
  <2> SUFFICES ASSUME Inv, Inv', [Next]_vars
               PROVE Bounded!CallNext \/ UNCHANGED Bounded!callVars
    OBVIOUS
  <2>1. CallInv /\ CallInv' /\ Limit \in Nat
    BY LimitType DEF Inv, CallInv
  <2>2. (Limit \in Nat)'
    <3>1. CallTypes'
      BY <2>1 DEF CallInv
    <3> QED
      BY <3>1, LimitType, PTL
  <2>3. CASE (LinkNext /\ UNCHANGED callVars) \/ UNCHANGED vars
    <3>1. UNCHANGED <<op, phase, sent>>
      BY <2>3 DEF vars, callVars
    <3> QED
      BY <3>1, LimitFixed DEF Busy, Bounded!callVars
  <2>4. CASE Begins
    <3>1. phase = "idle" /\ sent' = 0
      BY <2>4 DEF Begins, Begin
    <3> QED
      BY <2>2, <3>1 DEF Bounded!CallNext, Bounded!Begin
  <2>5. CASE Returned
    <3>1. phase = "done" /\ phase' = "idle" /\ sent' = 0
      BY <2>5 DEF Returned
    <3> QED
      BY <2>2, <3>1 DEF Bounded!CallNext, Bounded!Begin
  <2>6. CASE Send
    <3>1. Busy /\ phase = "ready"
      BY <2>6 DEF Send, Busy
    <3>2. CASE Over("failed")
      BY <2>1, <3>1, <3>2, OverRefines
    <3>3. CASE phase' = "sent" /\ sent' = sent + 1 /\ op' = op
      <4>1. /\ Before + PerRequest(step) <= Limit /\ sent <= Before + tries /\ tries < PerRequest(step)
            /\ Before \in Nat /\ tries \in Nat /\ sent \in Nat /\ PerRequest(step) \in Nat
        BY <2>1, <3>1, LimitCovers, BeforeType, PerRequestType DEF CallInv, Counted, CallTypes
      <4>2. \A b, r, t, s, l \in Nat : b + r <= l /\ s <= b + t /\ t < r => s < l
        OBVIOUS
      <4>3. sent < Limit
        BY <2>1, <4>1, <4>2, Zenon
      <4> QED
        BY <3>1, <3>3, <4>3, LimitFixed DEF Bounded!CallNext, Bounded!Try
    <3> QED
      BY <2>6, <3>2, <3>3 DEF Send
  <2>7. CASE Answers
    <3>1. phase = "sent" /\ Busy
      BY <2>7 DEF Answers, Busy
    <3>2. CASE \E how : Over(how)
      BY <2>1, <3>1, <3>2, OverRefines
    <3>3. CASE \E delay : Again(delay)
      <4>1. op' = op /\ sent' = sent /\ phase' \in {"ready", "asleep"}
        BY <3>3 DEF Again
      <4> QED
        BY <3>1, <4>1, LimitFixed DEF Bounded!callVars
    <3>4. (\E how : Over(how)) \/ (\E delay : Again(delay))
      BY <2>1, <2>7, AnswersEnd
    <3> QED
      BY <3>2, <3>3, <3>4
  <2>8. CASE Wake
    <3>1. op' = op /\ sent' = sent /\ phase = "asleep" /\ phase' = "ready"
      BY <2>8 DEF Wake
    <3> QED
      BY <3>1, LimitFixed DEF Bounded!callVars
  <2>9. CASE GateTimeout
    <3>1. op' = op /\ sent' = sent /\ phase \in {"sent", "asleep"} /\ phase' = "done"
      BY <2>9 DEF GateTimeout, Finish
    <3> QED
      BY <3>1, LimitFixed DEF Bounded!CallNext, Bounded!Answer
  <2> QED
    BY <2>3, <2>4, <2>5, <2>6, <2>7, <2>8, <2>9 DEF Next, Progress
<1> QED
  BY <1>1, <1>2, InductiveInvariant, PTL DEF Spec, Bounded!CallSafety
=============================================================================
