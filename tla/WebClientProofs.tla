-------------------------- MODULE WebClientProofs --------------------------
(***************************************************************************)
(* Proofs about WebClient, for any runs and any numbers of papers.          *)
(***************************************************************************)
EXTENDS WebClient, FiniteSetTheorems, NaturalsInduction, WellFoundedInduction, TLAPS

Requests == [kind : Kinds, run : Runs \union {None}, late : BOOLEAN]
About(q) == q.kind \notin {"ensure", "post"}
Opens(q) == q.kind = "conversation" /\ ~q.late

\* A request that is about a run names one; finitely many runs are over.
Named ==
  /\ \A q \in flight : About(q) => q.run \in Runs
  /\ IsFiniteSet(Over)

\* The numbers that are still to be given come after those that were, unless two
\* conversations share the view or the one to be shown has not come yet.
Numbered ==
  /\ start <= next
  /\ mixed \/ opening \/ (archived <= next /\ (shown # None => start + Listed(shown) <= next))
  /\ mixed \/ opening \/ restored \/ archived <= start

\* While a saved conversation is on its way, nothing is archived above it.
Opened ==
  /\ \A p, q \in flight : Opens(p) /\ Opens(q) => p = q
  /\ mixed \/ ~(opening \/ \E q \in flight : Opens(q)) \/ (restored /\ archived = 0)

RunsType ==
  /\ activeRun \in Runs \union {None} /\ shown \in Runs \union {None}
  /\ stream \in Runs \union {None} /\ streams \subseteq Runs /\ streams \subseteq {stream}
FlagsType ==
  /\ submitting \in BOOLEAN /\ cancelOn \in BOOLEAN /\ hasMore \in BOOLEAN /\ paging \in BOOLEAN
  /\ left \in BOOLEAN /\ opening \in BOOLEAN /\ restored \in BOOLEAN /\ mixed \in BOOLEAN
NumbersType == start \in Nat /\ next \in Nat /\ list \in Nat /\ archived \in Nat
StateType == state \in [Runs -> {"none", "running"} \union Ended]
Types == RunsType /\ FlagsType /\ NumbersType /\ flight \subseteq Requests /\ StateType

ClientInv == Types /\ Named /\ Numbered /\ Opened

\* --------------------------------------------------------------------------
\* A set of numbers has a least one.
LEMMA Least ==
  ASSUME NEW S \in SUBSET Nat, S # {}
  PROVE \E m \in S : \A k \in S : m <= k
<1>1. PICK m \in S : \A k \in S : <<k, m>> \notin OpToRel(<, Nat)
  BY WFMin, NatLessThanWellFounded, Zenon
<1>2. \A k \in S : ~(k < m)
  BY <1>1, Zenon DEF OpToRel
<1>3. \A k \in S : m <= k
  BY <1>2
<1> QED
  BY <1>3, Zenon

\* Taking an element out of a finite set leaves a smaller one.
LEMMA Smaller1 ==
  ASSUME NEW U, IsFiniteSet(U), NEW s \in SUBSET U, s # {}
  PROVE /\ (CHOOSE x \in s : TRUE) \in s
        /\ s \ {CHOOSE x \in s : TRUE} \in SUBSET U
        /\ Cardinality(s) \in Nat /\ Cardinality(s \ {CHOOSE x \in s : TRUE}) = Cardinality(s) - 1
        /\ Cardinality(s) - 1 \in Nat
<1>1. (CHOOSE x \in s : TRUE) \in s
  OBVIOUS
<1>2. IsFiniteSet(s) /\ Cardinality(s) \in Nat
  BY FS_Subset, FS_CardinalityType
<1> DEFINE c == CHOOSE x \in s : TRUE
<1>3. Cardinality(s \ {c}) = Cardinality(s) - 1 /\ IsFiniteSet(s \ {c})
  BY <1>1, <1>2, FS_RemoveElement
<1>4. Cardinality(s \ {c}) \in Nat
  BY <1>3, FS_CardinalityType
<1> QED
  BY <1>1, <1>2, <1>3, <1>4

\* The recursion that counts the papers of the runs of a finite set has a solution.
LEMMA CountSolved ==
  ASSUME NEW U, IsFiniteSet(U)
  PROVE \E g : g = [s \in SUBSET U |->
                      IF s = {} THEN 0
                      ELSE Listed(CHOOSE x \in s : TRUE) + g[s \ {CHOOSE x \in s : TRUE}]]
<1> DEFINE c(s) == CHOOSE x \in s : TRUE
           Step(g, s) == IF s = {} THEN 0 ELSE Listed(c(s)) + g[s \ {c(s)}]
           Small(n) == {s \in SUBSET U : Cardinality(s) <= n}
           Solves(g, n) == g = [s \in Small(n) |-> Step(g, s)]
           Bad == {n \in Nat : ~\E g : Solves(g, n)}
<1>1. Bad = {}
  <2> SUFFICES ASSUME Bad # {} PROVE FALSE
    OBVIOUS
  <2>1. PICK m \in Bad : \A k \in Bad : m <= k
    BY Least
  <2>2. \A s \in SUBSET U : s # {} => /\ s \ {c(s)} \in SUBSET U
                                      /\ Cardinality(s) \in Nat /\ Cardinality(s) - 1 \in Nat
                                      /\ Cardinality(s \ {c(s)}) = Cardinality(s) - 1
    BY Smaller1, Zenon
  <2> HIDE DEF c
  <2>3. CASE m = 0
    <3>1. \A s \in Small(0) : s = {}
      <4> SUFFICES ASSUME NEW s \in SUBSET U, Cardinality(s) <= 0, s # {} PROVE FALSE
        OBVIOUS
      <4>1. Cardinality(s) \in Nat /\ Cardinality(s) - 1 \in Nat
        BY <2>2
      <4> QED
        BY <4>1
    <3> DEFINE g == [s \in Small(0) |-> 0]
    <3>2. Solves(g, 0)
      BY <3>1
    <3> QED
      BY <2>1, <2>3, <3>2
  <2>4. CASE m # 0
    <3>1. m \in Nat /\ m - 1 \in Nat /\ ~(m <= m - 1)
      BY <2>4
    <3>2. m - 1 \notin Bad
      BY <2>1, <3>1, Zenon
    <3>3. PICK g : Solves(g, m - 1)
      BY <3>1, <3>2, Zenon
    <3>4. \A s \in Small(m) : s # {} => s \ {c(s)} \in Small(m - 1) /\ s \ {c(s)} \in Small(m)
      BY <2>2, <3>1
    <3>5. \A s \in Small(m - 1) : s \in Small(m) /\ g[s] = Step(g, s)
      <4>1. \A s \in Small(m - 1) : g[s] = Step(g, s)
        BY <3>3
      <4>2. \A s \in SUBSET U : Cardinality(s) \in Nat
        BY FS_Subset, FS_CardinalityType
      <4>3. \A s \in Small(m - 1) : s \in Small(m)
        BY <3>1, <4>2
      <4> QED
        BY <4>1, <4>3
    <3> DEFINE h == [s \in Small(m) |-> Step(g, s)]
    <3> HIDE DEF Small
    <3>6. \A s \in Small(m) : h[s] = Step(h, s)
      <4> SUFFICES ASSUME NEW s \in Small(m) PROVE h[s] = Step(h, s)
        OBVIOUS
      <4>1. CASE s = {}
        BY <4>1
      <4>2. CASE s # {}
        <5>1. s \ {c(s)} \in Small(m - 1) /\ s \ {c(s)} \in Small(m)
          BY <3>4, <4>2
        <5>2. h[s \ {c(s)}] = g[s \ {c(s)}]
          <6>1. h[s \ {c(s)}] = Step(g, s \ {c(s)})
            BY <5>1
          <6> QED
            BY <3>5, <5>1, <6>1
        <5> QED
          BY <4>2, <5>2
      <4> QED
        BY <4>1, <4>2
    <3> HIDE DEF Step
    <3>7. [s \in Small(m) |-> h[s]] = [s \in Small(m) |-> Step(h, s)]
      BY <3>6, Zenon
    <3>8. Solves(h, m)
      BY <3>7
    <3> HIDE DEF Solves
    <3> QED
      BY <2>1, <3>8, Zenon
  <2> QED
    BY <2>3, <2>4
<1>2. Cardinality(U) \in Nat
  BY FS_CardinalityType
<1>3. \E g : Solves(g, Cardinality(U))
  BY <1>1, <1>2, Zenon
<1>4. Small(Cardinality(U)) = SUBSET U
  BY FS_Subset
<1> HIDE DEF Small
<1> QED
  BY <1>3, <1>4

\* The papers of finitely many runs are a number.
LEMMA CountType ==
  ASSUME NEW U \in SUBSET Runs, IsFiniteSet(U)
  PROVE MapThenSumSet(Listed, U) \in Nat
<1> DEFINE c(s) == CHOOSE x \in s : TRUE
           Sum(g) == g = [s \in SUBSET U |-> IF s = {} THEN 0 ELSE Listed(c(s)) + g[s \ {c(s)}]]
           sum == CHOOSE g : Sum(g)
           Bad == {n \in Nat : \E s \in SUBSET U : Cardinality(s) = n /\ sum[s] \notin Nat}
<1>1. MapThenSumSet(Listed, U) = sum[U]
  BY Zenon DEF MapThenSumSet, MapThenFoldSet
<1>2. Sum(sum)
  BY CountSolved, Zenon
<1> HIDE DEF sum
<1>3. \A s \in SUBSET U : sum[s] = IF s = {} THEN 0 ELSE Listed(c(s)) + sum[s \ {c(s)}]
  BY <1>2
<1>4. \A s \in SUBSET U : s # {} => /\ c(s) \in U /\ s \ {c(s)} \in SUBSET U
                                    /\ Cardinality(s) \in Nat /\ Cardinality(s) - 1 \in Nat
                                    /\ Cardinality(s \ {c(s)}) = Cardinality(s) - 1
  BY Smaller1, Zenon
<1>5. \A r \in Runs : Listed(r) \in Nat
  BY ClientAssumption DEF Listed
<1> HIDE DEF c
<1>6. Bad = {}
  <2> SUFFICES ASSUME Bad # {} PROVE FALSE
    OBVIOUS
  <2>1. PICK m \in Bad : \A k \in Bad : m <= k
    BY Least
  <2>2. PICK s \in SUBSET U : Cardinality(s) = m /\ sum[s] \notin Nat
    BY <2>1
  <2>3. s # {}
    BY <1>3, <2>2
  <2> DEFINE r == s \ {c(s)}
  <2>4. m - 1 \in Nat /\ Cardinality(r) = m - 1 /\ ~(m <= m - 1) /\ r \in SUBSET U
    <3>1. /\ r \in SUBSET U /\ Cardinality(s) \in Nat /\ Cardinality(s) - 1 \in Nat
          /\ Cardinality(r) = Cardinality(s) - 1
      BY <1>4, <2>3
    <3> HIDE DEF r
    <3> QED
      BY <2>2, <3>1
  <2>5. sum[s] = Listed(c(s)) + sum[r] /\ Listed(c(s)) \in Nat
    BY <1>3, <1>4, <1>5, <2>3
  <2> HIDE DEF r
  <2>6. sum[r] \notin Nat
    BY <2>2, <2>5
  <2>7. m - 1 \in Bad
    BY <2>4, <2>6
  <2> QED
    BY <2>1, <2>4, <2>7, Zenon
<1>7. sum[U] \in Nat
  <2>1. Cardinality(U) \in Nat
    BY FS_CardinalityType
  <2> QED
    BY <1>6, <2>1
<1> QED
  BY <1>1, <1>7

\* --------------------------------------------------------------------------
\* What the requests under way are.
LEMMA FlightFacts ==
  ASSUME Types, Named, NEW q \in flight
  PROVE /\ q \in Requests /\ q.kind \in Kinds /\ q.late \in BOOLEAN
        /\ q.run \in Runs \union {None} /\ (About(q) => q.run \in Runs)
        /\ flight \subseteq Requests
  BY DEF Types, Named, Requests

LEMMA NewRequest ==
  ASSUME NEW kind \in Kinds, NEW run \in Runs \union {None}
  PROVE /\ Request(kind, run) \in Requests /\ Request(kind, run).kind = kind
        /\ Request(kind, run).run = run /\ Request(kind, run).late = FALSE
  BY DEF Request, Requests

LEMMA Rekinded ==
  ASSUME NEW q \in Requests, NEW kind \in Kinds
  PROVE /\ [q EXCEPT !.kind = kind] \in Requests /\ [q EXCEPT !.kind = kind].kind = kind
        /\ [q EXCEPT !.kind = kind].run = q.run /\ [q EXCEPT !.kind = kind].late = q.late
  BY DEF Requests

\* Requests that the view has moved on from open nothing.
LEMMA AgedFacts ==
  ASSUME Types, Named
  PROVE /\ Aged \subseteq Requests
        /\ \A q \in Aged : ~Opens(q) /\ (About(q) => q.run \in Runs)
<1> SUFFICES ASSUME NEW q \in Aged PROVE q \in Requests /\ ~Opens(q) /\ (About(q) => q.run \in Runs)
  OBVIOUS
<1>1. PICK p \in flight : q = [p EXCEPT !.late = p.kind \in {"result", "conversation"}]
  BY DEF Aged
<1>2. p \in Requests /\ (About(p) => p.run \in Runs) /\ (p.kind \in {"result", "conversation"}) \in BOOLEAN
  BY FlightFacts
<1>3. q \in Requests /\ q.kind = p.kind /\ q.run = p.run /\ q.late = (p.kind \in {"result", "conversation"})
  BY <1>1, <1>2 DEF Requests
<1> QED
  BY <1>2, <1>3 DEF About, Opens

LEMMA Initially == Init => ClientInv
<1> SUFFICES ASSUME Init PROVE ClientInv
  OBVIOUS
<1>1. Types
  <2>1. RunsType /\ FlagsType
    BY DEF Init, RunsType, FlagsType
  <2>2. NumbersType /\ flight \subseteq Requests
    BY DEF Init, NumbersType
  <2>3. StateType
    BY DEF Init, StateType, Ended
  <2> QED
    BY <2>1, <2>2, <2>3 DEF Types
<1>2. Over = Saved /\ IsFiniteSet(Over)
  <2>1. Over = Saved
    BY ClientAssumption DEF Init, Over, Ended
  <2> QED
    BY <2>1, ClientAssumption
<1>3. Named
  BY <1>2 DEF Init, Named
<1>4. Numbered /\ Opened
  BY DEF Init, Numbered, Opened
<1> QED
  BY <1>1, <1>3, <1>4 DEF ClientInv

LEMMA ListedType ==
  ASSUME NEW r \in Runs
  PROVE Listed(r) \in Nat
  BY ClientAssumption DEF Listed

\* What is archived when a question is asked has numbers below the next one.
LEMMA ArchivedFacts ==
  ASSUME Types, Numbered
  PROVE /\ Archived \in Nat
        /\ mixed \/ opening \/ Archived <= next
<1>1. RunsType /\ NumbersType
  BY DEF Types
<1>2. CASE shown = None
  BY <1>1, <1>2 DEF Archived, NumbersType, Numbered
<1>3. CASE shown # None
  <2>1. Listed(shown) \in Nat
    BY <1>1, <1>3, ListedType DEF RunsType
  <2> HIDE DEF Listed
  <2> QED
    BY <1>1, <1>3, <2>1 DEF Archived, Larger, NumbersType, Numbered
<1> QED
  BY <1>2, <1>3

\* A list that is shown goes up to the next number, and none is taken back.
LEMMA RenderedFacts ==
  ASSUME list \in Nat, hasMore \in BOOLEAN,
         NEW r \in Runs, NEW from \in Nat, NEW reached \in Nat, RenderDirect(r, from, reached)
  PROVE /\ list' \in Nat /\ next' \in Nat /\ hasMore' \in BOOLEAN
        /\ reached <= next'
        /\ from <= reached => from + Listed(r) <= next'
<1>1. CASE r \in Research
  BY <1>1 DEF RenderDirect, Listed
<1>2. CASE r \notin Research
  <2>1. Found[r] \in Nat /\ Listed(r) = Found[r]
    BY <1>2, ClientAssumption DEF Listed
  <2>2. list' = Found[r] /\ next' = Larger(reached, from + Found[r]) /\ hasMore' \in {Found[r] > 0, FALSE}
    BY <1>2 DEF RenderDirect
  <2>3. hasMore' \in BOOLEAN
    <3>1. (Found[r] > 0) \in BOOLEAN
      OBVIOUS
    <3> QED
      BY <2>2, <3>1
  <2>4. reached <= next' /\ next' \in Nat /\ from + Found[r] <= next'
    BY <2>1, <2>2 DEF Larger
  <2> QED
    BY <2>1, <2>2, <2>3, <2>4
<1> QED
  BY <1>1, <1>2

\* Where one run changes its state, finitely many are over as before.
LEMMA StillFinite ==
  ASSUME IsFiniteSet(Over), StateType, NEW r \in Runs, NEW x,
         state' = [state EXCEPT ![r] = x]
  PROVE IsFiniteSet(Over')
<1>1. Over' \subseteq Over \union {r}
  BY DEF Over, StateType
<1>2. IsFiniteSet(Over \union {r})
  BY FS_AddElement
<1> QED
  BY <1>1, <1>2, FS_Subset

LEMMA SubmitKeeps ==
  ASSUME ClientInv, Submit
  PROVE ClientInv'
<1>0. Types /\ Named /\ Numbered /\ Opened /\ NumbersType /\ FlagsType /\ RunsType /\ StateType
  BY DEF ClientInv, Types
<1>1. /\ flight' \subseteq Requests
      /\ \A q \in flight' : ~Opens(q) /\ (About(q) => q.run \in Runs)
  <2>1. /\ Request("ensure", None) \in Requests /\ ~Opens(Request("ensure", None))
        /\ ~About(Request("ensure", None))
    BY NewRequest DEF Kinds, Opens, About
  <2> QED
    BY <1>0, <2>1, AgedFacts DEF Submit
<1>2. Archived \in Nat /\ (mixed \/ opening \/ Archived <= next)
  BY <1>0, ArchivedFacts
<1>3. RunsType'
  BY <1>0, <1>1 DEF Submit, RunsType, Disconnect, ResetRunView
<1>4. FlagsType'
  BY <1>0 DEF Submit, FlagsType, Disconnect, ResetRunView
<1>5. NumbersType'
  BY <1>0, <1>1, ClientAssumption, <1>2 DEF Submit, NumbersType, Disconnect, ResetRunView, Larger
<1>6. StateType'
  BY <1>0 DEF Submit, StateType, Ended, Disconnect, ResetRunView
<1>7. Named'
  BY <1>0, <1>1 DEF Submit, Named, Over, Disconnect, ResetRunView
<1>8. Numbered'
  BY <1>0, <1>1, ClientAssumption, <1>2 DEF Submit, NumbersType, FlagsType, Numbered, Disconnect,
    ResetRunView, Larger
<1>9. Opened'
  BY <1>0, <1>1 DEF Submit, FlagsType, Opened, Disconnect, ResetRunView
<1> QED
  BY <1>1, <1>3, <1>4, <1>5, <1>6, <1>7, <1>8, <1>9 DEF ClientInv, Types

LEMMA ClarifyKeeps ==
  ASSUME ClientInv, Clarify
  PROVE ClientInv'
<1>0. Types /\ Named /\ Numbered /\ Opened /\ NumbersType /\ FlagsType /\ RunsType /\ StateType
  BY DEF ClientInv, Types
<1>1. /\ flight' \subseteq Requests
      /\ \A q \in flight' : ~Opens(q) /\ (About(q) => q.run \in Runs)
  BY <1>0, AgedFacts DEF Clarify, About, Opens
<1>2. RunsType'
  BY <1>0, <1>1 DEF Clarify, RunsType, Disconnect, ResetForm, ResetRunView
<1>3. FlagsType'
  BY <1>0 DEF Clarify, FlagsType, Disconnect, ResetForm, ResetRunView
<1>4. NumbersType'
  BY <1>0, <1>1, ClientAssumption DEF Clarify, NumbersType, Disconnect, ResetForm, ResetRunView
<1>5. StateType'
  BY <1>0 DEF Clarify, StateType, Ended, Disconnect, ResetForm, ResetRunView
<1>6. Named'
  BY <1>0, <1>1 DEF Clarify, Named, Over, Disconnect, ResetForm, ResetRunView
<1>7. Numbered'
  BY <1>0, <1>1, ClientAssumption DEF Clarify, NumbersType, FlagsType, Numbered, Disconnect,
    ResetForm, ResetRunView
<1>8. Opened'
  BY <1>0, <1>1 DEF Clarify, FlagsType, Opened, Disconnect, ResetForm, ResetRunView
<1> QED
  BY <1>1, <1>2, <1>3, <1>4, <1>5, <1>6, <1>7, <1>8 DEF ClientInv, Types

LEMMA StartNewKeeps ==
  ASSUME ClientInv, StartNew
  PROVE ClientInv'
<1>0. Types /\ Named /\ Numbered /\ Opened /\ NumbersType /\ FlagsType /\ RunsType /\ StateType
  BY DEF ClientInv, Types
<1>1. /\ flight' \subseteq Requests
      /\ \A q \in flight' : ~Opens(q) /\ (About(q) => q.run \in Runs)
  BY <1>0, AgedFacts DEF StartNew, About, Opens
<1>2. RunsType'
  BY <1>0, <1>1 DEF StartNew, RunsType, Disconnect, ResetForm, ResetRunView
<1>3. FlagsType'
  BY <1>0 DEF StartNew, FlagsType, Disconnect, ResetForm, ResetRunView
<1>4. NumbersType'
  BY <1>0, <1>1, ClientAssumption DEF StartNew, NumbersType, Disconnect, ResetForm, ResetRunView
<1>5. StateType'
  BY <1>0 DEF StartNew, StateType, Ended, Disconnect, ResetForm, ResetRunView
<1>6. Named'
  BY <1>0, <1>1 DEF StartNew, Named, Over, Disconnect, ResetForm, ResetRunView
<1>7. Numbered'
  BY <1>0, <1>1, ClientAssumption DEF StartNew, NumbersType, FlagsType, Numbered, Disconnect,
    ResetForm, ResetRunView
<1>8. Opened'
  BY <1>0, <1>1 DEF StartNew, FlagsType, Opened, Disconnect, ResetForm, ResetRunView
<1> QED
  BY <1>1, <1>2, <1>3, <1>4, <1>5, <1>6, <1>7, <1>8 DEF ClientInv, Types

LEMMA CancelKeeps ==
  ASSUME ClientInv, Cancel
  PROVE ClientInv'
<1>0. Types /\ Named /\ Numbered /\ Opened /\ NumbersType /\ FlagsType /\ RunsType /\ StateType
  BY DEF ClientInv, Types
<1>1. /\ flight' \subseteq Requests
      /\ \A q \in flight' : (Opens(q) => q \in flight) /\ (About(q) => q.run \in Runs)
  <2>1. activeRun \in Runs
    BY <1>0 DEF Cancel, RunsType
  <2>2. /\ Request("cancel", activeRun) \in Requests /\ ~Opens(Request("cancel", activeRun))
        /\ Request("cancel", activeRun).run \in Runs
    <3>1. "cancel" \in Kinds /\ activeRun \in Runs \union {None}
      BY <2>1 DEF Kinds
    <3>2. /\ Request("cancel", activeRun) \in Requests /\ Request("cancel", activeRun).kind = "cancel"
          /\ Request("cancel", activeRun).run = activeRun
      BY <3>1, NewRequest
    <3> QED
      BY <2>1, <3>2 DEF Opens
  <2> QED
    BY <1>0, <2>2, FlightFacts DEF Cancel
<1>2. RunsType'
  BY <1>0, <1>1 DEF Cancel, RunsType, streamVars, listVars, viewVars
<1>3. FlagsType'
  BY <1>0 DEF Cancel, FlagsType, streamVars, listVars, viewVars
<1>4. NumbersType'
  BY <1>0, <1>1, ClientAssumption DEF Cancel, NumbersType, streamVars, listVars, viewVars
<1>5. StateType'
  BY <1>0 DEF Cancel, StateType, Ended, streamVars, listVars, viewVars
<1>6. Named'
  BY <1>0, <1>1 DEF Cancel, Named, Over, streamVars, listVars, viewVars
<1>7. Numbered'
  BY <1>0, <1>1, ClientAssumption DEF Cancel, NumbersType, FlagsType, Numbered, streamVars,
    listVars, viewVars
<1>8. Opened'
  BY <1>0, <1>1 DEF Cancel, FlagsType, Opened, streamVars, listVars, viewVars
<1> QED
  BY <1>1, <1>2, <1>3, <1>4, <1>5, <1>6, <1>7, <1>8 DEF ClientInv, Types

LEMMA LoadMoreKeeps ==
  ASSUME ClientInv, LoadMore
  PROVE ClientInv'
<1>0. Types /\ Named /\ Numbered /\ Opened /\ NumbersType /\ FlagsType /\ RunsType /\ StateType
  BY DEF ClientInv, Types
<1>1. /\ flight' \subseteq Requests
      /\ \A q \in flight' : (Opens(q) => q \in flight) /\ (About(q) => q.run \in Runs)
  <2>1. activeRun \in Runs
    BY <1>0 DEF LoadMore, RunsType
  <2>2. /\ Request("page", activeRun) \in Requests /\ ~Opens(Request("page", activeRun))
        /\ Request("page", activeRun).run \in Runs
    <3>1. "page" \in Kinds /\ activeRun \in Runs \union {None}
      BY <2>1 DEF Kinds
    <3>2. /\ Request("page", activeRun) \in Requests /\ Request("page", activeRun).kind = "page"
          /\ Request("page", activeRun).run = activeRun
      BY <3>1, NewRequest
    <3> QED
      BY <2>1, <3>2 DEF Opens
  <2> QED
    BY <1>0, <2>2, FlightFacts DEF LoadMore
<1>2. RunsType'
  BY <1>0, <1>1 DEF LoadMore, RunsType, formVars, streamVars, viewVars
<1>3. FlagsType'
  BY <1>0 DEF LoadMore, FlagsType, formVars, streamVars, viewVars
<1>4. NumbersType'
  BY <1>0, <1>1, ClientAssumption DEF LoadMore, NumbersType, formVars, streamVars, viewVars
<1>5. StateType'
  BY <1>0 DEF LoadMore, StateType, Ended, formVars, streamVars, viewVars
<1>6. Named'
  BY <1>0, <1>1 DEF LoadMore, Named, Over, formVars, streamVars, viewVars
<1>7. Numbered'
  BY <1>0, <1>1, ClientAssumption DEF LoadMore, NumbersType, FlagsType, Numbered, formVars,
    streamVars, viewVars
<1>8. Opened'
  BY <1>0, <1>1 DEF LoadMore, FlagsType, Opened, formVars, streamVars, viewVars
<1> QED
  BY <1>1, <1>2, <1>3, <1>4, <1>5, <1>6, <1>7, <1>8 DEF ClientInv, Types

LEMMA ResultAnsweredKeeps ==
  ASSUME ClientInv, NEW q0 \in flight, ResultAnswered(q0)
  PROVE ClientInv'
<1>0. Types /\ Named /\ Numbered /\ Opened /\ NumbersType /\ FlagsType /\ RunsType /\ StateType
  BY DEF ClientInv, Types
<1>1. /\ flight' \subseteq flight /\ flight' \subseteq Requests
      /\ q0.run \in Runs \union {None} /\ q0.late \in BOOLEAN
      /\ q0.run \in Runs
  BY <1>0, FlightFacts DEF ResultAnswered, Fails, ShowResults, About
<1>2. /\ list' \in Nat /\ next' \in Nat /\ hasMore' \in BOOLEAN
      /\ next <= next' /\ start + Listed(q0.run) <= next' /\ shown' = q0.run
  BY <1>0, <1>1, RenderedFacts DEF ResultAnswered, ShowResults, NumbersType, FlagsType, Numbered
<1>3. Listed(q0.run) \in Nat
  BY <1>1, ListedType
<1>4. /\ opening' = (opening /\ q0.late)
       /\ UNCHANGED <<activeRun, formVars, streamVars, start, paging, state, archived, left, restored, mixed>>
  BY DEF ResultAnswered, ShowResults
<1>5. RunsType'
  BY <1>0, <1>1 DEF ResultAnswered, RunsType, formVars, streamVars, ShowResults, RenderDirect
<1>6. FlagsType'
  BY <1>0, <1>1, <1>2, <1>4 DEF FlagsType, formVars
<1>7. NumbersType'
  BY <1>0, <1>2, <1>4 DEF NumbersType
<1>8. StateType'
  BY <1>0 DEF ResultAnswered, StateType, Ended, formVars, streamVars, ShowResults, RenderDirect
<1>9. Named'
  BY <1>0, <1>1 DEF ResultAnswered, Named, Over, formVars, streamVars, ShowResults, RenderDirect
<1>10. Numbered'
  BY <1>0, <1>2, <1>3, <1>4 DEF NumbersType, FlagsType, Numbered, Opened
<1>11. Opened'
  BY <1>0, <1>1 DEF ResultAnswered, FlagsType, Opened, formVars, streamVars, ShowResults,
    RenderDirect
<1> QED
  BY <1>1, <1>5, <1>6, <1>7, <1>8, <1>9, <1>10, <1>11 DEF ClientInv, Types

LEMMA PageAnsweredKeeps ==
  ASSUME ClientInv, NEW q0 \in flight, PageAnswered(q0)
  PROVE ClientInv'
<1>0. Types /\ Named /\ Numbered /\ Opened /\ NumbersType /\ FlagsType /\ RunsType /\ StateType
  BY DEF ClientInv, Types
<1>1. /\ flight' \subseteq flight /\ flight' \subseteq Requests
      /\ q0.run \in Runs \union {None} /\ q0.late \in BOOLEAN
      /\ q0.run \in Runs
  BY <1>0, FlightFacts DEF PageAnswered, Fails, ShowResults, About
<1>2. next <= next' /\ UNCHANGED <<start, archived, shown, opening, restored, mixed>>
  <2>1. PICK n \in 0 .. PageSize : list' = Smaller(list + n, Larger(list, MaxList)) /\ next' = Larger(next, start + list')
    BY DEF PageAnswered
  <2>2. list' \in Nat
    BY <1>0, <2>1, ClientAssumption DEF Smaller, Larger, NumbersType
  <2> QED
    BY <1>0, <2>1, <2>2 DEF Larger, NumbersType, PageAnswered, viewVars
<1>3. shown \in Runs \/ shown = None
  BY <1>0 DEF RunsType
<1>4. \A r \in Runs : Listed(r) \in Nat
  BY ListedType
<1>5. RunsType'
  BY <1>0, <1>1 DEF PageAnswered, RunsType, formVars, streamVars, viewVars
<1>6. FlagsType'
  BY <1>0 DEF PageAnswered, FlagsType, formVars, streamVars, viewVars
<1>7. NumbersType'
  BY <1>0, <1>1, ClientAssumption DEF PageAnswered, NumbersType, formVars, streamVars, viewVars,
    Larger, Smaller
<1>8. StateType'
  BY <1>0 DEF PageAnswered, StateType, Ended, formVars, streamVars, viewVars
<1>9. Named'
  BY <1>0, <1>1 DEF PageAnswered, Named, Over, formVars, streamVars, viewVars
<1>10. Numbered'
  <2> HIDE DEF Listed
  <2> QED
    BY <1>0, <1>7, <1>2, <1>3, <1>4 DEF NumbersType, FlagsType, Numbered
<1>11. Opened'
  BY <1>0, <1>1 DEF PageAnswered, FlagsType, Opened, formVars, streamVars, viewVars
<1> QED
  BY <1>1, <1>5, <1>6, <1>7, <1>8, <1>9, <1>10, <1>11 DEF ClientInv, Types

LEMMA PageFailsKeeps ==
  ASSUME ClientInv, NEW q0 \in flight, PageFails(q0)
  PROVE ClientInv'
<1>0. Types /\ Named /\ Numbered /\ Opened /\ NumbersType /\ FlagsType /\ RunsType /\ StateType
  BY DEF ClientInv, Types
<1>1. /\ flight' \subseteq flight /\ flight' \subseteq Requests
      /\ q0.run \in Runs \union {None} /\ q0.late \in BOOLEAN
      /\ q0.run \in Runs
  BY <1>0, FlightFacts DEF PageFails, Fails, ShowResults, About
<1>2. RunsType'
  BY <1>0, <1>1 DEF PageFails, RunsType, formVars, streamVars, viewVars, Fails
<1>3. FlagsType'
  BY <1>0 DEF PageFails, FlagsType, formVars, streamVars, viewVars, Fails
<1>4. NumbersType'
  BY <1>0, <1>1, ClientAssumption DEF PageFails, NumbersType, formVars, streamVars, viewVars, Fails
<1>5. StateType'
  BY <1>0 DEF PageFails, StateType, Ended, formVars, streamVars, viewVars, Fails
<1>6. Named'
  BY <1>0, <1>1 DEF PageFails, Named, Over, formVars, streamVars, viewVars, Fails
<1>7. Numbered'
  BY <1>0, <1>1, ClientAssumption DEF PageFails, NumbersType, FlagsType, Numbered, formVars,
    streamVars, viewVars, Fails
<1>8. Opened'
  BY <1>0, <1>1 DEF PageFails, FlagsType, Opened, formVars, streamVars, viewVars, Fails
<1> QED
  BY <1>1, <1>2, <1>3, <1>4, <1>5, <1>6, <1>7, <1>8 DEF ClientInv, Types

LEMMA CancelAnsweredKeeps ==
  ASSUME ClientInv, NEW q0 \in flight, CancelAnswered(q0)
  PROVE ClientInv'
<1>0. Types /\ Named /\ Numbered /\ Opened /\ NumbersType /\ FlagsType /\ RunsType /\ StateType
  BY DEF ClientInv, Types
<1>1. /\ flight' \subseteq flight /\ flight' \subseteq Requests
      /\ q0.run \in Runs \union {None} /\ q0.late \in BOOLEAN
      /\ q0.run \in Runs
  BY <1>0, FlightFacts DEF CancelAnswered, Fails, ShowResults, About
<1>2. IsFiniteSet(Over')
  <2>1. CASE UNCHANGED state
    BY <1>0, <2>1 DEF Named, Over
  <2>2. CASE state' = [state EXCEPT ![q0.run] = "cancelled"]
    BY <1>0, <1>1, <2>2, StillFinite DEF Named
  <2> QED
    BY <2>1, <2>2 DEF CancelAnswered
<1>3. RunsType'
  BY <1>0, <1>1 DEF CancelAnswered, RunsType, listVars, Disconnect, ResetForm, Fails
<1>4. FlagsType'
  BY <1>0 DEF CancelAnswered, FlagsType, listVars, Disconnect, ResetForm, Fails
<1>5. NumbersType'
  BY <1>0, <1>1, ClientAssumption DEF CancelAnswered, NumbersType, listVars, Disconnect,
    ResetForm, Fails
<1>6. StateType'
  BY <1>0 DEF CancelAnswered, StateType, Ended, listVars, Disconnect, ResetForm, Fails
<1>7. Named'
  BY <1>0, <1>1, <1>2 DEF CancelAnswered, Named
<1>8. Numbered'
  BY <1>0, <1>1, ClientAssumption DEF CancelAnswered, NumbersType, FlagsType, Numbered, listVars,
    Disconnect, ResetForm, Fails
<1>9. Opened'
  BY <1>0, <1>1 DEF CancelAnswered, FlagsType, Opened, listVars, Disconnect, ResetForm, Fails
<1> QED
  BY <1>1, <1>3, <1>4, <1>5, <1>6, <1>7, <1>8, <1>9 DEF ClientInv, Types

LEMMA CancelFailsKeeps ==
  ASSUME ClientInv, NEW q0 \in flight, CancelFails(q0)
  PROVE ClientInv'
<1>0. Types /\ Named /\ Numbered /\ Opened /\ NumbersType /\ FlagsType /\ RunsType /\ StateType
  BY DEF ClientInv, Types
<1>1. /\ flight' \subseteq flight /\ flight' \subseteq Requests
      /\ q0.run \in Runs \union {None} /\ q0.late \in BOOLEAN
      /\ q0.run \in Runs
  BY <1>0, FlightFacts DEF CancelFails, Fails, ShowResults, About
<1>2. RunsType'
  BY <1>0, <1>1 DEF CancelFails, RunsType, streamVars, listVars, viewVars, Fails
<1>3. FlagsType'
  BY <1>0 DEF CancelFails, FlagsType, streamVars, listVars, viewVars, Fails
<1>4. NumbersType'
  BY <1>0, <1>1, ClientAssumption DEF CancelFails, NumbersType, streamVars, listVars, viewVars,
    Fails
<1>5. StateType'
  BY <1>0 DEF CancelFails, StateType, Ended, streamVars, listVars, viewVars, Fails
<1>6. Named'
  BY <1>0, <1>1 DEF CancelFails, Named, Over, streamVars, listVars, viewVars, Fails
<1>7. Numbered'
  BY <1>0, <1>1, ClientAssumption DEF CancelFails, NumbersType, FlagsType, Numbered, streamVars,
    listVars, viewVars, Fails
<1>8. Opened'
  BY <1>0, <1>1 DEF CancelFails, FlagsType, Opened, streamVars, listVars, viewVars, Fails
<1> QED
  BY <1>1, <1>2, <1>3, <1>4, <1>5, <1>6, <1>7, <1>8 DEF ClientInv, Types

LEMMA ResultFailsKeeps ==
  ASSUME ClientInv, NEW q0 \in flight, ResultFails(q0)
  PROVE ClientInv'
<1>0. Types /\ Named /\ Numbered /\ Opened /\ NumbersType /\ FlagsType /\ RunsType /\ StateType
  BY DEF ClientInv, Types
<1>1. /\ flight' \subseteq flight /\ flight' \subseteq Requests
      /\ q0.run \in Runs \union {None} /\ q0.late \in BOOLEAN
      /\ q0.run \in Runs
  BY <1>0, FlightFacts DEF ResultFails, Fails, ShowResults, About
<1>2. RunsType'
  BY <1>0, <1>1 DEF ResultFails, RunsType, formVars, streamVars, listVars, viewVars, Fails
<1>3. FlagsType'
  BY <1>0 DEF ResultFails, FlagsType, formVars, streamVars, listVars, viewVars, Fails
<1>4. NumbersType'
  BY <1>0, <1>1, ClientAssumption DEF ResultFails, NumbersType, formVars, streamVars, listVars,
    viewVars, Fails
<1>5. StateType'
  BY <1>0 DEF ResultFails, StateType, Ended, formVars, streamVars, listVars, viewVars, Fails
<1>6. Named'
  BY <1>0, <1>1 DEF ResultFails, Named, Over, formVars, streamVars, listVars, viewVars, Fails
<1>7. Numbered'
  BY <1>0, <1>1, ClientAssumption DEF ResultFails, NumbersType, FlagsType, Numbered, formVars,
    streamVars, listVars, viewVars, Fails
<1>8. Opened'
  BY <1>0, <1>1 DEF ResultFails, FlagsType, Opened, formVars, streamVars, listVars, viewVars, Fails
<1> QED
  BY <1>1, <1>2, <1>3, <1>4, <1>5, <1>6, <1>7, <1>8 DEF ClientInv, Types

LEMMA PrepareHistoryKeeps ==
  ASSUME ClientInv, NEW r0 \in Runs, NEW k0 \in {"conversation", "result"},
         PrepareHistory(r0, Request(k0, r0))
  PROVE ClientInv'
<1>0. Types /\ Named /\ Numbered /\ Opened /\ NumbersType /\ FlagsType /\ RunsType /\ StateType
  BY DEF ClientInv, Types
<1> DEFINE q0 == Request(k0, r0)
<1>1. q0 \in Requests /\ q0.run = r0
  <2>1. k0 \in Kinds /\ r0 \in Runs \union {None}
    BY DEF Kinds
  <2> QED
    BY <2>1, NewRequest
<1> HIDE DEF q0
<1>2. /\ flight' \subseteq Requests
      /\ \A q \in flight' : (Opens(q) => q = q0) /\ (About(q) => q.run \in Runs)
  <2>1. flight' = Aged \union {q0}
    BY DEF PrepareHistory, q0
  <2> QED
    BY <1>0, <1>1, <2>1, AgedFacts
<1>3. RunsType'
  BY <1>0, <1>2 DEF PrepareHistory, RunsType, formVars, Disconnect, ResetRunView
<1>4. FlagsType'
  BY <1>0 DEF PrepareHistory, FlagsType, formVars, Disconnect, ResetRunView
<1>5. NumbersType'
  BY <1>0, <1>2, ClientAssumption DEF PrepareHistory, NumbersType, formVars, Disconnect,
    ResetRunView
<1>6. StateType'
  BY <1>0 DEF PrepareHistory, StateType, Ended, formVars, Disconnect, ResetRunView
<1>7. Named'
  BY <1>0, <1>2 DEF PrepareHistory, Named, Over, formVars, Disconnect, ResetRunView
<1>8. Numbered'
  BY <1>0, <1>2, ClientAssumption DEF PrepareHistory, NumbersType, FlagsType, Numbered, formVars,
    Disconnect, ResetRunView
<1>9. Opened'
  BY <1>0, <1>2 DEF PrepareHistory, FlagsType, Opened, formVars, Disconnect, ResetRunView
<1> QED
  BY <1>2, <1>3, <1>4, <1>5, <1>6, <1>7, <1>8, <1>9 DEF ClientInv, Types

LEMMA EnsuredKeeps ==
  ASSUME ClientInv, NEW q0 \in flight, Ensured(q0)
  PROVE ClientInv'
<1>0. Types /\ Named /\ Numbered /\ Opened /\ NumbersType /\ FlagsType /\ RunsType /\ StateType
  BY DEF ClientInv, Types
<1>1. /\ [q0 EXCEPT !.kind = "post"] \in Requests /\ [q0 EXCEPT !.kind = "post"].kind = "post"
  <2>1. q0 \in Requests /\ "post" \in Kinds
    BY <1>0, FlightFacts DEF Kinds
  <2> QED
    BY <2>1, Rekinded
<1>2. /\ ~Opens([q0 EXCEPT !.kind = "post"]) /\ ~About([q0 EXCEPT !.kind = "post"])
  BY <1>1 DEF Opens, About
<1>3. /\ flight' \subseteq Requests
      /\ \A q \in flight' : (Opens(q) => q \in flight) /\ (About(q) => q.run \in Runs)
  BY <1>0, <1>1, <1>2, FlightFacts DEF Ensured
<1>4. RunsType'
  BY <1>0, <1>3 DEF Ensured, RunsType, formVars, streamVars, listVars, viewVars
<1>5. FlagsType'
  BY <1>0 DEF Ensured, FlagsType, formVars, streamVars, listVars, viewVars
<1>6. NumbersType'
  BY <1>0, <1>3, ClientAssumption DEF Ensured, NumbersType, formVars, streamVars, listVars, viewVars
<1>7. StateType'
  BY <1>0 DEF Ensured, StateType, Ended, formVars, streamVars, listVars, viewVars
<1>8. Named'
  BY <1>0, <1>3 DEF Ensured, Named, Over, formVars, streamVars, listVars, viewVars
<1>9. Numbered'
  BY <1>0, <1>3, ClientAssumption DEF Ensured, NumbersType, FlagsType, Numbered, formVars,
    streamVars, listVars, viewVars
<1>10. Opened'
  BY <1>0, <1>3 DEF Ensured, FlagsType, Opened, formVars, streamVars, listVars, viewVars
<1> QED
  BY <1>3, <1>4, <1>5, <1>6, <1>7, <1>8, <1>9, <1>10 DEF ClientInv, Types

LEMMA ConversationFailsKeeps ==
  ASSUME ClientInv, NEW q0 \in flight, ConversationFails(q0)
  PROVE ClientInv'
<1>0. Types /\ Named /\ Numbered /\ Opened /\ NumbersType /\ FlagsType /\ RunsType /\ StateType
  BY DEF ClientInv, Types
<1>1. /\ [q0 EXCEPT !.kind = "result"] \in Requests /\ [q0 EXCEPT !.kind = "result"].kind = "result"
      /\ [q0 EXCEPT !.kind = "result"].run \in Runs
  <2>1. q0 \in Requests /\ "result" \in Kinds /\ q0.run \in Runs
    BY <1>0, FlightFacts DEF Kinds, ConversationFails, About
  <2> QED
    BY <2>1, Rekinded
<1>2. /\ ~Opens([q0 EXCEPT !.kind = "result"])
  BY <1>1 DEF Opens
<1>3. /\ flight' \subseteq Requests
      /\ \A q \in flight' : (Opens(q) => q \in flight) /\ (About(q) => q.run \in Runs)
  BY <1>0, <1>1, <1>2, FlightFacts DEF ConversationFails
<1>4. RunsType'
  BY <1>0, <1>3 DEF ConversationFails, RunsType, formVars, streamVars, listVars, viewVars
<1>5. FlagsType'
  BY <1>0 DEF ConversationFails, FlagsType, formVars, streamVars, listVars, viewVars
<1>6. NumbersType'
  BY <1>0, <1>3, ClientAssumption DEF ConversationFails, NumbersType, formVars, streamVars,
    listVars, viewVars
<1>7. StateType'
  BY <1>0 DEF ConversationFails, StateType, Ended, formVars, streamVars, listVars, viewVars
<1>8. Named'
  BY <1>0, <1>3 DEF ConversationFails, Named, Over, formVars, streamVars, listVars, viewVars
<1>9. Numbered'
  BY <1>0, <1>3, ClientAssumption DEF ConversationFails, NumbersType, FlagsType, Numbered,
    formVars, streamVars, listVars, viewVars
<1>10. Opened'
  BY <1>0, <1>3 DEF ConversationFails, FlagsType, Opened, formVars, streamVars, listVars, viewVars
<1> QED
  BY <1>3, <1>4, <1>5, <1>6, <1>7, <1>8, <1>9, <1>10 DEF ClientInv, Types

LEMMA StartFailsKeeps ==
  ASSUME ClientInv, NEW q0 \in flight, StartFails(q0)
  PROVE ClientInv'
<1>0. Types /\ Named /\ Numbered /\ Opened /\ NumbersType /\ FlagsType /\ RunsType /\ StateType
  BY DEF ClientInv, Types
<1>1. flight' \subseteq flight /\ flight' \subseteq Requests
  BY <1>0, FlightFacts DEF StartFails, Fails
<1>2. RunsType'
  BY <1>0, <1>1 DEF StartFails, RunsType, streamVars, listVars, ResetForm, Fails
<1>3. FlagsType'
  BY <1>0 DEF StartFails, FlagsType, streamVars, listVars, ResetForm, Fails
<1>4. NumbersType'
  BY <1>0, <1>1, ClientAssumption DEF StartFails, NumbersType, streamVars, listVars, ResetForm,
    Fails
<1>5. StateType'
  BY <1>0 DEF StartFails, StateType, Ended, streamVars, listVars, ResetForm, Fails
<1>6. Named'
  BY <1>0, <1>1 DEF StartFails, Named, Over, streamVars, listVars, ResetForm, Fails
<1>7. Numbered'
  BY <1>0, <1>1, ClientAssumption DEF StartFails, NumbersType, FlagsType, Numbered, streamVars,
    listVars, ResetForm, Fails
<1>8. Opened'
  BY <1>0, <1>1 DEF StartFails, FlagsType, Opened, streamVars, listVars, ResetForm, Fails
<1> QED
  BY <1>1, <1>2, <1>3, <1>4, <1>5, <1>6, <1>7, <1>8 DEF ClientInv, Types

LEMMA PostedKeeps ==
  ASSUME ClientInv, NEW q0 \in flight, Posted(q0)
  PROVE ClientInv'
<1>0. Types /\ Named /\ Numbered /\ Opened /\ NumbersType /\ FlagsType /\ RunsType /\ StateType
  BY DEF ClientInv, Types
<1>1. flight' \subseteq flight /\ flight' \subseteq Requests
  BY <1>0, FlightFacts DEF Posted, Fails
<1>2. PICK r \in Runs : /\ state' = [state EXCEPT ![r] = "running"]
                        /\ activeRun' = r /\ Connect(r)
  BY DEF Posted
<1>3. IsFiniteSet(Over')
  BY <1>0, <1>2, StillFinite DEF Named
<1>4. RunsType'
  BY <1>0, <1>1, <1>2 DEF Posted, RunsType, formVars, listVars, viewVars, Connect, Fails
<1>5. FlagsType'
  BY <1>0 DEF Posted, FlagsType, formVars, listVars, viewVars, Connect, Fails
<1>6. NumbersType'
  BY <1>0, <1>1, ClientAssumption DEF Posted, NumbersType, formVars, listVars, viewVars, Connect,
    Fails
<1>7. StateType'
  BY <1>0, <1>2 DEF Posted, StateType, Ended, formVars, listVars, viewVars, Connect, Fails
<1>8. Named'
  BY <1>0, <1>1, <1>3 DEF Posted, Named, formVars, listVars, viewVars, Connect, Fails
<1>9. Numbered'
  BY <1>0, <1>1, ClientAssumption DEF Posted, NumbersType, FlagsType, Numbered, formVars,
    listVars, viewVars, Connect, Fails
<1>10. Opened'
  BY <1>0, <1>1 DEF Posted, FlagsType, Opened, formVars, listVars, viewVars, Connect, Fails
<1> QED
  BY <1>1, <1>4, <1>5, <1>6, <1>7, <1>8, <1>9, <1>10 DEF ClientInv, Types

LEMMA SourceFoundKeeps ==
  ASSUME ClientInv, SourceFound
  PROVE ClientInv'
<1>0. Types /\ Named /\ Numbered /\ Opened /\ NumbersType /\ FlagsType /\ RunsType /\ StateType
  BY DEF ClientInv, Types
<1>1. flight' = flight /\ flight \subseteq Requests /\ list' = list + 1
  BY <1>0 DEF SourceFound, Types
<1>2. RunsType'
  BY <1>0, <1>1 DEF SourceFound, RunsType, formVars, streamVars, viewVars
<1>3. FlagsType'
  BY <1>0 DEF SourceFound, FlagsType, formVars, streamVars, viewVars
<1>4. NumbersType'
  BY <1>0, <1>1, ClientAssumption DEF SourceFound, NumbersType, formVars, streamVars, viewVars
<1>5. StateType'
  BY <1>0 DEF SourceFound, StateType, Ended, formVars, streamVars, viewVars
<1>6. Named'
  BY <1>0, <1>1 DEF SourceFound, Named, Over, formVars, streamVars, viewVars
<1>7. Numbered'
  BY <1>0, <1>1, ClientAssumption DEF SourceFound, NumbersType, FlagsType, Numbered, formVars,
    streamVars, viewVars
<1>8. Opened'
  BY <1>0, <1>1 DEF SourceFound, FlagsType, Opened, formVars, streamVars, viewVars
<1> QED
  BY <1>1, <1>2, <1>3, <1>4, <1>5, <1>6, <1>7, <1>8 DEF ClientInv, Types

LEMMA StreamEndsKeeps ==
  ASSUME ClientInv, StreamEnds
  PROVE ClientInv'
<1>0. Types /\ Named /\ Numbered /\ Opened /\ NumbersType /\ FlagsType /\ RunsType /\ StateType
  BY DEF ClientInv, Types
<1>1. PICK r \in streams : flight' = flight \union {[Request("result", r) EXCEPT !.late = (r # stream)]}
  BY DEF StreamEnds
<1> DEFINE q0 == [Request("result", r) EXCEPT !.late = (r # stream)]
<1>2. q0 \in Requests /\ q0.run \in Runs /\ ~Opens(q0)
  <2>1. r \in Runs /\ (r # stream) \in BOOLEAN /\ r \in Runs \union {None} /\ "result" \in Kinds
    BY <1>0 DEF RunsType, Kinds
  <2> QED
    BY <2>1 DEF Request, Requests, Opens
<1> HIDE DEF q0
<1>3. /\ flight' \subseteq Requests
      /\ \A q \in flight' : (Opens(q) => q \in flight) /\ (About(q) => q.run \in Runs)
  <2>1. flight' = flight \union {q0}
    BY <1>1 DEF q0
  <2> QED
    BY <1>0, <1>2, <2>1, FlightFacts DEF Types, Named
<1>4. RunsType'
  BY <1>0, <1>3 DEF StreamEnds, RunsType, listVars, Disconnect, ResetForm
<1>5. FlagsType'
  BY <1>0 DEF StreamEnds, FlagsType, listVars, Disconnect, ResetForm
<1>6. NumbersType'
  BY <1>0, <1>3, ClientAssumption DEF StreamEnds, NumbersType, listVars, Disconnect, ResetForm
<1>7. StateType'
  BY <1>0 DEF StreamEnds, StateType, Ended, listVars, Disconnect, ResetForm
<1>8. Named'
  BY <1>0, <1>3 DEF StreamEnds, Named, Over, listVars, Disconnect, ResetForm
<1>9. Numbered'
  BY <1>0, <1>3, ClientAssumption DEF StreamEnds, NumbersType, FlagsType, Numbered, listVars,
    Disconnect, ResetForm
<1>10. Opened'
  BY <1>0, <1>3 DEF StreamEnds, FlagsType, Opened, listVars, Disconnect, ResetForm
<1> QED
  BY <1>3, <1>4, <1>5, <1>6, <1>7, <1>8, <1>9, <1>10 DEF ClientInv, Types

LEMMA RunEndsKeeps ==
  ASSUME ClientInv, RunEnds
  PROVE ClientInv'
<1>0. Types /\ Named /\ Numbered /\ Opened /\ NumbersType /\ FlagsType /\ RunsType /\ StateType
  BY DEF ClientInv, Types
<1>1. flight' = flight /\ flight \subseteq Requests
  BY <1>0 DEF RunEnds, Types
<1>2. PICK r \in Runs : state' = [state EXCEPT ![r] = "done"]
  BY DEF RunEnds
<1>3. IsFiniteSet(Over')
  BY <1>0, <1>2, StillFinite DEF Named
<1>4. RunsType'
  BY <1>0, <1>1 DEF RunEnds, RunsType, formVars, streamVars, listVars, viewVars
<1>5. FlagsType'
  BY <1>0 DEF RunEnds, FlagsType, formVars, streamVars, listVars, viewVars
<1>6. NumbersType'
  BY <1>0, <1>1, ClientAssumption DEF RunEnds, NumbersType, formVars, streamVars, listVars, viewVars
<1>7. StateType'
  BY <1>0, <1>2 DEF RunEnds, StateType, Ended, formVars, streamVars, listVars, viewVars
<1>8. Named'
  BY <1>0, <1>1, <1>3 DEF RunEnds, Named, formVars, streamVars, listVars, viewVars
<1>9. Numbered'
  BY <1>0, <1>1, ClientAssumption DEF RunEnds, NumbersType, FlagsType, Numbered, formVars,
    streamVars, listVars, viewVars
<1>10. Opened'
  BY <1>0, <1>1 DEF RunEnds, FlagsType, Opened, formVars, streamVars, listVars, viewVars
<1> QED
  BY <1>1, <1>4, <1>5, <1>6, <1>7, <1>8, <1>9, <1>10 DEF ClientInv, Types

LEMMA CancelledElsewhereKeeps ==
  ASSUME ClientInv, CancelledElsewhere
  PROVE ClientInv'
<1>0. Types /\ Named /\ Numbered /\ Opened /\ NumbersType /\ FlagsType /\ RunsType /\ StateType
  BY DEF ClientInv, Types
<1>1. flight' = flight /\ flight \subseteq Requests
  BY <1>0 DEF CancelledElsewhere, Types
<1>2. PICK r \in Runs : state' = [state EXCEPT ![r] = "cancelled"]
  BY DEF CancelledElsewhere
<1>3. IsFiniteSet(Over')
  BY <1>0, <1>2, StillFinite DEF Named
<1>4. RunsType'
  BY <1>0, <1>1 DEF CancelledElsewhere, RunsType, formVars, streamVars, listVars, viewVars
<1>5. FlagsType'
  BY <1>0 DEF CancelledElsewhere, FlagsType, formVars, streamVars, listVars, viewVars
<1>6. NumbersType'
  BY <1>0, <1>1, ClientAssumption DEF CancelledElsewhere, NumbersType, formVars, streamVars,
    listVars, viewVars
<1>7. StateType'
  BY <1>0, <1>2 DEF CancelledElsewhere, StateType, Ended, formVars, streamVars, listVars, viewVars
<1>8. Named'
  BY <1>0, <1>1, <1>3 DEF CancelledElsewhere, Named, formVars, streamVars, listVars, viewVars
<1>9. Numbered'
  BY <1>0, <1>1, ClientAssumption DEF CancelledElsewhere, NumbersType, FlagsType, Numbered,
    formVars, streamVars, listVars, viewVars
<1>10. Opened'
  BY <1>0, <1>1 DEF CancelledElsewhere, FlagsType, Opened, formVars, streamVars, listVars, viewVars
<1> QED
  BY <1>1, <1>4, <1>5, <1>6, <1>7, <1>8, <1>9, <1>10 DEF ClientInv, Types

LEMMA ConversationAnsweredKeeps ==
  ASSUME ClientInv, NEW q0 \in flight, ConversationAnswered(q0)
  PROVE ClientInv'
<1>0. Types /\ Named /\ Numbered /\ Opened /\ NumbersType /\ FlagsType /\ RunsType /\ StateType
  BY DEF ClientInv, Types
<1>1. PICK runs \in SUBSET Over :
         \E latest \in runs, searches \in SUBSET (runs \ Research) :
           LET before == runs \ {latest}
               offset == MapThenSumSet(Listed, before)
               at(r) == IF r \in searches THEN 0 ELSE offset
           IN /\ archived' = Larger(archived, offset)
              /\ start' = at(latest)
              /\ RenderDirect(latest, at(latest), Larger(offset, at(latest) + Listed(latest)))
              /\ activeRun' = latest
              /\ ShowResults(latest, q0)
  BY DEF ConversationAnswered
<1>2. PICK latest \in runs, searches \in SUBSET (runs \ Research) :
        LET before == runs \ {latest}
            offset == MapThenSumSet(Listed, before)
            at(r) == IF r \in searches THEN 0 ELSE offset
        IN /\ archived' = Larger(archived, offset)
           /\ start' = at(latest)
           /\ RenderDirect(latest, at(latest), Larger(offset, at(latest) + Listed(latest)))
           /\ activeRun' = latest
           /\ ShowResults(latest, q0)
  BY <1>1
<1> DEFINE offset == MapThenSumSet(Listed, runs \ {latest})
           from == IF latest \in searches THEN 0 ELSE offset
           reached == Larger(offset, from + Listed(latest))
<1>3. /\ archived' = Larger(archived, offset) /\ start' = from /\ activeRun' = latest
      /\ RenderDirect(latest, from, reached) /\ ShowResults(latest, q0)
  BY <1>2
<1>4. offset \in Nat /\ latest \in Runs
  <2>1. runs \ {latest} \in SUBSET Runs /\ latest \in Runs
    BY DEF Over
  <2>2. IsFiniteSet(runs \ {latest})
    BY <1>0, FS_Subset DEF Named
  <2> QED
    BY <2>1, <2>2, CountType
<1> HIDE DEF offset
<1>5. Listed(latest) \in Nat
  BY <1>4, ListedType
<1>6. /\ from \in Nat /\ reached \in Nat /\ offset <= reached
      /\ from + Listed(latest) <= reached /\ from <= reached
  BY <1>4, <1>5 DEF Larger
<1> HIDE DEF from, reached
<1>7. /\ list' \in Nat /\ next' \in Nat /\ hasMore' \in BOOLEAN
      /\ reached <= next' /\ from + Listed(latest) <= next'
  BY <1>0, <1>3, <1>4, <1>6, RenderedFacts DEF NumbersType, FlagsType
<1>8. /\ mixed' = (mixed \/ q0.late) /\ opening' = (opening /\ q0.late) /\ shown' = latest
      /\ flight' = flight \ {q0}
      /\ q0.kind = "conversation"
      /\ UNCHANGED <<formVars, streamVars, paging, state, left, restored>>
  BY <1>3 DEF ConversationAnswered, ShowResults
<1>9. q0.late \in BOOLEAN /\ flight' \subseteq Requests
  BY <1>0, <1>8, FlightFacts
<1>10. RunsType'
  BY <1>0, <1>3, <1>4, <1>8 DEF RunsType, streamVars
<1>11. FlagsType'
  BY <1>0, <1>7, <1>8, <1>9 DEF FlagsType, formVars
<1>12. NumbersType'
  BY <1>0, <1>3, <1>4, <1>6, <1>7 DEF NumbersType, Larger
<1>13. StateType'
  BY <1>0, <1>8 DEF StateType
<1>14. Named'
  BY <1>0, <1>8 DEF Named, Over
<1>15. mixed' \/ (archived = 0 /\ restored)
  BY <1>0, <1>8, <1>9 DEF Opened, Opens, FlagsType
<1>16. Numbered'
  <2>1. start' <= next'
    BY <1>3, <1>4, <1>5, <1>6, <1>7
  <2>2. mixed' \/ archived' <= next'
    BY <1>3, <1>4, <1>6, <1>7, <1>15 DEF Larger
  <2>3. start' + Listed(shown') <= next'
    BY <1>3, <1>7, <1>8
  <2>4. mixed' \/ restored'
    BY <1>8, <1>15
  <2> QED
    BY <2>1, <2>2, <2>3, <2>4 DEF Numbered, Listed
<1>17. Opened'
  <2>1. mixed' \/ ~Opens(q0) \/ ~(opening' \/ \E q \in flight' : Opens(q))
    BY <1>0, <1>8, <1>9 DEF Opened, Opens, FlagsType
  <2>2. Opens(q0) \/ mixed'
    BY <1>8, <1>9 DEF Opens
  <2>3. \A p, q \in flight' : Opens(p) /\ Opens(q) => p = q
    BY <1>0, <1>8 DEF Opened
  <2> QED
    BY <2>1, <2>2, <2>3 DEF Opened
<1> QED
  BY <1>9, <1>10, <1>11, <1>12, <1>13, <1>14, <1>16, <1>17 DEF ClientInv, Types

LEMMA Stutters == ClientInv /\ UNCHANGED vars => ClientInv'
  BY DEF ClientInv, Types, RunsType, FlagsType, NumbersType, StateType, Named, Over, Numbered, Listed, Opened,
         vars, formVars, streamVars, listVars, viewVars

\* However late the answers come, the invariant of the page holds.
THEOREM InductiveInvariant == Spec => []ClientInv
<1>1. ClientInv /\ [Next]_vars => ClientInv'
  <2> SUFFICES ASSUME ClientInv, [Next]_vars PROVE ClientInv'
    OBVIOUS
  <2>1. CASE User
    <3>1. CASE OpenHistory
      <4>1. PICK r \in Over : PrepareHistory(r, Request("conversation", r))
        BY <3>1 DEF OpenHistory
      <4>2. r \in Runs
        BY DEF Over
      <4> QED
        BY <4>1, <4>2, PrepareHistoryKeeps
    <3>2. CASE QueryRun
      <4>1. PICK r \in Runs : PrepareHistory(r, Request("result", r))
        BY <3>2 DEF QueryRun
      <4> QED
        BY <4>1, PrepareHistoryKeeps
    <3> QED
      BY <2>1, <3>1, <3>2, SubmitKeeps, ClarifyKeeps, CancelKeeps, LoadMoreKeeps, StartNewKeeps DEF User
  <2>2. CASE Starts
    BY <2>2, EnsuredKeeps, StartFailsKeeps, PostedKeeps DEF Starts
  <2>3. CASE Answers
    <3>1. PICK q \in flight :
            \/ ResultAnswered(q) \/ PageAnswered(q) \/ PageFails(q)
            \/ CancelAnswered(q) \/ CancelFails(q) \/ ConversationAnswered(q) \/ ConversationFails(q)
            \/ ResultFails(q)
      BY <2>3 DEF Answers
    <3> QED
      BY <3>1, ResultAnsweredKeeps, PageAnsweredKeeps, PageFailsKeeps, CancelAnsweredKeeps, CancelFailsKeeps,
         ConversationAnsweredKeeps, ConversationFailsKeeps, ResultFailsKeeps
  <2> QED
    BY <2>1, <2>2, <2>3, SourceFoundKeeps, StreamEndsKeeps, RunEndsKeeps, CancelledElsewhereKeeps, Stutters
       DEF Next
<1> QED
  BY Initially, <1>1, PTL DEF Spec

\* The page keeps its types, and there is no event stream open but the active one,
\* however late the answer to a question comes.
THEOREM TypeCorrect == Spec => []TypeOK
<1>1. ClientInv => TypeOK
  BY DEF ClientInv, Types, RunsType, FlagsType, NumbersType, StateType, Requests, TypeOK
<1> QED
  BY InductiveInvariant, <1>1, PTL

\* The cards of a list come after every number archived above it, with results,
\* pages and failures coming late, for the conversations that the view is about.
THEOREM NumbersAreDistinct == Spec => []NumbersDistinct
<1>1. ClientInv => NumbersDistinct
  BY DEF ClientInv, Numbered, NumbersDistinct
<1> QED
  BY InductiveInvariant, <1>1, PTL
=============================================================================
