--------------------------- MODULE SessionsProofs ---------------------------
(***************************************************************************)
(* Proofs about Sessions, for any number of turns, papers and sessions.     *)
(***************************************************************************)
EXTENDS Sessions, NaturalsInduction, WellFoundedInduction, SequenceTheorems, TLAPS

Contexts == [papers : Seq(Papers), batch : Seq(Papers), start : Nat \ {0}, mentioned : Seq(Papers)]
SessionContexts ==
  [alive : BOOLEAN, from : Nat, messages : Transcripts,
   papers : Seq(Papers), batch : Seq(Papers), start : Nat \ {0}, mentioned : Seq(Papers)]
ResultsType == [intent : Intents, sources : Seq(Papers), resolved : Seq(Papers)]
TurnsType ==
  [phase : Phases, session : Nat, base : Transcripts, prepared : Transcripts,
   context : Contexts, result : ResultsType]
ListsType == [first : Nat, papers : Seq(Papers)]

\* No paper twice.
DistinctPapers(c) == IsInjective(c.papers) /\ IsInjective(c.mentioned)

\* --------------------------------------------------------------------------
\* Induction up to n, for a set of numbers.
LEMMA UpTo ==
  ASSUME NEW n \in Nat, NEW D, 0 \in D, \A k \in 1 .. n : k - 1 \in D => k \in D
  PROVE  \A k \in 0 .. n : k \in D
<1> DEFINE Bad == {k \in 0 .. n : k \notin D}
<1>1. SUFFICES ASSUME Bad # {} PROVE FALSE
  OBVIOUS
<1>2. PICK m \in Bad : \A k \in Bad : <<k, m>> \notin OpToRel(<, Nat)
  <2>1. Bad \in SUBSET Nat
    OBVIOUS
  <2> HIDE DEF Bad
  <2> QED BY <1>1, <2>1, WFMin, NatLessThanWellFounded, Zenon
<1>3. m \in 1 .. n /\ m - 1 \in 0 .. n /\ m - 1 < m
  <2>1. m \in 0 .. n /\ m # 0
    BY <1>2
  <2> QED BY <2>1
<1>4. m - 1 \notin Bad
  <2>1. m - 1 \in Nat /\ m \in Nat
    BY <1>3
  <2>2. m - 1 \in Bad => ~(m - 1 < m)
    BY <1>2, <2>1, Zenon DEF OpToRel
  <2> QED BY <1>3, <2>2
<1> QED BY <1>2, <1>3, <1>4

\* A recursion of n steps within V has a solution.
Solved(n, V, a, G) ==
  \E f \in [0 .. n -> V] : f[0] = a /\ \A k \in 1 .. n : f[k] = G[k][f[k - 1]]

LEMMA Iterate ==
  ASSUME NEW n \in Nat, NEW V, NEW a \in V, NEW G \in [1 .. n -> [V -> V]]
  PROVE  Solved(n, V, a, G)
<1> DEFINE Solves(f, m) == /\ f \in [0 .. m -> V] /\ f[0] = a
                           /\ \A k \in 1 .. m : f[k] = G[k][f[k - 1]]
           D == {m \in 0 .. n : \E f : Solves(f, m)}
<1>1. 0 \in D
  <2>1. Solves([k \in 0 .. 0 |-> a], 0)
    OBVIOUS
  <2>2. 0 \in 0 .. n
    OBVIOUS
  <2> HIDE DEF Solves
  <2> QED BY <2>1, <2>2
<1>2. ASSUME NEW m \in 1 .. n, m - 1 \in D PROVE m \in D
  <2>1. PICK f : Solves(f, m - 1)
    BY <1>2
  <2> DEFINE h == [k \in 0 .. m |-> IF k = m THEN G[m][f[m - 1]] ELSE f[k]]
  <2>2. m - 1 \in 0 .. m - 1 /\ f[m - 1] \in V /\ G[m][f[m - 1]] \in V
    BY <2>1
  <2>3. h \in [0 .. m -> V] /\ h[0] = a
    BY <2>1, <2>2
  <2>4. ASSUME NEW k \in 1 .. m PROVE h[k] = G[k][h[k - 1]]
    <3>1. k - 1 \in 0 .. m /\ k - 1 # m /\ h[k - 1] = f[k - 1]
      OBVIOUS
    <3>2. CASE k = m
      BY <3>1, <3>2
    <3>3. CASE k # m
      <4>1. k \in 1 .. m - 1 /\ h[k] = f[k]
        BY <3>3
      <4> QED BY <2>1, <3>1, <4>1
    <3> QED BY <3>2, <3>3
  <2>5. Solves(h, m)
    BY <2>3, <2>4
  <2>6. m \in 0 .. n
    OBVIOUS
  <2> HIDE DEF Solves, h
  <2> QED BY <2>5, <2>6
<1>3. n \in D
  <2>1. \A k \in 0 .. n : k \in D
    <3> HIDE DEF D
    <3> QED BY <1>1, <1>2, UpTo
  <2> HIDE DEF D
  <2> QED BY <2>1
<1> QED BY <1>3 DEF Solved

\* The recursion of Without has a solution, and it is the definition.
LEMMA WithoutSteps ==
  ASSUME NEW T, NEW q \in Seq(T), NEW S
  PROVE  \A n \in 0 .. Len(q) :
           WithoutUpTo(q, S)[n] =
             IF n = 0 THEN <<>>
             ELSE IF q[n] \in S THEN WithoutUpTo(q, S)[n - 1]
                  ELSE Append(WithoutUpTo(q, S)[n - 1], q[n])
<1> DEFINE G == [n \in 1 .. Len(q) |->
                   [w \in Seq(T) |-> IF q[n] \in S THEN w ELSE Append(w, q[n])]]
<1>1. Len(q) \in Nat /\ <<>> \in Seq(T) /\ \A n \in 1 .. Len(q) : q[n] \in T
  OBVIOUS
<1>2. G \in [1 .. Len(q) -> [Seq(T) -> Seq(T)]]
  BY <1>1
<1>3. PICK f \in [0 .. Len(q) -> Seq(T)] :
        f[0] = <<>> /\ \A k \in 1 .. Len(q) : f[k] = G[k][f[k - 1]]
  <2> DEFINE N == Len(q)
             V == Seq(T)
             a == <<>>
  <2>1. N \in Nat /\ a \in V /\ G \in [1 .. N -> [V -> V]]
    BY <1>1, <1>2
  <2> HIDE DEF G, N, V, a
  <2>2. \E f \in [0 .. N -> V] : f[0] = a /\ \A k \in 1 .. N : f[k] = G[k][f[k - 1]]
    <3>1. Solved(N, V, a, G)
      BY <2>1, Iterate, Zenon
    <3> QED BY <3>1 DEF Solved
  <2> QED BY <2>2 DEF N, V, a
<1>4. ASSUME NEW n \in 0 .. Len(q)
      PROVE  f[n] = IF n = 0 THEN <<>>
                    ELSE IF q[n] \in S THEN f[n - 1] ELSE Append(f[n - 1], q[n])
  <2>1. CASE n = 0
    BY <1>3, <2>1
  <2>2. CASE n # 0
    <3>1. n \in 1 .. Len(q) /\ n - 1 \in 0 .. Len(q)
      BY <1>1, <2>2
    <3>2. f[n - 1] \in Seq(T) /\ f[n] = G[n][f[n - 1]]
      BY <1>3, <3>1
    <3> QED BY <2>2, <3>1, <3>2
  <2> QED BY <2>1, <2>2
<1>5. f = [n \in 0 .. Len(q) |->
             IF n = 0 THEN <<>>
             ELSE IF q[n] \in S THEN f[n - 1] ELSE Append(f[n - 1], q[n])]
  BY <1>3, <1>4
<1>6. WithoutUpTo(q, S) = [n \in 0 .. Len(q) |->
        IF n = 0 THEN <<>>
        ELSE IF q[n] \in S THEN WithoutUpTo(q, S)[n - 1]
             ELSE Append(WithoutUpTo(q, S)[n - 1], q[n])]
  BY <1>5, Zenon DEF WithoutUpTo
<1> DEFINE w == WithoutUpTo(q, S)
<1>7. w = [n \in 0 .. Len(q) |->
        IF n = 0 THEN <<>>
        ELSE IF q[n] \in S THEN w[n - 1] ELSE Append(w[n - 1], q[n])]
  BY <1>6
<1> HIDE DEF w
<1>8. \A n \in 0 .. Len(q) : w[n] =
        IF n = 0 THEN <<>> ELSE IF q[n] \in S THEN w[n - 1] ELSE Append(w[n - 1], q[n])
  BY <1>7
<1> QED BY <1>8 DEF w

\* What Without leaves: the elements that are not in S, and, if no element is,
\* everything; it repeats nothing that the sequence does not repeat.
LEMMA WithoutFacts ==
  ASSUME NEW T, NEW q \in Seq(T), NEW S
  PROVE  /\ Without(q, S) \in Seq(T)
         /\ \A k \in DOMAIN Without(q, S) :
              Without(q, S)[k] \notin S /\ \E j \in DOMAIN q : q[j] = Without(q, S)[k]
         /\ IsInjective(q) => IsInjective(Without(q, S))
         /\ (\A j \in DOMAIN q : q[j] \notin S) => Without(q, S) = q
<1> DEFINE w == WithoutUpTo(q, S)
           Holds(n) ==
             /\ w[n] \in Seq(T)
             /\ \A k \in 1 .. Len(w[n]) : \E j \in 1 .. n : q[j] = w[n][k] /\ q[j] \notin S
             /\ IsInjective(q) => IsInjective(w[n])
             /\ (\A j \in 1 .. Len(q) : q[j] \notin S) =>
                   Len(w[n]) = n /\ \A k \in 1 .. n : w[n][k] = q[k]
           D == {n \in 0 .. Len(q) : Holds(n)}
<1>1. Len(q) \in Nat /\ DOMAIN q = 1 .. Len(q)
  OBVIOUS
<1>2. \A n \in 0 .. Len(q) :
        w[n] = IF n = 0 THEN <<>> ELSE IF q[n] \in S THEN w[n - 1] ELSE Append(w[n - 1], q[n])
  BY WithoutSteps
<1> HIDE DEF w
<1>3. 0 \in D
  <2>1. w[0] = <<>> /\ 0 \in 0 .. Len(q)
    BY <1>1, <1>2
  <2>2. Holds(0)
    BY <2>1 DEF IsInjective
  <2> HIDE DEF Holds
  <2> QED BY <2>1, <2>2
<1>4. ASSUME NEW n \in 1 .. Len(q), n - 1 \in D PROVE n \in D
  <2>1. n \in 0 .. Len(q) /\ n # 0 /\ n - 1 \in 0 .. Len(q) /\ n \in Nat /\ q[n] \in T
    BY <1>1
  <2> DEFINE v == w[n - 1]
  <2>2. Holds(n - 1)
    BY <1>4
  <2>3. /\ v \in Seq(T)
        /\ \A k \in 1 .. Len(v) : \E j \in 1 .. n - 1 : q[j] = v[k] /\ q[j] \notin S
        /\ IsInjective(q) => IsInjective(v)
        /\ (\A j \in 1 .. Len(q) : q[j] \notin S) =>
              Len(v) = n - 1 /\ \A k \in 1 .. n - 1 : v[k] = q[k]
    BY <2>2
  <2>4. w[n] = IF q[n] \in S THEN v ELSE Append(v, q[n])
    BY <1>2, <2>1
  <2> HIDE DEF v, Holds
  <2>5. \A k \in 1 .. Len(v) : \E j \in 1 .. n : q[j] = v[k] /\ q[j] \notin S
    <3>1. \A j \in 1 .. n - 1 : j \in 1 .. n
      BY <2>1
    <3> QED BY <2>3, <3>1
  <2>6. CASE q[n] \in S
    <3>1. ~\A j \in 1 .. Len(q) : q[j] \notin S
      BY <2>6
    <3>2. w[n] = v
      BY <2>4, <2>6
    <3>3. Holds(n)
      BY <2>3, <2>5, <3>1, <3>2, Zenon DEF Holds
    <3> QED BY <2>1, <3>3
  <2>7. CASE q[n] \notin S
    <3> DEFINE u == Append(v, q[n])
    <3>1. /\ u \in Seq(T) /\ Len(u) = Len(v) + 1 /\ Len(v) \in Nat
          /\ \A k \in 1 .. Len(v) + 1 : u[k] = IF k <= Len(v) THEN v[k] ELSE q[n]
          /\ DOMAIN u = 1 .. Len(v) + 1 /\ DOMAIN v = 1 .. Len(v)
      BY <2>1, <2>3
    <3> HIDE DEF u
    <3>2. \A k \in 1 .. Len(u) : \E j \in 1 .. n : q[j] = u[k] /\ q[j] \notin S
      <4> SUFFICES ASSUME NEW k \in 1 .. Len(u)
                   PROVE  \E j \in 1 .. n : q[j] = u[k] /\ q[j] \notin S
        OBVIOUS
      <4>1. CASE k <= Len(v)
        <5>1. k \in 1 .. Len(v) /\ u[k] = v[k]
          BY <3>1, <4>1
        <5> QED BY <2>5, <5>1
      <4>2. CASE ~(k <= Len(v))
        <5>1. u[k] = q[n] /\ n \in 1 .. n
          BY <2>1, <3>1, <4>2
        <5> QED BY <2>7, <5>1
      <4> QED BY <4>1, <4>2
    <3>3. ASSUME IsInjective(q) PROVE IsInjective(u)
      <4>1. \A k \in 1 .. Len(v) : v[k] # q[n]
        <5> SUFFICES ASSUME NEW k \in 1 .. Len(v), v[k] = q[n] PROVE FALSE
          OBVIOUS
        <5>1. PICK j \in 1 .. n - 1 : q[j] = v[k]
          BY <2>3
        <5>2. j \in DOMAIN q /\ n \in DOMAIN q /\ j # n
          BY <1>1, <2>1
        <5> QED BY <3>3, <5>1, <5>2 DEF IsInjective
      <4>2. ASSUME NEW j \in DOMAIN u, NEW k \in DOMAIN u, u[j] = u[k] PROVE j = k
        <5>1. j \in 1 .. Len(v) \/ j = Len(v) + 1
          BY <3>1
        <5>2. k \in 1 .. Len(v) \/ k = Len(v) + 1
          BY <3>1
        <5>3. \A i \in 1 .. Len(v) : u[i] = v[i]
          BY <3>1
        <5>4. u[Len(v) + 1] = q[n]
          BY <3>1
        <5> QED BY <2>3, <3>1, <3>3, <4>1, <4>2, <5>1, <5>2, <5>3, <5>4 DEF IsInjective
      <4> QED BY <4>2 DEF IsInjective
    <3>4. ASSUME \A j \in 1 .. Len(q) : q[j] \notin S
          PROVE  Len(u) = n /\ \A k \in 1 .. n : u[k] = q[k]
      <4>1. Len(v) = n - 1 /\ \A k \in 1 .. n - 1 : v[k] = q[k]
        BY <2>3, <3>4
      <4>2. Len(u) = n
        BY <2>1, <3>1, <4>1
      <4>3. ASSUME NEW k \in 1 .. n PROVE u[k] = q[k]
        <5>1. CASE k = n
          BY <2>1, <3>1, <4>1, <5>1
        <5>2. CASE k # n
          BY <2>1, <3>1, <4>1, <5>2
        <5> QED BY <5>1, <5>2
      <4> QED BY <4>2, <4>3
    <3>5. w[n] = u
      BY <2>4, <2>7 DEF u
    <3>6. Holds(n)
      BY <3>1, <3>2, <3>3, <3>4, <3>5, Zenon DEF Holds
    <3> QED BY <2>1, <3>6
  <2> QED BY <2>6, <2>7
<1>5. Len(q) \in D
  <2>1. Len(q) \in 0 .. Len(q)
    BY <1>1
  <2> HIDE DEF D
  <2> QED BY <1>1, <1>3, <1>4, <2>1, UpTo
<1>6. Holds(Len(q)) /\ Without(q, S) = w[Len(q)]
  BY <1>5 DEF Without, w
<1> DEFINE r == w[Len(q)]
<1>7. /\ r \in Seq(T) /\ DOMAIN r = 1 .. Len(r)
      /\ \A k \in 1 .. Len(r) : \E j \in 1 .. Len(q) : q[j] = r[k] /\ q[j] \notin S
      /\ IsInjective(q) => IsInjective(r)
      /\ (\A j \in 1 .. Len(q) : q[j] \notin S) =>
            Len(r) = Len(q) /\ \A k \in 1 .. Len(q) : r[k] = q[k]
  BY <1>6
<1> HIDE DEF r, Holds
<1>8. ASSUME \A j \in DOMAIN q : q[j] \notin S PROVE r = q
  BY <1>1, <1>7, <1>8, SeqEqual
<1>9. Without(q, S) = r
  BY <1>6 DEF r
<1> QED BY <1>1, <1>7, <1>8, <1>9

\* --------------------------------------------------------------------------
\* The papers of a session.

LEMMA ConcatDistinct ==
  ASSUME NEW T, NEW q \in Seq(T), NEW r \in Seq(T), IsInjective(q), IsInjective(r),
         \A j \in DOMAIN q, k \in DOMAIN r : q[j] # r[k]
  PROVE  q \o r \in Seq(T) /\ IsInjective(q \o r)
<1> DEFINE w == q \o r
<1>1. /\ w \in Seq(T) /\ DOMAIN w = 1 .. Len(q) + Len(r)
      /\ Len(q) \in Nat /\ Len(r) \in Nat /\ DOMAIN q = 1 .. Len(q) /\ DOMAIN r = 1 .. Len(r)
      /\ \A j \in 1 .. Len(q) : w[j] = q[j]
      /\ \A j \in Len(q) + 1 .. Len(q) + Len(r) : w[j] = r[j - Len(q)]
  OBVIOUS
<1> HIDE DEF w
<1>2. ASSUME NEW j \in DOMAIN w, NEW k \in DOMAIN w, w[j] = w[k] PROVE j = k
  <2>1. CASE j \in 1 .. Len(q) /\ k \in 1 .. Len(q)
    BY <1>1, <1>2, <2>1 DEF IsInjective
  <2>2. CASE j \in 1 .. Len(q) /\ k \notin 1 .. Len(q)
    <3>1. k \in Len(q) + 1 .. Len(q) + Len(r)
      BY <1>1, <2>2
    <3>2. k - Len(q) \in DOMAIN r /\ w[k] = r[k - Len(q)]
      BY <1>1, <3>1
    <3>3. w[j] = q[j] /\ j \in DOMAIN q
      BY <1>1, <2>2
    <3> QED BY <1>2, <3>2, <3>3
  <2>3. CASE j \notin 1 .. Len(q) /\ k \in 1 .. Len(q)
    <3>1. j \in Len(q) + 1 .. Len(q) + Len(r)
      BY <1>1, <2>3
    <3>2. j - Len(q) \in DOMAIN r /\ w[j] = r[j - Len(q)]
      BY <1>1, <3>1
    <3>3. w[k] = q[k] /\ k \in DOMAIN q
      BY <1>1, <2>3
    <3> QED BY <1>2, <3>2, <3>3
  <2>4. CASE j \notin 1 .. Len(q) /\ k \notin 1 .. Len(q)
    <3>3. j \in Len(q) + 1 .. Len(q) + Len(r) /\ k \in Len(q) + 1 .. Len(q) + Len(r)
      BY <1>1, <2>4
    <3>1. /\ j - Len(q) \in DOMAIN r /\ w[j] = r[j - Len(q)]
          /\ k - Len(q) \in DOMAIN r /\ w[k] = r[k - Len(q)]
      BY <1>1, <3>3
    <3>2. j - Len(q) = k - Len(q)
      BY <1>2, <3>1 DEF IsInjective
    <3> QED BY <1>1, <3>2, <3>3
  <2> QED BY <2>1, <2>2, <2>3, <2>4
<1>3. IsInjective(w)
  BY <1>2 DEF IsInjective
<1> QED BY <1>1, <1>3 DEF w

\* New papers are none of the session's; if no source is one of the session's,
\* they are the sources.
LEMMA NewPapersFacts ==
  ASSUME NEW c \in SessionContexts, NEW sources \in Seq(Papers), IsInjective(sources)
  PROVE  /\ NewPapers(c, sources) \in Seq(Papers) /\ IsInjective(NewPapers(c, sources))
         /\ \A j \in DOMAIN c.papers, k \in DOMAIN NewPapers(c, sources) :
              c.papers[j] # NewPapers(c, sources)[k]
         /\ ToSet(sources) \intersect ToSet(c.papers) = {} => NewPapers(c, sources) = sources
<1> DEFINE S == ToSet(c.papers)
           w == Without(sources, S)
<1>1. \A j \in DOMAIN c.papers : c.papers[j] \in S
  BY DEF ToSet
<1>2. ToSet(sources) \intersect S = {} => \A j \in DOMAIN sources : sources[j] \notin S
  BY DEF ToSet
<1> HIDE DEF S
<1>3. /\ w \in Seq(Papers) /\ \A k \in DOMAIN w : w[k] \notin S /\ IsInjective(w)
      /\ (\A j \in DOMAIN sources : sources[j] \notin S) => w = sources
  BY WithoutFacts
<1>4. IsInjective(w)
  BY WithoutFacts
<1> HIDE DEF w
<1>5. w = NewPapers(c, sources)
  BY DEF w, S, NewPapers
<1> QED BY <1>1, <1>2, <1>3, <1>4, <1>5 DEF S

LEMMA AppendPapersType ==
  ASSUME NEW c \in SessionContexts, DistinctPapers(c), NEW sources \in Seq(Papers),
         IsInjective(sources), NEW updateBatch \in BOOLEAN
  PROVE  LET d == AppendPapers(c, sources, updateBatch) IN
         /\ d \in SessionContexts /\ DistinctPapers(d)
         /\ d.alive = c.alive /\ d.from = c.from /\ d.messages = c.messages
         /\ d.start = c.start /\ d.mentioned = c.mentioned
         /\ d.batch = IF updateBatch THEN NewPapers(c, sources) ELSE c.batch
<1> DEFINE new == NewPapers(c, sources)
           both == c.papers \o new
<1>1. new \in Seq(Papers) /\ IsInjective(new) /\ c.papers \in Seq(Papers) /\ IsInjective(c.papers)
  BY NewPapersFacts DEF SessionContexts, DistinctPapers
<1>2. \A j \in DOMAIN c.papers, k \in DOMAIN new : c.papers[j] # new[k]
  BY NewPapersFacts
<1>3. AppendPapers(c, sources, updateBatch)
        = [c EXCEPT !.papers = both, !.batch = IF updateBatch THEN new ELSE c.batch]
  BY DEF AppendPapers, SessionContexts
<1> HIDE DEF new
<1>4. both \in Seq(Papers) /\ IsInjective(both)
  BY <1>1, <1>2, ConcatDistinct
<1> HIDE DEF both
<1>5. (IF updateBatch THEN new ELSE c.batch) \in Seq(Papers)
  BY <1>1 DEF SessionContexts
<1> QED BY <1>1, <1>3, <1>4, <1>5 DEF SessionContexts, DistinctPapers, new

LEMMA SetActiveType ==
  ASSUME NEW c \in SessionContexts, DistinctPapers(c), NEW mentioned \in Seq(Papers),
         IsInjective(mentioned)
  PROVE  LET d == SetActive(c, mentioned) IN
         /\ d \in SessionContexts /\ DistinctPapers(d)
         /\ d.alive = c.alive /\ d.from = c.from /\ d.messages = c.messages
         /\ d.start = c.start /\ d.papers = c.papers /\ d.batch = c.batch
<1> DEFINE S == ToSet(mentioned)
           rest == Without(c.mentioned, S)
           both == mentioned \o rest
<1>1. c.mentioned \in Seq(Papers) /\ IsInjective(c.mentioned)
  BY DEF SessionContexts, DistinctPapers
<1>2. \A j \in DOMAIN mentioned : mentioned[j] \in S
  BY DEF ToSet
<1> HIDE DEF S
<1>3. rest \in Seq(Papers) /\ IsInjective(rest) /\ \A k \in DOMAIN rest : rest[k] \notin S
  BY <1>1, WithoutFacts
<1> HIDE DEF rest
<1>4. both \in Seq(Papers) /\ IsInjective(both)
  BY <1>2, <1>3, ConcatDistinct
<1>5. SetActive(c, mentioned) = [c EXCEPT !.mentioned = both]
  BY DEF SetActive, SessionContexts, rest, S
<1> HIDE DEF both
<1> QED BY <1>4, <1>5 DEF SessionContexts, DistinctPapers

\* --------------------------------------------------------------------------
\* Archiving a turn, and replaying one.

LEMMA CoveredWith ==
  ASSUME NEW m \in Transcripts, NEW t \in Turns
  PROVE  With(m, t) \in Transcripts /\ Covered(With(m, t)) = Covered(m) \union {t}
<1> DEFINE full == Append(m.full, t)
<1>1. m.full \in Seq(Turns) /\ m.compacted \subseteq Turns
  BY DEF Transcripts
<1>2. /\ full \in Seq(Turns) /\ DOMAIN full = 1 .. Len(m.full) + 1 /\ Len(m.full) \in Nat
      /\ DOMAIN m.full = 1 .. Len(m.full)
      /\ \A j \in 1 .. Len(m.full) : full[j] = m.full[j]
      /\ full[Len(m.full) + 1] = t
  BY <1>1
<1>3. With(m, t) = [compacted |-> m.compacted, full |-> full]
  BY DEF With, Transcripts
<1> HIDE DEF full
<1>4. ToSet(full) = ToSet(m.full) \union {t}
  <2>1. \A u : u \in ToSet(full) <=> \E j \in 1 .. Len(m.full) + 1 : u = full[j]
    BY <1>2 DEF ToSet
  <2>2. \A u : u \in ToSet(m.full) <=> \E j \in 1 .. Len(m.full) : u = m.full[j]
    BY <1>2 DEF ToSet
  <2>3. \A j \in 1 .. Len(m.full) + 1 : j \in 1 .. Len(m.full) \/ j = Len(m.full) + 1
    BY <1>2
  <2>4. \A j \in 1 .. Len(m.full) : j \in 1 .. Len(m.full) + 1
    BY <1>2
  <2>5. Len(m.full) + 1 \in 1 .. Len(m.full) + 1
    BY <1>2
  <2>6. \A u : u \in ToSet(full) <=> u \in ToSet(m.full) \/ u = t
    <3> SUFFICES ASSUME NEW u PROVE u \in ToSet(full) <=> u \in ToSet(m.full) \/ u = t
      OBVIOUS
    <3>1. ASSUME u \in ToSet(full) PROVE u \in ToSet(m.full) \/ u = t
      BY <1>2, <2>1, <2>2, <2>3, <3>1
    <3>2. ASSUME u \in ToSet(m.full) PROVE u \in ToSet(full)
      BY <1>2, <2>1, <2>2, <2>4, <3>2
    <3>3. t \in ToSet(full)
      BY <1>2, <2>1, <2>5
    <3> QED BY <3>1, <3>2, <3>3
  <2> QED BY <2>6
<1> QED BY <1>1, <1>2, <1>3, <1>4 DEF Covered, Transcripts

LEMMA ArchivedFacts ==
  ASSUME turns \in [Turns -> TurnsType],
         NEW c \in SessionContexts, DistinctPapers(c), NEW t \in Turns,
         NEW r \in ResultsType, IsInjective(r.sources), IsInjective(r.resolved)
  PROVE  LET d == Archived(c, t, r)
             merged == IF c.messages = turns[t].base THEN turns[t].prepared ELSE c.messages
         IN /\ d \in SessionContexts /\ DistinctPapers(d)
            /\ d.alive = c.alive /\ d.from = c.from
            /\ merged \in Transcripts /\ d.messages = With(merged, t)
            /\ d.batch = IF r.intent \in Recommending
                              \/ (r.intent \in Listing /\ r.sources # <<>>)
                         THEN NewPapers(c, r.sources) ELSE c.batch
            /\ d.start = IF r.intent \in Listing /\ r.sources # <<>>
                         THEN BatchStart(t, r) ELSE c.start
<1> DEFINE numbered == r.intent \in Listing /\ r.sources # <<>>
           added == r.intent \in Recommending \/ (r.intent # "follow_up" /\ r.sources # <<>>)
           first == IF numbered THEN BatchStart(t, r) ELSE c.start
           started == [c EXCEPT !.start = first]
           supplied == IF added THEN AppendPapers(started, r.sources, r.intent \in Listing)
                       ELSE started
           named == IF r.resolved # <<>> THEN r.resolved
                    ELSE IF numbered THEN <<Head(r.sources)>> ELSE <<>>
           active == SetActive(supplied, named)
           merged == IF c.messages = turns[t].base THEN turns[t].prepared ELSE c.messages
<1>1. /\ r.sources \in Seq(Papers) /\ r.resolved \in Seq(Papers)
      /\ turns[t].base \in Transcripts /\ turns[t].prepared \in Transcripts
      /\ turns[t].context.papers \in Seq(Papers)
  BY DEF ResultsType, TurnsType, Contexts
<1>2. first \in Nat \ {0}
  <2>1. BatchStart(t, r) \in Nat \ {0}
    BY <1>1 DEF BatchStart
  <2> QED BY <2>1 DEF SessionContexts
<1>3. merged \in Transcripts
  BY <1>1 DEF SessionContexts
<1>4. /\ started \in SessionContexts /\ DistinctPapers(started)
      /\ started.papers = c.papers /\ started.batch = c.batch /\ started.start = first
      /\ started.alive = c.alive /\ started.from = c.from /\ started.messages = c.messages
  <2> HIDE DEF first
  <2> QED BY <1>2 DEF SessionContexts, DistinctPapers
<1>5. NewPapers(started, r.sources) = NewPapers(c, r.sources)
  BY <1>4 DEF NewPapers
<1> HIDE DEF first, started
<1>6. /\ supplied \in SessionContexts /\ DistinctPapers(supplied)
      /\ supplied.alive = c.alive /\ supplied.from = c.from
      /\ supplied.messages = c.messages /\ supplied.start = first
      /\ supplied.batch = IF added /\ r.intent \in Listing
                          THEN NewPapers(c, r.sources) ELSE c.batch
  <2>1. CASE added
    <3> DEFINE update == r.intent \in Listing
               x == AppendPapers(started, r.sources, update)
    <3>1. update \in BOOLEAN
      OBVIOUS
    <3> HIDE DEF update
    <3>2. /\ x \in SessionContexts /\ DistinctPapers(x)
          /\ x.alive = started.alive /\ x.from = started.from
          /\ x.messages = started.messages /\ x.start = started.start
          /\ x.batch = IF update THEN NewPapers(started, r.sources) ELSE started.batch
      BY <1>1, <1>4, <3>1, AppendPapersType
    <3>3. supplied = x
      BY <2>1 DEF update
    <3> HIDE DEF x
    <3> QED BY <1>4, <1>5, <2>1, <3>2, <3>3 DEF update
  <2>2. CASE ~added
    BY <1>4, <2>2
  <2> QED BY <2>1, <2>2
<1>7. (added /\ r.intent \in Listing) <=> (r.intent \in Recommending \/ numbered)
  BY DEF Listing, Recommending
<1>8. named \in Seq(Papers) /\ IsInjective(named)
  <2>1. CASE r.resolved # <<>>
    BY <1>1, <2>1
  <2>2. CASE r.resolved = <<>> /\ numbered
    <3>1. Head(r.sources) \in Papers
      BY <1>1, <2>2
    <3> QED BY <2>2, <3>1 DEF IsInjective
  <2>3. CASE r.resolved = <<>> /\ ~numbered
    BY <2>3 DEF IsInjective
  <2> QED BY <2>1, <2>2, <2>3
<1> HIDE DEF supplied, named
<1>9. /\ active \in SessionContexts /\ DistinctPapers(active)
      /\ active.alive = c.alive /\ active.from = c.from
      /\ active.messages = c.messages /\ active.start = first
      /\ active.batch = supplied.batch
  BY <1>6, <1>8, SetActiveType
<1>10. Archived(c, t, r) = MergeTurn(active, t)
  BY DEF Archived, active, supplied, named, started, first
<1> HIDE DEF active
<1>11. MergeTurn(active, t) = [active EXCEPT !.messages = With(merged, t)]
  BY <1>9 DEF MergeTurn, SessionContexts
<1>12. With(merged, t) \in Transcripts
  BY <1>3, CoveredWith
<1> DEFINE d == [active EXCEPT !.messages = With(merged, t)]
<1>13. /\ d \in SessionContexts /\ DistinctPapers(d) /\ d.alive = active.alive
       /\ d.from = active.from /\ d.messages = With(merged, t)
       /\ d.batch = active.batch /\ d.start = active.start
  <2> HIDE DEF merged
  <2> QED BY <1>9, <1>12 DEF SessionContexts, DistinctPapers
<1>14. d = Archived(c, t, r)
  BY <1>10, <1>11
<1> HIDE DEF d, merged
<1>15. d.batch = IF r.intent \in Recommending \/ numbered
                 THEN NewPapers(c, r.sources) ELSE c.batch
  BY <1>6, <1>7, <1>9, <1>13
<1> QED BY <1>3, <1>9, <1>13, <1>14, <1>15 DEF first, merged

LEMMA ReplayedType ==
  ASSUME turns \in [Turns -> TurnsType],
         NEW c \in SessionContexts, DistinctPapers(c), NEW t \in Turns,
         IsInjective(turns[t].result.sources), IsInjective(turns[t].result.resolved)
  PROVE  LET d == Replayed(c, t) IN
         d \in SessionContexts /\ DistinctPapers(d) /\ d.alive = c.alive /\ d.from = c.from
<1> DEFINE r == turns[t].result
           numbered == r.intent \in Listing /\ r.sources # <<>>
           added == r.intent # "follow_up" /\ r.sources # <<>>
           first == IF ~numbered THEN c.start
                    ELSE IF r.intent = "recommend_more" THEN Len(c.papers) + 1 ELSE 1
           started == [c EXCEPT !.start = first]
           update == r.intent \in Listing
           supplied == IF added THEN AppendPapers(started, r.sources, update) ELSE started
           active == SetActive(supplied, r.resolved)
           messages == With(active.messages, t)
           d == [active EXCEPT !.messages = messages]
<1>1. r.sources \in Seq(Papers) /\ r.resolved \in Seq(Papers)
  BY DEF ResultsType, TurnsType
<1>2. first \in Nat \ {0}
  <2>1. c.papers \in Seq(Papers) /\ c.start \in Nat \ {0}
    BY DEF SessionContexts
  <2>2. Len(c.papers) + 1 \in Nat \ {0} /\ 1 \in Nat \ {0}
    BY <2>1
  <2> HIDE DEF r
  <2> QED BY <2>1, <2>2
<1>3. /\ started \in SessionContexts /\ DistinctPapers(started)
      /\ started.alive = c.alive /\ started.from = c.from
  <2> HIDE DEF first
  <2> QED BY <1>2 DEF SessionContexts, DistinctPapers
<1>4. update \in BOOLEAN /\ IsInjective(r.sources) /\ IsInjective(r.resolved)
  OBVIOUS
<1>5. d = Replayed(c, t)
  BY DEF Replayed
<1> HIDE DEF first, started, update, r
<1>6. /\ supplied \in SessionContexts /\ DistinctPapers(supplied)
      /\ supplied.alive = c.alive /\ supplied.from = c.from
  BY <1>1, <1>3, <1>4, AppendPapersType
<1> HIDE DEF supplied
<1>7. /\ active \in SessionContexts /\ DistinctPapers(active)
      /\ active.alive = c.alive /\ active.from = c.from
  BY <1>1, <1>4, <1>6, SetActiveType
<1> HIDE DEF active
<1>8. messages \in Transcripts
  <2>1. active.messages \in Transcripts
    BY <1>7 DEF SessionContexts
  <2> QED BY <2>1, CoveredWith
<1> HIDE DEF messages
<1>9. d \in SessionContexts /\ DistinctPapers(d) /\ d.alive = c.alive /\ d.from = c.from
  BY <1>7, <1>8 DEF SessionContexts, DistinctPapers
<1> HIDE DEF d
<1> QED BY <1>5, <1>9

\* What a session is restored to, from a history of any length.
LEMMA RestoredSteps ==
  ASSUME turns \in [Turns -> TurnsType],
         \A t \in Turns : IsInjective(turns[t].result.sources)
                          /\ IsInjective(turns[t].result.resolved),
         NEW s \in Nat, RunsOf(s) \in Seq(Turns)
  PROVE  LET w == RestoredUpTo(s)
             q == RunsOf(s)
         IN \A n \in 0 .. Len(q) :
              /\ w[n] \in SessionContexts /\ DistinctPapers(w[n]) /\ w[n].from = s
              /\ w[n] = IF n = 0 THEN Fresh(s) ELSE Replayed(w[n - 1], q[n])
<1> DEFINE q == RunsOf(s)
           N == Len(q)
           V == {c \in SessionContexts : DistinctPapers(c) /\ c.from = s}
           G == [n \in 1 .. N |-> [c \in V |-> Replayed(c, q[n])]]
           a == Fresh(s)
           w == RestoredUpTo(s)
<1>1. N \in Nat /\ \A n \in 1 .. N : q[n] \in Turns
  OBVIOUS
<1>2. a \in V
  BY DEF Fresh, NoMessages, SessionContexts, Transcripts, DistinctPapers, IsInjective
<1> HIDE DEF q, N
<1>3. \A n \in 1 .. N, c \in V : Replayed(c, q[n]) \in V
  BY <1>1, ReplayedType
<1> HIDE DEF V, a
<1>4. G \in [1 .. N -> [V -> V]]
  BY <1>3
<1>5. PICK f \in [0 .. N -> V] : f[0] = a /\ \A k \in 1 .. N : f[k] = G[k][f[k - 1]]
  <2> HIDE DEF G
  <2>1. Solved(N, V, a, G)
    BY <1>1, <1>2, <1>4, Iterate, Zenon
  <2> QED BY <2>1 DEF Solved
<1>6. \A n \in 0 .. N : f[n] = IF n = 0 THEN a ELSE Replayed(f[n - 1], q[n])
  <2> SUFFICES ASSUME NEW n \in 0 .. N
               PROVE  f[n] = IF n = 0 THEN a ELSE Replayed(f[n - 1], q[n])
    OBVIOUS
  <2>1. CASE n = 0
    BY <1>5, <2>1
  <2>2. CASE n # 0
    <3>1. n \in 1 .. N /\ n - 1 \in 0 .. N
      BY <1>1, <2>2
    <3>2. f[n - 1] \in V /\ f[n] = G[n][f[n - 1]]
      BY <1>5, <3>1
    <3> QED BY <2>2, <3>1, <3>2
  <2> QED BY <2>1, <2>2
<1>7. f = [n \in 0 .. N |-> IF n = 0 THEN a ELSE Replayed(f[n - 1], q[n])]
  BY <1>5, <1>6
<1>8. w = [n \in 0 .. N |-> IF n = 0 THEN a ELSE Replayed(w[n - 1], q[n])]
  BY <1>7, Zenon DEF RestoredUpTo, q, N, a
<1> HIDE DEF w, G
<1>9. \A n \in 0 .. N : w[n] = IF n = 0 THEN a ELSE Replayed(w[n - 1], q[n])
  BY <1>8
<1> DEFINE D == {n \in 0 .. N : w[n] \in V}
<1>10. 0 \in D
  BY <1>1, <1>2, <1>9
<1>11. ASSUME NEW n \in 1 .. N, n - 1 \in D PROVE n \in D
  <2>1. n \in 0 .. N /\ n # 0 /\ w[n - 1] \in V
    BY <1>1, <1>11
  <2>2. w[n] = Replayed(w[n - 1], q[n])
    BY <1>9, <2>1
  <2> QED BY <1>3, <2>1, <2>2
<1>12. \A n \in 0 .. N : n \in D
  <2> HIDE DEF D
  <2> QED BY <1>1, <1>10, <1>11, UpTo
<1>13. \A n \in 0 .. N : w[n] \in V
  BY <1>12
<1>14. \A n \in 0 .. N : w[n] \in SessionContexts /\ DistinctPapers(w[n]) /\ w[n].from = s
  BY <1>13 DEF V
<1> QED BY <1>9, <1>14 DEF w, q, N, a

LEMMA RestoredType ==
  ASSUME turns \in [Turns -> TurnsType],
         \A t \in Turns : IsInjective(turns[t].result.sources)
                          /\ IsInjective(turns[t].result.resolved),
         NEW s \in Nat, RunsOf(s) \in Seq(Turns)
  PROVE  LET d == Restored(s) IN
         d \in SessionContexts /\ DistinctPapers(d) /\ d.from = s
<1>1. Len(RunsOf(s)) \in 0 .. Len(RunsOf(s))
  OBVIOUS
<1> QED BY <1>1, RestoredSteps DEF Restored

\* --------------------------------------------------------------------------
\* What a request is about.

LEMMA RuleResolvedType ==
  ASSUME NEW c, c.papers \in Seq(Papers), c.batch \in Seq(Papers), c.start \in Nat \ {0},
         c.mentioned \in Seq(Papers), NEW ref \in References(c)
  PROVE  RuleResolved(c, ref) \in Seq(Papers) /\ IsInjective(RuleResolved(c, ref))
<1> DEFINE One(x) == x = <<>> \/ \E p \in Papers : x = <<p>>
<1>1. One(Active(c))
  <2>1. c.mentioned # <<>> => Head(c.mentioned) \in Papers
    OBVIOUS
  <2> QED BY <2>1 DEF Active
<1>2. ASSUME ref.kind = "number" PROVE One(RuleResolved(c, ref))
  <2>1. ref.n \in Nat
    BY <1>2 DEF References
  <2>2. OrdinalTarget(c, ref.n) = "none" \/ OrdinalTarget(c, ref.n) \in Papers
    <3>1. CASE ref.n \in c.start .. c.start + Len(c.batch) - 1
      <4>1. ref.n - c.start + 1 \in 1 .. Len(c.batch)
        BY <2>1, <3>1
      <4>2. c.batch[ref.n - c.start + 1] \in Papers
        BY <4>1
      <4> QED BY <3>1, <4>2 DEF OrdinalTarget
    <3>2. CASE ~(ref.n \in c.start .. c.start + Len(c.batch) - 1)
      BY <3>2 DEF OrdinalTarget
    <3> QED BY <3>1, <3>2
  <2>3. RuleResolved(c, ref) = IF OrdinalTarget(c, ref.n) = "none" THEN <<>>
                               ELSE <<OrdinalTarget(c, ref.n)>>
    BY <1>2 DEF RuleResolved
  <2> HIDE DEF OrdinalTarget
  <2> QED BY <2>2, <2>3
<1>3. ASSUME ref.kind = "paper" PROVE One(RuleResolved(c, ref))
  <2>1. ref.paper \in Papers
    BY <1>3 DEF References, ToSet
  <2>2. RuleResolved(c, ref) = <<ref.paper>>
    BY <1>3 DEF RuleResolved
  <2> QED BY <2>1, <2>2
<1>4. ASSUME ref.kind = "former" PROVE One(RuleResolved(c, ref))
  <2>1. c.mentioned # <<>> => Last(c.mentioned) \in Papers
    BY DEF Last
  <2>2. RuleResolved(c, ref) = IF c.mentioned # <<>> THEN <<Last(c.mentioned)>> ELSE <<>>
    BY <1>4 DEF RuleResolved
  <2> QED BY <2>1, <2>2
<1>5. ASSUME ref.kind \in {"latter", "this"} PROVE One(RuleResolved(c, ref))
  <2>1. RuleResolved(c, ref) = Active(c)
    BY <1>5 DEF RuleResolved
  <2> QED BY <1>1, <2>1
<1>6. ASSUME ref.kind = "other" PROVE One(RuleResolved(c, ref))
  BY <1>6 DEF RuleResolved
<1>7. One(RuleResolved(c, ref))
  <2>1. ref.kind \in {"number", "paper", "former", "latter", "this", "other"}
    BY DEF References
  <2> QED BY <1>2, <1>3, <1>4, <1>5, <1>6, <2>1
<1>8. \A x : One(x) => x \in Seq(Papers) /\ IsInjective(x)
  <2>1. <<>> \in Seq(Papers) /\ IsInjective(<<>>)
    BY DEF IsInjective
  <2>2. \A p \in Papers : <<p>> \in Seq(Papers) /\ IsInjective(<<p>>)
    BY DEF IsInjective
  <2> QED BY <2>1, <2>2, Zenon
<1> HIDE DEF One
<1> QED BY <1>7, <1>8

LEMMA ResolvedType ==
  ASSUME NEW c, c.papers \in Seq(Papers), c.batch \in Seq(Papers), c.start \in Nat \ {0},
         c.mentioned \in Seq(Papers), NEW ref \in References(c), NEW ids \in Resolved(c, ref)
  PROVE  ids \in Seq(Papers) /\ IsInjective(ids)
<1>1. \/ ids = RuleResolved(c, ref)
      \/ ids = <<>>
      \/ \E p \in Known(c) : ids = <<p>>
  BY DEF Resolved
<1>2. CASE ids = RuleResolved(c, ref)
  BY <1>2, RuleResolvedType
<1>3. CASE ids = <<>>
  BY <1>3 DEF IsInjective
<1>4. ASSUME NEW p \in Known(c), ids = <<p>>
      PROVE  ids \in Seq(Papers) /\ IsInjective(ids)
  <2>1. p \in Papers
    BY DEF Known, ToSet
  <2> QED BY <1>4, <2>1 DEF IsInjective
<1> QED BY <1>1, <1>2, <1>3, <1>4

LEMMA DecidedType ==
  ASSUME NEW c \in Contexts, DistinctPapers(c), NEW ref \in References(c),
         NEW wording \in Wordings, NEW d \in Decided(c, ref, wording)
  PROVE  d.intent \in Intents /\ d.resolved \in Seq(Papers) /\ IsInjective(d.resolved)
<1> DEFINE Good(x) == x.intent \in Intents /\ x.resolved \in Seq(Papers)
                      /\ IsInjective(x.resolved)
<1>1. /\ c.papers \in Seq(Papers) /\ c.batch \in Seq(Papers) /\ c.start \in Nat \ {0}
      /\ c.mentioned \in Seq(Papers) /\ IsInjective(c.papers)
  BY DEF Contexts, DistinctPapers
<1>2. \A intent \in Intents : \A route, ids :
        ids \in Seq(Papers) /\ IsInjective(ids) => Good(Decision(intent, route, ids))
  BY DEF Decision
<1>3. <<>> \in Seq(Papers) /\ IsInjective(<<>>)
  BY DEF IsInjective
<1>4. {"follow_up", "research", "recommend_more"} \subseteq Intents
  BY DEF Intents
<1>5. Active(c) \in Seq(Papers) /\ IsInjective(Active(c))
  <2>1. CASE c.mentioned = <<>>
    BY <1>3, <2>1 DEF Active
  <2>2. CASE c.mentioned # <<>>
    <3>1. Active(c) = <<Head(c.mentioned)>> /\ Head(c.mentioned) \in Papers
      BY <1>1, <2>2 DEF Active
    <3> QED BY <3>1 DEF IsInjective
  <2> QED BY <2>1, <2>2
<1> HIDE DEF Good
<1>6. Good(Clarification)
  BY <1>2, <1>3, <1>4 DEF Clarification
<1>7. ASSUME NEW ids \in Resolved(c, ref)
      PROVE  /\ \A x \in Continuation(c, ids, wording) : Good(x)
             /\ Good(FollowUp(c, ids, wording))
  <2>1. ids \in Seq(Papers) /\ IsInjective(ids)
    BY <1>1, ResolvedType
  <2>2. \A x \in Continuation(c, ids, wording) : Good(x)
    <3>1. CASE wording = "more"
      BY <1>2, <1>3, <1>4, <3>1 DEF Continuation
    <3>2. CASE wording = "from these"
      <4>1. \A x \in Continuation(c, ids, wording) :
              x = Decision("research", "research", IF ids = <<>> THEN c.papers ELSE ids)
        BY <3>2 DEF Continuation
      <4> QED BY <1>1, <1>2, <1>4, <2>1, <4>1
    <3>3. CASE wording \notin {"more", "from these"}
      BY <3>3 DEF Continuation
    <3> QED BY <3>1, <3>2, <3>3
  <2>3. Good(FollowUp(c, ids, wording))
    BY <1>2, <1>4, <1>5, <2>1 DEF FollowUp
  <2> QED BY <2>2, <2>3
<1>8. \A x \in Classified : Good(x)
  <2> SUFFICES ASSUME NEW x \in Classified PROVE Good(x)
    OBVIOUS
  <2>1. x.intent \in Intents /\ x.resolved = <<>>
    BY DEF Classified
  <2> QED BY <1>3, <2>1 DEF Good
<1>9. Good(d)
  <2>1. CASE MissingOrdinal(c, ref)
    BY <1>6, <2>1 DEF Decided
  <2>2. CASE ~MissingOrdinal(c, ref)
    <3>1. PICK ids \in Resolved(c, ref) :
            \/ d \in Continuation(c, ids, wording)
            \/ d = FollowUp(c, ids, wording)
            \/ d \in Classified
      BY <2>2 DEF Decided
    <3> QED BY <1>7, <1>8, <3>1
  <2> QED BY <2>1, <2>2
<1> QED BY <1>9 DEF Good

LEMMA ResultsTyped ==
  ASSUME turns \in [Turns -> TurnsType], NEW t \in Turns, DistinctPapers(turns[t].context),
         NEW r \in Results(t)
  PROVE  /\ r \in ResultsType /\ IsInjective(r.sources) /\ IsInjective(r.resolved)
         /\ r.intent = "follow_up" => r.sources = <<>>
<1> DEFINE c == turns[t].context
           decisions == UNION {Decided(c, ref, wording) :
                                 ref \in References(c), wording \in Wordings}
<1>1. PICK d \in decisions :
        r \in [intent : {d.intent}, resolved : {d.resolved}, sources : Sources(c, d)]
  BY DEF Results
<1>2. c \in Contexts /\ DistinctPapers(c)
  BY DEF TurnsType
<1>3. PICK ref \in References(c), wording \in Wordings : d \in Decided(c, ref, wording)
  OBVIOUS
<1> HIDE DEF c, decisions
<1>4. d.intent \in Intents /\ d.resolved \in Seq(Papers) /\ IsInjective(d.resolved)
  BY <1>2, <1>3, DecidedType
<1>5. \A q \in Sources(c, d) : q \in Seq(Papers) /\ IsInjective(q)
  <2> SUFFICES ASSUME NEW q \in Sources(c, d) PROVE q \in Seq(Papers) /\ IsInjective(q)
    OBVIOUS
  <2>1. q \in BoundedSeq(Papers, MaxFound) /\ IsInjective(q)
    BY DEF Sources, Finds
  <2>2. PICK m \in 0 .. MaxFound : q \in [1 .. m -> Papers]
    BY <2>1 DEF BoundedSeq, SeqOf
  <2>3. m \in Nat
    BY <2>2, SessionsAssumption
  <2> QED BY <2>1, <2>2, <2>3
<1>6. /\ r = [intent |-> d.intent, resolved |-> d.resolved, sources |-> r.sources]
      /\ r.sources \in Sources(c, d)
  BY <1>1
<1>7. d.intent = "follow_up" => \A q \in Sources(c, d) : q = <<>>
  BY DEF Sources
<1> QED BY <1>4, <1>5, <1>6, <1>7 DEF ResultsType

\* --------------------------------------------------------------------------
\* The inductive invariant.

CleanSessions == {c \in SessionContexts : DistinctPapers(c)}
CleanResults == {r \in ResultsType : /\ IsInjective(r.sources) /\ IsInjective(r.resolved)
                                     /\ r.intent = "follow_up" => r.sources = <<>>}
CleanTurns == {x \in TurnsType : DistinctPapers(x.context) /\ x.result \in CleanResults}
Going == {"summarising", "bound", "running"}

SessionsTyped == sessions \in Seq(CleanSessions)
                 /\ \A s \in DOMAIN sessions : sessions[s].from < s
TurnsTyped == turns \in [Turns -> CleanTurns]
TurnsBound == \A t \in Turns :
  turns[t].session <= Len(sessions) /\ (turns[t].phase \in Going => turns[t].session # 0)
HistoryTyped == runs \in Seq(Turns) /\ ended \in Seq(Turns)
ListsTyped == listed \in Seq(ListsType) /\ Len(listed) = Len(sessions)

\* The list shown last is the batch of its session, numbered as it was shown.
BatchIsList ==
  \A s \in DOMAIN sessions : listed[s].papers # <<>> =>
    sessions[s].batch = listed[s].papers /\ sessions[s].start = listed[s].first

Inv == SessionsTyped /\ TurnsTyped /\ TurnsBound /\ HistoryTyped /\ ListsTyped /\ BatchIsList

LEMMA FreshClean ==
  ASSUME NEW from \in Nat
  PROVE  /\ Fresh(from) \in CleanSessions /\ Fresh(from).from = from
         /\ Gone(Fresh(from)) \in CleanSessions
<1>1. <<>> \in Seq(Papers) /\ <<>> \in Seq(Turns) /\ IsInjective(<<>>) /\ 1 \in Nat \ {0}
  BY DEF IsInjective
<1>2. NoMessages \in Transcripts
  BY <1>1 DEF NoMessages, Transcripts
<1> QED BY <1>1, <1>2 DEF Fresh, Gone, SessionContexts, CleanSessions, DistinctPapers

LEMMA GoneClean ==
  ASSUME NEW c \in CleanSessions
  PROVE  Gone(c) \in CleanSessions /\ Gone(c).from = c.from /\ ~Gone(c).alive
<1>1. <<>> \in Seq(Papers) /\ <<>> \in Seq(Turns) /\ IsInjective(<<>>) /\ 1 \in Nat \ {0}
  BY DEF IsInjective
<1>2. NoMessages \in Transcripts
  BY <1>1 DEF NoMessages, Transcripts
<1>3. c.from \in Nat
  BY DEF CleanSessions, SessionContexts
<1> QED BY <1>1, <1>2, <1>3 DEF Fresh, Gone, SessionContexts, CleanSessions, DistinctPapers

LEMMA NoneClean == NoResult \in CleanResults /\ Idle \in CleanTurns
<1>1. <<>> \in Seq(Papers) /\ <<>> \in Seq(Turns) /\ IsInjective(<<>>) /\ 1 \in Nat \ {0}
  BY DEF IsInjective
<1>2. NoMessages \in Transcripts
  BY <1>1 DEF NoMessages, Transcripts
<1>3. NoPapers \in Contexts /\ DistinctPapers(NoPapers)
  BY <1>1 DEF NoPapers, Contexts, DistinctPapers
<1>4. NoResult \in CleanResults
  BY <1>1 DEF NoResult, CleanResults, ResultsType, Intents
<1>5. Idle = [phase |-> "idle", session |-> 0, base |-> NoMessages, prepared |-> NoMessages,
              context |-> NoPapers, result |-> NoResult]
  BY DEF Idle
<1>6. "idle" \in Phases /\ 0 \in Nat
  BY DEF Phases
<1> HIDE DEF NoMessages, NoPapers, NoResult
<1>7. Idle \in TurnsType
  BY <1>2, <1>3, <1>4, <1>5, <1>6 DEF CleanResults, TurnsType
<1> QED BY <1>3, <1>4, <1>5, <1>7 DEF CleanTurns

\* A turn moves on, and the sessions keep their numbers.
LEMMA TurnStep ==
  ASSUME Inv, NEW t \in Turns, NEW x \in CleanTurns, x.session <= Len(sessions),
         x.phase \in Going => x.session # 0, turns' = [turns EXCEPT ![t] = x],
         Len(sessions') = Len(sessions)
  PROVE  TurnsTyped' /\ TurnsBound'
<1>1. \A u \in Turns : turns'[u] = IF u = t THEN x ELSE turns[u]
  BY DEF Inv, TurnsTyped
<1>2. TurnsTyped'
  BY <1>1 DEF Inv, TurnsTyped
<1>3. TurnsBound'
  BY <1>1 DEF Inv, TurnsBound
<1> QED BY <1>2, <1>3

LEMMA OverStep ==
  ASSUME Inv, NEW t \in Turns, NEW r \in CleanResults, NEW phase \in Phases \ Going,
         Over(t, phase, r), Len(sessions') = Len(sessions)
  PROVE  TurnsTyped' /\ TurnsBound'
<1> DEFINE x == [Idle EXCEPT !.phase = phase, !.session = turns[t].session, !.result = r]
<1>1. turns[t].session \in Nat /\ turns[t].session <= Len(sessions)
  BY DEF Inv, TurnsTyped, TurnsBound, CleanTurns, TurnsType
<1>2. x \in CleanTurns /\ x.session = turns[t].session /\ x.phase = phase
  BY <1>1, NoneClean DEF CleanTurns, CleanResults, TurnsType
<1>3. turns' = [turns EXCEPT ![t] = x]
  BY DEF Over
<1> HIDE DEF x
<1> QED BY <1>1, <1>2, <1>3, TurnStep

LEMMA CompactedTyped ==
  ASSUME NEW m \in Transcripts
  PROVE  Covered(m) \subseteq Turns /\ Compacted(m) \in Transcripts
<1>1. m.compacted \subseteq Turns /\ m.full \in Seq(Turns) /\ <<>> \in Seq(Turns)
  BY DEF Transcripts
<1>2. ToSet(m.full) \subseteq Turns
  BY <1>1 DEF ToSet
<1> QED BY <1>1, <1>2 DEF Covered, Compacted, Transcripts

LEMMA BindStep ==
  ASSUME Inv, NEW t \in Turns, NEW s \in DOMAIN sessions, NEW prepared \in Transcripts,
         Bind(t, s, prepared), Len(sessions') = Len(sessions)
  PROVE  TurnsTyped' /\ TurnsBound'
<1> DEFINE x == [turns[t] EXCEPT !.phase = "bound", !.session = s,
                                 !.base = sessions[s].messages, !.prepared = prepared,
                                 !.context = PapersOf(sessions[s])]
<1>1. sessions[s] \in CleanSessions /\ s \in 1 .. Len(sessions) /\ turns[t] \in CleanTurns
  BY DEF Inv, SessionsTyped, TurnsTyped
<1>2. /\ sessions[s].messages \in Transcripts
      /\ PapersOf(sessions[s]) \in Contexts /\ DistinctPapers(PapersOf(sessions[s]))
  BY <1>1 DEF CleanSessions, SessionContexts, PapersOf, Contexts, DistinctPapers
<1>3. "bound" \in Phases /\ s \in Nat
  BY <1>1 DEF Phases
<1>4. x \in CleanTurns /\ x.session = s
  BY <1>1, <1>2, <1>3 DEF CleanTurns, TurnsType
<1>5. turns' = [turns EXCEPT ![t] = x]
  BY DEF Bind
<1>6. Len(sessions) \in Nat
  BY DEF Inv, SessionsTyped
<1>7. x.session <= Len(sessions) /\ x.session # 0
  BY <1>1, <1>4, <1>6
<1> HIDE DEF x
<1> QED BY <1>4, <1>5, <1>7, TurnStep

\* A session more.
LEMMA OpenStep ==
  ASSUME Inv, NEW c \in CleanSessions, c.from <= Len(sessions), Open(c),
         UNCHANGED <<turns, runs, ended>>
  PROVE  Inv'
<1>1. /\ sessions \in Seq(CleanSessions) /\ listed \in Seq(ListsType)
      /\ Len(listed) = Len(sessions) /\ DOMAIN sessions = 1 .. Len(sessions)
      /\ DOMAIN listed = 1 .. Len(sessions) /\ Len(sessions) \in Nat
  BY DEF Inv, SessionsTyped, ListsTyped
<1>2. NoList \in ListsType /\ NoList.papers = <<>>
  BY DEF NoList, ListsType
<1>3. /\ sessions' \in Seq(CleanSessions) /\ Len(sessions') = Len(sessions) + 1
      /\ DOMAIN sessions' = 1 .. Len(sessions) + 1
      /\ \A s \in 1 .. Len(sessions) : sessions'[s] = sessions[s]
      /\ sessions'[Len(sessions) + 1] = c
  BY <1>1 DEF Open
<1>4. /\ listed' \in Seq(ListsType) /\ Len(listed') = Len(sessions) + 1
      /\ \A s \in 1 .. Len(sessions) : listed'[s] = listed[s]
      /\ listed'[Len(sessions) + 1] = NoList
  BY <1>1, <1>2 DEF Open
<1>5. \A s \in DOMAIN sessions' : s \in DOMAIN sessions \/ s = Len(sessions) + 1
  BY <1>1, <1>3
<1>6. SessionsTyped'
  <2>1. ASSUME NEW s \in DOMAIN sessions' PROVE sessions'[s].from < s
    <3>1. CASE s \in DOMAIN sessions
      BY <1>1, <1>3, <3>1 DEF Inv, SessionsTyped
    <3>2. CASE s = Len(sessions) + 1
      <4>1. c.from \in Nat
        BY DEF CleanSessions, SessionContexts
      <4> QED BY <1>1, <1>3, <3>2, <4>1
    <3> QED BY <1>5, <3>1, <3>2
  <2> QED BY <1>3, <2>1 DEF SessionsTyped
<1>7. TurnsTyped' /\ HistoryTyped'
  BY DEF Inv, TurnsTyped, HistoryTyped
<1>8. TurnsBound'
  <2>1. \A t \in Turns : turns[t].session \in Nat
    BY DEF Inv, TurnsTyped, CleanTurns, TurnsType
  <2> QED BY <1>1, <1>3, <2>1 DEF Inv, TurnsBound
<1>9. ListsTyped'
  BY <1>3, <1>4 DEF ListsTyped
<1>10. BatchIsList'
  <2>1. ASSUME NEW s \in DOMAIN sessions', listed'[s].papers # <<>>
        PROVE  sessions'[s].batch = listed'[s].papers /\ sessions'[s].start = listed'[s].first
    <3>1. s # Len(sessions) + 1
      BY <1>2, <1>4, <2>1
    <3>2. s \in DOMAIN sessions /\ sessions'[s] = sessions[s] /\ listed'[s] = listed[s]
      BY <1>1, <1>3, <1>4, <1>5, <3>1
    <3> QED BY <2>1, <3>2 DEF Inv, BatchIsList
  <2> QED BY <2>1 DEF BatchIsList
<1> QED BY <1>6, <1>7, <1>8, <1>9, <1>10 DEF Inv

LEMMA InitInv == Init => Inv
<1> SUFFICES ASSUME Init PROVE Inv
  OBVIOUS
<1>1. sessions = <<>> /\ runs = <<>> /\ ended = <<>> /\ listed = <<>>
  BY DEF Init
<1>2. SessionsTyped /\ HistoryTyped /\ ListsTyped /\ BatchIsList
  BY <1>1 DEF SessionsTyped, HistoryTyped, ListsTyped, BatchIsList
<1>3. Idle.session = 0 /\ Idle.phase = "idle"
  BY DEF Idle
<1>4. TurnsTyped /\ TurnsBound
  BY <1>1, <1>3, NoneClean DEF Init, TurnsTyped, TurnsBound, Going
<1> QED BY <1>2, <1>4 DEF Inv

LEMMA CreateStep == Inv /\ Create => Inv'
<1> SUFFICES ASSUME Inv, Create PROVE Inv'
  OBVIOUS
<1>1. Fresh(0) \in CleanSessions /\ Fresh(0).from = 0
  BY FreshClean
<1>2. 0 <= Len(sessions)
  BY DEF Inv, SessionsTyped
<1> QED BY <1>1, <1>2, OpenStep DEF Create

\* A step that changes no session, no list and no history.
LEMMA TurnOnly ==
  ASSUME Inv, TurnsTyped', TurnsBound', HistoryTyped', UNCHANGED <<sessions, listed>>
  PROVE  Inv'
<1>1. SessionsTyped' /\ ListsTyped'
  BY DEF Inv, SessionsTyped, ListsTyped
<1>2. BatchIsList'
  BY DEF Inv, BatchIsList
<1> QED BY <1>1, <1>2 DEF Inv

LEMMA HistoryKept ==
  ASSUME Inv, UNCHANGED <<runs, ended>>
  PROVE  HistoryTyped'
BY DEF Inv, HistoryTyped

LEMMA PrepareStep ==
  ASSUME Inv, NEW t \in Turns, NEW s \in DOMAIN sessions, Prepare(t, s) \/ Summarise(t, s)
  PROVE  Inv'
<1>1. sessions[s].messages \in Transcripts
  BY DEF Inv, SessionsTyped, CleanSessions, SessionContexts
<1>2. Compacted(sessions[s].messages) \in Transcripts
  BY <1>1, CompactedTyped
<1>3. CASE Prepare(t, s)
  <2>1. PICK prepared \in {sessions[s].messages, Compacted(sessions[s].messages)} :
          Bind(t, s, prepared)
    BY <1>3 DEF Prepare
  <2>2. UNCHANGED <<sessions, runs, ended, listed>>
    BY <1>3 DEF Prepare
  <2>3. TurnsTyped' /\ TurnsBound'
    BY <1>1, <1>2, <2>1, <2>2, BindStep
  <2> QED BY <2>2, <2>3, HistoryKept, TurnOnly
<1>4. CASE Summarise(t, s)
  <2> DEFINE y == Compacted(sessions[s].messages)
             x == [turns[t] EXCEPT !.phase = "summarising", !.session = s, !.prepared = y]
  <2>1. s \in 1 .. Len(sessions) /\ Len(sessions) \in Nat /\ turns[t] \in CleanTurns
    BY DEF Inv, SessionsTyped, TurnsTyped
  <2>2. turns' = [turns EXCEPT ![t] = x] /\ UNCHANGED <<sessions, runs, ended, listed>>
    BY <1>4 DEF Summarise
  <2>3. y \in Transcripts /\ "summarising" \in Phases /\ s \in Nat
    BY <1>2, <2>1 DEF Phases
  <2> HIDE DEF y
  <2>4. x \in CleanTurns /\ x.session = s
    BY <2>1, <2>3 DEF CleanTurns, TurnsType
  <2> HIDE DEF x
  <2>5. x.session <= Len(sessions) /\ x.session # 0
    BY <2>1, <2>4
  <2>6. TurnsTyped' /\ TurnsBound'
    BY <2>2, <2>4, <2>5, TurnStep
  <2> QED BY <2>2, <2>6, HistoryKept, TurnOnly
<1> QED BY <1>3, <1>4

LEMMA SummarisedStep ==
  ASSUME Inv, NEW t \in Turns, Summarised(t)
  PROVE  Inv'
<1> DEFINE s == turns[t].session
<1>1. turns[t].phase = "summarising" /\ UNCHANGED <<sessions, runs, ended, listed>>
  BY DEF Summarised
<1>2. s \in DOMAIN sessions /\ turns[t].prepared \in Transcripts
  <2>1. /\ Len(sessions) \in Nat /\ DOMAIN sessions = 1 .. Len(sessions)
        /\ s \in Nat /\ s <= Len(sessions) /\ s # 0
    BY <1>1 DEF Inv, SessionsTyped, TurnsTyped, TurnsBound, CleanTurns, TurnsType, Going
  <2> QED BY <2>1 DEF Inv, TurnsTyped, CleanTurns, TurnsType
<1>3. TurnsTyped' /\ TurnsBound'
  <2>1. CASE Alive(s)
    <3>1. Bind(t, s, turns[t].prepared)
      BY <2>1 DEF Summarised
    <3> QED BY <1>1, <1>2, <3>1, BindStep
  <2>2. CASE ~Alive(s)
    <3>1. Over(t, "refused", NoResult)
      BY <2>2 DEF Summarised
    <3>2. "refused" \in Phases \ Going
      BY DEF Phases, Going
    <3> QED BY <1>1, <3>1, <3>2, NoneClean, OverStep
  <2> QED BY <2>1, <2>2
<1> QED BY <1>1, <1>3, HistoryKept, TurnOnly

LEMMA StartStep ==
  ASSUME Inv, NEW t \in Turns, Start(t)
  PROVE  Inv'
<1> DEFINE x == [turns[t] EXCEPT !.phase = "running"]
<1>1. /\ turns[t].phase = "bound" /\ turns' = [turns EXCEPT ![t] = x]
      /\ runs' = Append(runs, t) /\ UNCHANGED <<sessions, ended, listed>>
  BY DEF Start
<1>2. turns[t] \in CleanTurns /\ "running" \in Phases
  BY DEF Inv, TurnsTyped, Phases
<1>3. x \in CleanTurns /\ x.session = turns[t].session
  BY <1>2 DEF CleanTurns, TurnsType
<1> HIDE DEF x
<1>4. x.session <= Len(sessions) /\ x.session # 0
  BY <1>1, <1>3 DEF Inv, TurnsBound, Going
<1>5. TurnsTyped' /\ TurnsBound'
  BY <1>1, <1>3, <1>4, TurnStep
<1>6. HistoryTyped'
  BY <1>1 DEF Inv, HistoryTyped
<1> QED BY <1>1, <1>5, <1>6, TurnOnly

\* Archiving leaves the batch as it is, or the list of the turn in its place.
LEMMA FinishStep ==
  ASSUME Inv, NEW t \in Turns, NEW r \in CleanResults, Finish(t, r)
  PROVE  Inv'
<1> DEFINE s == turns[t].session
           c == sessions[s]
           d == Archived(c, t, r)
           shown == IF r.intent \notin Listing THEN listed[s]
                    ELSE IF Undisturbed(t, r)
                    THEN [first |-> FirstNumber(t, r), papers |-> r.sources]
                    ELSE NoList
<1>1. /\ turns[t].phase = "running" /\ Over(t, "over", r)
      /\ ended' = Append(ended, t) /\ UNCHANGED runs
  BY DEF Finish
<1>2. "over" \in Phases \ Going
  BY DEF Phases, Going
<1>3. HistoryTyped'
  BY <1>1 DEF Inv, HistoryTyped
<1>4. /\ Len(sessions) \in Nat /\ DOMAIN sessions = 1 .. Len(sessions)
      /\ s \in DOMAIN sessions
  BY <1>1 DEF Inv, SessionsTyped, TurnsTyped, TurnsBound, CleanTurns, TurnsType, Going
<1>5. CASE ~Alive(s)
  <2>1. UNCHANGED <<sessions, listed>>
    BY <1>5 DEF Finish
  <2>2. TurnsTyped' /\ TurnsBound'
    BY <1>1, <1>2, <2>1, OverStep
  <2> QED BY <1>3, <2>1, <2>2, TurnOnly
<1>6. CASE Alive(s)
  <2>1. sessions' = [sessions EXCEPT ![s] = d] /\ listed' = [listed EXCEPT ![s] = shown]
    BY <1>6 DEF Finish
  <2>2. /\ c \in SessionContexts /\ DistinctPapers(c) /\ c.from < s
        /\ r \in ResultsType /\ IsInjective(r.sources) /\ IsInjective(r.resolved)
        /\ turns \in [Turns -> TurnsType]
    BY <1>4 DEF Inv, SessionsTyped, CleanSessions, CleanResults, TurnsTyped, CleanTurns
  <2>3. /\ d \in SessionContexts /\ DistinctPapers(d) /\ d.from = c.from
        /\ d.batch = IF r.intent \in Recommending
                          \/ (r.intent \in Listing /\ r.sources # <<>>)
                     THEN NewPapers(c, r.sources) ELSE c.batch
        /\ d.start = IF r.intent \in Listing /\ r.sources # <<>>
                     THEN BatchStart(t, r) ELSE c.start
    <3> HIDE DEF c, s
    <3> QED BY <2>2, ArchivedFacts
  <2>4. /\ listed[s] \in ListsType /\ listed \in Seq(ListsType)
        /\ Len(listed) = Len(sessions) /\ DOMAIN listed = DOMAIN sessions
    BY <1>4 DEF Inv, ListsTyped
  <2>5. Len(turns[t].context.papers) \in Nat
    BY <2>2 DEF TurnsType, Contexts
  <2>6. shown \in ListsType
    <3>1. FirstNumber(t, r) \in Nat
      BY <2>5 DEF FirstNumber
    <3>2. r.sources \in Seq(Papers)
      BY <2>2 DEF ResultsType
    <3>3. NoList \in ListsType
      BY DEF NoList, ListsType
    <3> QED BY <2>4, <3>1, <3>2, <3>3 DEF ListsType
  <2>7. shown.papers # <<>> => d.batch = shown.papers /\ d.start = shown.first
    <3>1. CASE r.intent \notin Listing
      <4>1. d.batch = c.batch /\ d.start = c.start /\ shown = listed[s]
        BY <2>3, <3>1 DEF Listing, Recommending
      <4>2. listed[s].papers # <<>> => c.batch = listed[s].papers /\ c.start = listed[s].first
        BY <1>4 DEF Inv, BatchIsList
      <4> QED BY <4>1, <4>2
    <3>2. CASE r.intent \in Listing /\ ~Undisturbed(t, r)
      BY <3>2 DEF NoList
    <3>3. CASE r.intent \in Listing /\ Undisturbed(t, r)
      <4>1. shown.papers = r.sources /\ shown.first = FirstNumber(t, r)
        BY <3>3
      <4>2. NewPapers(c, r.sources) = r.sources
        <5>1. ToSet(r.sources) \intersect ToSet(c.papers) = {}
          BY <3>3 DEF Undisturbed
        <5>2. r.sources \in Seq(Papers)
          BY <2>2 DEF ResultsType
        <5> HIDE DEF c
        <5> QED BY <2>2, <5>1, <5>2, NewPapersFacts
      <4>3. BatchStart(t, r) = FirstNumber(t, r)
        <5>1. r.intent = "recommend" => Len(turns[t].context.papers) = 0
          BY <3>3 DEF Undisturbed
        <5>2. r.intent \in {"recommend", "recommend_more", "search"}
          BY <3>3 DEF Listing, Recommending
        <5> QED BY <5>1, <5>2 DEF BatchStart, FirstNumber, Recommending
      <4> HIDE DEF shown, d, c
      <4> QED BY <2>3, <3>3, <4>1, <4>2, <4>3
    <3> QED BY <3>1, <3>2, <3>3
  <2> HIDE DEF c, d, shown, s
  <2>8. d \in CleanSessions /\ d.from < s
    BY <2>2, <2>3 DEF CleanSessions
  <2>9. /\ Len(sessions') = Len(sessions) /\ DOMAIN sessions' = DOMAIN sessions
        /\ \A i \in DOMAIN sessions : sessions'[i] = IF i = s THEN d ELSE sessions[i]
        /\ \A i \in DOMAIN sessions : listed'[i] = IF i = s THEN shown ELSE listed[i]
    BY <1>4, <2>1, <2>4 DEF Inv, SessionsTyped
  <2>10. SessionsTyped'
    <3>1. sessions' \in Seq(CleanSessions)
      BY <1>4, <2>1, <2>8 DEF Inv, SessionsTyped
    <3> QED BY <2>8, <2>9, <3>1 DEF Inv, SessionsTyped
  <2>11. ListsTyped'
    BY <1>4, <2>1, <2>4, <2>6, <2>9 DEF ListsTyped
  <2>12. BatchIsList'
    BY <2>7, <2>9 DEF Inv, BatchIsList
  <2>13. TurnsTyped' /\ TurnsBound'
    BY <1>1, <1>2, <2>9, OverStep
  <2> QED BY <1>3, <2>10, <2>11, <2>12, <2>13 DEF Inv
<1> QED BY <1>5, <1>6

LEMMA DropStep ==
  ASSUME Inv, NEW t \in Turns, NEW r \in CleanResults, Drop(t, r)
  PROVE  Inv'
<1>1. Over(t, "over", r) /\ UNCHANGED <<sessions, runs, ended, listed>>
  BY DEF Drop
<1>2. "over" \in Phases \ Going
  BY DEF Phases, Going
<1>3. TurnsTyped' /\ TurnsBound'
  BY <1>1, <1>2, OverStep
<1> QED BY <1>1, <1>3, HistoryKept, TurnOnly

\* What a step may put in the place of a session that ends.
LEMMA EndStep ==
  ASSUME Inv, NEW s \in DOMAIN sessions, End(s)
  PROVE  Inv'
<1> DEFINE d == Gone(sessions[s])
<1>1. /\ sessions' = [sessions EXCEPT ![s] = d]
      /\ listed' = [listed EXCEPT ![s] = NoList] /\ UNCHANGED <<turns, runs, ended>>
  BY DEF End
<1>2. /\ sessions \in Seq(CleanSessions) /\ sessions[s] \in CleanSessions
      /\ sessions[s].from < s /\ Len(listed) = Len(sessions) /\ listed \in Seq(ListsType)
      /\ DOMAIN listed = DOMAIN sessions /\ DOMAIN sessions = 1 .. Len(sessions)
  BY DEF Inv, SessionsTyped, ListsTyped
<1>3. d \in CleanSessions /\ d.from < s
  BY <1>2, GoneClean
<1> HIDE DEF d
<1>4. NoList \in ListsType /\ NoList.papers = <<>>
  BY DEF NoList, ListsType
<1>5. /\ sessions' \in Seq(CleanSessions) /\ Len(sessions') = Len(sessions)
      /\ DOMAIN sessions' = DOMAIN sessions
      /\ \A i \in DOMAIN sessions : sessions'[i] = IF i = s THEN d ELSE sessions[i]
  BY <1>1, <1>2, <1>3
<1>6. /\ listed' \in Seq(ListsType) /\ Len(listed') = Len(listed)
      /\ \A i \in DOMAIN sessions : listed'[i] = IF i = s THEN NoList ELSE listed[i]
  BY <1>1, <1>2, <1>4
<1>7. SessionsTyped'
  BY <1>3, <1>5 DEF Inv, SessionsTyped
<1>8. ListsTyped' /\ HistoryTyped' /\ TurnsTyped' /\ TurnsBound'
  BY <1>1, <1>2, <1>5, <1>6 DEF Inv, ListsTyped, HistoryTyped, TurnsTyped, TurnsBound
<1>9. BatchIsList'
  BY <1>4, <1>5, <1>6 DEF Inv, BatchIsList
<1> QED BY <1>7, <1>8, <1>9 DEF Inv

LEMMA RestartStep == Inv /\ Restart => Inv'
<1> SUFFICES ASSUME Inv, Restart PROVE Inv'
  OBVIOUS
<1>1. /\ sessions' = [s \in DOMAIN sessions |-> Gone(sessions[s])]
      /\ listed' = [s \in DOMAIN listed |-> NoList]
      /\ runs' = Without(runs, {t \in Turns : turns[t].phase # "over"}) /\ UNCHANGED ended
  BY DEF Restart
<1>2. /\ sessions \in Seq(CleanSessions) /\ Len(listed) = Len(sessions)
      /\ listed \in Seq(ListsType) /\ DOMAIN listed = 1 .. Len(sessions)
      /\ DOMAIN sessions = 1 .. Len(sessions) /\ Len(sessions) \in Nat
      /\ runs \in Seq(Turns) /\ ended \in Seq(Turns)
  BY DEF Inv, SessionsTyped, ListsTyped, HistoryTyped
<1>3. NoList \in ListsType /\ NoList.papers = <<>>
  BY DEF NoList, ListsType
<1>4. \A s \in 1 .. Len(sessions) :
        Gone(sessions[s]) \in CleanSessions /\ Gone(sessions[s]).from = sessions[s].from
  BY <1>2, GoneClean
<1>5. /\ sessions' \in Seq(CleanSessions) /\ Len(sessions') = Len(sessions)
      /\ DOMAIN sessions' = DOMAIN sessions
      /\ \A s \in DOMAIN sessions : sessions'[s] = Gone(sessions[s])
  <2>1. sessions' \in [1 .. Len(sessions) -> CleanSessions]
    BY <1>1, <1>2, <1>4
  <2> QED BY <1>1, <1>2, <2>1
<1>6. /\ listed' \in Seq(ListsType) /\ Len(listed') = Len(sessions)
      /\ \A s \in DOMAIN sessions : listed'[s] = NoList
  <2>1. listed' \in [1 .. Len(sessions) -> ListsType]
    BY <1>1, <1>2, <1>3
  <2> QED BY <1>1, <1>2, <2>1
<1>7. SessionsTyped'
  BY <1>2, <1>4, <1>5 DEF Inv, SessionsTyped
<1>8. HistoryTyped'
  <2> DEFINE S == {t \in Turns : turns[t].phase # "over"}
  <2>1. runs' = Without(runs, S)
    BY <1>1
  <2> HIDE DEF S
  <2>2. Without(runs, S) \in Seq(Turns)
    BY <1>2, WithoutFacts
  <2> QED BY <1>1, <1>2, <2>1, <2>2 DEF HistoryTyped
<1>9. ListsTyped' /\ BatchIsList'
  BY <1>3, <1>5, <1>6 DEF ListsTyped, BatchIsList
<1>10. ASSUME NEW t \in Turns
       PROVE  /\ turns'[t] \in CleanTurns /\ turns'[t].session = turns[t].session
              /\ turns'[t].phase \notin Going
  <2> DEFINE x == [Idle EXCEPT !.phase = "lost", !.session = turns[t].session]
  <2>1. turns'[t] = IF turns[t].phase \in {"idle", "over"} THEN turns[t] ELSE x
    BY DEF Restart
  <2>2. turns[t] \in CleanTurns /\ turns[t].session \in Nat
    BY DEF Inv, TurnsTyped, CleanTurns, TurnsType
  <2>3. x \in CleanTurns /\ x.session = turns[t].session /\ x.phase = "lost"
    BY <2>2, NoneClean DEF CleanTurns, TurnsType, Phases
  <2> HIDE DEF x
  <2> QED BY <2>1, <2>2, <2>3 DEF Going
<1>11. TurnsTyped' /\ TurnsBound'
  <2>1. turns' \in [Turns -> CleanTurns]
    BY <1>10 DEF Restart
  <2> QED BY <1>5, <1>10, <2>1 DEF Inv, TurnsTyped, TurnsBound
<1> QED BY <1>7, <1>8, <1>9, <1>11 DEF Inv

LEMMA RestoreStep ==
  ASSUME Inv, NEW s \in DOMAIN sessions, Restore(s)
  PROVE  Inv'
<1>1. Open(Restored(s)) /\ UNCHANGED <<turns, runs, ended>>
  BY DEF Restore
<1>2. s \in Nat /\ s <= Len(sessions)
  BY DEF Inv, SessionsTyped
<1>3. RunsOf(s) \in Seq(Turns)
  <2> DEFINE S == {t \in Turns : turns[t].session # s}
  <2>1. RunsOf(s) = Without(runs, S)
    BY DEF RunsOf
  <2> HIDE DEF S
  <2>2. runs \in Seq(Turns)
    BY DEF Inv, HistoryTyped
  <2> QED BY <2>1, <2>2, WithoutFacts
<1>4. /\ turns \in [Turns -> TurnsType]
      /\ \A t \in Turns : IsInjective(turns[t].result.sources)
                          /\ IsInjective(turns[t].result.resolved)
  BY DEF Inv, TurnsTyped, CleanTurns, CleanResults
<1>5. Restored(s) \in CleanSessions /\ Restored(s).from = s
  BY <1>2, <1>3, <1>4, RestoredType DEF CleanSessions
<1> HIDE DEF Restored
<1> QED BY <1>1, <1>2, <1>5, OpenStep

LEMMA StepInv == Inv /\ [Next]_vars => Inv'
<1> SUFFICES ASSUME Inv, [Next]_vars PROVE Inv'
  OBVIOUS
<1>1. ASSUME UNCHANGED vars PROVE Inv'
  BY <1>1 DEF vars, Inv, SessionsTyped, TurnsTyped, TurnsBound, HistoryTyped, ListsTyped,
     BatchIsList
<1>2. ASSUME NEW t \in Turns, turns[t].phase = "running", NEW r \in Results(t),
             Finish(t, r) \/ Drop(t, r)
      PROVE  Inv'
  <2>1. turns \in [Turns -> TurnsType] /\ DistinctPapers(turns[t].context)
    BY DEF Inv, TurnsTyped, CleanTurns
  <2>2. r \in CleanResults
    BY <2>1, ResultsTyped DEF CleanResults
  <2> QED BY <1>2, <2>2, FinishStep, DropStep
<1>3. CASE Next
  <2>1. CASE Create
    BY <2>1, CreateStep
  <2>2. CASE \E t \in Turns, s \in DOMAIN sessions : Prepare(t, s) \/ Summarise(t, s)
    BY <2>2, PrepareStep
  <2>3. CASE \E t \in Turns : Summarised(t)
    BY <2>3, SummarisedStep
  <2>4. CASE \E t \in Turns : Start(t)
    BY <2>4, StartStep
  <2>5. CASE \E t \in Turns : /\ turns[t].phase = "running"
                              /\ \E r \in Results(t) : Finish(t, r) \/ Drop(t, r)
    BY <1>2, <2>5
  <2>6. CASE \E s \in DOMAIN sessions : End(s)
    BY <2>6, EndStep
  <2>7. CASE \E s \in DOMAIN sessions : Restore(s)
    BY <2>7, RestoreStep
  <2>8. CASE Restart
    BY <2>8, RestartStep
  <2>9. CASE Done /\ UNCHANGED vars
    BY <1>1, <2>9
  <2> QED BY <1>3, <2>1, <2>2, <2>3, <2>4, <2>5, <2>6, <2>7, <2>8, <2>9, Zenon DEF Next
<1> QED BY <1>1, <1>3

LEMMA InvAlways == Spec => []Inv
BY InitInv, StepInv, PTL DEF Spec

\* Every variable keeps to its values, for any number of turns, papers and sessions:
\* no turn is bound to a session that does not exist, and no session lists a paper
\* twice, although turns append to it that were decided on older copies of it.
THEOREM TypeCorrect == Spec => []TypeOK
<1>1. Inv => TypeOK
  <2> SUFFICES ASSUME Inv PROVE TypeOK
    OBVIOUS
  <2>1. ASSUME NEW s \in DOMAIN sessions
        PROVE  /\ sessions[s].alive \in BOOLEAN
               /\ sessions[s].from \in 0 .. s - 1
               /\ sessions[s].messages \in Transcripts
               /\ sessions[s].papers \in Seq(Papers) /\ IsInjective(sessions[s].papers)
               /\ sessions[s].batch \in Seq(Papers)
               /\ sessions[s].start \in Nat \ {0}
               /\ sessions[s].mentioned \in Seq(Papers) /\ IsInjective(sessions[s].mentioned)
    <3>1. sessions[s] \in CleanSessions /\ sessions[s].from < s /\ s \in Nat
      BY DEF Inv, SessionsTyped
    <3> QED BY <3>1 DEF CleanSessions, SessionContexts, DistinctPapers
  <2>2. ASSUME NEW t \in Turns
        PROVE  /\ turns[t].phase \in Phases
               /\ turns[t].session \in 0 .. Len(sessions)
               /\ turns[t].base \in Transcripts /\ turns[t].prepared \in Transcripts
               /\ turns[t].result.intent \in Intents
    <3>1. /\ turns[t] \in TurnsType /\ turns[t].session <= Len(sessions)
          /\ Len(sessions) \in Nat
      BY DEF Inv, SessionsTyped, TurnsTyped, TurnsBound, CleanTurns
    <3> QED BY <3>1 DEF TurnsType, ResultsType
  <2>3. runs \in Seq(Turns) /\ ended \in Seq(Turns) /\ Len(listed) = Len(sessions)
    BY DEF Inv, HistoryTyped, ListsTyped
  <2> QED BY <2>1, <2>2, <2>3 DEF TypeOK
<1> QED BY <1>1, InvAlways, PTL

\* A number of the list that a session showed last, undisturbed, refers to the paper
\* that stood there, for lists of any length and whatever turns did meanwhile.
THEOREM NumbersAlwaysReferToList == Spec => []NumbersReferToList
<1>1. Inv => NumbersReferToList
  <2> SUFFICES ASSUME Inv, NEW s \in DOMAIN sessions, NEW i \in DOMAIN listed[s].papers,
                      NEW wording \in Wordings,
                      NEW d \in Decided(sessions[s],
                                  [kind |-> "number", n |-> listed[s].first + i - 1], wording)
               PROVE  d.intent = "recommend_more" \/ d.resolved = <<listed[s].papers[i]>>
    BY Zenon DEF NumbersReferToList
  <2> DEFINE c == sessions[s]
             ref == [kind |-> "number", n |-> listed[s].first + i - 1]
             p == listed[s].papers[i]
  <2>1. /\ listed[s] \in ListsType /\ listed[s].papers # <<>>
        /\ i \in 1 .. Len(listed[s].papers) /\ p \in Papers
    <3>1. listed[s] \in ListsType
      BY DEF Inv, SessionsTyped, ListsTyped
    <3>2. listed[s].papers \in Seq(Papers)
      BY <3>1 DEF ListsType
    <3> QED BY <3>1, <3>2
  <2>2. c.batch = listed[s].papers /\ c.start = listed[s].first
    BY <2>1 DEF Inv, BatchIsList
  <2>3. c.start \in Nat
    BY <2>1, <2>2 DEF ListsType
  <2>4. OrdinalTarget(c, ref.n) = p
    <3> DEFINE n == ref.n
    <3>1. n = c.start + i - 1
      BY <2>2
    <3>2. i \in 1 .. Len(c.batch) /\ c.batch[i] = p
      BY <2>1, <2>2
    <3> HIDE DEF n, c, p
    <3>3. n \in c.start .. c.start + Len(c.batch) - 1 /\ n - c.start + 1 = i
      <4>1. Len(c.batch) \in Nat
        BY <2>1, <2>2 DEF ListsType
      <4> QED BY <2>3, <3>1, <3>2, <4>1
    <3>4. OrdinalTarget(c, n) = p
      BY <3>2, <3>3 DEF OrdinalTarget
    <3> QED BY <3>4 DEF n
  <2>5. p # "none"
    BY <2>1, SessionsAssumption
  <2>6. ref.kind = "number" /\ d \in Decided(c, ref, wording)
    OBVIOUS
  <2> HIDE DEF c, ref, p
  <2>7. RuleResolved(c, ref) = <<p>>
    BY <2>4, <2>5, <2>6 DEF RuleResolved
  <2>8. <<p>> # <<>>
    OBVIOUS
  <2>9. ~MissingOrdinal(c, ref) /\ Resolved(c, ref) = {<<p>>}
    BY <2>7, <2>8 DEF MissingOrdinal, Resolved
  <2>10. d \in Continuation(c, <<p>>, wording) \/ d = FollowUp(c, <<p>>, wording)
    BY <2>6, <2>8, <2>9 DEF Decided
  <2>11. d.intent = "recommend_more" \/ d.resolved = <<p>>
    <3>1. CASE d \in Continuation(c, <<p>>, wording)
      <4>1. CASE wording = "more"
        BY <3>1, <4>1 DEF Continuation, Decision
      <4>2. CASE wording = "from these"
        <5>1. d = Decision("research", "research", IF <<p>> = <<>> THEN c.papers ELSE <<p>>)
          BY <3>1, <4>2 DEF Continuation
        <5> QED BY <2>8, <5>1, Zenon DEF Decision
      <4>3. CASE wording \notin {"more", "from these"}
        BY <3>1, <4>3 DEF Continuation
      <4> QED BY <4>1, <4>2, <4>3
    <3>2. CASE d = FollowUp(c, <<p>>, wording)
      BY <2>8, <3>2 DEF FollowUp, Decision
    <3> QED BY <2>10, <3>1, <3>2
  <2> QED BY <2>11 DEF p
<1> QED BY <1>1, InvAlways, PTL

\* No step takes a turn out of a living session's transcript, but for the end of a
\* turn whose summary was written from an older transcript than it compares with.
THEOREM TurnsAlwaysKept == Spec => TurnsKept
<1> DEFINE Excused(s, t) ==
      \E u \in Turns :
        /\ turns[u].phase = "running" /\ turns'[u].phase = "over"
        /\ turns[u].session = s
        /\ t \in Covered(turns[u].base) \ Covered(turns[u].prepared)
           Kept == \A s \in DOMAIN sessions, t \in Turns :
             sessions'[s].alive
             /\ t \in Covered(sessions[s].messages) \ Covered(sessions'[s].messages)
             => Excused(s, t)
<1>1. Inv /\ [Next]_vars => Kept
  <2> SUFFICES ASSUME Inv, [Next]_vars, NEW s \in DOMAIN sessions, NEW t \in Turns,
                      sessions'[s].alive, t \in Covered(sessions[s].messages),
                      t \notin Covered(sessions'[s].messages)
               PROVE  Excused(s, t)
    OBVIOUS
  <2> HIDE DEF Excused
  <2>1. /\ sessions \in Seq(CleanSessions) /\ sessions[s] \in CleanSessions
        /\ DOMAIN sessions = 1 .. Len(sessions) /\ turns \in [Turns -> CleanTurns]
    BY DEF Inv, SessionsTyped, TurnsTyped
  <2>2. sessions'[s] # sessions[s]
    OBVIOUS
  <2>3. ~UNCHANGED sessions
    BY <2>2
  <2>4. ASSUME NEW c, Open(c) PROVE FALSE
    <3>1. sessions' = Append(sessions, c)
      BY <2>4 DEF Open
    <3>2. sessions'[s] = sessions[s]
      BY <2>1, <3>1
    <3> QED BY <2>2, <3>2
  <2>5. ASSUME NEW i \in DOMAIN sessions, End(i) PROVE FALSE
    <3>1. sessions'[s] = IF s = i THEN Gone(sessions[i]) ELSE sessions[s]
      BY <2>5 DEF End
    <3>2. ~Gone(sessions[s]).alive
      BY <2>1, GoneClean
    <3> QED BY <2>2, <3>1, <3>2
  <2>6. ASSUME Restart PROVE FALSE
    <3>1. sessions'[s] = Gone(sessions[s])
      BY <2>6 DEF Restart
    <3> QED BY <2>1, <3>1, GoneClean
  <2>7. ASSUME NEW u \in Turns, turns[u].phase = "running", NEW r \in Results(u),
               Finish(u, r)
        PROVE  Excused(s, t)
    <3> DEFINE i == turns[u].session
               c == sessions[i]
               merged == IF c.messages = turns[u].base THEN turns[u].prepared ELSE c.messages
    <3>1. /\ turns \in [Turns -> TurnsType] /\ DistinctPapers(turns[u].context)
          /\ turns[u] \in CleanTurns
      BY <2>1 DEF CleanTurns
    <3>2. r \in ResultsType /\ IsInjective(r.sources) /\ IsInjective(r.resolved)
      BY <3>1, ResultsTyped
    <3>3. Alive(i) /\ sessions' = [sessions EXCEPT ![i] = Archived(c, u, r)]
      BY <2>3, <2>7 DEF Finish
    <3>4. i = s
      BY <2>2, <3>3
    <3>5. c \in SessionContexts /\ DistinctPapers(c)
      BY <2>1, <3>4 DEF CleanSessions
    <3>6. sessions'[s] = Archived(c, u, r)
      BY <3>3, <3>4
    <3>7. merged \in Transcripts /\ Archived(c, u, r).messages = With(merged, u)
      <4> HIDE DEF c
      <4> QED BY <3>1, <3>2, <3>5, ArchivedFacts
    <3>8. Covered(sessions'[s].messages) = Covered(merged) \union {u}
      <4> HIDE DEF merged, c
      <4> QED BY <3>6, <3>7, CoveredWith
    <3>9. c.messages = turns[u].base /\ t \notin Covered(turns[u].prepared)
      <4>1. t \notin Covered(merged)
        BY <3>8
      <4>2. t \in Covered(c.messages)
        BY <3>4
      <4> QED BY <4>1, <4>2
    <3>10. turns'[u].phase = "over"
      BY <2>1, <2>7 DEF Finish, Over, Idle
    <3>11. t \in Covered(turns[u].base)
      BY <3>4, <3>9
    <3> QED BY <2>7, <3>4, <3>9, <3>10, <3>11 DEF Excused
  <2>8. CASE Next
    <3>1. CASE Create
      BY <2>4, <3>1 DEF Create
    <3>2. CASE \E u \in Turns, i \in DOMAIN sessions : Prepare(u, i) \/ Summarise(u, i)
      BY <2>3, <3>2 DEF Prepare, Summarise
    <3>3. CASE \E u \in Turns : Summarised(u) \/ Start(u)
      BY <2>3, <3>3 DEF Summarised, Start
    <3>4. CASE \E u \in Turns : /\ turns[u].phase = "running"
                                /\ \E r \in Results(u) : Finish(u, r) \/ Drop(u, r)
      BY <2>3, <2>7, <3>4 DEF Drop
    <3>5. CASE \E i \in DOMAIN sessions : End(i) \/ Restore(i)
      BY <2>4, <2>5, <3>5 DEF Restore
    <3>6. CASE Restart
      BY <2>6, <3>6
    <3>7. CASE Done /\ UNCHANGED vars
      BY <2>3, <3>7 DEF vars
    <3> QED BY <2>8, <3>1, <3>2, <3>3, <3>4, <3>5, <3>6, <3>7, Zenon DEF Next
  <2> QED BY <2>3, <2>8 DEF vars
<1> QED BY <1>1, InvAlways, PTL DEF Spec, TurnsKept

\* --------------------------------------------------------------------------
\* Histories.  Two recursions of n steps that agree in each agree in the end.
SameSteps(f, g, n) == f[0] = g[0] /\ \A k \in 1 .. n : f[k - 1] = g[k - 1] => f[k] = g[k]
Same(f, g, n) == \A k \in 0 .. n : f[k] = g[k]

LEMMA Agree ==
  ASSUME NEW n \in Nat, NEW f, NEW g, SameSteps(f, g, n)
  PROVE  Same(f, g, n)
<1> USE DEF SameSteps, Same
<1> DEFINE D == {k \in 0 .. n : f[k] = g[k]}
<1>1. 0 \in D
  OBVIOUS
<1>2. ASSUME NEW k \in 1 .. n, k - 1 \in D PROVE k \in D
  <2>1. k \in 0 .. n /\ f[k - 1] = g[k - 1]
    BY <1>2
  <2> QED BY <2>1
<1>3. \A k \in 0 .. n : k \in D
  <2> HIDE DEF D
  <2> QED BY <1>1, <1>2, UpTo
<1> QED BY <1>3

LEMMA AppendSet ==
  ASSUME NEW T, NEW q \in Seq(T), NEW x \in T
  PROVE  ToSet(Append(q, x)) = ToSet(q) \union {x}
<1> DEFINE w == Append(q, x)
<1>1. /\ DOMAIN w = 1 .. Len(q) + 1 /\ Len(q) \in Nat /\ DOMAIN q = 1 .. Len(q)
      /\ \A j \in 1 .. Len(q) : w[j] = q[j]
      /\ w[Len(q) + 1] = x
  OBVIOUS
<1> HIDE DEF w
<1>2. \A j : j \in 1 .. Len(q) + 1 <=> j \in 1 .. Len(q) \/ j = Len(q) + 1
  BY <1>1
<1>3. ASSUME NEW y PROVE y \in ToSet(w) <=> y \in ToSet(q) \union {x}
  <2>1. y \in ToSet(w) <=> \E j \in 1 .. Len(q) + 1 : y = w[j]
    BY <1>1 DEF ToSet
  <2>2. y \in ToSet(q) <=> \E j \in 1 .. Len(q) : y = q[j]
    BY <1>1 DEF ToSet
  <2>3. (\E j \in 1 .. Len(q) + 1 : y = w[j]) <=> (\E j \in 1 .. Len(q) : y = w[j]) \/ y = x
    BY <1>1, <1>2
  <2> QED BY <1>1, <2>1, <2>2, <2>3
<1> QED BY <1>3 DEF w

LEMMA ConcatSet ==
  ASSUME NEW T, NEW q \in Seq(T), NEW r \in Seq(T)
  PROVE  ToSet(q \o r) = ToSet(q) \union ToSet(r)
<1> DEFINE w == q \o r
<1>1. /\ DOMAIN w = 1 .. Len(q) + Len(r) /\ Len(q) \in Nat /\ Len(r) \in Nat
      /\ DOMAIN q = 1 .. Len(q) /\ DOMAIN r = 1 .. Len(r)
      /\ \A j \in 1 .. Len(q) : w[j] = q[j]
      /\ \A j \in Len(q) + 1 .. Len(q) + Len(r) : w[j] = r[j - Len(q)]
  OBVIOUS
<1> HIDE DEF w
<1>2. ASSUME NEW y \in ToSet(w) PROVE y \in ToSet(q) \union ToSet(r)
  <2>1. PICK j \in 1 .. Len(q) + Len(r) : y = w[j]
    BY <1>1 DEF ToSet
  <2>2. CASE j \in 1 .. Len(q)
    BY <1>1, <2>1, <2>2 DEF ToSet
  <2>3. CASE j \notin 1 .. Len(q)
    <3>1. j \in Len(q) + 1 .. Len(q) + Len(r)
      BY <1>1, <2>3
    <3>2. j - Len(q) \in 1 .. Len(r) /\ y = r[j - Len(q)]
      BY <1>1, <2>1, <3>1
    <3> QED BY <1>1, <3>2 DEF ToSet
  <2> QED BY <2>2, <2>3
<1>3. ASSUME NEW y \in ToSet(q) PROVE y \in ToSet(w)
  <2>1. PICK j \in 1 .. Len(q) : y = q[j]
    BY <1>1 DEF ToSet
  <2>2. j \in 1 .. Len(q) + Len(r)
    BY <1>1
  <2> QED BY <1>1, <2>1, <2>2 DEF ToSet
<1>4. ASSUME NEW y \in ToSet(r) PROVE y \in ToSet(w)
  <2>1. PICK j \in 1 .. Len(r) : y = r[j]
    BY <1>1 DEF ToSet
  <2> DEFINE i == j + Len(q)
  <2>2. i \in Len(q) + 1 .. Len(q) + Len(r) /\ i \in 1 .. Len(q) + Len(r) /\ i - Len(q) = j
    BY <1>1
  <2> HIDE DEF i
  <2>3. y = w[i]
    BY <1>1, <2>1, <2>2
  <2> QED BY <1>1, <2>2, <2>3 DEF ToSet
<1> QED BY <1>2, <1>3, <1>4 DEF w

\* What Without leaves of a longer sequence, and of sets that differ elsewhere.
LEMMA WithoutAppend ==
  ASSUME NEW T, NEW q \in Seq(T), NEW x \in T, NEW S
  PROVE  Without(Append(q, x), S) = IF x \in S THEN Without(q, S) ELSE Append(Without(q, S), x)
<1> DEFINE w == Append(q, x)
           f == WithoutUpTo(w, S)
           g == WithoutUpTo(q, S)
           N == Len(q)
<1>1. /\ w \in Seq(T) /\ Len(w) = N + 1 /\ N \in Nat
      /\ \A j \in 1 .. N : w[j] = q[j]
      /\ w[N + 1] = x
  OBVIOUS
<1> HIDE DEF w
<1>2. \A n \in 0 .. Len(w) :
        f[n] = IF n = 0 THEN <<>> ELSE IF w[n] \in S THEN f[n - 1] ELSE Append(f[n - 1], w[n])
  BY <1>1, WithoutSteps
<1>3. \A n \in 0 .. N :
        g[n] = IF n = 0 THEN <<>> ELSE IF q[n] \in S THEN g[n - 1] ELSE Append(g[n - 1], q[n])
  BY WithoutSteps
<1>4. Without(w, S) = f[Len(w)] /\ Without(q, S) = g[N]
  BY DEF Without
<1> HIDE DEF f, g, N
<1>5. f[0] = g[0]
  <2>1. 0 \in 0 .. N
    BY <1>1
  <2> QED BY <1>2, <1>3, <2>1
<1>6. ASSUME NEW k \in 1 .. N, f[k - 1] = g[k - 1] PROVE f[k] = g[k]
  <2>1. k \in 0 .. N /\ k \in 0 .. Len(w) /\ k # 0
    BY <1>1
  <2> QED BY <1>1, <1>2, <1>3, <1>6, <2>1
<1>7. f[N] = g[N]
  <2>1. SameSteps(f, g, N)
    BY <1>5, <1>6 DEF SameSteps
  <2>2. Same(f, g, N)
    BY <1>1, <2>1, Agree
  <2> QED BY <1>1, <2>2 DEF Same
<1>8. f[Len(w)] = IF x \in S THEN f[N] ELSE Append(f[N], x)
  <2>1. Len(w) \in 0 .. Len(w) /\ Len(w) # 0 /\ Len(w) - 1 = N /\ w[Len(w)] = x
    BY <1>1
  <2> QED BY <1>2, <2>1
<1> QED BY <1>4, <1>7, <1>8 DEF w

LEMMA WithoutAgree ==
  ASSUME NEW T, NEW q \in Seq(T), NEW S, NEW R,
         \A j \in DOMAIN q : q[j] \in S <=> q[j] \in R
  PROVE  Without(q, S) = Without(q, R)
<1> DEFINE f == WithoutUpTo(q, S)
           g == WithoutUpTo(q, R)
           N == Len(q)
<1>1. N \in Nat /\ DOMAIN q = 1 .. N
  OBVIOUS
<1>2. \A n \in 0 .. N :
        f[n] = IF n = 0 THEN <<>> ELSE IF q[n] \in S THEN f[n - 1] ELSE Append(f[n - 1], q[n])
  BY WithoutSteps
<1>3. \A n \in 0 .. N :
        g[n] = IF n = 0 THEN <<>> ELSE IF q[n] \in R THEN g[n - 1] ELSE Append(g[n - 1], q[n])
  BY WithoutSteps
<1>4. Without(q, S) = f[N] /\ Without(q, R) = g[N]
  BY DEF Without
<1> HIDE DEF f, g, N
<1>5. f[0] = g[0]
  <2>1. 0 \in 0 .. N
    BY <1>1
  <2> QED BY <1>2, <1>3, <2>1
<1>6. ASSUME NEW k \in 1 .. N, f[k - 1] = g[k - 1] PROVE f[k] = g[k]
  <2>1. k \in 0 .. N /\ k # 0 /\ k \in DOMAIN q
    BY <1>1
  <2> QED BY <1>2, <1>3, <1>6, <2>1
<1>7. SameSteps(f, g, N)
  BY <1>5, <1>6 DEF SameSteps
<1>8. Same(f, g, N)
  BY <1>1, <1>7, Agree
<1>9. f[N] = g[N]
  BY <1>1, <1>8 DEF Same
<1> QED BY <1>4, <1>9

LEMMA WithoutSet ==
  ASSUME NEW T, NEW q \in Seq(T), NEW S
  PROVE  ToSet(Without(q, S)) = ToSet(q) \ S
<1> DEFINE f == WithoutUpTo(q, S)
           N == Len(q)
           Reached(n) == {q[j] : j \in 1 .. n} \ S
           D == {n \in 0 .. N : f[n] \in Seq(T) /\ ToSet(f[n]) = Reached(n)}
<1>1. N \in Nat /\ DOMAIN q = 1 .. N /\ \A n \in 1 .. N : q[n] \in T
  OBVIOUS
<1>2. \A n \in 0 .. N :
        f[n] = IF n = 0 THEN <<>> ELSE IF q[n] \in S THEN f[n - 1] ELSE Append(f[n - 1], q[n])
  BY WithoutSteps
<1>3. Without(q, S) = f[N] /\ ToSet(q) = {q[j] : j \in 1 .. N}
  BY <1>1 DEF Without, ToSet
<1> HIDE DEF f, N
<1>4. 0 \in D
  <2>1. f[0] = <<>>
    BY <1>1, <1>2
  <2>2. ToSet(<<>>) = {} /\ <<>> \in Seq(T)
    BY DEF ToSet
  <2>3. Reached(0) = {} /\ 0 \in 0 .. N
    BY <1>1
  <2> HIDE DEF Reached
  <2> QED BY <2>1, <2>2, <2>3
<1>5. ASSUME NEW n \in 1 .. N, n - 1 \in D PROVE n \in D
  <2>1. n \in 0 .. N /\ n # 0 /\ q[n] \in T /\ n \in Nat
    BY <1>1
  <2>2. f[n - 1] \in Seq(T) /\ ToSet(f[n - 1]) = Reached(n - 1)
    BY <1>5
  <2>3. f[n] = IF q[n] \in S THEN f[n - 1] ELSE Append(f[n - 1], q[n])
    BY <1>2, <2>1
  <2>4. {q[j] : j \in 1 .. n} = {q[j] : j \in 1 .. n - 1} \union {q[n]}
    <3>1. \A j : j \in 1 .. n <=> j \in 1 .. n - 1 \/ j = n
      BY <2>1
    <3> QED BY <3>1
  <2>5. CASE q[n] \in S
    <3>1. Reached(n) = Reached(n - 1)
      BY <2>4, <2>5
    <3> QED BY <2>1, <2>2, <2>3, <2>5, <3>1
  <2>6. CASE q[n] \notin S
    <3>1. Reached(n) = Reached(n - 1) \union {q[n]}
      BY <2>4, <2>6
    <3>2. ToSet(Append(f[n - 1], q[n])) = ToSet(f[n - 1]) \union {q[n]}
      BY <2>1, <2>2, AppendSet
    <3>3. Append(f[n - 1], q[n]) \in Seq(T)
      BY <2>1, <2>2
    <3> HIDE DEF Reached
    <3> QED BY <2>1, <2>2, <2>3, <2>6, <3>1, <3>2, <3>3
  <2> QED BY <2>5, <2>6
<1>6. N \in D
  <2>1. N \in 0 .. N
    BY <1>1
  <2> HIDE DEF D
  <2> QED BY <1>1, <1>4, <1>5, <2>1, UpTo
<1> QED BY <1>3, <1>6

\* The papers of a session after the runs of q, each with the sources src[t] (a pool).
PoolUpTo(src, q) ==
  LET upTo[n \in 0 .. Len(q)] ==
        IF n = 0 THEN <<>>
        ELSE upTo[n - 1] \o Without(src[q[n]], ToSet(upTo[n - 1]))
  IN upTo
Pool(src, q) == PoolUpTo(src, q)[Len(q)]

\* One more run.
Pooled(pool, sources) == pool \o Without(sources, ToSet(pool))

LEMMA PooledFacts ==
  ASSUME NEW pool \in Seq(Papers), NEW sources \in Seq(Papers)
  PROVE  /\ Pooled(pool, sources) \in Seq(Papers)
         /\ ToSet(Pooled(pool, sources)) = ToSet(pool) \union ToSet(sources)
         /\ sources = <<>> => Pooled(pool, sources) = pool
<1> DEFINE S == ToSet(pool)
           new == Without(sources, S)
<1>1. new \in Seq(Papers) /\ ToSet(new) = ToSet(sources) \ S
  <2> HIDE DEF S
  <2> QED BY WithoutFacts, WithoutSet
<1>2. ASSUME sources = <<>> PROVE new = <<>>
  <2> HIDE DEF S
  <2>1. \A j \in DOMAIN sources : sources[j] \notin S
    BY <1>2
  <2>2. Without(sources, S) = sources
    BY <2>1, WithoutFacts
  <2> QED BY <1>2, <2>2
<1> HIDE DEF new
<1>3. pool \o new \in Seq(Papers) /\ ToSet(pool \o new) = ToSet(pool) \union ToSet(new)
  BY <1>1, ConcatSet
<1>4. new = <<>> => pool \o new = pool
  OBVIOUS
<1> QED BY <1>1, <1>2, <1>3, <1>4 DEF Pooled, new

LEMMA PoolSteps ==
  ASSUME NEW src \in [Turns -> Seq(Papers)], NEW q \in Seq(Turns)
  PROVE  \A n \in 0 .. Len(q) :
           /\ PoolUpTo(src, q)[n] \in Seq(Papers)
           /\ PoolUpTo(src, q)[n] = IF n = 0 THEN <<>>
                                    ELSE Pooled(PoolUpTo(src, q)[n - 1], src[q[n]])
<1> DEFINE N == Len(q)
           V == Seq(Papers)
           G == [n \in 1 .. N |-> [p \in V |-> Pooled(p, src[q[n]])]]
           w == PoolUpTo(src, q)
           a == <<>>
<1>1. N \in Nat /\ \A n \in 1 .. N : q[n] \in Turns /\ src[q[n]] \in V
  OBVIOUS
<1>2. \A n \in 1 .. N, p \in V : Pooled(p, src[q[n]]) \in V
  BY <1>1, PooledFacts
<1>3. a \in V
  OBVIOUS
<1> HIDE DEF V, N, a
<1>4. G \in [1 .. N -> [V -> V]]
  BY <1>2
<1>5. PICK f \in [0 .. N -> V] : f[0] = a /\ \A k \in 1 .. N : f[k] = G[k][f[k - 1]]
  <2> HIDE DEF G
  <2>1. Solved(N, V, a, G)
    BY <1>1, <1>3, <1>4, Iterate, Zenon
  <2> QED BY <2>1 DEF Solved
<1>6. \A n \in 0 .. N : f[n] = IF n = 0 THEN a ELSE Pooled(f[n - 1], src[q[n]])
  <2> SUFFICES ASSUME NEW n \in 0 .. N
               PROVE  f[n] = IF n = 0 THEN a ELSE Pooled(f[n - 1], src[q[n]])
    OBVIOUS
  <2>1. CASE n = 0
    BY <1>5, <2>1
  <2>2. CASE n # 0
    <3>1. n \in 1 .. N /\ n - 1 \in 0 .. N
      BY <1>1, <2>2
    <3>2. f[n - 1] \in V /\ f[n] = G[n][f[n - 1]]
      BY <1>5, <3>1
    <3> QED BY <2>2, <3>1, <3>2
  <2> QED BY <2>1, <2>2
<1>7. f = [n \in 0 .. N |-> IF n = 0 THEN a ELSE Pooled(f[n - 1], src[q[n]])]
  BY <1>5, <1>6
<1>8. w = [n \in 0 .. N |-> IF n = 0 THEN a ELSE Pooled(w[n - 1], src[q[n]])]
  BY <1>7, Zenon DEF PoolUpTo, Pooled, N, a
<1> HIDE DEF w, G
<1>9. \A n \in 0 .. N : w[n] = IF n = 0 THEN a ELSE Pooled(w[n - 1], src[q[n]])
  BY <1>8
<1> DEFINE D == {n \in 0 .. N : w[n] \in V}
<1>10. 0 \in D
  BY <1>1, <1>3, <1>9
<1>11. ASSUME NEW n \in 1 .. N, n - 1 \in D PROVE n \in D
  <2>1. n \in 0 .. N /\ n # 0 /\ w[n - 1] \in V
    BY <1>1, <1>11
  <2>2. w[n] = Pooled(w[n - 1], src[q[n]])
    BY <1>9, <2>1
  <2> QED BY <1>2, <2>1, <2>2
<1>12. \A n \in 0 .. N : n \in D
  <2> HIDE DEF D
  <2> QED BY <1>1, <1>10, <1>11, UpTo
<1>13. \A n \in 0 .. N : w[n] \in V
  BY <1>12
<1> QED BY <1>9, <1>13 DEF V, N, w, a

LEMMA PoolType ==
  ASSUME NEW src \in [Turns -> Seq(Papers)], NEW q \in Seq(Turns)
  PROVE  Pool(src, q) \in Seq(Papers)
<1>1. Len(q) \in 0 .. Len(q)
  OBVIOUS
<1> QED BY <1>1, PoolSteps DEF Pool

LEMMA PoolAppend ==
  ASSUME NEW src \in [Turns -> Seq(Papers)], NEW q \in Seq(Turns), NEW t \in Turns
  PROVE  Pool(src, Append(q, t)) = Pooled(Pool(src, q), src[t])
<1> DEFINE w == Append(q, t)
           f == PoolUpTo(src, w)
           g == PoolUpTo(src, q)
           N == Len(q)
<1>1. /\ w \in Seq(Turns) /\ Len(w) = N + 1 /\ N \in Nat
      /\ \A j \in 1 .. N : w[j] = q[j]
      /\ w[N + 1] = t
  OBVIOUS
<1> HIDE DEF w
<1>2. \A n \in 0 .. Len(w) : f[n] = IF n = 0 THEN <<>> ELSE Pooled(f[n - 1], src[w[n]])
  BY <1>1, PoolSteps
<1>3. \A n \in 0 .. N : g[n] = IF n = 0 THEN <<>> ELSE Pooled(g[n - 1], src[q[n]])
  BY PoolSteps
<1>4. Pool(src, w) = f[Len(w)] /\ Pool(src, q) = g[N]
  BY DEF Pool
<1> HIDE DEF f, g, N
<1>5. f[0] = g[0]
  <2>1. 0 \in 0 .. N /\ 0 \in 0 .. Len(w)
    BY <1>1
  <2> QED BY <1>2, <1>3, <2>1
<1>6. ASSUME NEW k \in 1 .. N, f[k - 1] = g[k - 1] PROVE f[k] = g[k]
  <2>1. k \in 0 .. N /\ k \in 0 .. Len(w) /\ k # 0
    BY <1>1
  <2> QED BY <1>1, <1>2, <1>3, <1>6, <2>1
<1>7. f[N] = g[N]
  <2>1. SameSteps(f, g, N)
    BY <1>5, <1>6 DEF SameSteps
  <2>2. Same(f, g, N)
    BY <1>1, <2>1, Agree
  <2> QED BY <1>1, <2>2 DEF Same
<1>8. f[Len(w)] = Pooled(f[N], src[t])
  <2>1. Len(w) \in 0 .. Len(w) /\ Len(w) # 0 /\ Len(w) - 1 = N /\ w[Len(w)] = t
    BY <1>1
  <2> QED BY <1>2, <2>1
<1> QED BY <1>4, <1>7, <1>8 DEF w

LEMMA PoolAgree ==
  ASSUME NEW src \in [Turns -> Seq(Papers)], NEW other \in [Turns -> Seq(Papers)],
         NEW q \in Seq(Turns), \A t \in ToSet(q) : src[t] = other[t]
  PROVE  Pool(src, q) = Pool(other, q)
<1> DEFINE f == PoolUpTo(src, q)
           g == PoolUpTo(other, q)
           N == Len(q)
<1>1. N \in Nat /\ \A n \in 1 .. N : src[q[n]] = other[q[n]]
  BY DEF ToSet
<1>2. \A n \in 0 .. N : f[n] = IF n = 0 THEN <<>> ELSE Pooled(f[n - 1], src[q[n]])
  BY PoolSteps
<1>3. \A n \in 0 .. N : g[n] = IF n = 0 THEN <<>> ELSE Pooled(g[n - 1], other[q[n]])
  BY PoolSteps
<1>4. Pool(src, q) = f[N] /\ Pool(other, q) = g[N]
  BY DEF Pool
<1> HIDE DEF f, g, N
<1>5. f[0] = g[0]
  <2>1. 0 \in 0 .. N
    BY <1>1
  <2> QED BY <1>2, <1>3, <2>1
<1>6. ASSUME NEW k \in 1 .. N, f[k - 1] = g[k - 1] PROVE f[k] = g[k]
  <2>1. k \in 0 .. N /\ k # 0
    BY <1>1
  <2> QED BY <1>1, <1>2, <1>3, <1>6, <2>1
<1>7. SameSteps(f, g, N)
  BY <1>5, <1>6 DEF SameSteps
<1>8. Same(f, g, N)
  BY <1>1, <1>7, Agree
<1>9. f[N] = g[N]
  BY <1>1, <1>8 DEF Same
<1> QED BY <1>4, <1>9

\* The papers of a pool are the sources of its runs.
LEMMA PoolSet ==
  ASSUME NEW src \in [Turns -> Seq(Papers)], NEW q \in Seq(Turns)
  PROVE  ToSet(Pool(src, q)) = UNION {ToSet(src[t]) : t \in ToSet(q)}
<1> DEFINE f == PoolUpTo(src, q)
           N == Len(q)
           Had(n) == UNION {ToSet(src[q[j]]) : j \in 1 .. n}
           D == {n \in 0 .. N : ToSet(f[n]) = Had(n)}
<1>1. N \in Nat /\ \A n \in 1 .. N : src[q[n]] \in Seq(Papers)
  OBVIOUS
<1>2. \A n \in 0 .. N : f[n] \in Seq(Papers)
                        /\ f[n] = IF n = 0 THEN <<>> ELSE Pooled(f[n - 1], src[q[n]])
  BY PoolSteps
<1>3. Pool(src, q) = f[N] /\ UNION {ToSet(src[t]) : t \in ToSet(q)} = Had(N)
  <2>1. Pool(src, q) = f[N]
    BY DEF Pool
  <2>2. ToSet(q) = {q[j] : j \in 1 .. N}
    BY DEF ToSet
  <2> QED BY <2>1, <2>2
<1> HIDE DEF f, N
<1>4. 0 \in D
  <2>1. 0 \in 0 .. N /\ f[0] = <<>>
    BY <1>1, <1>2
  <2>2. ToSet(<<>>) = {}
    BY DEF ToSet
  <2>3. Had(0) = {}
    OBVIOUS
  <2> HIDE DEF Had
  <2> QED BY <2>1, <2>2, <2>3
<1>5. ASSUME NEW n \in 1 .. N, n - 1 \in D PROVE n \in D
  <2>1. n \in 0 .. N /\ n # 0 /\ n - 1 \in 0 .. N /\ n \in Nat
    BY <1>1
  <2>2. ToSet(f[n - 1]) = Had(n - 1)
    BY <1>5
  <2>3. f[n - 1] \in Seq(Papers) /\ f[n] = Pooled(f[n - 1], src[q[n]])
    BY <1>2, <2>1
  <2>4. ToSet(f[n]) = ToSet(f[n - 1]) \union ToSet(src[q[n]])
    BY <1>1, <2>3, PooledFacts
  <2>5. Had(n) = Had(n - 1) \union ToSet(src[q[n]])
    <3>1. \A j : j \in 1 .. n <=> j \in 1 .. n - 1 \/ j = n
      BY <2>1
    <3> QED BY <3>1
  <2> HIDE DEF Had
  <2> QED BY <2>1, <2>2, <2>4, <2>5
<1>6. N \in D
  <2>1. N \in 0 .. N
    BY <1>1
  <2> HIDE DEF D
  <2> QED BY <1>1, <1>4, <1>5, <2>1, UpTo
<1> QED BY <1>3, <1>6

\* Runs without sources make no difference.
LEMMA PoolWithout ==
  ASSUME NEW src \in [Turns -> Seq(Papers)], NEW q \in Seq(Turns), NEW S,
         \A t \in ToSet(q) : t \in S => src[t] = <<>>
  PROVE  Pool(src, Without(q, S)) = Pool(src, q)
<1> DEFINE f == PoolUpTo(src, q)
           w == WithoutUpTo(q, S)
           N == Len(q)
           D == {n \in 0 .. N : w[n] \in Seq(Turns) /\ Pool(src, w[n]) = f[n]}
<1>1. N \in Nat /\ \A n \in 1 .. N : q[n] \in Turns /\ q[n] \in ToSet(q)
                                      /\ src[q[n]] \in Seq(Papers)
  BY DEF ToSet
<1>2. \A n \in 0 .. N : f[n] \in Seq(Papers)
                        /\ f[n] = IF n = 0 THEN <<>> ELSE Pooled(f[n - 1], src[q[n]])
  BY PoolSteps
<1>3. \A n \in 0 .. N :
        w[n] = IF n = 0 THEN <<>> ELSE IF q[n] \in S THEN w[n - 1] ELSE Append(w[n - 1], q[n])
  BY WithoutSteps
<1>4. Pool(src, q) = f[N] /\ Without(q, S) = w[N]
  BY DEF Pool, Without
<1> HIDE DEF f, w, N
<1>5. 0 \in D
  <2>4. 0 \in 0 .. N
    BY <1>1
  <2>1. 0 \in 0 .. N /\ f[0] = <<>> /\ w[0] = <<>>
    BY <1>2, <1>3, <2>4
  <2>2. <<>> \in Seq(Turns) /\ Len(<<>>) = 0
    OBVIOUS
  <2>3. Pool(src, <<>>) = <<>>
    <3> DEFINE e == <<>>
    <3>1. e \in Seq(Turns) /\ Len(e) = 0 /\ 0 \in 0 .. Len(e)
      OBVIOUS
    <3>2. Pool(src, e) = PoolUpTo(src, e)[0]
      BY <3>1 DEF Pool
    <3> HIDE DEF e
    <3>3. PoolUpTo(src, e)[0] = <<>>
      BY <3>1, PoolSteps
    <3> QED BY <3>2, <3>3 DEF e
  <2> QED BY <2>1, <2>2, <2>3
<1>6. ASSUME NEW n \in 1 .. N, n - 1 \in D PROVE n \in D
  <2>1. n \in 0 .. N /\ n # 0 /\ n - 1 \in 0 .. N
    BY <1>1
  <2>2. w[n - 1] \in Seq(Turns) /\ Pool(src, w[n - 1]) = f[n - 1]
    BY <1>6
  <2>3. /\ f[n] = Pooled(f[n - 1], src[q[n]]) /\ f[n - 1] \in Seq(Papers)
        /\ w[n] = IF q[n] \in S THEN w[n - 1] ELSE Append(w[n - 1], q[n])
    BY <1>2, <1>3, <2>1
  <2>4. CASE q[n] \in S
    <3>1. src[q[n]] = <<>>
      BY <1>1, <2>4
    <3>2. f[n] = f[n - 1]
      BY <1>1, <2>3, <3>1, PooledFacts
    <3> QED BY <2>1, <2>2, <2>3, <2>4, <3>2
  <2>5. CASE q[n] \notin S
    <3>1. w[n] = Append(w[n - 1], q[n]) /\ q[n] \in Turns
      BY <1>1, <2>3, <2>5
    <3>2. Pool(src, w[n]) = Pooled(Pool(src, w[n - 1]), src[q[n]])
      BY <2>2, <3>1, PoolAppend
    <3>3. w[n] \in Seq(Turns)
      BY <2>2, <3>1
    <3> QED BY <2>1, <2>2, <2>3, <3>2, <3>3
  <2> QED BY <2>4, <2>5
<1>7. N \in D
  <2>1. N \in 0 .. N
    BY <1>1
  <2> HIDE DEF D
  <2> QED BY <1>1, <1>5, <1>6, <2>1, UpTo
<1> QED BY <1>4, <1>7

\* --------------------------------------------------------------------------
\* What archiving and replaying a run add to a session.

BatchKnown(c) == ToSet(c.batch) \subseteq ToSet(c.papers)

LEMMA AppendPapersPool ==
  ASSUME NEW c \in SessionContexts, NEW sources \in Seq(Papers), NEW updateBatch \in BOOLEAN
  PROVE  LET d == AppendPapers(c, sources, updateBatch) IN
         d.papers = Pooled(c.papers, sources) /\ (BatchKnown(c) => BatchKnown(d))
<1> DEFINE d == AppendPapers(c, sources, updateBatch)
           new == NewPapers(c, sources)
           pool == Pooled(c.papers, sources)
<1>1. c.papers \in Seq(Papers)
  BY DEF SessionContexts
<1>2. d.papers = pool /\ d.batch = IF updateBatch THEN new ELSE c.batch
  BY DEF AppendPapers, NewPapers, Pooled, SessionContexts
<1>3. ToSet(new) \subseteq ToSet(sources)
  <2> DEFINE S == ToSet(c.papers)
  <2>1. new = Without(sources, S)
    BY DEF NewPapers
  <2> HIDE DEF S, new
  <2> QED BY <2>1, WithoutSet
<1>4. ToSet(pool) = ToSet(c.papers) \union ToSet(sources)
  BY <1>1, PooledFacts
<1> HIDE DEF d, new, pool
<1>5. BatchKnown(c) => BatchKnown(d)
  BY <1>2, <1>3, <1>4 DEF BatchKnown
<1> QED BY <1>2, <1>5 DEF d, pool

LEMMA SetActiveSet ==
  ASSUME NEW c \in SessionContexts, NEW mentioned \in Seq(Papers)
  PROVE  /\ ToSet(SetActive(c, mentioned).mentioned) = ToSet(mentioned) \union ToSet(c.mentioned)
         /\ SetActive(c, mentioned).papers = c.papers
         /\ SetActive(c, mentioned).batch = c.batch
<1> DEFINE S == ToSet(mentioned)
           rest == Without(c.mentioned, S)
           both == mentioned \o rest
<1>1. c.mentioned \in Seq(Papers)
  BY DEF SessionContexts
<1>2. rest \in Seq(Papers) /\ ToSet(rest) = ToSet(c.mentioned) \ S
  <2> HIDE DEF S
  <2> QED BY <1>1, WithoutFacts, WithoutSet
<1>3. SetActive(c, mentioned) = [c EXCEPT !.mentioned = both]
  BY DEF SetActive
<1> HIDE DEF rest
<1>4. ToSet(both) = S \union ToSet(rest)
  BY <1>2, ConcatSet
<1> HIDE DEF both
<1>5. [c EXCEPT !.mentioned = both].mentioned = both
      /\ [c EXCEPT !.mentioned = both].papers = c.papers
      /\ [c EXCEPT !.mentioned = both].batch = c.batch
  BY DEF SessionContexts
<1> QED BY <1>2, <1>3, <1>4, <1>5

\* The two are different code, but add the same papers.
LEMMA ArchivedHistory ==
  ASSUME turns \in [Turns -> TurnsType],
         NEW c \in SessionContexts, DistinctPapers(c), NEW t \in Turns,
         NEW r \in ResultsType, IsInjective(r.sources), IsInjective(r.resolved),
         r.intent = "follow_up" => r.sources = <<>>
  PROVE  LET d == Archived(c, t, r) IN
         /\ d.papers = Pooled(c.papers, r.sources)
         /\ ToSet(d.mentioned) \subseteq
              ToSet(c.mentioned) \union ToSet(r.resolved) \union ToSet(r.sources)
         /\ BatchKnown(c) => BatchKnown(d)
<1> DEFINE numbered == r.intent \in Listing /\ r.sources # <<>>
           added == r.intent \in Recommending \/ (r.intent # "follow_up" /\ r.sources # <<>>)
           first == IF numbered THEN BatchStart(t, r) ELSE c.start
           started == [c EXCEPT !.start = first]
           update == r.intent \in Listing
           supplied == IF added THEN AppendPapers(started, r.sources, update) ELSE started
           named == IF r.resolved # <<>> THEN r.resolved
                    ELSE IF numbered THEN <<Head(r.sources)>> ELSE <<>>
           active == SetActive(supplied, named)
<1>1. /\ r.sources \in Seq(Papers) /\ r.resolved \in Seq(Papers)
      /\ turns[t].context.papers \in Seq(Papers)
  BY DEF ResultsType, TurnsType, Contexts
<1>2. first \in Nat \ {0}
  <2>1. BatchStart(t, r) \in Nat \ {0}
    BY <1>1 DEF BatchStart
  <2> QED BY <2>1 DEF SessionContexts
<1>3. /\ started \in SessionContexts /\ DistinctPapers(started)
      /\ started.papers = c.papers /\ started.mentioned = c.mentioned
      /\ started.batch = c.batch
  <2> HIDE DEF first
  <2> QED BY <1>2 DEF SessionContexts, DistinctPapers
<1>4. Archived(c, t, r) = MergeTurn(active, t)
  BY DEF Archived
<1>5. update \in BOOLEAN /\ (~added => r.sources = <<>>)
  OBVIOUS
<1>6. named \in Seq(Papers) /\ IsInjective(named)
      /\ ToSet(named) \subseteq ToSet(r.resolved) \union ToSet(r.sources)
  <2>1. CASE r.resolved # <<>>
    BY <1>1, <2>1
  <2>2. CASE r.resolved = <<>> /\ numbered
    <3>1. Head(r.sources) \in Papers /\ Head(r.sources) = r.sources[1] /\ 1 \in DOMAIN r.sources
      BY <1>1, <2>2
    <3>2. named = <<Head(r.sources)>>
      BY <2>2
    <3>3. ToSet(named) = {Head(r.sources)}
      BY <3>2 DEF ToSet
    <3>4. Head(r.sources) \in ToSet(r.sources)
      BY <3>1 DEF ToSet
    <3> QED BY <3>1, <3>2, <3>3, <3>4 DEF IsInjective
  <2>3. CASE r.resolved = <<>> /\ ~numbered
    BY <2>3 DEF IsInjective, ToSet
  <2> QED BY <2>1, <2>2, <2>3
<1> HIDE DEF first, started, update, named
<1>7. /\ supplied \in SessionContexts /\ DistinctPapers(supplied)
      /\ supplied.papers = Pooled(c.papers, r.sources) /\ supplied.mentioned = c.mentioned
      /\ BatchKnown(c) => BatchKnown(supplied)
  <2>1. CASE added
    <3>1. supplied = AppendPapers(started, r.sources, update)
      BY <2>1
    <3>2. BatchKnown(c) => BatchKnown(started)
      BY <1>3 DEF BatchKnown
    <3> QED BY <1>1, <1>3, <1>5, <3>1, <3>2, AppendPapersType, AppendPapersPool
  <2>2. CASE ~added
    <3>1. supplied = started /\ r.sources = <<>> /\ c.papers \in Seq(Papers)
      BY <1>5, <2>2 DEF SessionContexts
    <3>2. Pooled(c.papers, r.sources) = c.papers
      BY <1>1, <3>1, PooledFacts
    <3>3. BatchKnown(c) => BatchKnown(started)
      BY <1>3 DEF BatchKnown
    <3> QED BY <1>3, <3>1, <3>2, <3>3
  <2> QED BY <2>1, <2>2
<1> HIDE DEF supplied
<1>8. /\ active \in SessionContexts /\ active.papers = Pooled(c.papers, r.sources)
      /\ ToSet(active.mentioned) = ToSet(named) \union ToSet(c.mentioned)
      /\ active.batch = supplied.batch /\ active.papers = supplied.papers
  BY <1>6, <1>7, SetActiveType, SetActiveSet
<1> HIDE DEF active
<1>9. MergeTurn(active, t).papers = active.papers
      /\ MergeTurn(active, t).mentioned = active.mentioned
      /\ MergeTurn(active, t).batch = active.batch
  BY <1>8 DEF MergeTurn, SessionContexts
<1>10. BatchKnown(c) => BatchKnown(MergeTurn(active, t))
  BY <1>7, <1>8, <1>9 DEF BatchKnown
<1> QED BY <1>4, <1>6, <1>8, <1>9, <1>10

LEMMA ReplayedHistory ==
  ASSUME turns \in [Turns -> TurnsType],
         NEW c \in SessionContexts, DistinctPapers(c), NEW t \in Turns,
         IsInjective(turns[t].result.sources), IsInjective(turns[t].result.resolved),
         turns[t].result.intent = "follow_up" => turns[t].result.sources = <<>>
  PROVE  LET d == Replayed(c, t) IN
         /\ d.papers = Pooled(c.papers, turns[t].result.sources)
         /\ Covered(d.messages) = Covered(c.messages) \union {t}
         /\ ToSet(d.mentioned) = ToSet(turns[t].result.resolved) \union ToSet(c.mentioned)
         /\ BatchKnown(c) => BatchKnown(d)
<1> DEFINE r == turns[t].result
           numbered == r.intent \in Listing /\ r.sources # <<>>
           added == r.intent # "follow_up" /\ r.sources # <<>>
           first == IF ~numbered THEN c.start
                    ELSE IF r.intent = "recommend_more" THEN Len(c.papers) + 1 ELSE 1
           started == [c EXCEPT !.start = first]
           update == r.intent \in Listing
           supplied == IF added THEN AppendPapers(started, r.sources, update) ELSE started
           active == SetActive(supplied, r.resolved)
           messages == With(active.messages, t)
           d == [active EXCEPT !.messages = messages]
<1>1. r.sources \in Seq(Papers) /\ r.resolved \in Seq(Papers)
  BY DEF ResultsType, TurnsType
<1>2. first \in Nat \ {0}
  <2>1. c.papers \in Seq(Papers) /\ c.start \in Nat \ {0}
    BY DEF SessionContexts
  <2>2. Len(c.papers) + 1 \in Nat \ {0} /\ 1 \in Nat \ {0}
    BY <2>1
  <2> HIDE DEF r
  <2> QED BY <2>1, <2>2
<1>3. /\ started \in SessionContexts /\ DistinctPapers(started)
      /\ started.papers = c.papers /\ started.mentioned = c.mentioned
      /\ started.messages = c.messages /\ started.batch = c.batch
  <2> HIDE DEF first
  <2> QED BY <1>2 DEF SessionContexts, DistinctPapers
<1>4. /\ update \in BOOLEAN /\ IsInjective(r.sources) /\ IsInjective(r.resolved)
      /\ (~added => r.sources = <<>>)
  OBVIOUS
<1>5. d = Replayed(c, t)
  BY DEF Replayed
<1> HIDE DEF first, started, update, r
<1>6. /\ supplied \in SessionContexts /\ DistinctPapers(supplied)
      /\ supplied.papers = Pooled(c.papers, r.sources) /\ supplied.mentioned = c.mentioned
      /\ BatchKnown(c) => BatchKnown(supplied)
      /\ supplied.messages = c.messages
  <2>1. CASE added
    <3>1. supplied = AppendPapers(started, r.sources, update)
      BY <2>1
    <3>2. BatchKnown(c) => BatchKnown(started)
      BY <1>3 DEF BatchKnown
    <3> QED BY <1>1, <1>3, <1>4, <3>1, <3>2, AppendPapersType, AppendPapersPool
  <2>2. CASE ~added
    <3>1. supplied = started /\ r.sources = <<>> /\ c.papers \in Seq(Papers)
      BY <1>4, <2>2 DEF SessionContexts
    <3>2. Pooled(c.papers, r.sources) = c.papers
      BY <1>1, <3>1, PooledFacts
    <3>3. BatchKnown(c) => BatchKnown(started)
      BY <1>3 DEF BatchKnown
    <3> QED BY <1>3, <3>1, <3>2, <3>3
  <2> QED BY <2>1, <2>2
<1> HIDE DEF supplied
<1>7. /\ active \in SessionContexts /\ active.papers = Pooled(c.papers, r.sources)
      /\ ToSet(active.mentioned) = ToSet(r.resolved) \union ToSet(c.mentioned)
      /\ active.messages = c.messages
      /\ active.batch = supplied.batch /\ active.papers = supplied.papers
  BY <1>1, <1>4, <1>6, SetActiveType, SetActiveSet
<1> HIDE DEF active
<1>8. Covered(messages) = Covered(c.messages) \union {t}
  <2>1. active.messages \in Transcripts
    BY <1>7 DEF SessionContexts
  <2> QED BY <1>7, <2>1, CoveredWith
<1> HIDE DEF messages
<1>9. /\ d.papers = active.papers /\ d.mentioned = active.mentioned /\ d.messages = messages
      /\ d.batch = active.batch
  BY <1>7 DEF SessionContexts
<1> HIDE DEF d
<1>10. BatchKnown(c) => BatchKnown(d)
  BY <1>6, <1>7, <1>9 DEF BatchKnown
<1> QED BY <1>5, <1>7, <1>8, <1>9, <1>10 DEF r

SourcesOf(tt) == [t \in Turns |-> tt[t].result.sources]

\* A restored session has the sources of its runs, their turns, and what they were about.
LEMMA RestoredHistory ==
  ASSUME turns \in [Turns -> CleanTurns], NEW s \in Nat, RunsOf(s) \in Seq(Turns)
  PROVE  LET d == Restored(s) IN
         /\ d.papers = Pool(SourcesOf(turns), RunsOf(s))
         /\ Covered(d.messages) = ToSet(RunsOf(s))
         /\ ToSet(d.mentioned) = UNION {ToSet(turns[t].result.resolved) : t \in ToSet(RunsOf(s))}
         /\ BatchKnown(d)
<1> DEFINE q == RunsOf(s)
           N == Len(q)
           w == RestoredUpTo(s)
           src == SourcesOf(turns)
           f == PoolUpTo(src, q)
           About(n) == UNION {ToSet(turns[q[j]].result.resolved) : j \in 1 .. n}
           Holds(n) == /\ w[n].papers = f[n]
                       /\ Covered(w[n].messages) = {q[j] : j \in 1 .. n}
                       /\ ToSet(w[n].mentioned) = About(n)
                       /\ BatchKnown(w[n])
           D == {n \in 0 .. N : Holds(n)}
<1>1. /\ turns \in [Turns -> TurnsType]
      /\ \A t \in Turns : /\ IsInjective(turns[t].result.sources)
                          /\ IsInjective(turns[t].result.resolved)
                          /\ turns[t].result.intent = "follow_up"
                               => turns[t].result.sources = <<>>
  BY DEF CleanTurns, CleanResults
<1>2. src \in [Turns -> Seq(Papers)] /\ \A t \in Turns : src[t] = turns[t].result.sources
  BY <1>1 DEF SourcesOf, TurnsType, ResultsType
<1>3. /\ N \in Nat /\ \A n \in 1 .. N : q[n] \in Turns
      /\ ToSet(q) = {q[j] : j \in 1 .. N}
  BY DEF ToSet
<1>4. \A n \in 0 .. N :
        /\ w[n] \in SessionContexts /\ DistinctPapers(w[n])
        /\ w[n] = IF n = 0 THEN Fresh(s) ELSE Replayed(w[n - 1], q[n])
  BY <1>1, RestoredSteps
<1> HIDE DEF src
<1>5. \A n \in 0 .. N : f[n] = IF n = 0 THEN <<>> ELSE Pooled(f[n - 1], src[q[n]])
  BY <1>2, PoolSteps
<1>6. Restored(s) = w[N] /\ Pool(src, q) = f[N]
  BY DEF Restored, Pool
<1> HIDE DEF q, N, w, f
<1>7. 0 \in D
  <2>1. 0 \in 0 .. N
    BY <1>3
  <2>2. w[0] = Fresh(s) /\ f[0] = <<>>
    BY <1>4, <1>5, <2>1
  <2>3. About(0) = {} /\ {q[j] : j \in 1 .. 0} = {}
    OBVIOUS
  <2>4. /\ Fresh(s).papers = <<>> /\ Fresh(s).batch = <<>> /\ Fresh(s).mentioned = <<>>
        /\ Fresh(s).messages = NoMessages
    BY DEF Fresh
  <2>5. ToSet(<<>>) = {}
    BY DEF ToSet
  <2>6. Covered(NoMessages) = {}
    BY <2>5 DEF NoMessages, Covered
  <2>7. BatchKnown(Fresh(s))
    BY <2>4, <2>5 DEF BatchKnown
  <2> HIDE DEF About
  <2> QED BY <2>1, <2>2, <2>3, <2>4, <2>5, <2>6, <2>7
<1>8. ASSUME NEW n \in 1 .. N, n - 1 \in D PROVE n \in D
  <2>1. n \in 0 .. N /\ n # 0 /\ n - 1 \in 0 .. N /\ n \in Nat /\ q[n] \in Turns
    BY <1>3
  <2>2. Holds(n - 1)
    BY <1>8
  <2>3. /\ w[n - 1] \in SessionContexts /\ DistinctPapers(w[n - 1])
        /\ w[n] = Replayed(w[n - 1], q[n])
    BY <1>4, <2>1
  <2> DEFINE c == w[n - 1]
             d == w[n]
             t == q[n]
  <2>4. /\ d.papers = Pooled(c.papers, turns[t].result.sources)
        /\ Covered(d.messages) = Covered(c.messages) \union {t}
        /\ ToSet(d.mentioned) = ToSet(turns[t].result.resolved) \union ToSet(c.mentioned)
        /\ BatchKnown(c) => BatchKnown(d)
    <3>1. /\ t \in Turns /\ c \in SessionContexts /\ DistinctPapers(c) /\ d = Replayed(c, t)
          /\ turns \in [Turns -> TurnsType]
      BY <1>1, <2>1, <2>3
    <3> HIDE DEF c, d, t
    <3>2. /\ IsInjective(turns[t].result.sources) /\ IsInjective(turns[t].result.resolved)
          /\ turns[t].result.intent = "follow_up" => turns[t].result.sources = <<>>
      BY <1>1, <3>1
    <3> QED BY <3>1, <3>2, ReplayedHistory
  <2>5. \A j : j \in 1 .. n <=> j \in 1 .. n - 1 \/ j = n
    BY <2>1
  <2>6. About(n) = About(n - 1) \union ToSet(turns[t].result.resolved)
    BY <2>5
  <2>7. {q[j] : j \in 1 .. n} = {q[j] : j \in 1 .. n - 1} \union {t}
    BY <2>5
  <2>8. f[n] = Pooled(f[n - 1], turns[t].result.sources)
    BY <1>2, <1>5, <2>1
  <2> HIDE DEF About, c, d, t
  <2>9. /\ c.papers = f[n - 1] /\ Covered(c.messages) = {q[j] : j \in 1 .. n - 1}
        /\ ToSet(c.mentioned) = About(n - 1) /\ BatchKnown(c)
    BY <2>2 DEF c
  <2>10. /\ d.papers = f[n] /\ Covered(d.messages) = {q[j] : j \in 1 .. n}
         /\ ToSet(d.mentioned) = About(n) /\ BatchKnown(d)
    BY <2>4, <2>6, <2>7, <2>8, <2>9
  <2>11. Holds(n)
    BY <2>10 DEF d
  <2> HIDE DEF Holds
  <2> QED BY <2>1, <2>11
<1>9. Holds(N)
  <2>1. N \in 0 .. N
    BY <1>3
  <2>2. N \in D
    <3> HIDE DEF D
    <3> QED BY <1>3, <1>7, <1>8, <2>1, UpTo
  <2> QED BY <2>2
<1>10. About(N) = UNION {ToSet(turns[t].result.resolved) : t \in ToSet(q)}
  BY <1>3
<1> HIDE DEF About
<1> QED BY <1>3, <1>6, <1>9, <1>10 DEF q, src

\* The turns of a session among those of q, and the papers that their runs brought.
SessionRuns(tt, q, s) == Without(q, {t \in Turns : tt[t].session # s})
Archive(tt, q, s) == Pool(SourcesOf(tt), SessionRuns(tt, q, s))

LEMMA SourcesOfType ==
  ASSUME NEW tt \in [Turns -> CleanTurns]
  PROVE  SourcesOf(tt) \in [Turns -> Seq(Papers)]
BY DEF SourcesOf, CleanTurns, TurnsType, ResultsType

TurnsIn(tt, q, s) == {t \in ToSet(q) : tt[t].session = s}
LEMMA SessionRunsFacts ==
  ASSUME NEW tt, NEW q \in Seq(Turns), NEW s
  PROVE  /\ SessionRuns(tt, q, s) \in Seq(Turns)
         /\ ToSet(SessionRuns(tt, q, s)) = TurnsIn(tt, q, s)
<1> DEFINE S == {t \in Turns : tt[t].session # s}
<1>1. SessionRuns(tt, q, s) = Without(q, S)
  BY DEF SessionRuns
<1>2. \A t \in ToSet(q) : t \in Turns /\ (t \notin S <=> tt[t].session = s)
  BY DEF ToSet
<1> HIDE DEF S
<1>3. Without(q, S) \in Seq(Turns) /\ ToSet(Without(q, S)) = ToSet(q) \ S
  BY WithoutFacts, WithoutSet
<1> QED BY <1>1, <1>2, <1>3 DEF TurnsIn

\* What was archived does not depend on turns that have not ended.
LEMMA SameArchive ==
  ASSUME NEW tt \in [Turns -> CleanTurns], NEW uu \in [Turns -> CleanTurns],
         NEW q \in Seq(Turns), \A t \in ToSet(q) : uu[t] = tt[t], NEW s
  PROVE  SessionRuns(uu, q, s) = SessionRuns(tt, q, s) /\ Archive(uu, q, s) = Archive(tt, q, s)
<1> DEFINE S == {t \in Turns : tt[t].session # s}
           R == {t \in Turns : uu[t].session # s}
           r == SessionRuns(tt, q, s)
<1>1. \A j \in DOMAIN q : q[j] \in R <=> q[j] \in S
  BY DEF ToSet
<1>2. SessionRuns(tt, q, s) = Without(q, S) /\ SessionRuns(uu, q, s) = Without(q, R)
  BY DEF SessionRuns
<1> HIDE DEF R, S
<1>3. SessionRuns(uu, q, s) = r
  BY <1>1, <1>2, WithoutAgree
<1>4. r \in Seq(Turns) /\ \A t \in ToSet(r) : t \in ToSet(q) /\ t \in Turns
  BY SessionRunsFacts DEF ToSet, TurnsIn
<1>5. \A t \in ToSet(r) : SourcesOf(uu)[t] = SourcesOf(tt)[t]
  BY <1>4 DEF SourcesOf
<1> HIDE DEF r
<1>6. Pool(SourcesOf(uu), r) = Pool(SourcesOf(tt), r)
  BY <1>4, <1>5, PoolAgree, SourcesOfType
<1> QED BY <1>3, <1>6 DEF Archive, r

LEMMA ArchiveFacts ==
  ASSUME NEW tt \in [Turns -> CleanTurns], NEW q \in Seq(Turns), NEW s
  PROVE  /\ Archive(tt, q, s) \in Seq(Papers)
         /\ ToSet(Archive(tt, q, s))
              = UNION {ToSet(tt[t].result.sources) : t \in ToSet(SessionRuns(tt, q, s))}
<1> DEFINE r == SessionRuns(tt, q, s)
<1>1. r \in Seq(Turns) /\ \A t \in ToSet(r) : t \in Turns
  <2>1. r \in Seq(Turns)
    BY SessionRunsFacts
  <2> QED BY <2>1 DEF ToSet
<1> HIDE DEF r
<1>2. Pool(SourcesOf(tt), r) \in Seq(Papers)
      /\ ToSet(Pool(SourcesOf(tt), r)) = UNION {ToSet(SourcesOf(tt)[t]) : t \in ToSet(r)}
  BY <1>1, SourcesOfType, PoolType, PoolSet
<1>3. \A t \in ToSet(r) : SourcesOf(tt)[t] = tt[t].result.sources
  BY <1>1 DEF SourcesOf
<1>4. UNION {ToSet(SourcesOf(tt)[t]) : t \in ToSet(r)}
        = UNION {ToSet(tt[t].result.sources) : t \in ToSet(r)}
  BY <1>3
<1> QED BY <1>2, <1>4 DEF Archive, r

\* One more turn ends.
LEMMA GrownArchive ==
  ASSUME NEW tt \in [Turns -> CleanTurns], NEW q \in Seq(Turns), NEW t \in Turns, NEW s
  PROVE  IF tt[t].session = s
         THEN /\ SessionRuns(tt, Append(q, t), s) = Append(SessionRuns(tt, q, s), t)
              /\ Archive(tt, Append(q, t), s) = Pooled(Archive(tt, q, s), tt[t].result.sources)
         ELSE /\ SessionRuns(tt, Append(q, t), s) = SessionRuns(tt, q, s)
              /\ Archive(tt, Append(q, t), s) = Archive(tt, q, s)
<1> DEFINE S == {u \in Turns : tt[u].session # s}
           r == SessionRuns(tt, q, s)
<1>1. t \in S <=> tt[t].session # s
  OBVIOUS
<1>2. SessionRuns(tt, Append(q, t), s) = Without(Append(q, t), S) /\ r = Without(q, S)
  BY DEF SessionRuns
<1> HIDE DEF S
<1>3. SessionRuns(tt, Append(q, t), s) = IF t \in S THEN r ELSE Append(r, t)
  BY <1>2, WithoutAppend
<1>4. r \in Seq(Turns)
  BY SessionRunsFacts
<1> HIDE DEF r
<1>5. Pool(SourcesOf(tt), Append(r, t)) = Pooled(Pool(SourcesOf(tt), r), SourcesOf(tt)[t])
  BY <1>4, SourcesOfType, PoolAppend
<1>6. SourcesOf(tt)[t] = tt[t].result.sources
  BY DEF SourcesOf
<1> QED BY <1>1, <1>3, <1>5, <1>6 DEF Archive, r

\* --------------------------------------------------------------------------
\* A request is about papers that the copy of its session has.
Refs(c) == ToSet(c.papers) \union ToSet(c.batch) \union ToSet(c.mentioned)
About(x, c) == ToSet(x) \subseteq Refs(c)

LEMMA OneAbout ==
  ASSUME NEW c, NEW p \in Refs(c)
  PROVE  About(<<p>>, c)
BY DEF About, ToSet

LEMMA ActiveAbout ==
  ASSUME NEW c, c.mentioned \in Seq(Papers)
  PROVE  ToSet(Active(c)) \subseteq ToSet(c.mentioned) /\ About(Active(c), c)
<1>1. ToSet(Active(c)) \subseteq ToSet(c.mentioned)
  <2>1. CASE c.mentioned = <<>>
    BY <2>1 DEF Active, ToSet
  <2>2. CASE c.mentioned # <<>>
    <3>1. Head(c.mentioned) = c.mentioned[1] /\ 1 \in DOMAIN c.mentioned
      BY <2>2
    <3>2. Head(c.mentioned) \in ToSet(c.mentioned)
      BY <3>1 DEF ToSet
    <3>3. Active(c) = <<Head(c.mentioned)>>
      BY <2>2 DEF Active
    <3> QED BY <3>2, <3>3 DEF ToSet
  <2> QED BY <2>1, <2>2
<1> QED BY <1>1 DEF About, Refs

LEMMA RuleAbout ==
  ASSUME NEW c, c.papers \in Seq(Papers), c.batch \in Seq(Papers), c.start \in Nat \ {0},
         c.mentioned \in Seq(Papers), NEW ref \in References(c)
  PROVE  About(RuleResolved(c, ref), c)
<1>1. About(<<>>, c)
  BY DEF About, ToSet
<1>2. ASSUME ref.kind = "number" PROVE About(RuleResolved(c, ref), c)
  <2>1. ref.n \in Nat
    BY <1>2 DEF References
  <2>2. OrdinalTarget(c, ref.n) = "none" \/ OrdinalTarget(c, ref.n) \in Refs(c)
    <3>1. CASE ref.n \in c.start .. c.start + Len(c.batch) - 1
      <4>1. ref.n - c.start + 1 \in DOMAIN c.batch
        BY <2>1, <3>1
      <4>2. OrdinalTarget(c, ref.n) = c.batch[ref.n - c.start + 1]
        BY <3>1 DEF OrdinalTarget
      <4> QED BY <4>1, <4>2 DEF Refs, ToSet
    <3>2. CASE ~(ref.n \in c.start .. c.start + Len(c.batch) - 1)
      BY <3>2 DEF OrdinalTarget, Refs, ToSet
    <3> QED BY <3>1, <3>2
  <2>3. RuleResolved(c, ref) = IF OrdinalTarget(c, ref.n) = "none" THEN <<>>
                               ELSE <<OrdinalTarget(c, ref.n)>>
    BY <1>2 DEF RuleResolved
  <2> HIDE DEF OrdinalTarget
  <2> QED BY <1>1, <2>2, <2>3, OneAbout
<1>3. ASSUME ref.kind = "paper" PROVE About(RuleResolved(c, ref), c)
  <2>1. ref.paper \in Refs(c)
    BY <1>3 DEF References, Refs
  <2>2. RuleResolved(c, ref) = <<ref.paper>>
    BY <1>3 DEF RuleResolved
  <2> QED BY <2>1, <2>2, OneAbout
<1>4. ASSUME ref.kind = "former" PROVE About(RuleResolved(c, ref), c)
  <2>1. c.mentioned # <<>> => Last(c.mentioned) \in Refs(c)
    BY DEF Last, Refs, ToSet
  <2>2. RuleResolved(c, ref) = IF c.mentioned # <<>> THEN <<Last(c.mentioned)>> ELSE <<>>
    BY <1>4 DEF RuleResolved
  <2> QED BY <1>1, <2>1, <2>2, OneAbout
<1>5. ASSUME ref.kind \in {"latter", "this"} PROVE About(RuleResolved(c, ref), c)
  BY <1>5, ActiveAbout DEF RuleResolved
<1>6. ASSUME ref.kind = "other" PROVE About(RuleResolved(c, ref), c)
  BY <1>1, <1>6 DEF RuleResolved
<1>7. ref.kind \in {"number", "paper", "former", "latter", "this", "other"}
  BY DEF References
<1> QED BY <1>2, <1>3, <1>4, <1>5, <1>6, <1>7

LEMMA ResolvedAbout ==
  ASSUME NEW c, c.papers \in Seq(Papers), c.batch \in Seq(Papers), c.start \in Nat \ {0},
         c.mentioned \in Seq(Papers), NEW ref \in References(c), NEW ids \in Resolved(c, ref)
  PROVE  About(ids, c)
<1>1. \/ ids = RuleResolved(c, ref)
      \/ ids = <<>>
      \/ \E p \in Known(c) : ids = <<p>>
  BY DEF Resolved
<1>2. About(<<>>, c)
  BY DEF About, ToSet
<1>3. Known(c) \subseteq Refs(c)
  BY DEF Known, Refs
<1> QED BY <1>1, <1>2, <1>3, OneAbout, RuleAbout

LEMMA DecidedAbout ==
  ASSUME NEW c \in Contexts, NEW ref \in References(c), NEW wording \in Wordings,
         NEW d \in Decided(c, ref, wording)
  PROVE  About(d.resolved, c)
<1>1. /\ c.papers \in Seq(Papers) /\ c.batch \in Seq(Papers) /\ c.start \in Nat \ {0}
      /\ c.mentioned \in Seq(Papers)
  BY DEF Contexts
<1>2. About(<<>>, c) /\ About(c.papers, c)
  BY DEF About, Refs, ToSet
<1>3. \A intent, route, ids : Decision(intent, route, ids).resolved = ids
  BY DEF Decision
<1>4. ASSUME NEW ids \in Resolved(c, ref)
      PROVE  /\ \A x \in Continuation(c, ids, wording) : About(x.resolved, c)
             /\ About(FollowUp(c, ids, wording).resolved, c)
  <2>1. About(ids, c) /\ About(Active(c), c)
    BY <1>1, ResolvedAbout, ActiveAbout
  <2>2. \A x \in Continuation(c, ids, wording) :
          \/ x = Decision("recommend_more", "direct", <<>>)
          \/ x = Decision("research", "research", IF ids = <<>> THEN c.papers ELSE ids)
    BY DEF Continuation, Wordings
  <2>3. \A x \in Continuation(c, ids, wording) : About(x.resolved, c)
    BY <1>2, <1>3, <2>1, <2>2
  <2>4. About(FollowUp(c, ids, wording).resolved, c)
    BY <1>3, <2>1 DEF FollowUp
  <2> QED BY <2>3, <2>4
<1>5. CASE MissingOrdinal(c, ref)
  BY <1>2, <1>3, <1>5 DEF Decided, Clarification
<1>6. CASE ~MissingOrdinal(c, ref)
  <2>1. PICK ids \in Resolved(c, ref) :
          \/ d \in Continuation(c, ids, wording)
          \/ d = FollowUp(c, ids, wording)
          \/ d \in Classified
    BY <1>6 DEF Decided
  <2>2. d \in Classified => d.resolved = <<>>
    BY DEF Classified
  <2> QED BY <1>2, <1>4, <2>1, <2>2
<1> QED BY <1>5, <1>6

LEMMA ResultsAbout ==
  ASSUME turns \in [Turns -> TurnsType], NEW t \in Turns, NEW r \in Results(t)
  PROVE  About(r.resolved, turns[t].context)
<1> DEFINE c == turns[t].context
           decisions == UNION {Decided(c, ref, wording) :
                                 ref \in References(c), wording \in Wordings}
<1>1. PICK d \in decisions :
        r \in [intent : {d.intent}, resolved : {d.resolved}, sources : Sources(c, d)]
  BY DEF Results
<1>2. c \in Contexts
  BY DEF TurnsType
<1>3. PICK ref \in References(c), wording \in Wordings : d \in Decided(c, ref, wording)
  OBVIOUS
<1>4. r.resolved = d.resolved
  BY <1>1
<1> HIDE DEF c, decisions
<1>5. About(d.resolved, c)
  BY <1>2, <1>3, DecidedAbout
<1> QED BY <1>4, <1>5 DEF c

\* --------------------------------------------------------------------------
\* What archiving put into a session is in the history: the invariant.  A session
\* opened anew has the papers that its ended runs brought, in the order in which
\* they ended, and so much of its transcript as the copies that others write back
\* have; a session restored from one has at least what its requests are about.
\* kept are the papers that the ended turns own of the session brought, in order.

\* The ended turns of a session.
Own(s) == SessionRuns(turns, ended, s)
Kept(s) == Archive(turns, ended, s)

\* A new session, or one restored from a new one.
Near(s) == sessions[s].from = 0 \/ sessions[sessions[s].from].from = 0

SessionSound(c, own, kept, near) ==
  /\ BatchKnown(c)
  /\ c.from = 0 => /\ c.alive => c.papers = kept
                   /\ Covered(c.messages) \subseteq ToSet(own)
  /\ near => ToSet(c.mentioned) \subseteq ToSet(c.papers)

\* A turn x of session c.
TurnSound(x, c, own, kept, near) ==
  /\ x.phase \in Going /\ c.from = 0 => Covered(x.prepared) \subseteq ToSet(own)
  /\ x.phase \in {"bound", "running"} =>
       /\ c.from = 0 => Refs(x.context) \subseteq ToSet(kept)
       /\ near /\ c.alive => Refs(x.context) \subseteq ToSet(c.papers)
  /\ c.from = 0 => ToSet(x.result.resolved) \subseteq ToSet(kept)

SessionsSound ==
  \A s \in DOMAIN sessions : SessionSound(sessions[s], Own(s), Kept(s), Near(s))
TurnSoundIn(t, s) == TurnSound(turns[t], sessions[s], Own(s), Kept(s), Near(s))
TurnsSound ==
  \A t \in Turns, s \in DOMAIN sessions : turns[t].session = s => TurnSoundIn(t, s)
NoneYet == \A t \in Turns : turns[t].phase # "over" => turns[t].result = NoResult
Logged == /\ \A t \in ToSet(ended) : turns[t].phase = "over" /\ t \in ToSet(runs)
          /\ \A t \in Turns : turns[t].phase = "running" => t \in ToSet(runs)

History == SessionsSound /\ TurnsSound /\ NoneYet /\ Logged

\* A session whose papers and history only grow, unless it ends.
Grown(c, d, own, ownNow, kept, keptNow) ==
  /\ d.from = c.from
  /\ d.alive => c.alive /\ ToSet(c.papers) \subseteq ToSet(d.papers)
  /\ ToSet(own) \subseteq ToSet(ownNow)
  /\ ToSet(kept) \subseteq ToSet(keptNow)

LEMMA TurnCarried ==
  ASSUME NEW x, NEW c, NEW d, NEW own, NEW ownNow, NEW kept, NEW keptNow, NEW near,
         TurnSound(x, c, own, kept, near), Grown(c, d, own, ownNow, kept, keptNow)
  PROVE  TurnSound(x, d, ownNow, keptNow, near)
<1>1. x.phase \in Going /\ d.from = 0 => Covered(x.prepared) \subseteq ToSet(ownNow)
  BY DEF TurnSound, Grown
<1>2. ASSUME x.phase \in {"bound", "running"}
      PROVE  /\ d.from = 0 => Refs(x.context) \subseteq ToSet(keptNow)
             /\ near /\ d.alive => Refs(x.context) \subseteq ToSet(d.papers)
  BY <1>2 DEF TurnSound, Grown
<1>3. d.from = 0 => ToSet(x.result.resolved) \subseteq ToSet(keptNow)
  BY DEF TurnSound, Grown
<1> QED BY <1>1, <1>2, <1>3 DEF TurnSound

\* A turn that is not going on and is about no paper.
LEMMA QuietSound ==
  ASSUME NEW x, NEW c, NEW own, NEW kept, NEW near, x.phase \notin Going,
         x.result.resolved = <<>>
  PROVE  TurnSound(x, c, own, kept, near)
<1>1. ToSet(x.result.resolved) = {}
  BY DEF ToSet
<1> QED BY <1>1 DEF TurnSound, Going

LEMMA GoneSound ==
  ASSUME NEW c, NEW own, NEW kept, NEW near
  PROVE  SessionSound(Gone(c), own, kept, near)
<1>1. ToSet(<<>>) = {}
  BY DEF ToSet
<1>2. Covered(NoMessages) = {}
  BY <1>1 DEF NoMessages, Covered
<1>3. /\ Gone(c).alive = FALSE /\ Gone(c).batch = <<>> /\ Gone(c).mentioned = <<>>
      /\ Gone(c).messages = NoMessages
  BY DEF Gone, Fresh
<1> QED BY <1>1, <1>2, <1>3 DEF SessionSound, BatchKnown

\* The session that a session was restored from stays the same.
LEMMA NearKept ==
  ASSUME Inv, \A s \in DOMAIN sessions : sessions'[s].from = sessions[s].from,
         NEW s \in DOMAIN sessions
  PROVE  Near(s)' = Near(s)
<1>1. /\ DOMAIN sessions = 1 .. Len(sessions) /\ Len(sessions) \in Nat
      /\ sessions[s].from \in Nat /\ sessions[s].from < s
  BY DEF Inv, SessionsTyped, CleanSessions, SessionContexts
<1>2. sessions[s].from = 0 \/ sessions[s].from \in DOMAIN sessions
  BY <1>1
<1> QED BY <1>2 DEF Near

\* Nothing is archived while no turn ends with a result.
LEMMA ArchiveStays ==
  ASSUME Inv, Inv', Logged, ended' = ended,
         \A t \in Turns : turns[t].phase = "over" => turns'[t] = turns[t], NEW s
  PROVE  Own(s)' = Own(s) /\ Kept(s)' = Kept(s)
<1>1. /\ turns \in [Turns -> CleanTurns] /\ turns' \in [Turns -> CleanTurns]
      /\ ended \in Seq(Turns)
  BY DEF Inv, TurnsTyped, HistoryTyped
<1>2. \A t \in ToSet(ended) : t \in Turns
  BY <1>1 DEF ToSet
<1>3. \A t \in ToSet(ended) : turns'[t] = turns[t]
  BY <1>2 DEF Logged
<1>4. /\ SessionRuns(turns', ended, s) = SessionRuns(turns, ended, s)
      /\ Archive(turns', ended, s) = Archive(turns, ended, s)
  BY <1>1, <1>3, SameArchive
<1> QED BY <1>4 DEF Own, Kept

\* A step of one turn that leaves the sessions alone and archives nothing.
LEMMA OneTurn ==
  ASSUME Inv, Inv', History, NEW t \in Turns, NEW x, turns[t].phase # "over",
         turns' = [turns EXCEPT ![t] = x], UNCHANGED <<sessions, ended>>,
         x.phase # "over" => x.result = NoResult,
         x.session \in DOMAIN sessions =>
           LET s == x.session IN TurnSound(x, sessions[s], Own(s), Kept(s), Near(s)),
         ToSet(runs) \subseteq ToSet(runs'), x.phase = "running" => t \in ToSet(runs')
  PROVE  History'
<1>1. \A u \in Turns : turns'[u] = IF u = t THEN x ELSE turns[u]
  BY DEF Inv, TurnsTyped
<1>2. \A s : Own(s)' = Own(s) /\ Kept(s)' = Kept(s)
  <2>1. \A u \in Turns : turns[u].phase = "over" => turns'[u] = turns[u]
    BY <1>1
  <2> QED BY <2>1, ArchiveStays DEF History
<1>3. \A s \in DOMAIN sessions : Near(s)' = Near(s)
  BY NearKept
<1>4. SessionsSound'
  BY <1>2, <1>3 DEF History, SessionsSound
<1>5. TurnsSound'
  <2> SUFFICES ASSUME NEW u \in Turns, NEW s \in DOMAIN sessions, turns'[u].session = s
               PROVE  TurnSound(turns'[u], sessions[s], Own(s), Kept(s), Near(s))
    BY <1>2, <1>3 DEF TurnsSound, TurnSoundIn
  <2>1. CASE u = t
    BY <1>1, <2>1
  <2>2. CASE u # t
    BY <1>1, <2>2 DEF History, TurnsSound, TurnSoundIn
  <2> QED BY <2>1, <2>2
<1>6. NoneYet'
  BY <1>1 DEF History, NoneYet
<1>7. Logged'
  <2>1. \A u \in ToSet(ended) : u \in Turns
    BY DEF Inv, HistoryTyped, ToSet
  <2>2. \A u \in ToSet(ended') : turns'[u].phase = "over" /\ u \in ToSet(runs')
    BY <1>1, <2>1 DEF History, Logged
  <2>3. \A u \in Turns : turns'[u].phase = "running" => u \in ToSet(runs')
    BY <1>1 DEF History, Logged
  <2> QED BY <2>2, <2>3 DEF Logged
<1> QED BY <1>4, <1>5, <1>6, <1>7 DEF History

\* A turn that is bound to a session that is alive copies what the session has.
LEMMA BindSound ==
  ASSUME Inv, Inv', History, NEW t \in Turns, NEW s \in DOMAIN sessions, NEW prepared,
         turns[t].phase \in {"idle", "summarising"}, Alive(s),
         sessions[s].from = 0 => Covered(prepared) \subseteq ToSet(Own(s)),
         Bind(t, s, prepared), UNCHANGED <<sessions, runs, ended>>
  PROVE  History'
<1> DEFINE c == sessions[s]
           x == [turns[t] EXCEPT !.phase = "bound", !.session = s, !.base = c.messages,
                                 !.prepared = prepared, !.context = PapersOf(c)]
<1>1. turns' = [turns EXCEPT ![t] = x] /\ turns[t] \in CleanTurns
  BY DEF Bind, Inv, TurnsTyped
<1>2. /\ x.phase = "bound" /\ x.session = s /\ x.prepared = prepared
      /\ x.context = PapersOf(c) /\ x.result = turns[t].result
  BY <1>1 DEF CleanTurns, TurnsType
<1>3. turns[t].result = NoResult
  BY DEF History, NoneYet
<1>4. c.alive /\ SessionSound(c, Own(s), Kept(s), Near(s))
  BY DEF Alive, History, SessionsSound
<1>5. Refs(x.context) = ToSet(c.papers) \union ToSet(c.batch) \union ToSet(c.mentioned)
  BY <1>2 DEF Refs, PapersOf
<1>6. Near(s) => Refs(x.context) \subseteq ToSet(c.papers)
  BY <1>4, <1>5 DEF SessionSound, BatchKnown
<1>7. c.from = 0 => Near(s) /\ c.papers = Kept(s)
  BY <1>4 DEF SessionSound, Near
<1>8. ToSet(x.result.resolved) = {}
  BY <1>2, <1>3 DEF NoResult, ToSet
<1>9. TurnSound(x, c, Own(s), Kept(s), Near(s))
  <2> HIDE DEF x
  <2> QED BY <1>2, <1>6, <1>7, <1>8 DEF TurnSound
<1> HIDE DEF x
<1>10. turns[t].phase # "over" /\ x.phase \notin {"over", "running"} /\ x.result = NoResult
  BY <1>2, <1>3
<1> QED BY <1>1, <1>2, <1>9, <1>10, OneTurn

LEMMA CompactedCovers ==
  ASSUME NEW m
  PROVE  Covered(Compacted(m)) = Covered(m)
<1>1. ToSet(<<>>) = {}
  BY DEF ToSet
<1>2. Compacted(m).compacted = Covered(m) /\ Compacted(m).full = <<>>
  BY DEF Compacted
<1> QED BY <1>1, <1>2 DEF Covered

LEMMA PrepareSound ==
  ASSUME Inv, Inv', History, NEW t \in Turns, NEW s \in DOMAIN sessions, Prepare(t, s)
  PROVE  History'
<1>1. PICK prepared \in {sessions[s].messages, Compacted(sessions[s].messages)} :
        Bind(t, s, prepared)
  BY DEF Prepare
<1>2. Covered(prepared) = Covered(sessions[s].messages)
  BY CompactedCovers
<1>3. sessions[s].from = 0 => Covered(prepared) \subseteq ToSet(Own(s))
  BY <1>2 DEF History, SessionsSound, SessionSound
<1>4. /\ turns[t].phase \in {"idle", "summarising"} /\ Alive(s)
      /\ UNCHANGED <<sessions, runs, ended>>
  BY DEF Prepare
<1> QED BY <1>1, <1>3, <1>4, BindSound

LEMMA SummariseSound ==
  ASSUME Inv, Inv', History, NEW t \in Turns, NEW s \in DOMAIN sessions, Summarise(t, s)
  PROVE  History'
<1> DEFINE c == sessions[s]
           x == [turns[t] EXCEPT !.phase = "summarising", !.session = s,
                                 !.prepared = Compacted(c.messages)]
<1>1. /\ turns[t].phase = "idle" /\ turns' = [turns EXCEPT ![t] = x]
      /\ UNCHANGED <<sessions, runs, ended>> /\ turns[t] \in CleanTurns
  BY DEF Summarise, Inv, TurnsTyped
<1>2. /\ x.phase = "summarising" /\ x.session = s /\ x.result = turns[t].result
      /\ Covered(x.prepared) = Covered(c.messages)
  BY <1>1, CompactedCovers DEF CleanTurns, TurnsType
<1>3. x.result = NoResult /\ ToSet(x.result.resolved) = {}
  BY <1>1, <1>2 DEF History, NoneYet, NoResult, ToSet
<1>4. c.from = 0 => Covered(c.messages) \subseteq ToSet(Own(s))
  BY DEF History, SessionsSound, SessionSound
<1>5. TurnSound(x, c, Own(s), Kept(s), Near(s))
  <2> HIDE DEF x
  <2> QED BY <1>2, <1>3, <1>4 DEF TurnSound
<1> HIDE DEF x
<1>6. turns[t].phase # "over" /\ x.phase \notin {"over", "running"}
  BY <1>1, <1>2
<1> QED BY <1>1, <1>2, <1>3, <1>5, <1>6, OneTurn

\* A turn that comes to its end without anything being archived.
LEMMA OverSound ==
  ASSUME Inv, Inv', History, NEW t \in Turns, NEW phase, NEW r, turns[t].phase # "over",
         phase \notin Going, phase # "over" => r = NoResult, r.resolved = <<>>,
         Over(t, phase, r), UNCHANGED <<sessions, runs, ended>>
  PROVE  History'
<1> DEFINE x == [Idle EXCEPT !.phase = phase, !.session = turns[t].session, !.result = r]
<1>1. turns' = [turns EXCEPT ![t] = x]
  BY DEF Over
<1>2. x.phase = phase /\ x.result = r
  BY DEF Idle
<1> HIDE DEF x
<1>3. \A c, own, kept, near : TurnSound(x, c, own, kept, near)
  BY <1>2, QuietSound
<1> QED BY <1>1, <1>2, <1>3, OneTurn DEF Going

LEMMA SummarisedSound ==
  ASSUME Inv, Inv', History, NEW t \in Turns, Summarised(t)
  PROVE  History'
<1> DEFINE s == turns[t].session
<1>1. turns[t].phase = "summarising" /\ UNCHANGED <<sessions, runs, ended>>
  BY DEF Summarised
<1>2. s \in DOMAIN sessions
  BY <1>1 DEF Inv, SessionsTyped, TurnsTyped, TurnsBound, CleanTurns, TurnsType, Going
<1>3. CASE Alive(s)
  <2>1. Bind(t, s, turns[t].prepared)
    BY <1>3 DEF Summarised
  <2>2. sessions[s].from = 0 => Covered(turns[t].prepared) \subseteq ToSet(Own(s))
    BY <1>1, <1>2 DEF History, TurnsSound, TurnSoundIn, TurnSound, Going
  <2> QED BY <1>1, <1>2, <1>3, <2>1, <2>2, BindSound
<1>4. CASE ~Alive(s)
  <2>1. Over(t, "refused", NoResult)
    BY <1>4 DEF Summarised
  <2>2. "refused" \notin Going /\ NoResult.resolved = <<>>
    BY DEF Going, NoResult
  <2> QED BY <1>1, <2>1, <2>2, OverSound
<1> QED BY <1>3, <1>4

LEMMA StartSound ==
  ASSUME Inv, Inv', History, NEW t \in Turns, Start(t)
  PROVE  History'
<1> DEFINE x == [turns[t] EXCEPT !.phase = "running"]
<1>1. /\ turns[t].phase = "bound" /\ turns' = [turns EXCEPT ![t] = x]
      /\ runs' = Append(runs, t) /\ UNCHANGED <<sessions, ended>> /\ turns[t] \in CleanTurns
  BY DEF Start, Inv, TurnsTyped
<1>2. /\ x.phase = "running" /\ x.session = turns[t].session /\ x.result = turns[t].result
      /\ x.prepared = turns[t].prepared /\ x.context = turns[t].context
  BY <1>1 DEF CleanTurns, TurnsType
<1> HIDE DEF x
<1>3. x.result = NoResult
  BY <1>1, <1>2 DEF History, NoneYet
<1>4. ASSUME NEW s \in DOMAIN sessions, x.session = s
      PROVE  TurnSound(x, sessions[s], Own(s), Kept(s), Near(s))
  <2>1. TurnSound(turns[t], sessions[s], Own(s), Kept(s), Near(s))
    BY <1>2, <1>4 DEF History, TurnsSound, TurnSoundIn
  <2> QED BY <1>1, <1>2, <2>1 DEF TurnSound, Going
<1>5. ToSet(runs') = ToSet(runs) \union {t}
  BY <1>1, AppendSet DEF Inv, HistoryTyped
<1> QED BY <1>1, <1>2, <1>3, <1>4, <1>5, OneTurn

LEMMA DropSound ==
  ASSUME Inv, Inv', History, NEW t \in Turns, NEW r, Drop(t, r)
  PROVE  History'
<1>1. /\ turns[t].phase = "running" /\ r.resolved = <<>> /\ Over(t, "over", r)
      /\ UNCHANGED <<sessions, runs, ended>>
  BY DEF Drop, NoResult
<1> QED BY <1>1, OverSound DEF Going

LEMMA EndSound ==
  ASSUME Inv, Inv', History, NEW s \in DOMAIN sessions, End(s)
  PROVE  History'
<1>1. /\ sessions' = [sessions EXCEPT ![s] = Gone(sessions[s])]
      /\ UNCHANGED <<turns, runs, ended>>
  BY DEF End
<1>2. /\ DOMAIN sessions' = DOMAIN sessions
      /\ \A i \in DOMAIN sessions : sessions'[i] = IF i = s THEN Gone(sessions[i])
                                                   ELSE sessions[i]
  BY <1>1 DEF Inv, SessionsTyped
<1>3. \A c : Gone(c).from = c.from /\ Gone(c).alive = FALSE
  BY DEF Gone, Fresh
<1>4. \A i \in DOMAIN sessions : sessions'[i].from = sessions[i].from
  BY <1>2, <1>3
<1>5. \A i \in DOMAIN sessions : Near(i)' = Near(i)
  BY <1>4, NearKept
<1>6. \A i : Own(i)' = Own(i) /\ Kept(i)' = Kept(i)
  BY <1>1, ArchiveStays DEF History
<1>7. SessionsSound'
  BY <1>2, <1>5, <1>6, GoneSound DEF History, SessionsSound
<1>8. TurnsSound'
  <2> SUFFICES ASSUME NEW t \in Turns, NEW i \in DOMAIN sessions, turns[t].session = i
               PROVE  TurnSound(turns[t], sessions'[i], Own(i), Kept(i), Near(i))
    BY <1>1, <1>2, <1>5, <1>6 DEF TurnsSound, TurnSoundIn
  <2>1. TurnSound(turns[t], sessions[i], Own(i), Kept(i), Near(i))
    BY DEF History, TurnsSound, TurnSoundIn
  <2>2. Grown(sessions[i], sessions'[i], Own(i), Own(i), Kept(i), Kept(i))
    BY <1>2, <1>3 DEF Grown
  <2> QED BY <2>1, <2>2, TurnCarried
<1>9. NoneYet' /\ Logged'
  BY <1>1 DEF History, NoneYet, Logged
<1> QED BY <1>7, <1>8, <1>9 DEF History

LEMMA RestartSound ==
  ASSUME Inv, Inv', History, Restart
  PROVE  History'
<1>1. /\ sessions' = [s \in DOMAIN sessions |-> Gone(sessions[s])]
      /\ runs' = Without(runs, {t \in Turns : turns[t].phase # "over"})
      /\ UNCHANGED ended
  BY DEF Restart
<1>2. /\ DOMAIN sessions' = DOMAIN sessions
      /\ \A i \in DOMAIN sessions : sessions'[i] = Gone(sessions[i])
  BY <1>1
<1>3. \A c : Gone(c).from = c.from /\ Gone(c).alive = FALSE
  BY DEF Gone, Fresh
<1>4. \A i \in DOMAIN sessions : Near(i)' = Near(i)
  BY <1>2, <1>3, NearKept
<1>5. ASSUME NEW t \in Turns
      PROVE  /\ turns[t].phase \in {"idle", "over"} => turns'[t] = turns[t]
             /\ turns[t].phase \notin {"idle", "over"} =>
                  /\ turns'[t].phase = "lost" /\ turns'[t].session = turns[t].session
                  /\ turns'[t].result = NoResult
  BY DEF Restart, Idle
<1>6. \A i : Own(i)' = Own(i) /\ Kept(i)' = Kept(i)
  BY <1>1, <1>5, ArchiveStays DEF History
<1>7. SessionsSound'
  BY <1>2, <1>4, <1>6, GoneSound DEF SessionsSound
<1>8. TurnsSound'
  <2> SUFFICES ASSUME NEW t \in Turns, NEW i \in DOMAIN sessions, turns'[t].session = i
               PROVE  TurnSound(turns'[t], sessions'[i], Own(i), Kept(i), Near(i))
    BY <1>2, <1>4, <1>6 DEF TurnsSound, TurnSoundIn
  <2>1. CASE turns[t].phase \in {"idle", "over"}
    <3>1. turns'[t] = turns[t]
      BY <1>5, <2>1
    <3>2. TurnSound(turns[t], sessions[i], Own(i), Kept(i), Near(i))
      BY <3>1 DEF History, TurnsSound, TurnSoundIn
    <3>3. Grown(sessions[i], sessions'[i], Own(i), Own(i), Kept(i), Kept(i))
      BY <1>2, <1>3 DEF Grown
    <3> QED BY <3>1, <3>2, <3>3, TurnCarried
  <2>2. CASE turns[t].phase \notin {"idle", "over"}
    <3>1. turns'[t].phase \notin Going /\ turns'[t].result.resolved = <<>>
      BY <1>5, <2>2 DEF Going, NoResult
    <3> QED BY <3>1, QuietSound
  <2> QED BY <2>1, <2>2
<1>9. NoneYet'
  BY <1>5 DEF History, NoneYet
<1>10. Logged'
  <2> DEFINE S == {t \in Turns : turns[t].phase # "over"}
  <2>1. ASSUME NEW t \in ToSet(ended)
        PROVE  t \in Turns /\ turns[t].phase = "over" /\ t \in ToSet(runs) /\ t \notin S
    BY DEF History, Logged, Inv, HistoryTyped, ToSet
  <2>2. runs' = Without(runs, S) /\ runs \in Seq(Turns)
    BY <1>1 DEF Inv, HistoryTyped
  <2> HIDE DEF S
  <2>3. ToSet(runs') = ToSet(runs) \ S
    BY <2>2, WithoutSet
  <2>4. \A t \in ToSet(ended') : turns'[t].phase = "over" /\ t \in ToSet(runs')
    BY <1>1, <1>5, <2>1, <2>3
  <2>5. \A t \in Turns : turns'[t].phase # "running"
    BY <1>5
  <2> QED BY <2>4, <2>5 DEF Logged
<1> QED BY <1>7, <1>8, <1>9, <1>10 DEF History

LEMMA NoElements ==
  ASSUME NEW T, NEW q \in Seq(T), ToSet(q) = {}
  PROVE  q = <<>>
<1>1. \A k \in 1 .. Len(q) : q[k] \in ToSet(q)
  BY DEF ToSet
<1>2. Len(q) = 0
  BY <1>1
<1> QED BY <1>2

LEMMA OwnFacts ==
  ASSUME Inv, NEW s
  PROVE  /\ Own(s) \in Seq(Turns)
         /\ ToSet(Own(s)) = {t \in ToSet(ended) : turns[t].session = s}
         /\ \A t \in ToSet(ended) : t \in Turns
         /\ Kept(s) \in Seq(Papers)
         /\ ToSet(Kept(s)) = UNION {ToSet(turns[t].result.sources) : t \in ToSet(Own(s))}
<1>1. turns \in [Turns -> CleanTurns] /\ ended \in Seq(Turns)
  BY DEF Inv, TurnsTyped, HistoryTyped
<1>2. \A t \in ToSet(ended) : t \in Turns
  BY <1>1 DEF ToSet
<1>3. Own(s) \in Seq(Turns) /\ ToSet(Own(s)) = {t \in ToSet(ended) : turns[t].session = s}
  <2>1. Own(s) \in Seq(Turns) /\ ToSet(Own(s)) = TurnsIn(turns, ended, s)
    BY <1>1, SessionRunsFacts DEF Own
  <2> QED BY <2>1 DEF TurnsIn
<1>4. /\ Kept(s) \in Seq(Papers)
      /\ ToSet(Kept(s)) = UNION {ToSet(turns[t].result.sources) : t \in ToSet(Own(s))}
  BY <1>1, ArchiveFacts DEF Kept, Own
<1> QED BY <1>2, <1>3, <1>4

\* A session more: no turn is one of it yet.
LEMMA OpenSound ==
  ASSUME Inv, Inv', History, NEW c, Open(c), UNCHANGED <<turns, runs, ended>>,
         c.from \in 0 .. Len(sessions), BatchKnown(c),
         c.from = 0 => c.papers = <<>> /\ Covered(c.messages) = {} /\ c.mentioned = <<>>,
         c.from # 0 /\ sessions[c.from].from = 0
           => ToSet(c.mentioned) \subseteq ToSet(c.papers)
  PROVE  History'
<1> DEFINE n == Len(sessions) + 1
<1>1. /\ DOMAIN sessions = 1 .. Len(sessions) /\ Len(sessions) \in Nat
      /\ DOMAIN sessions' = 1 .. n /\ sessions'[n] = c
      /\ \A s \in DOMAIN sessions : sessions'[s] = sessions[s]
  BY DEF Open, Inv, SessionsTyped
<1>2. \A s \in DOMAIN sessions' : s \in DOMAIN sessions \/ s = n
  BY <1>1
<1>3. \A s \in DOMAIN sessions : Near(s)' = Near(s)
  BY <1>1, NearKept
<1>4. \A s : Own(s)' = Own(s) /\ Kept(s)' = Kept(s)
  BY ArchiveStays DEF History
<1>5. \A t \in Turns : turns[t].session # n
  <2>1. \A t \in Turns : turns[t].session <= Len(sessions) /\ turns[t].session \in Nat
    BY DEF Inv, TurnsBound, TurnsTyped, CleanTurns, TurnsType
  <2> QED BY <1>1, <2>1
<1>6. ASSUME NEW s, s = n PROVE ToSet(Own(s)) = {} /\ Kept(s) = <<>>
  <2>1. /\ ToSet(Own(s)) = {t \in ToSet(ended) : turns[t].session = s}
        /\ \A t \in ToSet(ended) : t \in Turns
        /\ Kept(s) \in Seq(Papers)
        /\ ToSet(Kept(s)) = UNION {ToSet(turns[t].result.sources) : t \in ToSet(Own(s))}
    BY OwnFacts
  <2> HIDE DEF n
  <2>2. ToSet(Own(s)) = {}
    BY <1>5, <1>6, <2>1
  <2>3. ToSet(Kept(s)) = {}
    BY <2>1, <2>2
  <2>4. Kept(s) = <<>>
    BY <2>1, <2>3, NoElements
  <2> QED BY <2>2, <2>4
<1>7. ASSUME NEW s \in DOMAIN sessions', s = n
      PROVE  SessionSound(sessions'[s], Own(s), Kept(s), Near(s)')
  <2>1. c.from # 0 => sessions'[c.from] = sessions[c.from]
    BY <1>1
  <2>2. sessions'[s] = c
    BY <1>1, <1>7
  <2>3. Near(s)' <=> c.from = 0 \/ sessions'[c.from].from = 0
    BY <2>2 DEF Near
  <2>4. ToSet(<<>>) = {}
    BY DEF ToSet
  <2>5. Near(s)' => ToSet(c.mentioned) \subseteq ToSet(c.papers)
    BY <2>1, <2>3, <2>4
  <2>6. ToSet(Own(s)) = {} /\ Kept(s) = <<>>
    BY <1>6, <1>7
  <2> QED BY <2>2, <2>4, <2>5, <2>6 DEF SessionSound
<1> HIDE DEF n
<1>8. SessionsSound'
  <2> SUFFICES ASSUME NEW s \in DOMAIN sessions'
               PROVE  SessionSound(sessions'[s], Own(s), Kept(s), Near(s)')
    BY <1>4 DEF SessionsSound
  <2>1. CASE s = n
    BY <1>7, <2>1
  <2>2. CASE s \in DOMAIN sessions
    BY <1>1, <1>3, <2>2 DEF History, SessionsSound
  <2> QED BY <1>2, <2>1, <2>2
<1>9. TurnsSound'
  <2> SUFFICES ASSUME NEW t \in Turns, NEW s \in DOMAIN sessions', turns[t].session = s
               PROVE  TurnSound(turns[t], sessions'[s], Own(s), Kept(s), Near(s)')
    BY <1>4 DEF TurnsSound, TurnSoundIn
  <2>1. s \in DOMAIN sessions
    BY <1>2, <1>5
  <2> QED BY <1>1, <1>3, <2>1 DEF History, TurnsSound, TurnSoundIn
<1>10. NoneYet' /\ Logged'
  BY DEF History, NoneYet, Logged
<1> QED BY <1>8, <1>9, <1>10 DEF History

LEMMA CreateSound ==
  ASSUME Inv, Inv', History, Create
  PROVE  History'
<1> DEFINE c == Fresh(0)
<1>1. /\ c.from = 0 /\ c.papers = <<>> /\ c.batch = <<>> /\ c.mentioned = <<>>
      /\ c.messages = NoMessages
  BY DEF Fresh
<1>2. ToSet(<<>>) = {}
  BY DEF ToSet
<1>3. Covered(NoMessages) = {}
  BY <1>2 DEF NoMessages, Covered
<1>4. Open(c) /\ UNCHANGED <<turns, runs, ended>>
  BY DEF Create
<1>5. 0 \in 0 .. Len(sessions)
  BY DEF Inv, SessionsTyped
<1> HIDE DEF c
<1>6. BatchKnown(c)
  BY <1>1, <1>2 DEF BatchKnown
<1>7. c.from \in 0 .. Len(sessions) /\ Covered(c.messages) = {}
  BY <1>1, <1>3, <1>5
<1> QED BY <1>1, <1>4, <1>6, <1>7, OpenSound

\* The runs of a session in the history, among them those that ended.
LEMMA RunsOfFacts ==
  ASSUME Inv, History, NEW s
  PROVE  /\ RunsOf(s) \in Seq(Turns)
         /\ \A t \in ToSet(RunsOf(s)) : t \in Turns /\ turns[t].session = s
         /\ ToSet(Own(s)) = ToSet(RunsOf(s)) \intersect ToSet(ended)
<1>1. runs \in Seq(Turns) /\ ended \in Seq(Turns)
  BY DEF Inv, HistoryTyped
<1>2. RunsOf(s) = SessionRuns(turns, runs, s)
  BY DEF RunsOf, SessionRuns
<1>3. /\ SessionRuns(turns, runs, s) \in Seq(Turns)
      /\ ToSet(SessionRuns(turns, runs, s)) = {t \in ToSet(runs) : turns[t].session = s}
  <2>1. /\ SessionRuns(turns, runs, s) \in Seq(Turns)
        /\ ToSet(SessionRuns(turns, runs, s)) = TurnsIn(turns, runs, s)
    BY <1>1, SessionRunsFacts
  <2> QED BY <2>1 DEF TurnsIn
<1>4. ToSet(Own(s)) = {t \in ToSet(ended) : turns[t].session = s}
  BY OwnFacts
<1>5. \A t \in ToSet(runs) : t \in Turns
  BY <1>1 DEF ToSet
<1>6. \A t \in ToSet(ended) : t \in ToSet(runs)
  BY DEF History, Logged
<1> QED BY <1>2, <1>3, <1>4, <1>5, <1>6

LEMMA RestoreSound ==
  ASSUME Inv, Inv', History, NEW s \in DOMAIN sessions, Restore(s)
  PROVE  History'
<1> DEFINE d == Restored(s)
<1>1. Open(d) /\ UNCHANGED <<turns, runs, ended>>
  BY DEF Restore
<1>2. s \in Nat /\ s <= Len(sessions) /\ s # 0 /\ turns \in [Turns -> CleanTurns]
  BY DEF Inv, SessionsTyped, TurnsTyped
<1>3. /\ RunsOf(s) \in Seq(Turns)
      /\ \A t \in ToSet(RunsOf(s)) : t \in Turns /\ turns[t].session = s
      /\ ToSet(Own(s)) = ToSet(RunsOf(s)) \intersect ToSet(ended)
  BY RunsOfFacts
<1>4. d.from = s
  <2>1. /\ turns \in [Turns -> TurnsType]
        /\ \A t \in Turns : IsInjective(turns[t].result.sources)
                            /\ IsInjective(turns[t].result.resolved)
    BY <1>2 DEF CleanTurns, CleanResults
  <2> QED BY <1>2, <1>3, <2>1, RestoredType
<1>5. /\ d.papers = Pool(SourcesOf(turns), RunsOf(s))
      /\ ToSet(d.mentioned) = UNION {ToSet(turns[t].result.resolved) : t \in ToSet(RunsOf(s))}
      /\ BatchKnown(d)
  BY <1>2, <1>3, RestoredHistory
<1> HIDE DEF d
<1>6. ToSet(d.papers) = UNION {ToSet(turns[t].result.sources) : t \in ToSet(RunsOf(s))}
  <2>1. ToSet(d.papers) = UNION {ToSet(SourcesOf(turns)[t]) : t \in ToSet(RunsOf(s))}
    BY <1>2, <1>3, <1>5, SourcesOfType, PoolSet
  <2>2. \A t \in ToSet(RunsOf(s)) : SourcesOf(turns)[t] = turns[t].result.sources
    BY <1>3 DEF SourcesOf
  <2> QED BY <2>1, <2>2
<1>7. ToSet(Kept(s)) \subseteq ToSet(d.papers)
  <2>1. ToSet(Kept(s)) = UNION {ToSet(turns[t].result.sources) : t \in ToSet(Own(s))}
    BY OwnFacts
  <2>2. ToSet(Own(s)) \subseteq ToSet(RunsOf(s))
    BY <1>3
  <2> QED BY <1>6, <2>1, <2>2
<1>8. ASSUME sessions[s].from = 0 PROVE ToSet(d.mentioned) \subseteq ToSet(d.papers)
  <2>1. ASSUME NEW t \in ToSet(RunsOf(s))
        PROVE  ToSet(turns[t].result.resolved) \subseteq ToSet(Kept(s))
    <3>1. TurnSound(turns[t], sessions[s], Own(s), Kept(s), Near(s))
      BY <1>3 DEF History, TurnsSound, TurnSoundIn
    <3> QED BY <1>8, <3>1 DEF TurnSound
  <2> QED BY <1>5, <1>7, <2>1
<1>9. d.from \in 0 .. Len(sessions) /\ d.from # 0
  BY <1>2, <1>4
<1> QED BY <1>1, <1>4, <1>5, <1>8, <1>9, OpenSound

\* A turn ends: its session has one ended turn more, and the papers that it brought.
LEMMA ArchiveGrows ==
  ASSUME Inv, Inv', Logged, NEW t \in Turns, ended' = Append(ended, t),
         turns[t].phase # "over", \A u \in Turns : u # t => turns'[u] = turns[u], NEW i
  PROVE  IF turns'[t].session = i
         THEN /\ ToSet(Own(i)') = ToSet(Own(i)) \union {t}
              /\ Kept(i)' = Pooled(Kept(i), turns'[t].result.sources)
         ELSE Own(i)' = Own(i) /\ Kept(i)' = Kept(i)
<1>1. /\ turns \in [Turns -> CleanTurns] /\ turns' \in [Turns -> CleanTurns]
      /\ ended \in Seq(Turns)
  BY DEF Inv, TurnsTyped, HistoryTyped
<1>2. \A u \in ToSet(ended) : u \in Turns
  BY <1>1 DEF ToSet
<1>3. \A u \in ToSet(ended) : turns'[u] = turns[u]
  BY <1>2 DEF Logged
<1>4. /\ SessionRuns(turns', ended, i) = Own(i)
      /\ Archive(turns', ended, i) = Kept(i)
  BY <1>1, <1>3, SameArchive DEF Own, Kept
<1>5. /\ Own(i)' = SessionRuns(turns', Append(ended, t), i)
      /\ Kept(i)' = Archive(turns', Append(ended, t), i)
  BY DEF Own, Kept
<1>6. IF turns'[t].session = i
      THEN /\ SessionRuns(turns', Append(ended, t), i)
                = Append(SessionRuns(turns', ended, i), t)
           /\ Archive(turns', Append(ended, t), i)
                = Pooled(Archive(turns', ended, i), turns'[t].result.sources)
      ELSE /\ SessionRuns(turns', Append(ended, t), i) = SessionRuns(turns', ended, i)
           /\ Archive(turns', Append(ended, t), i) = Archive(turns', ended, i)
  BY <1>1, GrownArchive
<1>7. Own(i) \in Seq(Turns)
  BY OwnFacts
<1>8. ToSet(Append(Own(i), t)) = ToSet(Own(i)) \union {t}
  BY <1>7, AppendSet
<1> QED BY <1>4, <1>5, <1>6, <1>8

LEMMA FinishSound ==
  ASSUME Inv, Inv', History, NEW t \in Turns, NEW r \in CleanResults,
         About(r.resolved, turns[t].context), Finish(t, r)
  PROVE  History'
<1>3. PICK s \in DOMAIN sessions : s = turns[t].session
  <2>1. turns[t].phase \in Going
    BY DEF Finish, Going
  <2>2. turns[t].session \in DOMAIN sessions
    BY <2>1 DEF Inv, SessionsTyped, TurnsTyped, TurnsBound, CleanTurns, TurnsType
  <2> QED BY <2>2
<1> DEFINE c == sessions[s]
           d == Archived(c, t, r)
           x == [Idle EXCEPT !.phase = "over", !.session = s, !.result = r]
<1>1. /\ turns[t].phase = "running" /\ turns' = [turns EXCEPT ![t] = x]
      /\ ended' = Append(ended, t) /\ UNCHANGED runs
  BY <1>3 DEF Finish, Over
<1>2. x.phase = "over" /\ x.session = s /\ x.result = r
  BY DEF Idle
<1>4. /\ DOMAIN sessions' = DOMAIN sessions
      /\ \A i \in DOMAIN sessions : i # s => sessions'[i] = sessions[i]
      /\ sessions'[s] = IF c.alive THEN d ELSE c
  BY <1>3 DEF Finish, Alive, Inv, SessionsTyped
<1> HIDE DEF x
<1>5. turns'[t] = x /\ \A u \in Turns : u # t => turns'[u] = turns[u]
  BY <1>1 DEF Inv, TurnsTyped
<1>6. /\ ToSet(Own(s)') = ToSet(Own(s)) \union {t}
      /\ Kept(s)' = Pooled(Kept(s), r.sources)
  BY <1>1, <1>2, <1>5, ArchiveGrows DEF History
<1>7. \A i : i # s => Own(i)' = Own(i) /\ Kept(i)' = Kept(i)
  BY <1>1, <1>2, <1>5, ArchiveGrows DEF History
<1>8. /\ turns \in [Turns -> TurnsType] /\ c \in SessionContexts /\ DistinctPapers(c)
      /\ r \in ResultsType /\ IsInjective(r.sources) /\ IsInjective(r.resolved)
      /\ r.intent = "follow_up" => r.sources = <<>>
      /\ r.sources \in Seq(Papers) /\ c.papers \in Seq(Papers)
  <2>1. turns \in [Turns -> TurnsType]
    BY DEF Inv, TurnsTyped, CleanTurns
  <2>2. c \in CleanSessions
    BY <1>3 DEF Inv, SessionsTyped
  <2> HIDE DEF c
  <2>3. c \in SessionContexts /\ DistinctPapers(c) /\ c.papers \in Seq(Papers)
    BY <2>2 DEF CleanSessions, SessionContexts
  <2>4. /\ r \in ResultsType /\ IsInjective(r.sources) /\ IsInjective(r.resolved)
        /\ r.intent = "follow_up" => r.sources = <<>>
        /\ r.sources \in Seq(Papers)
    BY DEF CleanResults, ResultsType
  <2> QED BY <2>1, <2>3, <2>4
<1> DEFINE merged == IF c.messages = turns[t].base THEN turns[t].prepared ELSE c.messages
<1>9. /\ d.alive = c.alive /\ d.from = c.from
      /\ Covered(d.messages) = Covered(merged) \union {t}
  <2> HIDE DEF c
  <2>1. /\ d.alive = c.alive /\ d.from = c.from
        /\ merged \in Transcripts /\ d.messages = With(merged, t)
    BY <1>8, ArchivedFacts
  <2> HIDE DEF d, merged
  <2> QED BY <2>1, CoveredWith
<1>10. /\ d.papers = Pooled(c.papers, r.sources)
       /\ ToSet(d.mentioned) \subseteq
            ToSet(c.mentioned) \union ToSet(r.resolved) \union ToSet(r.sources)
       /\ BatchKnown(c) => BatchKnown(d)
  <2> HIDE DEF c
  <2> QED BY <1>8, ArchivedHistory
<1> HIDE DEF d
<1>11. ToSet(d.papers) = ToSet(c.papers) \union ToSet(r.sources)
  BY <1>8, <1>10, PooledFacts
<1>12. /\ ToSet(Own(s)) \subseteq ToSet(Own(s)')
       /\ ToSet(Kept(s)) \subseteq ToSet(Kept(s)')
  <2>1. Kept(s) \in Seq(Papers)
    BY OwnFacts
  <2> QED BY <1>6, <1>8, <2>1, PooledFacts
<1>13. \A i \in DOMAIN sessions :
         Grown(sessions[i], sessions'[i], Own(i), Own(i)', Kept(i), Kept(i)')
  <2>1. Grown(sessions[s], sessions'[s], Own(s), Own(s)', Kept(s), Kept(s)')
    BY <1>4, <1>9, <1>11, <1>12 DEF Grown
  <2>2. ASSUME NEW i \in DOMAIN sessions, i # s
        PROVE  Grown(sessions[i], sessions'[i], Own(i), Own(i)', Kept(i), Kept(i)')
    BY <1>4, <1>7, <2>2 DEF Grown
  <2>3. ASSUME NEW i \in DOMAIN sessions, i = s
        PROVE  Grown(sessions[i], sessions'[i], Own(i), Own(i)', Kept(i), Kept(i)')
    BY <2>1, <2>3 DEF Own, Kept
  <2> QED BY <2>2, <2>3
<1>14. \A i \in DOMAIN sessions : Near(i)' = Near(i)
  BY <1>13, NearKept DEF Grown
<1>15. /\ SessionSound(c, Own(s), Kept(s), Near(s))
       /\ TurnSound(turns[t], c, Own(s), Kept(s), Near(s))
  BY <1>3 DEF History, SessionsSound, TurnsSound, TurnSoundIn
<1>16. SessionSound(sessions'[s], Own(s)', Kept(s)', Near(s))
  <2>1. CASE ~c.alive
    <3>1. c.from = 0 => Covered(c.messages) \subseteq ToSet(Own(s)')
      BY <1>12, <1>15 DEF SessionSound
    <3> QED BY <1>4, <1>15, <2>1, <3>1 DEF SessionSound
  <2>2. CASE c.alive
    <3>1. sessions'[s] = d
      BY <1>4, <2>2
    <3>2. BatchKnown(d)
      BY <1>10, <1>15 DEF SessionSound
    <3>3. d.from = 0 => d.papers = Kept(s)'
      BY <1>6, <1>9, <1>10, <1>15, <2>2 DEF SessionSound
    <3>4. d.from = 0 => Covered(merged) \subseteq ToSet(Own(s))
      BY <1>1, <1>9, <1>15 DEF SessionSound, TurnSound, Going
    <3>5. d.from = 0 => Covered(d.messages) \subseteq ToSet(Own(s)')
      <4> HIDE DEF merged
      <4> QED BY <1>6, <1>9, <3>4
    <3>6. Near(s) => ToSet(d.mentioned) \subseteq ToSet(d.papers)
      <4>1. Near(s) => ToSet(r.resolved) \subseteq ToSet(c.papers)
        BY <1>1, <1>15, <2>2 DEF TurnSound, About
      <4>2. Near(s) => ToSet(c.mentioned) \subseteq ToSet(c.papers)
        BY <1>15 DEF SessionSound
      <4> QED BY <1>10, <1>11, <4>1, <4>2
    <3> QED BY <3>1, <3>2, <3>3, <3>5, <3>6 DEF SessionSound
  <2> QED BY <2>1, <2>2
<1>17. TurnSound(x, sessions'[s], Own(s)', Kept(s)', Near(s))
  <2>1. c.from = 0 => ToSet(r.resolved) \subseteq ToSet(Kept(s)')
    BY <1>1, <1>12, <1>15 DEF TurnSound, About
  <2>2. sessions'[s].from = c.from
    BY <1>4, <1>9
  <2> QED BY <1>2, <2>1, <2>2 DEF TurnSound, Going
<1> HIDE DEF c, merged
<1>18. SessionsSound'
  <2> SUFFICES ASSUME NEW i \in DOMAIN sessions
               PROVE  SessionSound(sessions'[i], Own(i)', Kept(i)', Near(i))
    BY <1>4, <1>14 DEF SessionsSound
  <2>1. CASE i = s
    BY <1>16, <2>1
  <2>2. CASE i # s
    BY <1>4, <1>7, <2>2 DEF History, SessionsSound
  <2> QED BY <2>1, <2>2
<1>19. TurnsSound'
  <2> SUFFICES ASSUME NEW u \in Turns, NEW i \in DOMAIN sessions, turns'[u].session = i
               PROVE  TurnSound(turns'[u], sessions'[i], Own(i)', Kept(i)', Near(i))
    BY <1>4, <1>14 DEF TurnsSound, TurnSoundIn
  <2>1. CASE u = t
    BY <1>2, <1>5, <1>17, <2>1
  <2>2. CASE u # t
    <3>1. turns'[u] = turns[u]
      BY <1>5, <2>2
    <3>2. TurnSound(turns[u], sessions[i], Own(i), Kept(i), Near(i))
      BY <3>1 DEF History, TurnsSound, TurnSoundIn
    <3> QED BY <1>13, <3>1, <3>2, TurnCarried
  <2> QED BY <2>1, <2>2
<1>20. NoneYet'
  BY <1>2, <1>5 DEF History, NoneYet
<1>21. Logged'
  <2>1. ToSet(ended') = ToSet(ended) \union {t} /\ \A u \in ToSet(ended) : u \in Turns
    <3>1. ended \in Seq(Turns)
      BY DEF Inv, HistoryTyped
    <3> QED BY <1>1, <3>1, AppendSet DEF ToSet
  <2>2. t \in ToSet(runs)
    BY <1>1 DEF History, Logged
  <2>3. \A u \in ToSet(ended') : turns'[u].phase = "over" /\ u \in ToSet(runs')
    BY <1>1, <1>2, <1>5, <2>1, <2>2 DEF History, Logged
  <2>4. \A u \in Turns : turns'[u].phase = "running" => u \in ToSet(runs')
    BY <1>1, <1>2, <1>5 DEF History, Logged
  <2> QED BY <2>3, <2>4 DEF Logged
<1> QED BY <1>18, <1>19, <1>20, <1>21 DEF History

LEMMA InitHistory == Init => History
<1> SUFFICES ASSUME Init PROVE History
  OBVIOUS
<1>1. sessions = <<>> /\ runs = <<>> /\ ended = <<>> /\ turns = [t \in Turns |-> Idle]
  BY DEF Init
<1>2. SessionsSound /\ TurnsSound
  BY <1>1 DEF SessionsSound, TurnsSound
<1>3. Idle.phase = "idle" /\ Idle.result = NoResult
  BY DEF Idle
<1>4. NoneYet /\ Logged
  BY <1>1, <1>3 DEF NoneYet, Logged, ToSet
<1> QED BY <1>2, <1>4 DEF History

LEMMA StepHistory == Inv /\ Inv' /\ History /\ [Next]_vars => History'
<1> SUFFICES ASSUME Inv, Inv', History, [Next]_vars PROVE History'
  OBVIOUS
<1>1. ASSUME UNCHANGED vars PROVE History'
  BY <1>1 DEF vars, History, SessionsSound, TurnsSound, TurnSoundIn, NoneYet, Logged,
     Own, Kept, Near
<1>2. ASSUME NEW t \in Turns, turns[t].phase = "running", NEW r \in Results(t),
             Finish(t, r) \/ Drop(t, r)
      PROVE  History'
  <2>1. turns \in [Turns -> TurnsType] /\ DistinctPapers(turns[t].context)
    BY DEF Inv, TurnsTyped, CleanTurns
  <2>2. r \in CleanResults
    BY <2>1, ResultsTyped DEF CleanResults
  <2>3. About(r.resolved, turns[t].context)
    BY <2>1, ResultsAbout
  <2> QED BY <1>2, <2>2, <2>3, FinishSound, DropSound
<1>3. CASE Next
  <2>1. CASE Create
    BY <2>1, CreateSound
  <2>2. CASE \E t \in Turns, s \in DOMAIN sessions : Prepare(t, s) \/ Summarise(t, s)
    BY <2>2, PrepareSound, SummariseSound
  <2>3. CASE \E t \in Turns : Summarised(t)
    BY <2>3, SummarisedSound
  <2>4. CASE \E t \in Turns : Start(t)
    BY <2>4, StartSound
  <2>5. CASE \E t \in Turns : /\ turns[t].phase = "running"
                              /\ \E r \in Results(t) : Finish(t, r) \/ Drop(t, r)
    BY <1>2, <2>5
  <2>6. CASE \E s \in DOMAIN sessions : End(s)
    BY <2>6, EndSound
  <2>7. CASE \E s \in DOMAIN sessions : Restore(s)
    BY <2>7, RestoreSound
  <2>8. CASE Restart
    BY <2>8, RestartSound
  <2>9. CASE Done /\ UNCHANGED vars
    BY <1>1, <2>9
  <2> QED BY <1>3, <2>1, <2>2, <2>3, <2>4, <2>5, <2>6, <2>7, <2>8, <2>9, Zenon DEF Next
<1> QED BY <1>1, <1>3

LEMMA HistoryAlways == Spec => []History
BY InitHistory, StepHistory, InvAlways, PTL DEF Spec

\* What a session that is restored now has, against what it had.
LEMMA RestoredNow ==
  ASSUME Inv, History, NEW s \in DOMAIN sessions, Alive(s), sessions[s].from = 0
  PROVE  /\ PapersRestorable(s, Restored(s))
         /\ Covered(sessions[s].messages) \subseteq Covered(Restored(s).messages)
<1> DEFINE c == Restored(s)
           q == RunsOf(s)
           src == SourcesOf(turns)
           dropped == {t \in ToSet(q) \ ToSet(ended) : turns[t].phase = "over"}
           extra == UNION {ToSet(turns[t].result.sources) : t \in dropped}
           S == Turns \ ToSet(ended)
<1>1. s \in Nat /\ turns \in [Turns -> CleanTurns]
  BY DEF Inv, SessionsTyped, TurnsTyped
<1>2. /\ q \in Seq(Turns) /\ \A t \in ToSet(q) : t \in Turns
      /\ ToSet(Own(s)) = ToSet(q) \intersect ToSet(ended)
  BY RunsOfFacts
<1>3. c.papers = Pool(src, q) /\ Covered(c.messages) = ToSet(q)
  BY <1>1, <1>2, RestoredHistory
<1>4. sessions[s].papers = Kept(s) /\ Covered(sessions[s].messages) \subseteq ToSet(Own(s))
  BY DEF Alive, History, SessionsSound, SessionSound
<1>5. src \in [Turns -> Seq(Papers)] /\ \A t \in Turns : src[t] = turns[t].result.sources
  BY <1>1, SourcesOfType DEF SourcesOf
<1>6. Own(s) = Without(ended, {t \in Turns : turns[t].session # s}) /\ Kept(s) = Pool(src, Own(s))
  BY DEF Own, Kept, Archive, SessionRuns
<1> HIDE DEF c, q, src
<1>7. \A t \in ToSet(q) : t \notin ToSet(ended) /\ t \notin dropped => src[t] = <<>>
  <2> SUFFICES ASSUME NEW t \in ToSet(q), t \notin ToSet(ended), t \notin dropped
               PROVE  src[t] = <<>>
    OBVIOUS
  <2>1. t \in Turns /\ turns[t].phase # "over"
    BY <1>2
  <2>2. turns[t].result = NoResult
    BY <2>1 DEF History, NoneYet
  <2> QED BY <1>5, <2>1, <2>2 DEF NoResult
<1>8. ToSet(c.papers) = UNION {ToSet(src[t]) : t \in ToSet(q)}
  BY <1>2, <1>3, <1>5, PoolSet
<1>9. ToSet(sessions[s].papers) = UNION {ToSet(src[t]) : t \in ToSet(Own(s))}
  <2>1. Own(s) \in Seq(Turns)
    BY OwnFacts
  <2> QED BY <1>4, <1>5, <1>6, <2>1, PoolSet
<1>10. extra = UNION {ToSet(src[t]) : t \in dropped}
  BY <1>2, <1>5
<1>11. ToSet(c.papers) = ToSet(sessions[s].papers) \union extra
  <2>1. \A t : t \in ToSet(q) <=> \/ t \in ToSet(Own(s))
                                  \/ t \in dropped
                                  \/ t \in ToSet(q) /\ t \notin ToSet(ended) /\ t \notin dropped
    BY <1>2
  <2>2. ToSet(<<>>) = {}
    BY DEF ToSet
  <2>3. dropped \subseteq ToSet(q)
    OBVIOUS
  <2> HIDE DEF dropped, extra
  <2>4. ToSet(c.papers) \subseteq ToSet(sessions[s].papers) \union extra
    BY <1>7, <1>8, <1>9, <1>10, <2>1, <2>2
  <2>5. ToSet(sessions[s].papers) \union extra \subseteq ToSet(c.papers)
    BY <1>2, <1>8, <1>9, <1>10, <2>3
  <2> QED BY <2>4, <2>5
<1>12. ASSUME extra = {}, Without(q, S) = Own(s) PROVE c.papers = sessions[s].papers
  <2>1. ASSUME NEW t \in ToSet(q), t \in S PROVE src[t] = <<>>
    <3>1. CASE t \in dropped
      <4>1. ToSet(src[t]) = {} /\ src[t] \in Seq(Papers)
        BY <1>2, <1>5, <1>10, <1>12, <3>1
      <4> QED BY <4>1, NoElements
    <3>2. CASE t \notin dropped
      BY <1>7, <2>1, <3>2
    <3> QED BY <3>1, <3>2
  <2> HIDE DEF S
  <2>2. Pool(src, Without(q, S)) = Pool(src, q)
    BY <1>2, <1>5, <2>1, PoolWithout
  <2> QED BY <1>3, <1>4, <1>6, <1>12, <2>2
<1>13. PapersRestorable(s, c)
  BY <1>6, <1>11, <1>12 DEF PapersRestorable, q
<1>14. Covered(sessions[s].messages) \subseteq Covered(c.messages)
  BY <1>2, <1>3, <1>4
<1> QED BY <1>13, <1>14 DEF c

\* Restoring a session from the run history rebuilds what archiving had put into it,
\* its papers in their order and every turn of its transcript: after any number of
\* turns, prepared and archived in any order, of runs that were dropped, of sessions
\* that ended and of restarts.  The paper that a session takes for "this paper" is
\* one of its papers, in the restored one too.
THEOREM HistoryRebuilds == Spec => []RestorableFromHistory
<1>1. Inv /\ History => RestorableFromHistory
  <2> SUFFICES ASSUME Inv, History PROVE RestorableFromHistory
    OBVIOUS
  <2>1. ASSUME NEW s \in DOMAIN sessions,
               sessions[s].from = 0 \/ sessions[sessions[s].from].from = 0
        PROVE  ActivePaperKnown(s)
    <3>1. sessions[s].mentioned \in Seq(Papers)
      BY DEF Inv, SessionsTyped, CleanSessions, SessionContexts
    <3>2. ToSet(sessions[s].mentioned) \subseteq ToSet(sessions[s].papers)
      BY <2>1 DEF History, SessionsSound, SessionSound, Near
    <3> QED BY <3>1, <3>2, ActiveAbout DEF ActivePaperKnown
  <2> QED BY <2>1, RestoredNow DEF RestorableFromHistory
<1> QED BY <1>1, InvAlways, HistoryAlways, PTL
=============================================================================
