------------------------------ MODULE RunProofs ------------------------------
(***************************************************************************)
(* Proofs about a run, for any set of runs, sessions, papers and requests:   *)
(* how it starts, is stopped and ends (RunLifecycle), and what becomes of    *)
(* the papers in its stages (ReportStage).                                   *)
(***************************************************************************)
EXTENDS RunLifecycle, ReportStage, TLAPS, FiniteSetTheorems

\* What ties the flags of a run together: before its task is over nothing has
\* been published or stored for it, and its task is over exactly when its
\* stream is finished.
RunInv(r) ==
  /\ ~finished[r] => /\ ended[r] = <<>>
                     /\ announced[r] = "none"
                     /\ sql[r] = "none"
                     /\ ~warned[r]
                     /\ task[r] # "done"
  /\ finished[r] => /\ ended[r] # <<>>
                    /\ task[r] \in {"done", "lost"}
                    /\ up => mem[r] \in Terminal /\ task[r] = "done"
  /\ mustCancel[r] => task[r] = "running"
  /\ budget[r] => task[r] = "running"
  /\ registered[r] => task[r] \in {"running", "done"}
  /\ ended[r] # <<>> /\ ended[r][1] = "cancelled" =>
       announced[r] = "none" /\ sql[r] \in {"cancelled", "failed", "none"}
  /\ announced[r] # "none" /\ ~warned[r] /\ up => sql[r] = announced[r]

IInv == TypeOK /\ \A r \in Runs : RunInv(r)

\* The terminal events of a run that settles, seen as sequences.
LEMMA OneEvent ==
  ASSUME NEW e \in {"run_finished", "cancelled", "error"}
  PROVE  /\ Append(<<>>, e) = <<e>>
         /\ <<>> \o <<e, "error">> = <<e, "error">>
         /\ <<e>> # <<>> /\ <<e, "error">> # <<>>
         /\ <<e>>[1] = e /\ <<e, "error">>[1] = e
         /\ <<e>> \in Endings /\ <<e, "error">> \in Endings
  BY DEF Endings

LEMMA InitIInv == Init => IInv
  BY DEF Init, IInv, RunInv, TypeOK, Backends, Statuses, Terminal, Verdicts

\* Settling once or twice gives a run one of the endings and a status.
LEMMA SettleStep ==
  ASSUME IInv, NEW r \in Runs, task[r] = "running",
         NEW status \in Terminal,
         NEW event \in {"run_finished", "cancelled", "error"},
         event = "run_finished" => status \in Verdicts,
         event = "cancelled" => status = "cancelled",
         TaskDone(r),
         archived' \in [Runs -> BOOLEAN],
         \/ \E saved \in BOOLEAN : Settle(r, status, event, saved)
         \/ \E saved, savedAgain \in BOOLEAN : SettleTwice(r, status, event, saved, savedAgain)
  PROVE  IInv'
<1>1. ~finished[r] /\ ended[r] = <<>> /\ announced[r] = "none" /\ sql[r] = "none" /\ ~warned[r]
  BY DEF IInv, RunInv
<1>2. CASE \E saved \in BOOLEAN : Settle(r, status, event, saved)
  <2> PICK saved \in BOOLEAN : Settle(r, status, event, saved)
    BY <1>2
  <2>1. /\ mem' = [mem EXCEPT ![r] = status]
        /\ sql' = [sql EXCEPT ![r] = IF saved THEN status ELSE "none"]
        /\ warned' = [warned EXCEPT ![r] = ~saved]
        /\ ended' = [ended EXCEPT ![r] = <<event>>]
        /\ announced' = [announced EXCEPT ![r] = IF event = "run_finished" THEN status ELSE "none"]
    BY <1>1, OneEvent DEF Settle, Snapshot, IInv, TypeOK
  <2>2. TypeOK'
    BY <2>1, OneEvent DEF IInv, TypeOK, TaskDone, originVars, Statuses, Terminal, Verdicts
  <2>3. ASSUME NEW x \in Runs PROVE RunInv(x)'
    <3>1. CASE x = r
      BY <1>1, <2>1, <3>1, OneEvent DEF IInv, TypeOK, RunInv, TaskDone, originVars, Terminal, Verdicts
    <3>2. CASE x # r
      BY <1>1, <2>1, <3>2 DEF IInv, TypeOK, RunInv, TaskDone, originVars
    <3> QED BY <3>1, <3>2
  <2> QED BY <2>2, <2>3 DEF IInv
<1>3. CASE \E saved, savedAgain \in BOOLEAN : SettleTwice(r, status, event, saved, savedAgain)
  <2> PICK saved \in BOOLEAN, savedAgain \in BOOLEAN :
             SettleTwice(r, status, event, saved, savedAgain)
    BY <1>3
  <2>1. /\ mem' = [mem EXCEPT ![r] = "failed"]
        /\ sql' = [sql EXCEPT ![r] = IF saved THEN status
                                     ELSE IF savedAgain THEN "failed" ELSE "none"]
        /\ warned' = [warned EXCEPT ![r] = ~saved \/ ~savedAgain]
        /\ ended' = [ended EXCEPT ![r] = <<event, "error">>]
        /\ announced' = [announced EXCEPT ![r] = IF event = "run_finished" THEN status ELSE "none"]
    BY <1>1, OneEvent DEF SettleTwice, Snapshot, IInv, TypeOK, Terminal, Verdicts
  <2>2. TypeOK'
    BY <2>1, OneEvent DEF IInv, TypeOK, TaskDone, originVars, Statuses, Terminal, Verdicts
  <2>3. ASSUME NEW x \in Runs PROVE RunInv(x)'
    <3>1. CASE x = r
      BY <1>1, <2>1, <3>1, OneEvent DEF IInv, TypeOK, RunInv, TaskDone, originVars, Terminal, Verdicts
    <3>2. CASE x # r
      BY <1>1, <2>1, <3>2 DEF IInv, TypeOK, RunInv, TaskDone, originVars
    <3> QED BY <3>1, <3>2
  <2> QED BY <2>2, <2>3 DEF IInv
<1> QED BY <1>2, <1>3

\* Every way a task can end is a settling step.
LEMMA TaskEndsStep ==
  ASSUME IInv, NEW r \in Runs, TaskEnds(r)
  PROVE  IInv'
<1>1. ASSUME NEW status \in Terminal, NEW event \in {"run_finished", "cancelled", "error"},
             SettleAndArchive(r, status, event)
      PROVE  /\ archived' \in [Runs -> BOOLEAN]
             /\ \/ \E saved \in BOOLEAN : Settle(r, status, event, saved)
                \/ \E saved, savedAgain \in BOOLEAN :
                     SettleTwice(r, status, event, saved, savedAgain)
  BY <1>1 DEF SettleAndArchive, IInv, TypeOK
<1>2. CASE GraphFinishes(r)
  <2>1. PICK status \in Verdicts : SettleAndArchive(r, status, "run_finished")
    BY <1>2 DEF GraphFinishes
  <2> QED BY <1>1, <1>2, <2>1, SettleStep DEF GraphFinishes, Terminal
<1>3. CASE GraphFails(r)
  BY <1>1, <1>3, SettleStep DEF GraphFails, Terminal, Verdicts
<1>4. CASE FinalizerFails(r)
  BY <1>4, SettleStep DEF FinalizerFails, Terminal, Verdicts, IInv, TypeOK
<1>5. CASE GraphCancelled(r)
  BY <1>1, <1>5, SettleStep DEF GraphCancelled, Terminal
<1>6. CASE LoopFinishes(r)
  <2>1. PICK status \in {"completed", "failed"} : SettleAndArchive(r, status, "run_finished")
    BY <1>6 DEF LoopFinishes
  <2> QED BY <1>1, <1>6, <2>1, SettleStep DEF LoopFinishes, Terminal, Verdicts
<1>7. CASE LoopCancelled(r)
  BY <1>7, SettleStep DEF LoopCancelled, Terminal, IInv, TypeOK
<1> QED BY <1>2, <1>3, <1>4, <1>5, <1>6, <1>7 DEF TaskEnds

\* The handlers and the first steps of the task.
LEMMA HandlerStep ==
  ASSUME IInv, NEW r \in Runs,
         \/ \E b \in Backends : Post(r, b)
         \/ Begin(r) \/ RegisterBudget(r) \/ Cancel(r) \/ Unregister(r)
  PROVE  IInv'
<1> USE DEF IInv, TypeOK, RunInv, originVars, streamVars, storeVars, Statuses
<1>1. CASE \E b \in Backends : Post(r, b)
  BY <1>1 DEF Post
<1>2. CASE Begin(r)
  BY <1>2 DEF Begin
<1>3. CASE RegisterBudget(r)
  BY <1>3 DEF RegisterBudget
<1>4. CASE Cancel(r)
  BY <1>4 DEF Cancel, Terminal
<1>5. CASE Unregister(r)
  BY <1>5 DEF Unregister
<1> QED BY <1>1, <1>2, <1>3, <1>4, <1>5

LEMMA NextIInv == IInv /\ [Next]_vars => IInv'
<1> SUFFICES ASSUME IInv, [Next]_vars PROVE IInv'
  OBVIOUS
<1>1. ASSUME NEW r \in Runs, TaskEnds(r) PROVE IInv'
  BY <1>1, TaskEndsStep
<1>2. ASSUME NEW r \in Runs,
             \/ \E b \in Backends : Post(r, b)
             \/ Begin(r) \/ RegisterBudget(r) \/ Cancel(r) \/ Unregister(r)
      PROVE  IInv'
  BY <1>2, HandlerStep
<1>3. ASSUME NEW s \in Sessions, SessionEnds(s) PROVE IInv'
  BY <1>3 DEF SessionEnds, IInv, TypeOK, RunInv, originVars, storeVars, streamVars, taskVars
<1>4. CASE Restart
  BY <1>4 DEF Restart, IInv, TypeOK, RunInv, originVars, streamVars, Statuses
<1>5. CASE UNCHANGED vars
  BY <1>5 DEF vars, IInv, TypeOK, RunInv, originVars, storeVars, streamVars, taskVars
<1> QED BY <1>1, <1>2, <1>3, <1>4, <1>5 DEF Next

THEOREM InductiveInvariant == Spec => []IInv
<1>1. Init => IInv BY InitIInv
<1>2. IInv /\ [Next]_vars => IInv' BY NextIInv
<1> QED BY <1>1, <1>2, PTL DEF Spec

\* Every variable keeps its type, for any number of runs and sessions.
THEOREM TypeCorrect == Spec => []TypeOK
<1>1. IInv => TypeOK BY DEF IInv
<1> QED BY <1>1, InductiveInvariant, PTL

\* A finished stream has been given a terminal event, and the record behind it
\* shows a terminal status.
THEOREM FinishedRunsAreSettled == Spec => []FinishedRunsSettled
<1>1. IInv => FinishedRunsSettled BY DEF IInv, RunInv, FinishedRunsSettled
<1> QED BY <1>1, InductiveInvariant, PTL

\* A task that is to be cancelled ends by one of the two handlers of the
\* CancelledError, which leave the run ended as cancelled.
LEMMA CancelledTaskEnds ==
  ASSUME IInv, NEW r \in Runs, mustCancel[r], TaskEnds(r)
  PROVE  EndedCancelled(r)'
<1>1. /\ ended[r] = <<>> /\ announced[r] = "none" /\ sql[r] = "none"
      /\ ended \in [Runs -> Endings \union {<<>>}]
      /\ announced \in [Runs -> Verdicts \union {"none"}]
      /\ sql \in [Runs -> Terminal \union {"none"}]
  BY DEF IInv, TypeOK, RunInv
<1>2. ASSUME NEW saved \in BOOLEAN, Settle(r, "cancelled", "cancelled", saved)
      PROVE  EndedCancelled(r)'
  <2>1. /\ ended' = [ended EXCEPT ![r] = <<"cancelled">>]
        /\ announced' = [announced EXCEPT ![r] = announced[r]]
        /\ sql' = [sql EXCEPT ![r] = IF saved THEN "cancelled" ELSE "none"]
    BY <1>1, <1>2, OneEvent DEF Settle, Snapshot
  <2> QED BY <1>1, <2>1, OneEvent DEF EndedCancelled
<1>3. ASSUME NEW saved \in BOOLEAN, NEW savedAgain \in BOOLEAN,
             SettleTwice(r, "cancelled", "cancelled", saved, savedAgain)
      PROVE  EndedCancelled(r)'
  <2>1. /\ ended' = [ended EXCEPT ![r] = <<"cancelled", "error">>]
        /\ announced' = [announced EXCEPT ![r] = announced[r]]
        /\ sql' = [sql EXCEPT ![r] = IF saved THEN "cancelled"
                                     ELSE IF savedAgain THEN "failed" ELSE "none"]
    BY <1>1, <1>3, OneEvent DEF SettleTwice, Snapshot
  <2> QED BY <1>1, <2>1, OneEvent DEF EndedCancelled
<1>4. GraphCancelled(r) \/ LoopCancelled(r)
  BY DEF TaskEnds, GraphFinishes, GraphFails, FinalizerFails, LoopFinishes
<1> QED BY <1>2, <1>3, <1>4 DEF GraphCancelled, LoopCancelled, SettleAndArchive

\* An accepted cancel request decides the run.
THEOREM CancelDecides == Spec => CancelPrevails
<1> DEFINE Decides(r) ==
      (mustCancel[r] /\ finished'[r]) \/ EndedCancelled(r) => EndedCancelled(r)'
<1>1. IInv /\ [Next]_vars => [\A r \in Runs : Decides(r)]_vars
  <2> SUFFICES ASSUME IInv, Next, NEW r \in Runs,
                      (mustCancel[r] /\ finished'[r]) \/ EndedCancelled(r)
               PROVE  EndedCancelled(r)'
    OBVIOUS
  <2>1. /\ mustCancel[r] => ~finished[r] /\ task[r] = "running"
        /\ EndedCancelled(r) => task[r] # "running" /\ ~mustCancel[r]
    BY DEF IInv, RunInv, TypeOK, EndedCancelled
  <2>2. ASSUME NEW x \in Runs, TaskEnds(x) PROVE EndedCancelled(r)'
    <3>1. task[x] = "running"
      BY <2>2 DEF TaskEnds, GraphFinishes, GraphFails, FinalizerFails, GraphCancelled,
                  LoopFinishes, LoopCancelled
    <3>2. CASE x = r
      BY <2>1, <2>2, <3>1, <3>2, CancelledTaskEnds
    <3>3. CASE x # r
      <4>1. /\ ended'[r] = ended[r] /\ announced'[r] = announced[r]
            /\ sql'[r] = sql[r] /\ finished'[r] = finished[r]
        BY <2>2, <3>3 DEF TaskEnds, GraphFinishes, GraphFails, FinalizerFails, GraphCancelled,
             LoopFinishes, LoopCancelled, SettleAndArchive, Settle, SettleTwice, TaskDone,
             IInv, TypeOK
      <4> QED BY <2>1, <4>1 DEF EndedCancelled
    <3> QED BY <3>2, <3>3
  <2>3. CASE UNCHANGED <<ended, announced, sql, finished>>
    BY <2>1, <2>3 DEF EndedCancelled
  <2> QED
    BY <2>2, <2>3 DEF Next, Post, Begin, RegisterBudget, Cancel, Unregister, SessionEnds, Restart,
                      vars, storeVars, streamVars
<1>2. IInv /\ [Next]_vars => IInv'
  BY NextIInv
<1>3. Init => IInv
  BY InitIInv
<1> QED BY <1>1, <1>2, <1>3, PTL DEF Spec, CancelPrevails

\* The snapshot of a run agrees with the status its stream announced.
THEOREM SnapshotAgrees == Spec => []SnapshotAsAnnounced
<1>1. IInv => SnapshotAsAnnounced BY DEF IInv, RunInv, SnapshotAsAnnounced
<1> QED BY <1>1, InductiveInvariant, PTL

\* A runtime budget never outlives the task it was registered for.
THEOREM BudgetsAreReleased == Spec => []BudgetReleased
<1>1. IInv => BudgetReleased BY DEF IInv, RunInv, BudgetReleased
<1> QED BY <1>1, InductiveInvariant, PTL

\* --------------------------------------------------------------------------
\* What becomes of the papers (ReportStage): the operators of PaperPool first.

\* Induction up to n, for a set of numbers.
LEMMA UpTo ==
  ASSUME NEW n \in Nat, NEW D, 0 \in D, \A k \in 1 .. n : k - 1 \in D => k \in D
  PROVE  \A k \in 0 .. n : k \in D
<1> DEFINE Bad == {k \in 0 .. n : k \notin D}
<1>1. SUFFICES ASSUME Bad # {} PROVE FALSE
  OBVIOUS
<1>2. PICK m \in Bad : \A k \in Bad : <<k, m>> \notin OpToRel(<, Nat)
  <2>1. Bad \in SUBSET Nat
    OBVIOUS
  <2> HIDE DEF Bad
  <2> QED BY <1>1, <2>1, WFMin, NatLessThanWellFounded, Zenon
<1>3. m \in 1 .. n /\ m - 1 \in 0 .. n /\ m - 1 < m
  <2>1. m \in 0 .. n /\ m # 0
    BY <1>2
  <2> QED BY <2>1
<1>4. m - 1 \notin Bad
  <2>1. m - 1 \in Nat /\ m \in Nat
    BY <1>3
  <2>2. m - 1 \in Bad => ~(m - 1 < m)
    BY <1>2, <2>1, Zenon DEF OpToRel
  <2> QED BY <1>3, <2>2
<1> QED BY <1>2, <1>3, <1>4

\* A recursion of n steps within V has a solution.
Solved(n, V, a, G) ==
  \E f \in [0 .. n -> V] : f[0] = a /\ \A k \in 1 .. n : f[k] = G[k][f[k - 1]]

LEMMA Iterate ==
  ASSUME NEW n \in Nat, NEW V, NEW a \in V, NEW G \in [1 .. n -> [V -> V]]
  PROVE  Solved(n, V, a, G)
<1> DEFINE Solves(f, m) == /\ f \in [0 .. m -> V] /\ f[0] = a
                           /\ \A k \in 1 .. m : f[k] = G[k][f[k - 1]]
           D == {m \in 0 .. n : \E f : Solves(f, m)}
<1>1. 0 \in D
  <2>1. Solves([k \in 0 .. 0 |-> a], 0)
    OBVIOUS
  <2>2. 0 \in 0 .. n
    OBVIOUS
  <2> HIDE DEF Solves
  <2> QED BY <2>1, <2>2
<1>2. ASSUME NEW m \in 1 .. n, m - 1 \in D PROVE m \in D
  <2>1. PICK f : Solves(f, m - 1)
    BY <1>2
  <2> DEFINE h == [k \in 0 .. m |-> IF k = m THEN G[m][f[m - 1]] ELSE f[k]]
  <2>2. m - 1 \in 0 .. m - 1 /\ f[m - 1] \in V /\ G[m][f[m - 1]] \in V
    BY <2>1
  <2>3. h \in [0 .. m -> V] /\ h[0] = a
    BY <2>1, <2>2
  <2>4. ASSUME NEW k \in 1 .. m PROVE h[k] = G[k][h[k - 1]]
    <3>1. k - 1 \in 0 .. m /\ k - 1 # m /\ h[k - 1] = f[k - 1]
      OBVIOUS
    <3>2. CASE k = m
      BY <3>1, <3>2
    <3>3. CASE k # m
      <4>1. k \in 1 .. m - 1 /\ h[k] = f[k]
        BY <3>3
      <4> QED BY <2>1, <3>1, <4>1
    <3> QED BY <3>2, <3>3
  <2>5. Solves(h, m)
    BY <2>3, <2>4
  <2>6. m \in 0 .. n
    OBVIOUS
  <2> HIDE DEF Solves, h
  <2> QED BY <2>5, <2>6
<1>3. n \in D
  <2>1. \A k \in 0 .. n : k \in D
    <3> HIDE DEF D
    <3> QED BY <1>1, <1>2, UpTo
  <2> HIDE DEF D
  <2> QED BY <2>1
<1> QED BY <1>3 DEF Solved

\* --------------------------------------------------------------------------
\* The n-th element of a finite set by a strict order.
Pred(S, R, x) == {y \in S : <<y, x>> \in R}
StrictOrder(S, R) ==
  /\ \A x \in S : <<x, x>> \notin R
  /\ \A x, y, z \in S : <<x, y>> \in R /\ <<y, z>> \in R => <<x, z>> \in R
  /\ \A x, y \in S : x # y => <<x, y>> \in R \/ <<y, x>> \in R

\* An element has fewer before it than one that comes later.
LEMMA PredGrows ==
  ASSUME NEW S, IsFiniteSet(S), NEW R, StrictOrder(S, R), NEW x \in S, NEW y \in S, <<x, y>> \in R
  PROVE  Cardinality(Pred(S, R, x)) < Cardinality(Pred(S, R, y))
<1>1. Pred(S, R, x) \subseteq Pred(S, R, y) /\ x \in Pred(S, R, y) /\ x \notin Pred(S, R, x)
  BY DEF Pred, StrictOrder
<1>2. IsFiniteSet(Pred(S, R, y))
  <2>1. Pred(S, R, y) \in SUBSET S
    BY DEF Pred
  <2> QED BY <2>1, FS_Subset
<1>3. /\ IsFiniteSet(Pred(S, R, x))
      /\ Cardinality(Pred(S, R, x)) <= Cardinality(Pred(S, R, y))
      /\ Cardinality(Pred(S, R, y)) # Cardinality(Pred(S, R, x))
  BY <1>1, <1>2, FS_Subset
<1>4. Cardinality(Pred(S, R, x)) \in Nat /\ Cardinality(Pred(S, R, y)) \in Nat
  BY <1>2, <1>3, FS_CardinalityType
<1> QED BY <1>3, <1>4

\* Counting what comes before numbers the elements from 0.
LEMMA PredNumbers ==
  ASSUME NEW S, IsFiniteSet(S), NEW R, StrictOrder(S, R)
  PROVE  /\ Cardinality(S) \in Nat
         /\ \A x \in S : Cardinality(Pred(S, R, x)) \in 0 .. Cardinality(S) - 1
         /\ \A x, y \in S : Cardinality(Pred(S, R, x)) = Cardinality(Pred(S, R, y)) => x = y
         /\ \A n \in 0 .. Cardinality(S) - 1 : \E x \in S : Cardinality(Pred(S, R, x)) = n
<1>1. Cardinality(S) \in Nat
  BY FS_CardinalityType
<1>2. ASSUME NEW x \in S PROVE Cardinality(Pred(S, R, x)) \in 0 .. Cardinality(S) - 1
  <2>1. Pred(S, R, x) \in SUBSET S /\ x \notin Pred(S, R, x)
    BY DEF Pred, StrictOrder
  <2>2. /\ IsFiniteSet(Pred(S, R, x)) /\ Cardinality(Pred(S, R, x)) <= Cardinality(S)
        /\ Cardinality(S) # Cardinality(Pred(S, R, x))
    BY <2>1, FS_Subset
  <2>3. Cardinality(Pred(S, R, x)) \in Nat
    BY <2>2, FS_CardinalityType
  <2> QED BY <1>1, <2>2, <2>3
<1>3. ASSUME NEW x \in S, NEW y \in S, x # y
      PROVE  Cardinality(Pred(S, R, x)) # Cardinality(Pred(S, R, y))
  <2>1. Cardinality(Pred(S, R, x)) \in Int /\ Cardinality(Pred(S, R, y)) \in Int
    BY <1>2
  <2>2. CASE <<x, y>> \in R
    <3>1. Cardinality(Pred(S, R, x)) < Cardinality(Pred(S, R, y))
      BY <2>2, PredGrows
    <3> QED BY <2>1, <3>1
  <2>3. CASE <<y, x>> \in R
    <3>1. Cardinality(Pred(S, R, y)) < Cardinality(Pred(S, R, x))
      BY <2>3, PredGrows
    <3> QED BY <2>1, <3>1
  <2> QED BY <1>3, <2>2, <2>3 DEF StrictOrder
<1> DEFINE N == Cardinality(S)
           f == [x \in S |-> Cardinality(Pred(S, R, x))]
           T == 0 .. N - 1
<1>4. f \in Injection(S, T)
  BY <1>2, <1>3 DEF Injection, IsInjective
<1>5. IsFiniteSet(T) /\ Cardinality(T) = N
  <2>1. 0 \in Int /\ N - 1 \in Int
    BY <1>1
  <2> QED BY <1>1, <2>1, FS_Interval
<1>6. f \in Surjection(S, T)
  <2> HIDE DEF f, T
  <2> QED BY <1>4, <1>5, FS_Injection DEF N
<1>7. \A n \in T : \E x \in S : f[x] = n
  BY <1>6 DEF Surjection
<1> QED BY <1>1, <1>2, <1>3, <1>7

LEMMA PredOnto ==
  ASSUME NEW S, IsFiniteSet(S), NEW R, StrictOrder(S, R), NEW n \in 0 .. Cardinality(S) - 1
  PROVE  \E x \in S : Cardinality(Pred(S, R, x)) = n
  BY PredNumbers

LEMMA NthFacts ==
  ASSUME NEW S, IsFiniteSet(S), NEW R, StrictOrder(S, R)
  PROVE  /\ Cardinality(S) \in Nat
         /\ \A n \in 1 .. Cardinality(S) : Nth(S, R, n) \in S
         /\ \A m, n \in 1 .. Cardinality(S) : Nth(S, R, m) = Nth(S, R, n) => m = n
         /\ \A x \in S : \E n \in 1 .. Cardinality(S) : Nth(S, R, n) = x
         /\ \A n \in 1 .. Cardinality(S) : Cardinality(Pred(S, R, Nth(S, R, n))) = n - 1
<1>1. Cardinality(S) \in Nat
  BY FS_CardinalityType
<1>2. ASSUME NEW n \in 1 .. Cardinality(S)
      PROVE  Nth(S, R, n) \in S /\ Cardinality(Pred(S, R, Nth(S, R, n))) = n - 1
  <2>1. n - 1 \in 0 .. Cardinality(S) - 1
    BY <1>1
  <2>2. \E x \in S : Cardinality(Pred(S, R, x)) = n - 1
    BY <2>1, PredNumbers
  <2>3. Nth(S, R, n) = CHOOSE x \in S : Cardinality(Pred(S, R, x)) = n - 1
    BY DEF Nth, Pred
  <2> QED BY <2>2, <2>3
<1>3. ASSUME NEW m \in 1 .. Cardinality(S), NEW n \in 1 .. Cardinality(S), Nth(S, R, m) = Nth(S, R, n)
      PROVE  m = n
  <2>1. m - 1 = n - 1
    BY <1>2, <1>3
  <2> QED BY <1>1, <2>1
<1>4. ASSUME NEW x \in S PROVE \E n \in 1 .. Cardinality(S) : Nth(S, R, n) = x
  <2> DEFINE k == Cardinality(Pred(S, R, x))
  <2>1. k \in 0 .. Cardinality(S) - 1
    BY PredNumbers
  <2> HIDE DEF k
  <2>2. PICK n \in 1 .. Cardinality(S) : n - 1 = k
    <3>1. ASSUME NEW N \in Nat, NEW j \in 0 .. N - 1 PROVE \E n \in 1 .. N : n - 1 = j
      <4>1. j + 1 \in 1 .. N /\ (j + 1) - 1 = j
        OBVIOUS
      <4> QED BY <4>1
    <3> QED BY <1>1, <2>1, <3>1
  <2>3. Nth(S, R, n) \in S /\ Cardinality(Pred(S, R, Nth(S, R, n))) = k
    BY <1>2, <2>2
  <2>4. Nth(S, R, n) = x
    BY <2>3, PredNumbers DEF k
  <2> QED BY <2>4
<1> QED BY <1>1, <1>2, <1>3, <1>4

\* At takes the elements at its positions, each once.
Picks(f, q, P) ==
  /\ f \in [DOMAIN At(q, P) -> P \intersect DOMAIN q]
  /\ \A k \in DOMAIN At(q, P) : At(q, P)[k] = q[f[k]]
  /\ \A k, l \in DOMAIN At(q, P) : f[k] = f[l] => k = l
  /\ \A i \in P \intersect DOMAIN q : \E k \in DOMAIN At(q, P) : f[k] = i

LEMMA AtFacts ==
  ASSUME NEW T, NEW q \in Seq(T), NEW P
  PROVE  /\ At(q, P) \in Seq(T)
         /\ IsFiniteSet(P \intersect DOMAIN q)
         /\ Len(At(q, P)) = Cardinality(P \intersect DOMAIN q)
         /\ \E f : Picks(f, q, P)
<1> DEFINE S == P \intersect DOMAIN q
           R == {p \in S \X S : p[1] < p[2]}
           N == Cardinality(S)
           f == [k \in 1 .. N |-> Nth(S, R, k)]
<1>1. At(q, P) = [k \in 1 .. N |-> q[Nth(S, R, k)]]
  BY DEF At
<1>2. S \subseteq 1 .. Len(q) /\ Len(q) \in Nat /\ \A i \in S : q[i] \in T
  OBVIOUS
<1>3. IsFiniteSet(S)
  <2>1. IsFiniteSet(1 .. Len(q))
    BY <1>2, FS_Interval
  <2> QED BY <1>2, <2>1, FS_Subset
<1>4. \A x, y \in S : <<x, y>> \in R <=> x < y
  OBVIOUS
<1> HIDE DEF R
<1>5. StrictOrder(S, R)
  <2>1. \A x \in S : x \in Int
    BY <1>2
  <2> HIDE DEF S
  <2> QED BY <1>4, <2>1 DEF StrictOrder
<1> HIDE DEF S
<1>6. /\ N \in Nat
      /\ \A k \in 1 .. N : Nth(S, R, k) \in S
      /\ \A k, l \in 1 .. N : Nth(S, R, k) = Nth(S, R, l) => k = l
      /\ \A x \in S : \E k \in 1 .. N : Nth(S, R, k) = x
  BY <1>3, <1>5, NthFacts
<1>7. DOMAIN At(q, P) = 1 .. N /\ f \in [1 .. N -> S]
  BY <1>1, <1>6
<1>8. At(q, P) \in Seq(T) /\ Len(At(q, P)) = N
  <2>1. \A k \in 1 .. N : q[Nth(S, R, k)] \in T
    BY <1>2, <1>6
  <2>2. At(q, P) \in [1 .. N -> T]
    BY <1>1, <2>1
  <2> QED BY <1>6, <2>2
<1>9. Picks(f, q, P)
  <2>1. f \in [DOMAIN At(q, P) -> P \intersect DOMAIN q]
    BY <1>7 DEF S
  <2>2. \A k \in DOMAIN At(q, P) : At(q, P)[k] = q[f[k]]
    BY <1>1, <1>7
  <2>3. \A k, l \in DOMAIN At(q, P) : f[k] = f[l] => k = l
    BY <1>6, <1>7
  <2>4. \A i \in P \intersect DOMAIN q : \E k \in DOMAIN At(q, P) : f[k] = i
    BY <1>6, <1>7 DEF S
  <2> QED BY <2>1, <2>2, <2>3, <2>4 DEF Picks
<1> QED BY <1>3, <1>8, <1>9 DEF S

\* An element moves to the front, if at all.
LEMMA AtPosition ==
  ASSUME NEW T, NEW q \in Seq(T), NEW P, NEW i \in P \intersect DOMAIN q
  PROVE  \E k \in DOMAIN At(q, P) : k <= i /\ At(q, P)[k] = q[i]
<1> DEFINE S == P \intersect DOMAIN q
           R == {p \in S \X S : p[1] < p[2]}
           N == Cardinality(S)
<1>1. At(q, P) = [k \in 1 .. N |-> q[Nth(S, R, k)]]
  BY DEF At
<1>2. S \subseteq 1 .. Len(q) /\ Len(q) \in Nat /\ i \in S
  OBVIOUS
<1>3. IsFiniteSet(S)
  <2>1. IsFiniteSet(1 .. Len(q))
    BY <1>2, FS_Interval
  <2> QED BY <1>2, <2>1, FS_Subset
<1>4. \A x, y \in S : <<x, y>> \in R <=> x < y
  OBVIOUS
<1> HIDE DEF R
<1>5. StrictOrder(S, R)
  <2>1. \A x \in S : x \in Int
    BY <1>2
  <2> HIDE DEF S
  <2> QED BY <1>4, <2>1 DEF StrictOrder
<1> HIDE DEF S
<1>6. PICK k \in 1 .. N : Nth(S, R, k) = i /\ Cardinality(Pred(S, R, i)) = k - 1
  BY <1>2, <1>3, <1>5, NthFacts
<1>7. ASSUME NEW y \in Pred(S, R, i) PROVE y \in 1 .. (i - 1)
  <2>1. y \in S /\ y < i
    BY <1>2, <1>4 DEF Pred
  <2>2. y \in 1 .. Len(q) /\ i \in 1 .. Len(q)
    BY <1>2, <2>1
  <2> QED BY <1>2, <2>1, <2>2
<1>8. Cardinality(Pred(S, R, i)) <= i - 1
  <2>1. i - 1 \in Nat /\ 1 \in Int /\ i - 1 \in Int
    BY <1>2
  <2>2. IsFiniteSet(1 .. (i - 1)) /\ Cardinality(1 .. (i - 1)) = i - 1
    <3>1. IsFiniteSet(1 .. (i - 1)) /\ Cardinality(1 .. (i - 1)) = IF 1 > i - 1 THEN 0 ELSE (i - 1) - 1 + 1
      BY <2>1, FS_Interval
    <3> QED BY <2>1, <3>1
  <2>3. Cardinality(Pred(S, R, i)) <= Cardinality(1 .. (i - 1))
    BY <1>7, <2>2, FS_Subset
  <2> QED BY <2>2, <2>3
<1>9. N \in Nat
  BY <1>3, FS_CardinalityType DEF N
<1>10. k <= i
  BY <1>2, <1>6, <1>8, <1>9
<1> QED BY <1>1, <1>6, <1>10

LEMMA AtElements ==
  ASSUME NEW T, NEW q \in Seq(T), NEW P
  PROVE  /\ At(q, P) \in Seq(T)
         /\ ToSet(At(q, P)) = {q[i] : i \in P \intersect DOMAIN q}
         /\ ToSet(At(q, P)) \subseteq ToSet(q)
<1>1. PICK f : Picks(f, q, P)
  BY AtFacts
<1>2. At(q, P) \in Seq(T)
  BY AtFacts
<1>3. ToSet(At(q, P)) = {At(q, P)[k] : k \in DOMAIN At(q, P)}
  BY <1>2 DEF ToSet
<1>4. \A k \in DOMAIN At(q, P) : f[k] \in P \intersect DOMAIN q /\ At(q, P)[k] = q[f[k]]
  BY <1>1 DEF Picks
<1>5. \A i \in P \intersect DOMAIN q : \E k \in DOMAIN At(q, P) : At(q, P)[k] = q[i]
  BY <1>1 DEF Picks
<1>6. ToSet(At(q, P)) = {q[i] : i \in P \intersect DOMAIN q}
  <2>1. ASSUME NEW k \in DOMAIN At(q, P) PROVE \E i \in P \intersect DOMAIN q : At(q, P)[k] = q[i]
    BY <1>4
  <2>2. \A x : x \in ToSet(At(q, P)) <=> \E k \in DOMAIN At(q, P) : x = At(q, P)[k]
    BY <1>3
  <2>3. \A x : x \in {q[i] : i \in P \intersect DOMAIN q} <=> \E i \in P \intersect DOMAIN q : x = q[i]
    OBVIOUS
  <2> DEFINE A == ToSet(At(q, P))
             B == {q[i] : i \in P \intersect DOMAIN q}
  <2>4. \A x : x \in A => x \in B
    <3> HIDE DEF A, B
    <3>1. \A x : x \in A => \E k \in DOMAIN At(q, P) : x = At(q, P)[k]
      BY <2>2 DEF A
    <3>2. \A x : x \in B <=> \E i \in P \intersect DOMAIN q : x = q[i]
      BY <2>3 DEF B
    <3> QED BY <2>1, <3>1, <3>2, Zenon
  <2>5. \A x : x \in B => x \in A
    <3> HIDE DEF A, B
    <3>1. \A x : x \in A <=> \E k \in DOMAIN At(q, P) : x = At(q, P)[k]
      BY <2>2 DEF A
    <3>2. \A x : x \in B <=> \E i \in P \intersect DOMAIN q : x = q[i]
      BY <2>3 DEF B
    <3> QED BY <1>5, <3>1, <3>2, Zenon
  <2> QED BY <2>4, <2>5
<1>7. ToSet(q) = {q[i] : i \in DOMAIN q}
  BY DEF ToSet
<1> QED BY <1>2, <1>6, <1>7

\* A subsequence repeats nothing that its positions do not repeat.
LEMMA AtInjective ==
  ASSUME NEW T, NEW q \in Seq(T), NEW P,
         \A i, j \in P \intersect DOMAIN q : q[i] = q[j] => i = j
  PROVE  IsInjective(At(q, P))
<1>1. PICK f : Picks(f, q, P)
  BY AtFacts
<1>2. ASSUME NEW k \in DOMAIN At(q, P), NEW l \in DOMAIN At(q, P), At(q, P)[k] = At(q, P)[l]
      PROVE  k = l
  <2>1. /\ f[k] \in P \intersect DOMAIN q /\ f[l] \in P \intersect DOMAIN q
        /\ At(q, P)[k] = q[f[k]] /\ At(q, P)[l] = q[f[l]]
    BY <1>1 DEF Picks
  <2>2. f[k] = f[l]
    BY <1>2, <2>1
  <2> QED BY <1>1, <2>2 DEF Picks
<1> QED BY <1>2 DEF IsInjective

LEMMA DistinctFacts ==
  ASSUME NEW T, NEW q \in Seq(T)
  PROVE  /\ Distinct(q) \in Seq(T) /\ IsInjective(Distinct(q))
         /\ ToSet(Distinct(q)) \subseteq ToSet(q)
<1> DEFINE P == {i \in DOMAIN q : \A j \in DOMAIN q : j < i => q[j] # q[i]}
<1>1. Distinct(q) = At(q, P)
  BY DEF Distinct
<1>2. \A i, j \in P \intersect DOMAIN q : q[i] = q[j] => i = j
  <2>1. \A i \in DOMAIN q : i \in Int
    OBVIOUS
  <2> QED BY <2>1
<1> HIDE DEF P
<1> QED BY <1>1, <1>2, AtElements, AtInjective

LEMMA FirstFacts ==
  ASSUME NEW T, NEW q \in Seq(T), NEW n
  PROVE  /\ First(q, n) \in Seq(T) /\ ToSet(First(q, n)) \subseteq ToSet(q)
         /\ n \in Int /\ Len(q) <= n => ToSet(First(q, n)) = ToSet(q)
<1>1. First(q, n) = At(q, 1 .. n)
  BY DEF First
<1>2. First(q, n) \in Seq(T) /\ ToSet(First(q, n)) \subseteq ToSet(q)
  BY <1>1, AtElements
<1>3. ASSUME n \in Int, Len(q) <= n PROVE ToSet(First(q, n)) = ToSet(q)
  <2>1. (1 .. n) \intersect DOMAIN q = DOMAIN q
    <3>1. DOMAIN q = 1 .. Len(q) /\ Len(q) \in Nat
      OBVIOUS
    <3>2. \A i \in 1 .. Len(q) : i \in 1 .. n
      BY <1>3, <3>1
    <3> QED BY <3>1, <3>2
  <2>2. ToSet(First(q, n)) = {q[i] : i \in DOMAIN q}
    <3> DEFINE P == 1 .. n
    <3>1. ToSet(At(q, P)) = {q[i] : i \in P \intersect DOMAIN q}
      <4> HIDE DEF P
      <4> QED BY AtElements
    <3> QED BY <1>1, <2>1, <3>1
  <2> QED BY <2>2 DEF ToSet
<1> QED BY <1>2, <1>3

\* A set of positions has a last one.
LEMMA LastPosition ==
  ASSUME NEW n \in Nat, NEW S \in SUBSET (1 .. n), S # {}
  PROVE  Max(S) \in S
<1> DEFINE R == {p \in S \X S : p[1] > p[2]}
<1>1. \A x, y \in S : <<x, y>> \in R <=> x > y
  OBVIOUS
<1>2. \A x \in S : x \in Int
  OBVIOUS
<1> HIDE DEF R
<1>3. StrictOrder(S, R)
  BY <1>1, <1>2 DEF StrictOrder
<1>4. IsFiniteSet(S)
  <2>1. IsFiniteSet(1 .. n)
    BY FS_Interval
  <2> QED BY <2>1, FS_Subset
<1>5. Cardinality(S) \in Nat /\ Cardinality(S) # 0
  BY <1>4, FS_EmptySet, FS_CardinalityType
<1>6. PICK x \in S : Cardinality(Pred(S, R, x)) = 0
  <2>1. 0 \in 0 .. Cardinality(S) - 1
    BY <1>5
  <2> QED BY <1>3, <1>4, <2>1, PredOnto
<1>7. Pred(S, R, x) = {}
  <2>1. Pred(S, R, x) \in SUBSET S
    BY DEF Pred
  <2>2. IsFiniteSet(Pred(S, R, x))
    BY <1>4, <2>1, FS_Subset
  <2> QED BY <1>6, <2>2, FS_EmptySet
<1>8. \A y \in S : x >= y
  <2>1. \A y \in S : ~(y > x)
    BY <1>1, <1>7 DEF Pred
  <2> QED BY <1>2, <2>1
<1> QED BY <1>8 DEF Max

\* --------------------------------------------------------------------------
\* Duplicates.
KeysOf(q) == {Key(p) : p \in ToSet(q)}
TitlesOf(q) == {p.title : p \in ToSet(q)}
MergedSets(q) == [papers : Seq(ToSet(q)), keys : Seq(KeysOf(q)), titles : [TitlesOf(q) -> Nat]]

LEMMA ElementsOf ==
  ASSUME NEW T, NEW q \in Seq(T)
  PROVE  /\ q \in Seq(ToSet(q)) /\ ToSet(q) \subseteq T /\ \A i \in DOMAIN q : q[i] \in ToSet(q)
         /\ \A x \in ToSet(q) : \E i \in DOMAIN q : x = q[i]
<1>1. ToSet(q) = {q[i] : i \in DOMAIN q}
  BY DEF ToSet
<1>2. \A i \in DOMAIN q : q[i] \in T
  OBVIOUS
<1>3. ToSet(q) \subseteq T /\ \A i \in DOMAIN q : q[i] \in ToSet(q)
  BY <1>1, <1>2
<1>4. q \in Seq(ToSet(q))
  <2>1. q \in [1 .. Len(q) -> ToSet(q)] /\ Len(q) \in Nat
    BY <1>3
  <2> QED BY <2>1
<1> QED BY <1>1, <1>3, <1>4

LEMMA PlaceType ==
  ASSUME NEW q \in Seq(PaperRecords), NEW m \in MergedSets(q), NEW p \in ToSet(q)
  PROVE  /\ Place(m, p) \in Nat
         /\ Key(p) \in ToSet(m.keys) => Place(m, p) \in DOMAIN m.keys /\ m.keys[Place(m, p)] = Key(p)
         /\ Key(p) \notin ToSet(m.keys) => Place(m, p) = m.titles[p.title]
<1>1. p.title \in TitlesOf(q) /\ m.keys \in Seq(KeysOf(q)) /\ m.titles \in [TitlesOf(q) -> Nat]
  BY DEF MergedSets, TitlesOf
<1>2. CASE Key(p) \in ToSet(m.keys)
  <2>1. \E i \in DOMAIN m.keys : m.keys[i] = Key(p)
    BY <1>1, <1>2, ElementsOf
  <2>2. Place(m, p) \in DOMAIN m.keys /\ m.keys[Place(m, p)] = Key(p)
    BY <1>2, <2>1 DEF Place
  <2>3. DOMAIN m.keys \subseteq Nat
    BY <1>1
  <2> QED BY <1>2, <2>2, <2>3
<1>3. CASE Key(p) \notin ToSet(m.keys)
  BY <1>1, <1>3 DEF Place
<1> QED BY <1>2, <1>3

\* One paper is put into its place.
LEMMA MergeStep ==
  ASSUME NEW q \in Seq(PaperRecords), NEW m \in MergedSets(q), NEW p \in ToSet(q)
  PROVE  /\ Merge(m, p) \in MergedSets(q)
         /\ Place(m, p) = 0 => /\ Merge(m, p).papers = Append(m.papers, p)
                               /\ Merge(m, p).keys = Append(m.keys, Key(p))
         /\ Place(m, p) # 0 => /\ \/ Merge(m, p).papers = [m.papers EXCEPT ![Place(m, p)] = p]
                                  \/ Merge(m, p).papers = m.papers
                               /\ Merge(m, p).keys = m.keys
         /\ Merge(m, p).titles =
              IF p.title = "" THEN m.titles
              ELSE [m.titles EXCEPT ![p.title] = IF Place(m, p) = 0 THEN Len(m.papers) + 1
                                                 ELSE Place(m, p)]
<1> DEFINE i == Place(m, p)
           place == IF i = 0 THEN Len(m.papers) + 1 ELSE i
           papers1 == IF i = 0 THEN Append(m.papers, p)
                      ELSE IF Better(p, m.papers[i]) THEN [m.papers EXCEPT ![i] = p] ELSE m.papers
           keys1 == IF i = 0 THEN Append(m.keys, Key(p)) ELSE m.keys
           titles1 == IF p.title = "" THEN m.titles ELSE [m.titles EXCEPT ![p.title] = place]
<1>1. Merge(m, p) = [papers |-> papers1, keys |-> keys1, titles |-> titles1]
  BY DEF Merge
<1>2. /\ m.papers \in Seq(ToSet(q)) /\ m.keys \in Seq(KeysOf(q)) /\ m.titles \in [TitlesOf(q) -> Nat]
      /\ p.title \in TitlesOf(q) /\ p \in PaperRecords
  BY ElementsOf DEF MergedSets, TitlesOf
<1>3. Key(p) \in KeysOf(q) /\ i \in Nat
  BY <1>2, PlaceType DEF KeysOf
<1> HIDE DEF i
<1>4. papers1 \in Seq(ToSet(q))
  <2>1. Append(m.papers, p) \in Seq(ToSet(q))
    BY <1>2
  <2>2. [m.papers EXCEPT ![i] = p] \in Seq(ToSet(q))
    <3> DEFINE s == m.papers
               r == [s EXCEPT ![i] = p]
    <3>1. s \in [1 .. Len(s) -> ToSet(q)] /\ Len(s) \in Nat
      BY <1>2
    <3> HIDE DEF s
    <3>2. r \in [1 .. Len(s) -> ToSet(q)]
      BY <3>1
    <3> HIDE DEF r
    <3>3. r \in Seq(ToSet(q))
      BY <3>1, <3>2
    <3> QED BY <3>3 DEF r, s
  <2> QED BY <1>2, <2>1, <2>2
<1>5. keys1 \in Seq(KeysOf(q))
  BY <1>2, <1>3
<1>6. titles1 \in [TitlesOf(q) -> Nat]
  <2>1. place \in Nat
    BY <1>2, <1>3
  <2> HIDE DEF place
  <2> QED BY <1>2, <2>1
<1>7. /\ Merge(m, p).papers = papers1 /\ Merge(m, p).keys = keys1 /\ Merge(m, p).titles = titles1
      /\ Merge(m, p) \in MergedSets(q)
  <2> HIDE DEF papers1, keys1, titles1
  <2> QED BY <1>1, <1>4, <1>5, <1>6 DEF MergedSets
<1>8. /\ i = 0 => papers1 = Append(m.papers, p) /\ keys1 = Append(m.keys, Key(p))
      /\ i # 0 => /\ papers1 = [m.papers EXCEPT ![i] = p] \/ papers1 = m.papers
                  /\ keys1 = m.keys
      /\ titles1 = IF p.title = "" THEN m.titles
                   ELSE [m.titles EXCEPT ![p.title] = IF i = 0 THEN Len(m.papers) + 1 ELSE i]
  OBVIOUS
<1> HIDE DEF papers1, keys1, titles1
<1> QED BY <1>7, <1>8 DEF i

\* The papers are merged one after the other.
LEMMA MergedSteps ==
  ASSUME NEW q \in Seq(PaperRecords)
  PROVE  /\ MergedUpTo(q)[0] = Unmerged(q)
         /\ \A n \in 0 .. Len(q) : MergedUpTo(q)[n] \in MergedSets(q)
         /\ \A n \in 1 .. Len(q) : MergedUpTo(q)[n] = Merge(MergedUpTo(q)[n - 1], q[n])
<1> DEFINE N == Len(q)
           V == MergedSets(q)
           a == Unmerged(q)
           G == [n \in 1 .. Len(q) |-> [m \in V |-> Merge(m, q[n])]]
<1>1. N \in Nat /\ \A n \in 1 .. N : q[n] \in ToSet(q)
  BY ElementsOf
<1>2. a \in V
  <2>1. [t \in TitlesOf(q) |-> 0] \in [TitlesOf(q) -> Nat]
    OBVIOUS
  <2>2. <<>> \in Seq(ToSet(q)) /\ <<>> \in Seq(KeysOf(q))
    OBVIOUS
  <2> QED BY <2>1, <2>2 DEF Unmerged, MergedSets, TitlesOf
<1>3. G \in [1 .. N -> [V -> V]]
  <2>1. \A n \in 1 .. N : \A m \in V : Merge(m, q[n]) \in V
    BY <1>1, MergeStep
  <2> QED BY <2>1
<1>4. PICK f \in [0 .. N -> V] : f[0] = a /\ \A k \in 1 .. N : f[k] = G[k][f[k - 1]]
  <2> HIDE DEF G, N, V, a
  <2>1. Solved(N, V, a, G)
    BY <1>1, <1>2, <1>3, Iterate, Zenon
  <2> QED BY <2>1 DEF Solved
<1>5. \A k \in 1 .. N : f[k] = Merge(f[k - 1], q[k])
  <2> SUFFICES ASSUME NEW k \in 1 .. N PROVE f[k] = Merge(f[k - 1], q[k])
    OBVIOUS
  <2>1. k - 1 \in 0 .. N
    BY <1>1
  <2>2. f[k - 1] \in V /\ f[k] = G[k][f[k - 1]]
    BY <1>4, <2>1
  <2> HIDE DEF V
  <2> QED BY <2>2
<1>6. f = [n \in 0 .. Len(q) |-> IF n = 0 THEN Unmerged(q) ELSE Merge(f[n - 1], q[n])]
  <2>1. ASSUME NEW n \in 0 .. N PROVE f[n] = IF n = 0 THEN Unmerged(q) ELSE Merge(f[n - 1], q[n])
    <3>1. CASE n = 0
      BY <1>4, <3>1
    <3>2. CASE n # 0
      <4>1. n \in 1 .. N
        BY <1>1, <3>2
      <4> QED BY <1>5, <3>2, <4>1
    <3> QED BY <3>1, <3>2
  <2> HIDE DEF V
  <2> QED BY <1>4, <2>1
<1>7. MergedUpTo(q) =
        [n \in 0 .. Len(q) |-> IF n = 0 THEN Unmerged(q) ELSE Merge(MergedUpTo(q)[n - 1], q[n])]
  BY <1>6, Zenon DEF MergedUpTo
<1> DEFINE w == MergedUpTo(q)
<1>8. w = [n \in 0 .. Len(q) |-> IF n = 0 THEN Unmerged(q) ELSE Merge(w[n - 1], q[n])]
  BY <1>7
<1> HIDE DEF w
<1>9. /\ w[0] = Unmerged(q)
      /\ \A n \in 1 .. Len(q) : w[n] = Merge(w[n - 1], q[n])
  <2>1. 0 \in 0 .. Len(q) /\ \A n \in 1 .. Len(q) : n \in 0 .. Len(q) /\ n # 0
    BY <1>1
  <2> QED BY <1>8, <2>1
<1>10. \A n \in 0 .. N : w[n] \in V
  <2> DEFINE D == {n \in 0 .. N : w[n] \in V}
  <2>1. 0 \in D
    <3>1. 0 \in 0 .. N
      BY <1>1
    <3> QED BY <1>2, <1>9, <3>1
  <2>2. ASSUME NEW n \in 1 .. N, n - 1 \in D PROVE n \in D
    <3>1. w[n - 1] \in V /\ q[n] \in ToSet(q) /\ n \in 0 .. N
      BY <1>1, <2>2
    <3>2. Merge(w[n - 1], q[n]) \in V
      BY <3>1, MergeStep
    <3>3. w[n] \in V
      BY <1>9, <3>2
    <3> HIDE DEF V
    <3> QED BY <3>1, <3>3
  <2>3. \A n \in 0 .. N : n \in D
    <3> HIDE DEF D
    <3> QED BY <1>1, <2>1, <2>2, UpTo
  <2> QED BY <2>3
<1> QED BY <1>9, <1>10 DEF w

LEMMA DedupFacts ==
  ASSUME NEW q \in Seq(PaperRecords)
  PROVE  /\ DedupSources(q) \in Seq(PaperRecords) /\ DedupSources(q) \in Seq(ToSet(q))
         /\ ToSet(DedupSources(q)) \subseteq ToSet(q)
<1>1. Len(q) \in 0 .. Len(q)
  OBVIOUS
<1>2. DedupSources(q) \in Seq(ToSet(q))
  BY <1>1, MergedSteps DEF DedupSources, MergedSets
<1>3. ToSet(DedupSources(q)) \subseteq ToSet(q)
  BY <1>2, ElementsOf
<1>4. ToSet(q) \subseteq PaperRecords
  BY ElementsOf
<1>5. DedupSources(q) \in Seq(PaperRecords)
  <2> DEFINE d == DedupSources(q)
  <2>1. d \in [1 .. Len(d) -> PaperRecords] /\ Len(d) \in Nat
    <3> HIDE DEF d
    <3>1. d \in Seq(ToSet(q))
      BY <1>2 DEF d
    <3> QED BY <1>4, <3>1
  <2> HIDE DEF d
  <2>2. d \in Seq(PaperRecords)
    BY <2>1
  <2> QED BY <2>2 DEF d
<1> QED BY <1>2, <1>3, <1>5

\* No paper of the set N clashes with one of the sequence q.
NoClash(N, q) == \A p \in N : \A r \in ToSet(q) : ~Clash(p, r)

\* What merging keeps: the papers of N have one place each, with their key; papers
\* with another key do not get there, because their title leads elsewhere.
MergeInv(N, q, n, m) ==
  /\ Len(m.keys) = Len(m.papers) /\ IsInjective(m.keys)
  /\ \A t \in TitlesOf(q) : m.titles[t] \in 0 .. Len(m.keys)
  /\ "" \in TitlesOf(q) => m.titles[""] = 0
  /\ \A p \in N : \A i \in DOMAIN m.keys : m.keys[i] = Key(p) <=> Key(m.papers[i]) = Key(p)
  /\ \A p \in N : \A t \in TitlesOf(q) :
       m.titles[t] # 0 /\ m.keys[m.titles[t]] = Key(p) => t = p.title
  /\ \A p \in N : p.title \in TitlesOf(q) /\ m.titles[p.title] # 0 => Key(p) \in ToSet(m.keys)
  /\ Len(m.keys) <= n
  /\ \A p \in N : \A j \in 1 .. n : Key(q[j]) = Key(p) =>
       \E k \in DOMAIN m.keys : k <= j /\ m.keys[k] = Key(p)

LEMMA MergeKeeps ==
  ASSUME NEW q \in Seq(PaperRecords), NEW N, NoClash(N, q), NEW n \in 1 .. Len(q),
         NEW m \in MergedSets(q), MergeInv(N, q, n - 1, m)
  PROVE  MergeInv(N, q, n, Merge(m, q[n]))
<1> DEFINE r == q[n]
           i == Place(m, r)
           w == Merge(m, r)
           ps == m.papers
           ks == m.keys
           ts == m.titles
           L == Len(ks)
<1>1. r \in ToSet(q) /\ r.title \in TitlesOf(q)
  BY ElementsOf DEF TitlesOf
<1>2. /\ ps \in Seq(ToSet(q)) /\ ks \in Seq(KeysOf(q)) /\ ts \in [TitlesOf(q) -> Nat]
      /\ L \in Nat /\ DOMAIN ks = 1 .. L /\ Len(ps) = L /\ DOMAIN ps = 1 .. L
  <2>1. ps \in Seq(ToSet(q)) /\ ks \in Seq(KeysOf(q)) /\ ts \in [TitlesOf(q) -> Nat]
    BY DEF MergedSets
  <2>2. Len(ps) = L
    BY DEF MergeInv
  <2> HIDE DEF ps, ks, ts
  <2> QED BY <2>1, <2>2
<1>3. /\ IsInjective(ks)
      /\ \A t \in TitlesOf(q) : ts[t] \in 0 .. L
      /\ "" \in TitlesOf(q) => ts[""] = 0
      /\ \A p \in N : \A k \in DOMAIN ks : ks[k] = Key(p) <=> Key(ps[k]) = Key(p)
      /\ \A p \in N : \A t \in TitlesOf(q) : ts[t] # 0 /\ ks[ts[t]] = Key(p) => t = p.title
      /\ \A p \in N : p.title \in TitlesOf(q) /\ ts[p.title] # 0 => Key(p) \in ToSet(ks)
      /\ Len(ks) <= n - 1
      /\ \A p \in N : \A j \in 1 .. n - 1 : Key(q[j]) = Key(p) =>
           \E k \in DOMAIN ks : k <= j /\ ks[k] = Key(p)
  BY DEF MergeInv
<1>4. \A p \in N : /\ Key(p) = Key(r) => p.title = r.title
                   /\ p.title = r.title /\ r.title # "" => Key(p) = Key(r)
  BY <1>1 DEF NoClash, Clash
<1>5. /\ i \in Nat
      /\ Key(r) \in ToSet(ks) => i \in DOMAIN ks /\ ks[i] = Key(r)
      /\ Key(r) \notin ToSet(ks) => i = ts[r.title]
  BY <1>1, PlaceType
<1>6. /\ w \in MergedSets(q)
      /\ i = 0 => w.papers = Append(ps, r) /\ w.keys = Append(ks, Key(r))
      /\ i # 0 => (w.papers = [ps EXCEPT ![i] = r] \/ w.papers = ps) /\ w.keys = ks
      /\ w.titles = IF r.title = "" THEN ts
                    ELSE [ts EXCEPT ![r.title] = IF i = 0 THEN Len(ps) + 1 ELSE i]
  BY <1>1, MergeStep, ZenonT(60)
<1>7. n \in Nat /\ \A j \in 1 .. n : j = n \/ j \in 1 .. n - 1
  OBVIOUS
<1>8. \A k \in DOMAIN ks : ks[k] \in ToSet(ks)
  BY <1>2, ElementsOf
<1>9. \A x \in ToSet(ks) : \E k \in DOMAIN ks : x = ks[k]
  BY <1>2, ElementsOf
<1> DEFINE ps1 == w.papers
           ks1 == w.keys
           ts1 == w.titles
<1>a. SUFFICES /\ Len(ks1) = Len(ps1) /\ IsInjective(ks1)
               /\ \A t \in TitlesOf(q) : ts1[t] \in 0 .. Len(ks1)
               /\ "" \in TitlesOf(q) => ts1[""] = 0
               /\ \A p \in N : \A k \in DOMAIN ks1 : ks1[k] = Key(p) <=> Key(ps1[k]) = Key(p)
               /\ \A p \in N : \A t \in TitlesOf(q) : ts1[t] # 0 /\ ks1[ts1[t]] = Key(p) => t = p.title
               /\ \A p \in N : p.title \in TitlesOf(q) /\ ts1[p.title] # 0 => Key(p) \in ToSet(ks1)
               /\ Len(ks1) <= n
               /\ \A p \in N : \A j \in 1 .. n : Key(q[j]) = Key(p) =>
                    \E k \in DOMAIN ks1 : k <= j /\ ks1[k] = Key(p)
  BY DEF MergeInv
<1>b. ks1 \in Seq(KeysOf(q)) /\ ps1 \in Seq(ToSet(q)) /\ ts1 \in [TitlesOf(q) -> Nat]
  BY <1>6 DEF MergedSets
<1> HIDE DEF ps1, ks1, ts1, w, ps, ks, ts, i, L
<1>c. CASE i = 0
  <2>1. ps1 = Append(ps, r) /\ ks1 = Append(ks, Key(r))
    BY <1>6, <1>c DEF ps1, ks1
  <2>2. ts1 = IF r.title = "" THEN ts ELSE [ts EXCEPT ![r.title] = L + 1]
    BY <1>2, <1>6, <1>c DEF ts1
  <2>3. Key(r) \notin ToSet(ks)
    BY <1>2, <1>5, <1>c
  <2>4. /\ Len(ks1) = L + 1 /\ Len(ps1) = L + 1 /\ DOMAIN ks1 = 1 .. L + 1
        /\ \A k \in 1 .. L : ks1[k] = ks[k] /\ ps1[k] = ps[k]
        /\ ks1[L + 1] = Key(r) /\ ps1[L + 1] = r
    <3>1. Key(r) \in KeysOf(q)
      BY <1>1 DEF KeysOf
    <3>2. Len(ks) = L
      BY DEF L
    <3> QED BY <1>1, <1>2, <2>1, <3>1, <3>2
  <2>5. \A k \in 1 .. L + 1 : k \in 1 .. L \/ k = L + 1
    BY <1>2
  <2>6. IsInjective(ks1)
    <3>1. \A k \in 1 .. L : ks1[k] # ks1[L + 1]
      BY <1>2, <1>8, <2>3, <2>4
    <3>2. \A k, l \in 1 .. L : ks1[k] = ks1[l] => k = l
      <4>1. \A k, l \in 1 .. L : ks[k] = ks[l] => k = l
        BY <1>2, <1>3, Zenon DEF IsInjective
      <4> QED BY <2>4, <4>1, Zenon
    <3> QED BY <2>4, <2>5, <3>1, <3>2 DEF IsInjective
  <2>7. \A x \in ToSet(ks) : x \in ToSet(ks1)
    <3>1. \A k \in 1 .. L : ks1[k] \in ToSet(ks1)
      <4>1. \A k \in DOMAIN ks1 : ks1[k] \in ToSet(ks1)
        BY <1>b, ElementsOf
      <4>2. \A k \in 1 .. L : k \in 1 .. L + 1
        BY <1>2
      <4> QED BY <2>4, <4>1, <4>2
    <3> QED BY <1>2, <1>9, <2>4, <3>1
  <2>8. Key(r) \in ToSet(ks1)
    <3>1. L + 1 \in DOMAIN ks1
      BY <1>2, <2>4
    <3> QED BY <1>b, <2>4, <3>1, ElementsOf
  <2>9. \A t \in TitlesOf(q) : ts1[t] = IF t = r.title /\ t # "" THEN L + 1 ELSE ts[t]
    BY <1>1, <1>2, <2>2
  <2>10. \A t \in TitlesOf(q) : ts1[t] \in 0 .. Len(ks1)
    <3>1. L + 1 \in 0 .. L + 1 /\ \A k \in 0 .. L : k \in 0 .. L + 1
      BY <1>2
    <3>2. \A t \in TitlesOf(q) : ts1[t] = L + 1 \/ ts1[t] \in 0 .. L
      BY <1>3, <2>9
    <3> QED BY <2>4, <3>1, <3>2
  <2>11. "" \in TitlesOf(q) => ts1[""] = 0
    BY <1>3, <2>9
  <2>12. \A p \in N : \A k \in DOMAIN ks1 : ks1[k] = Key(p) <=> Key(ps1[k]) = Key(p)
    <3> SUFFICES ASSUME NEW p \in N, NEW k \in 1 .. L + 1
                 PROVE  ks1[k] = Key(p) <=> Key(ps1[k]) = Key(p)
      BY <2>4
    <3>1. CASE k \in 1 .. L
      <4>1. ks[k] = Key(p) <=> Key(ps[k]) = Key(p)
        BY <1>2, <1>3, <3>1
      <4>2. ks1[k] = ks[k] /\ ps1[k] = ps[k]
        BY <2>4, <3>1
      <4> QED BY <4>1, <4>2
    <3>2. CASE k = L + 1
      BY <2>4, <3>2
    <3> QED BY <2>5, <3>1, <3>2
  <2>13. ASSUME NEW p \in N, NEW t \in TitlesOf(q), ts1[t] # 0, ks1[ts1[t]] = Key(p) PROVE t = p.title
    <3>1. CASE t = r.title /\ t # ""
      BY <1>4, <2>4, <2>9, <2>13, <3>1
    <3>2. CASE ~(t = r.title /\ t # "")
      <4>1. ts1[t] = ts[t] /\ ts[t] # 0
        BY <2>9, <2>13, <3>2
      <4>2. ts[t] \in 1 .. L
        <5>1. ts[t] \in 0 .. L
          BY <1>3
        <5> QED BY <1>2, <4>1, <5>1
      <4>3. ks[ts[t]] = Key(p)
        <5>1. ks1[ts[t]] = ks[ts[t]]
          BY <2>4, <4>2
        <5> QED BY <2>13, <4>1, <5>1
      <4> QED BY <1>3, <4>1, <4>3
    <3> QED BY <3>1, <3>2
  <2>14. ASSUME NEW p \in N, p.title \in TitlesOf(q), ts1[p.title] # 0 PROVE Key(p) \in ToSet(ks1)
    <3>1. CASE p.title = r.title /\ p.title # ""
      BY <1>4, <2>8, <3>1
    <3>2. CASE ~(p.title = r.title /\ p.title # "")
      BY <1>3, <2>7, <2>9, <2>14, <3>2
    <3> QED BY <3>1, <3>2
  <2>15. Len(ks1) <= n
    <3>1. L <= n - 1
      BY <1>3 DEF L
    <3> QED BY <1>2, <1>7, <2>4, <3>1
  <2>16. ASSUME NEW p \in N, NEW j \in 1 .. n, Key(q[j]) = Key(p)
         PROVE  \E k \in DOMAIN ks1 : k <= j /\ ks1[k] = Key(p)
    <3>1. CASE j = n
      <4>1. ks1[L + 1] = Key(p)
        BY <2>4, <2>16, <3>1 DEF r
      <4>2. L + 1 \in DOMAIN ks1 /\ L + 1 <= j
        BY <1>2, <2>4, <2>15, <3>1
      <4> QED BY <4>1, <4>2
    <3>2. CASE j \in 1 .. n - 1
      <4>1. PICK k \in DOMAIN ks : k <= j /\ ks[k] = Key(p)
        BY <1>3, <2>16, <3>2
      <4>2. k \in DOMAIN ks1 /\ ks1[k] = ks[k]
        BY <1>2, <2>4, <4>1
      <4> QED BY <4>1, <4>2
    <3> QED BY <1>7, <3>1, <3>2
  <2> QED BY <2>4, <2>6, <2>10, <2>11, <2>12, <2>13, <2>14, <2>15, <2>16
<1>d. CASE i # 0
  <2>1. ks1 = ks /\ (ps1 = [ps EXCEPT ![i] = r] \/ ps1 = ps)
    BY <1>6, <1>d DEF ks1, ps1
  <2>2. ts1 = IF r.title = "" THEN ts ELSE [ts EXCEPT ![r.title] = i]
    BY <1>6, <1>d DEF ts1
  <2>3. i \in 1 .. L /\ (ks[i] = Key(r) \/ (Key(r) \notin ToSet(ks) /\ i = ts[r.title]))
    <3>1. CASE Key(r) \in ToSet(ks)
      BY <1>2, <1>5, <3>1
    <3>2. CASE Key(r) \notin ToSet(ks)
      <4>1. i = ts[r.title] /\ ts[r.title] \in 0 .. L
        BY <1>1, <1>3, <1>5, <3>2
      <4>2. i \in 1 .. L
        BY <1>2, <1>d, <4>1
      <4> QED BY <3>2, <4>1, <4>2
    <3> QED BY <3>1, <3>2
  <2>4. r.title = "" => ks[i] = Key(r)
    BY <1>1, <1>3, <1>d, <2>3
  <2>5. \A p \in N : Key(p) = Key(r) \/ ks[i] = Key(p) => ks[i] = Key(r)
    <3> SUFFICES ASSUME NEW p \in N, Key(p) = Key(r) \/ ks[i] = Key(p), ks[i] # Key(r) PROVE FALSE
      OBVIOUS
    <3>1. Key(r) \notin ToSet(ks) /\ i = ts[r.title] /\ r.title # ""
      BY <2>3, <2>4
    <3>2. CASE Key(p) = Key(r)
      BY <1>1, <1>3, <1>4, <1>d, <3>1, <3>2
    <3>3. CASE ks[i] = Key(p)
      <4>1. p.title = r.title
        BY <1>1, <1>3, <1>d, <3>1, <3>3
      <4>2. Key(p) = Key(r)
        BY <1>4, <3>1, <4>1
      <4> QED BY <3>2, <4>2
    <3> QED BY <3>2, <3>3
  <2>6. \A k \in 1 .. L : ps1[k] = ps[k] \/ (k = i /\ ps1[k] = r)
    BY <1>2, <2>1
  <2>7. Len(ks1) = Len(ps1) /\ Len(ks1) = L /\ DOMAIN ks1 = 1 .. L
    <3>1. DOMAIN ps1 = DOMAIN ps
      BY <1>2, <2>1
    <3> QED BY <1>2, <1>b, <2>1, <3>1 DEF L
  <2>8. \A p \in N : \A k \in DOMAIN ks1 : ks1[k] = Key(p) <=> Key(ps1[k]) = Key(p)
    <3> SUFFICES ASSUME NEW p \in N, NEW k \in 1 .. L
                 PROVE  ks[k] = Key(p) <=> Key(ps1[k]) = Key(p)
      BY <2>1, <2>7
    <3>1. CASE ps1[k] = ps[k]
      BY <1>2, <1>3, <3>1
    <3>2. CASE k = i /\ ps1[k] = r
      BY <2>5, <3>2
    <3> QED BY <2>6, <3>1, <3>2
  <2>9. \A t \in TitlesOf(q) : ts1[t] = IF t = r.title /\ t # "" THEN i ELSE ts[t]
    BY <1>1, <1>2, <2>2
  <2>10. \A t \in TitlesOf(q) : ts1[t] \in 0 .. Len(ks1)
    <3>1. i \in 0 .. L
      BY <1>2, <2>3
    <3> QED BY <1>3, <2>7, <2>9, <3>1
  <2>11. "" \in TitlesOf(q) => ts1[""] = 0
    BY <1>3, <2>9
  <2>12. ASSUME NEW p \in N, NEW t \in TitlesOf(q), ts1[t] # 0, ks1[ts1[t]] = Key(p) PROVE t = p.title
    <3>1. CASE t = r.title /\ t # ""
      <4>1. ks[i] = Key(p)
        BY <2>1, <2>9, <2>12, <3>1
      <4>2. Key(p) = Key(r)
        BY <2>5, <4>1
      <4> QED BY <1>4, <3>1, <4>2
    <3>2. CASE ~(t = r.title /\ t # "")
      <4>1. ts1[t] = ts[t]
        BY <2>9, <2>12, <3>2
      <4>2. ts[t] # 0 /\ ks[ts[t]] = Key(p)
        BY <2>1, <2>12, <4>1
      <4> QED BY <1>3, <2>12, <4>2
    <3> QED BY <3>1, <3>2
  <2>13. Key(r) \in ToSet(ks) \/ \A p \in N : Key(p) # Key(r)
    BY <1>2, <1>8, <2>3, <2>5
  <2>14. ASSUME NEW p \in N, p.title \in TitlesOf(q), ts1[p.title] # 0 PROVE Key(p) \in ToSet(ks1)
    <3>1. CASE p.title = r.title /\ p.title # ""
      BY <1>4, <2>1, <2>13, <3>1
    <3>2. CASE ~(p.title = r.title /\ p.title # "")
      BY <1>3, <2>1, <2>9, <2>14, <3>2
    <3> QED BY <3>1, <3>2
  <2>15. Len(ks1) <= n
    <3>1. L <= n - 1
      BY <1>3 DEF L
    <3> QED BY <1>2, <1>7, <2>7, <3>1
  <2>16. ASSUME NEW p \in N, NEW j \in 1 .. n, Key(q[j]) = Key(p)
         PROVE  \E k \in DOMAIN ks1 : k <= j /\ ks1[k] = Key(p)
    <3>1. CASE j = n
      <4>1. Key(p) \in ToSet(ks)
        BY <2>13, <2>16, <3>1 DEF r
      <4>2. PICK k \in DOMAIN ks : ks[k] = Key(p)
        BY <1>9, <4>1
      <4>3. k <= j
        BY <1>7, <2>1, <2>7, <2>15, <3>1, <4>2
      <4> QED BY <2>1, <4>2, <4>3
    <3>2. CASE j # n
      BY <1>3, <1>7, <2>1, <2>16, <3>2
    <3> QED BY <3>1, <3>2
  <2> QED BY <1>3, <2>1, <2>7, <2>8, <2>10, <2>11, <2>12, <2>14, <2>15, <2>16
<1> QED BY <1>c, <1>d

\* After merging, a paper that clashes with none has exactly one place, no later than
\* it had.
LEMMA DedupKeeps ==
  ASSUME NEW q \in Seq(PaperRecords), NEW N, NoClash(N, q)
  PROVE  /\ \A p \in N : (\E r \in ToSet(q) : Key(r) = Key(p))
                           => \E i \in DOMAIN DedupSources(q) : Key(DedupSources(q)[i]) = Key(p)
         /\ \A p \in N : \A j \in DOMAIN q : Key(q[j]) = Key(p)
              => \E i \in DOMAIN DedupSources(q) : i <= j /\ Key(DedupSources(q)[i]) = Key(p)
         /\ \A p \in N : \A i, j \in DOMAIN DedupSources(q) :
              Key(DedupSources(q)[i]) = Key(p) /\ Key(DedupSources(q)[j]) = Key(p) => i = j
<1> DEFINE w == MergedUpTo(q)
           L == Len(q)
           D == {n \in 0 .. L : MergeInv(N, q, n, w[n])}
           m == w[L]
<1>1. L \in Nat /\ L \in 0 .. L
  OBVIOUS
<1>2. /\ w[0] = Unmerged(q)
      /\ \A n \in 0 .. L : w[n] \in MergedSets(q)
      /\ \A n \in 1 .. L : w[n] = Merge(w[n - 1], q[n])
  BY MergedSteps
<1>3. 0 \in D
  <2> DEFINE u == Unmerged(q)
  <2>1. u.papers = <<>> /\ u.keys = <<>> /\ u.titles = [t \in TitlesOf(q) |-> 0]
    BY DEF Unmerged, TitlesOf
  <2> HIDE DEF u
  <2>2. /\ IsInjective(u.keys) /\ Len(u.keys) = 0 /\ Len(u.papers) = 0 /\ DOMAIN u.keys = {}
        /\ Len(u.keys) <= 0
    BY <2>1 DEF IsInjective
  <2>3. \A t \in TitlesOf(q) : u.titles[t] = 0
    BY <2>1
  <2>4. 1 .. 0 = {} /\ 0 \in 0 .. 0
    OBVIOUS
  <2>5. MergeInv(N, q, 0, u)
    BY <2>2, <2>3, <2>4 DEF MergeInv
  <2>6. 0 \in 0 .. L
    BY <1>1
  <2> QED BY <1>2, <2>5, <2>6 DEF u
<1>4. ASSUME NEW n \in 1 .. L, n - 1 \in D PROVE n \in D
  <2>1. n - 1 \in 0 .. L /\ n \in 0 .. L /\ MergeInv(N, q, n - 1, w[n - 1])
    BY <1>1, <1>4
  <2>2. w[n - 1] \in MergedSets(q) /\ w[n] = Merge(w[n - 1], q[n])
    BY <1>2, <2>1
  <2>3. MergeInv(N, q, n, Merge(w[n - 1], q[n]))
    BY <2>1, <2>2, MergeKeeps
  <2> QED BY <2>1, <2>2, <2>3
<1>5. MergeInv(N, q, L, m) /\ m \in MergedSets(q)
  <2>1. \A n \in 0 .. L : n \in D
    <3> HIDE DEF D, L
    <3> QED BY <1>1, <1>3, <1>4, UpTo
  <2> QED BY <1>1, <1>2, <2>1
<1>6. DedupSources(q) = m.papers
  BY DEF DedupSources
<1> HIDE DEF m, w
<1>7. /\ m.papers \in Seq(ToSet(q)) /\ m.keys \in Seq(KeysOf(q)) /\ Len(m.keys) = Len(m.papers)
      /\ IsInjective(m.keys)
      /\ \A p \in N : \A i \in DOMAIN m.keys : m.keys[i] = Key(p) <=> Key(m.papers[i]) = Key(p)
      /\ \A p \in N : \A j \in 1 .. L : Key(q[j]) = Key(p) =>
           \E k \in DOMAIN m.keys : k <= j /\ m.keys[k] = Key(p)
  BY <1>5 DEF MergedSets, MergeInv
<1>8. DOMAIN m.papers = DOMAIN m.keys
  BY <1>7
<1>9. ASSUME NEW p \in N, NEW r \in ToSet(q), Key(r) = Key(p)
      PROVE  \E i \in DOMAIN m.papers : Key(m.papers[i]) = Key(p)
  <2>1. PICK j \in 1 .. L : r = q[j]
    BY ElementsOf
  <2>2. PICK i \in DOMAIN m.keys : m.keys[i] = Key(p)
    BY <1>7, <1>9, <2>1
  <2> QED BY <1>7, <1>8, <2>2
<1>10. ASSUME NEW p \in N, NEW i \in DOMAIN m.papers, NEW j \in DOMAIN m.papers,
              Key(m.papers[i]) = Key(p), Key(m.papers[j]) = Key(p)
       PROVE  i = j
  <2>1. m.keys[i] = Key(p) /\ m.keys[j] = Key(p)
    BY <1>7, <1>8, <1>10
  <2> QED BY <1>7, <1>8, <2>1 DEF IsInjective
<1>11. ASSUME NEW p \in N, NEW j \in DOMAIN q, Key(q[j]) = Key(p)
       PROVE  \E i \in DOMAIN m.papers : i <= j /\ Key(m.papers[i]) = Key(p)
  <2>1. PICK i \in DOMAIN m.keys : i <= j /\ m.keys[i] = Key(p)
    BY <1>7, <1>11
  <2> QED BY <1>7, <1>8, <2>1
<1> QED BY <1>6, <1>9, <1>10, <1>11

\* --------------------------------------------------------------------------
\* Candidates.

\* The same paper, but for what the scorer says.
Like(x, r) == x.id = r.id /\ Key(x) = Key(r) /\ x.title = r.title
StemsFrom(s, q) == \A x \in ToSet(s) : \E r \in ToSet(q) : Like(x, r)

LEMMA ConcatElements ==
  ASSUME NEW T, NEW q \in Seq(T), NEW r \in Seq(T)
  PROVE  q \o r \in Seq(T) /\ ToSet(q \o r) = ToSet(q) \union ToSet(r)
<1> DEFINE w == q \o r
<1>1. /\ w \in Seq(T) /\ DOMAIN w = 1 .. Len(q) + Len(r)
      /\ Len(q) \in Nat /\ Len(r) \in Nat /\ DOMAIN q = 1 .. Len(q) /\ DOMAIN r = 1 .. Len(r)
      /\ \A j \in 1 .. Len(q) : w[j] = q[j]
      /\ \A j \in 1 .. Len(r) : w[Len(q) + j] = r[j]
  OBVIOUS
<1> HIDE DEF w
<1>2. \A j \in 1 .. Len(q) + Len(r) : j \in 1 .. Len(q) \/ \E k \in 1 .. Len(r) : j = Len(q) + k
  <2> SUFFICES ASSUME NEW j \in 1 .. Len(q) + Len(r), j \notin 1 .. Len(q)
               PROVE  \E k \in 1 .. Len(r) : j = Len(q) + k
    OBVIOUS
  <2>1. j - Len(q) \in 1 .. Len(r) /\ j = Len(q) + (j - Len(q))
    BY <1>1
  <2> QED BY <2>1
<1>3. \A j \in 1 .. Len(q) : j \in DOMAIN w
  BY <1>1
<1>4. \A j \in 1 .. Len(r) : Len(q) + j \in DOMAIN w
  BY <1>1
<1>5. ASSUME NEW x \in ToSet(w) PROVE x \in ToSet(q) \union ToSet(r)
  <2>1. PICK j \in DOMAIN w : x = w[j]
    BY <1>1, ElementsOf
  <2>2. CASE j \in 1 .. Len(q)
    <3>1. x = q[j]
      BY <1>1, <2>1, <2>2
    <3> QED BY <1>1, <2>2, <3>1, ElementsOf
  <2>3. CASE j \notin 1 .. Len(q)
    <3>1. PICK k \in 1 .. Len(r) : j = Len(q) + k
      BY <1>1, <1>2, <2>3
    <3>2. x = r[k]
      BY <1>1, <2>1, <3>1
    <3> QED BY <1>1, <3>2, ElementsOf
  <2> QED BY <2>2, <2>3
<1>6. ASSUME NEW x \in ToSet(q) PROVE x \in ToSet(w)
  <2>1. PICK j \in DOMAIN q : x = q[j]
    BY ElementsOf
  <2>2. x = w[j] /\ j \in DOMAIN w
    BY <1>1, <1>3, <2>1
  <2> QED BY <1>1, <2>2, ElementsOf
<1>7. ASSUME NEW x \in ToSet(r) PROVE x \in ToSet(w)
  <2>1. PICK j \in DOMAIN r : x = r[j]
    BY ElementsOf
  <2>2. x = w[Len(q) + j] /\ Len(q) + j \in DOMAIN w
    BY <1>1, <1>4, <2>1
  <2> QED BY <1>1, <2>2, ElementsOf
<1> QED BY <1>1, <1>5, <1>6, <1>7 DEF w

LEMMA ByIdFacts ==
  ASSUME NEW q \in Seq(PaperRecords), NEW i \in DOMAIN q
  PROVE  /\ ById(q, q[i].id) \in ToSet(q) /\ ById(q, q[i].id) \in PaperRecords
         /\ ById(q, q[i].id).id = q[i].id
<1> DEFINE S == {k \in DOMAIN q : q[k].id = q[i].id}
<1>1. S \in SUBSET (1 .. Len(q)) /\ S # {} /\ Len(q) \in Nat
  OBVIOUS
<1>2. Max(S) \in S
  <2> HIDE DEF S
  <2> QED BY <1>1, LastPosition
<1>3. ById(q, q[i].id) = q[Max(S)]
  BY DEF ById
<1> QED BY <1>2, <1>3, ElementsOf

LEMMA ScoreFacts ==
  ASSUME NEW q \in Seq(PaperRecords)
  PROVE  /\ Score(q) \in Seq(PaperRecords) /\ DOMAIN Score(q) = DOMAIN q
         /\ \A i \in DOMAIN q : Score(q)[i] \in PaperRecords /\ Like(Score(q)[i], q[i])
         /\ StemsFrom(Score(q), q)
<1>1. ASSUME NEW i \in DOMAIN q
      PROVE  Score(q)[i] \in PaperRecords /\ Like(Score(q)[i], q[i])
  <2> DEFINE p == q[i]
             s == ById(q, p.id).score
             x == [p EXCEPT !.quality = s]
  <2>1. p \in PaperRecords
    OBVIOUS
  <2>2. s \in Int
    BY ByIdFacts DEF PaperRecords
  <2>3. Score(q)[i] = x
    BY DEF Score
  <2> HIDE DEF p, s
  <2>4. /\ x \in PaperRecords /\ x.id = p.id /\ x.title = p.title
        /\ x.doi = p.doi /\ x.arxiv = p.arxiv /\ x.url = p.url
    BY <2>1, <2>2 DEF PaperRecords
  <2> HIDE DEF x
  <2>5. Key(x) = Key(p)
    BY <2>4 DEF Key
  <2> QED BY <2>3, <2>4, <2>5 DEF Like, p
<1>2. DOMAIN Score(q) = DOMAIN q /\ Score(q) \in Seq(PaperRecords)
  <2>1. DOMAIN Score(q) = 1 .. Len(q) /\ Len(q) \in Nat /\ DOMAIN q = 1 .. Len(q)
    BY DEF Score
  <2>2. Score(q) \in [1 .. Len(q) -> PaperRecords]
    <3>1. Score(q) = [i \in DOMAIN q |-> Score(q)[i]]
      BY DEF Score
    <3> QED BY <1>1, <2>1, <3>1
  <2> QED BY <2>1, <2>2
<1>3. StemsFrom(Score(q), q)
  <2> SUFFICES ASSUME NEW x \in ToSet(Score(q)) PROVE \E r \in ToSet(q) : Like(x, r)
    BY DEF StemsFrom
  <2>1. PICK i \in DOMAIN Score(q) : x = Score(q)[i]
    BY <1>2, ElementsOf
  <2>2. i \in DOMAIN q /\ q[i] \in ToSet(q)
    BY <1>2, <2>1, ElementsOf
  <2> QED BY <1>1, <2>1, <2>2
<1> QED BY <1>1, <1>2, <1>3

\* Ranking is by a strict order, so that it loses nothing and adds nothing.
LEMMA RankFacts ==
  ASSUME NEW q \in Seq(PaperRecords)
  PROVE  Rank(q) \in Seq(PaperRecords) /\ StemsFrom(Rank(q), q)
<1> DEFINE s == Score(q)
           D == DOMAIN q
           Before(i, j) ==
             \/ s[i].quality > s[j].quality
             \/ s[i].quality = s[j].quality /\ (s[i].text > 0 /\ s[j].text = 0)
             \/ s[i].quality = s[j].quality /\ (s[i].text > 0 <=> s[j].text > 0) /\ i < j
           R == {p \in D \X D : Before(p[1], p[2])}
<1>1. Rank(q) = [n \in D |-> s[Nth(D, R, n)]]
  BY DEF Rank
<1>2. D = 1 .. Len(q) /\ Len(q) \in Nat
  OBVIOUS
<1>3. \A i \in D : s[i] \in PaperRecords /\ s[i].quality \in Int /\ s[i].text \in Nat
  <2>1. \A i \in D : s[i] \in PaperRecords
    BY ScoreFacts
  <2> HIDE DEF s, D
  <2> QED BY <2>1 DEF PaperRecords
<1>4. \A i, j \in D : <<i, j>> \in R <=> Before(i, j)
  <2> HIDE DEF s, D
  <2> QED OBVIOUS
<1> HIDE DEF R
<1>5. StrictOrder(D, R)
  <2>1. \A i \in D : i \in Int
    BY <1>2
  <2> HIDE DEF s, D
  <2>2. \A i \in D : ~Before(i, i)
    BY <1>3, <2>1
  <2>3. \A i, j, k \in D : Before(i, j) /\ Before(j, k) => Before(i, k)
    BY <1>3, <2>1
  <2>4. \A i, j \in D : i # j => Before(i, j) \/ Before(j, i)
    BY <1>3, <2>1
  <2> HIDE DEF Before
  <2> QED BY <1>4, <2>2, <2>3, <2>4 DEF StrictOrder
<1>6. IsFiniteSet(D) /\ Cardinality(D) = Len(q)
  BY <1>2, FS_Interval
<1>7. \A n \in D : Nth(D, R, n) \in D
  <2> HIDE DEF s, D
  <2> QED BY <1>2, <1>5, <1>6, NthFacts
<1>8. Rank(q) \in Seq(PaperRecords)
  <2>1. Rank(q) \in [1 .. Len(q) -> PaperRecords]
    <3> HIDE DEF s
    <3> QED BY <1>1, <1>2, <1>3, <1>7
  <2> QED BY <1>2, <2>1
<1>9. StemsFrom(Rank(q), q)
  <2> SUFFICES ASSUME NEW x \in ToSet(Rank(q)) PROVE \E r \in ToSet(q) : Like(x, r)
    BY DEF StemsFrom
  <2>1. PICK n \in DOMAIN Rank(q) : x = Rank(q)[n]
    BY <1>8, ElementsOf
  <2>2. n \in D /\ x = s[Nth(D, R, n)]
    <3> HIDE DEF s
    <3> QED BY <1>1, <2>1
  <2>3. Like(x, q[Nth(D, R, n)])
    BY <1>7, <2>2, ScoreFacts
  <2>4. q[Nth(D, R, n)] \in ToSet(q)
    BY <1>7, <2>2, ElementsOf
  <2> QED BY <2>3, <2>4
<1> QED BY <1>8, <1>9

LEMMA NamedFacts ==
  ASSUME NEW q \in Seq(PaperRecords), NEW S
  PROVE  /\ Named(q, S) \in Seq(PaperRecords)
         /\ ToSet(Named(q, S)) = {x \in ToSet(q) : x.id \in S}
<1> DEFINE P == {i \in DOMAIN q : q[i].id \in S}
<1>1. Named(q, S) = At(q, P)
  BY DEF Named
<1>2. P \intersect DOMAIN q = P /\ \A i \in P : i \in DOMAIN q /\ q[i].id \in S
  OBVIOUS
<1>3. \A i \in DOMAIN q : q[i].id \in S => i \in P
  OBVIOUS
<1> HIDE DEF P
<1>4. Named(q, S) \in Seq(PaperRecords) /\ ToSet(Named(q, S)) = {q[i] : i \in P}
  BY <1>1, <1>2, AtElements
<1>5. ASSUME NEW x \in {q[i] : i \in P} PROVE x \in ToSet(q) /\ x.id \in S
  BY <1>2, <1>5, ElementsOf
<1>6. ASSUME NEW x \in ToSet(q), x.id \in S PROVE x \in {q[i] : i \in P}
  <2>1. PICK i \in DOMAIN q : x = q[i]
    BY ElementsOf
  <2> QED BY <1>3, <1>6, <2>1
<1> QED BY <1>4, <1>5, <1>6

LEMMA RestoreFacts ==
  ASSUME NEW q \in Seq(PaperRecords), NEW o \in Seq(PaperRecords), NEW S
  PROVE  /\ RestoreSeeds(S, q, o) \in Seq(PaperRecords)
         /\ ToSet(RestoreSeeds(S, q, o)) \subseteq ToSet(Named(o, S)) \union ToSet(q)
<1>1. CASE S = {}
  BY <1>1 DEF RestoreSeeds
<1>2. CASE S # {}
  <2> DEFINE w == Named(o, S) \o q
  <2>1. w \in Seq(PaperRecords) /\ ToSet(w) = ToSet(Named(o, S)) \union ToSet(q)
    BY NamedFacts, ConcatElements
  <2>2. RestoreSeeds(S, q, o) = DedupSources(w)
    BY <1>2 DEF RestoreSeeds
  <2> HIDE DEF w
  <2> QED BY <2>1, <2>2, DedupFacts
<1> QED BY <1>1, <1>2

\* The candidates stem from the papers without duplicates, and the seeds are put
\* before what is left of these.
LEMMA CandidateFacts ==
  ASSUME NEW S, NEW raw \in Seq(PaperRecords)
  PROVE  /\ \E g \in Seq(PaperRecords) :
              /\ StemsFrom(g, DedupSources(raw))
              /\ Candidates(S, raw) = RestoreSeeds(S, g, DedupSources(raw))
         /\ Candidates(S, raw) \in Seq(PaperRecords)
         /\ StemsFrom(Candidates(S, raw), DedupSources(raw))
<1> DEFINE U == DedupSources(raw)
           e == RestoreSeeds(S, FilterForTask(U), U)
           k == Rank(e)
           g == LocalGate(k)
<1>1. U \in Seq(PaperRecords)
  BY DedupFacts
<1> HIDE DEF U
<1>2. FilterForTask(U) \in Seq(PaperRecords) /\ ToSet(FilterForTask(U)) \subseteq ToSet(U)
  BY <1>1, AtElements DEF FilterForTask
<1>3. e \in Seq(PaperRecords) /\ ToSet(e) \subseteq ToSet(U)
  BY <1>1, <1>2, RestoreFacts, NamedFacts
<1> HIDE DEF e
<1>4. k \in Seq(PaperRecords) /\ StemsFrom(k, e)
  BY <1>3, RankFacts
<1> HIDE DEF k
<1>5. g \in Seq(PaperRecords) /\ ToSet(g) \subseteq ToSet(k)
  BY <1>4, AtElements DEF LocalGate
<1> HIDE DEF g
<1>6. StemsFrom(g, U)
  BY <1>3, <1>4, <1>5 DEF StemsFrom
<1>7. Candidates(S, raw) = RestoreSeeds(S, g, U)
  BY DEF Candidates, g, k, e, U
<1>8. \A x \in ToSet(U) : Like(x, x)
  BY DEF Like
<1>9. /\ RestoreSeeds(S, g, U) \in Seq(PaperRecords)
      /\ \A x \in ToSet(RestoreSeeds(S, g, U)) : x \in ToSet(U) \/ x \in ToSet(g)
  BY <1>1, <1>5, RestoreFacts, NamedFacts
<1>10. StemsFrom(RestoreSeeds(S, g, U), U)
  BY <1>6, <1>8, <1>9 DEF StemsFrom
<1> QED BY <1>5, <1>6, <1>7, <1>9, <1>10 DEF U

\* Seeds that clash with nothing are candidates, each with one place.
LEMMA SeedsAreCandidates ==
  ASSUME NEW S, S # {}, NEW raw \in Seq(PaperRecords),
         NoClash(ToSet(Named(DedupSources(raw), S)), DedupSources(raw))
  PROVE  /\ \A p \in ToSet(Named(DedupSources(raw), S)) :
              \E x \in ToSet(Named(Candidates(S, raw), S)) : x.id = p.id
         /\ IsInjective(IdsOf(Named(Candidates(S, raw), S)))
<1> DEFINE U == DedupSources(raw)
           N == ToSet(Named(U, S))
           C == Candidates(S, raw)
<1>1. PICK g \in Seq(PaperRecords) : StemsFrom(g, U) /\ C = RestoreSeeds(S, g, U)
  BY CandidateFacts
<1>2. U \in Seq(PaperRecords) /\ C \in Seq(PaperRecords)
  BY DedupFacts, CandidateFacts
<1>3. NoClash(N, U)
  OBVIOUS
<1> HIDE DEF U, C
<1>4. Named(U, S) \in Seq(PaperRecords) /\ N = {x \in ToSet(U) : x.id \in S}
  BY <1>2, NamedFacts
<1> DEFINE X == Named(U, S) \o g
<1>5. X \in Seq(PaperRecords) /\ ToSet(X) = N \union ToSet(g) /\ C = DedupSources(X)
  BY <1>1, <1>4, ConcatElements DEF RestoreSeeds
<1> HIDE DEF N, X
<1>6. \A x \in ToSet(X) : \E u \in ToSet(U) : Like(x, u)
  <2>1. \A x \in N : x \in ToSet(U) /\ Like(x, x)
    BY <1>4 DEF Like
  <2> QED BY <1>1, <1>5, <2>1 DEF StemsFrom
<1>7. NoClash(N, X)
  <2> SUFFICES ASSUME NEW p \in N, NEW x \in ToSet(X) PROVE ~Clash(p, x)
    BY DEF NoClash
  <2>1. PICK u \in ToSet(U) : Like(x, u)
    BY <1>6
  <2>2. ~Clash(p, u)
    BY <1>3 DEF NoClash
  <2> QED BY <2>1, <2>2 DEF Like, Clash
<1>8. ToSet(C) \subseteq ToSet(X)
  BY <1>5, DedupFacts
<1>9. \A i \in DOMAIN C : C[i] \in ToSet(C) /\ C[i] \in ToSet(X)
  BY <1>2, <1>8, ElementsOf
<1>10. ToSet(Named(C, S)) = {x \in ToSet(C) : x.id \in S}
  BY <1>2, NamedFacts
<1>11. ASSUME NEW p \in N PROVE \E x \in ToSet(Named(C, S)) : x.id = p.id
  <2>1. p \in ToSet(X) /\ p.id \in S
    BY <1>4, <1>5
  <2>2. PICK i \in DOMAIN C : Key(C[i]) = Key(p)
    BY <1>5, <1>7, <2>1, DedupKeeps
  <2>3. C[i].id = p.id
    BY <1>7, <1>9, <2>2 DEF NoClash, Clash
  <2> QED BY <1>9, <1>10, <2>1, <2>3
<1>12. ASSUME NEW i \in DOMAIN C, NEW j \in DOMAIN C, C[i].id \in S, C[i].id = C[j].id PROVE i = j
  <2>1. PICK u \in ToSet(U) : Like(C[i], u)
    BY <1>6, <1>9
  <2>2. u \in N /\ u.id = C[i].id
    BY <1>4, <1>12, <2>1 DEF Like
  <2>3. Key(C[i]) = Key(u) /\ Key(C[j]) = Key(u)
    <3>1. ~Clash(u, C[j]) /\ u.id = C[j].id
      BY <1>7, <1>9, <1>12, <2>2 DEF NoClash
    <3> QED BY <2>1, <3>1 DEF Clash, Like
  <2> QED BY <1>5, <1>7, <2>2, <2>3, DedupKeeps
<1> DEFINE P == {i \in DOMAIN C : C[i].id \in S}
           r == At(C, P)
<1>13. Named(C, S) = r
  BY DEF Named
<1>14. PICK f : Picks(f, C, P)
  BY <1>2, AtFacts
<1>15. \A i \in P \intersect DOMAIN C : i \in DOMAIN C /\ C[i].id \in S
  OBVIOUS
<1> HIDE DEF P
<1>16. IsInjective(IdsOf(r))
  <2>1. DOMAIN IdsOf(r) = DOMAIN r /\ \A k \in DOMAIN r : IdsOf(r)[k] = r[k].id
    BY DEF IdsOf
  <2>2. ASSUME NEW k \in DOMAIN r, NEW l \in DOMAIN r, r[k].id = r[l].id PROVE k = l
    <3>1. /\ f[k] \in P \intersect DOMAIN C /\ f[l] \in P \intersect DOMAIN C
          /\ r[k] = C[f[k]] /\ r[l] = C[f[l]]
      BY <1>14 DEF Picks
    <3>2. f[k] = f[l]
      BY <1>12, <1>15, <2>2, <3>1
    <3> QED BY <1>14, <3>2 DEF Picks
  <2> HIDE DEF r
  <2> QED BY <2>1, <2>2 DEF IsInjective
<1> QED BY <1>11, <1>13, <1>16 DEF N, U, C

\* --------------------------------------------------------------------------
\* The choice.
LEMMA IdsFacts ==
  ASSUME NEW q \in Seq(PaperRecords)
  PROVE  /\ IdsOf(q) \in Seq(ToSet(IdsOf(q))) /\ IdsOf(q) \in Seq(STRING)
         /\ ToSet(IdsOf(q)) = {x.id : x \in ToSet(q)}
         /\ \A i \in DOMAIN q : q[i].id \in ToSet(IdsOf(q))
         /\ \A id \in ToSet(IdsOf(q)) : \E i \in DOMAIN q : id = q[i].id
<1> DEFINE r == IdsOf(q)
<1>1. DOMAIN r = DOMAIN q /\ \A i \in DOMAIN q : r[i] = q[i].id
  BY DEF IdsOf
<1>2. r \in Seq(STRING)
  <2>1. \A i \in DOMAIN q : q[i].id \in STRING
    <3>1. \A i \in DOMAIN q : q[i] \in PaperRecords
      OBVIOUS
    <3> QED BY <3>1 DEF PaperRecords
  <2>2. r \in [1 .. Len(q) -> STRING] /\ Len(q) \in Nat
    <3>1. r = [i \in 1 .. Len(q) |-> q[i].id] /\ DOMAIN q = 1 .. Len(q) /\ Len(q) \in Nat
      BY DEF IdsOf
    <3> HIDE DEF r
    <3> QED BY <2>1, <3>1
  <2> HIDE DEF r
  <2> QED BY <2>2
<1> HIDE DEF r
<1>3. r \in Seq(ToSet(r)) /\ \A i \in DOMAIN r : r[i] \in ToSet(r)
  BY <1>2, ElementsOf
<1>4. \A id \in ToSet(r) : \E i \in DOMAIN q : id = q[i].id
  BY <1>1, <1>2, ElementsOf
<1>5. ToSet(r) = {x.id : x \in ToSet(q)}
  <2>1. ASSUME NEW id \in ToSet(r) PROVE id \in {x.id : x \in ToSet(q)}
    BY <1>4, ElementsOf
  <2>2. ASSUME NEW x \in ToSet(q) PROVE x.id \in ToSet(r)
    BY <1>1, <1>3, ElementsOf
  <2> QED BY <2>1, <2>2
<1> QED BY <1>1, <1>2, <1>3, <1>4, <1>5 DEF r

LEMMA PickType ==
  ASSUME NEW q \in Seq(PaperRecords), NEW count, NEW b, NEW chosen \in Seq(ToSet(IdsOf(q)))
  PROVE  Pick(q, count, chosen, b) \in Seq(ToSet(IdsOf(q)))
<1> DEFINE S == Missing(q, chosen, b)
           a == At(q, S)
<1>1. CASE Len(chosen) < count /\ S # {}
  <2>1. S \intersect DOMAIN q # {}
    BY <1>1 DEF Missing
  <2>2. PICK f : Picks(f, q, S)
    BY AtFacts
  <2>3. a \in Seq(PaperRecords) /\ DOMAIN a # {}
    <3>1. \E k : k \in DOMAIN a
      BY <2>1, <2>2 DEF Picks
    <3>2. a \in Seq(PaperRecords)
      BY AtElements
    <3> QED BY <3>1, <3>2
  <2>4. 1 \in DOMAIN a
    <3> HIDE DEF a
    <3> QED BY <2>3
  <2>5. a[1] \in ToSet(q)
    <3>1. ToSet(a) \subseteq ToSet(q)
      BY AtElements
    <3>2. a[1] \in ToSet(a)
      BY <2>3, <2>4, ElementsOf
    <3> QED BY <3>1, <3>2
  <2>6. a[1].id \in ToSet(IdsOf(q))
    BY <2>5, IdsFacts
  <2>7. Pick(q, count, chosen, b) = Append(chosen, a[1].id)
    BY <1>1 DEF Pick
  <2> HIDE DEF a
  <2> QED BY <2>6, <2>7
<1>2. CASE ~(Len(chosen) < count /\ S # {})
  BY <1>2 DEF Pick
<1> QED BY <1>1, <1>2

\* The rounds pick ids of the papers.
LEMMA PicksType ==
  ASSUME NEW q \in Seq(PaperRecords), NEW count
  PROVE  \A n \in 0 .. Len(q) * Len(Buckets) : PicksUpTo(q, count)[n] \in Seq(ToSet(IdsOf(q)))
<1> DEFINE N == Len(q) * Len(Buckets)
           V == Seq(ToSet(IdsOf(q)))
           a == <<>>
           B(n) == Buckets[((n - 1) % Len(Buckets)) + 1]
           G == [n \in 1 .. N |-> [c \in V |-> Pick(q, count, c, B(n))]]
<1>1. N \in Nat /\ a \in V
  <2>1. Len(q) \in Nat /\ Len(Buckets) = 8
    BY DEF Buckets
  <2> QED BY <2>1
<1>2. G \in [1 .. N -> [V -> V]]
  <2>1. \A n \in 1 .. N : \A c \in V : Pick(q, count, c, B(n)) \in V
    BY PickType
  <2> HIDE DEF V, N, B
  <2> QED BY <2>1
<1> HIDE DEF B
<1>3. PICK f \in [0 .. N -> V] : f[0] = a /\ \A k \in 1 .. N : f[k] = G[k][f[k - 1]]
  <2> HIDE DEF G, N, V, a
  <2>1. Solved(N, V, a, G)
    BY <1>1, <1>2, Iterate, Zenon
  <2> QED BY <2>1 DEF Solved
<1>4. ASSUME NEW n \in 0 .. N
      PROVE  f[n] = IF n = 0 THEN <<>> ELSE Pick(q, count, f[n - 1], B(n))
  <2> HIDE DEF V
  <2>1. CASE n = 0
    BY <1>3, <2>1
  <2>2. CASE n # 0
    <3> HIDE DEF N
    <3>1. n \in 1 .. N /\ n - 1 \in 0 .. N
      BY <1>1, <2>2
    <3>2. f[n - 1] \in V /\ f[n] = G[n][f[n - 1]]
      BY <1>3, <3>1
    <3> QED BY <2>2, <3>1, <3>2
  <2> QED BY <2>1, <2>2
<1>5. f = [n \in 0 .. N |-> IF n = 0 THEN <<>> ELSE Pick(q, count, f[n - 1], B(n))]
  <2> HIDE DEF V, N
  <2> QED BY <1>3, <1>4
<1>6. PicksUpTo(q, count) =
        [n \in 0 .. Len(q) * Len(Buckets) |->
           IF n = 0 THEN <<>>
           ELSE Pick(q, count, PicksUpTo(q, count)[n - 1], Buckets[((n - 1) % Len(Buckets)) + 1])]
  BY <1>5, Zenon DEF PicksUpTo, B
<1> DEFINE w == PicksUpTo(q, count)
<1>7. w = [n \in 0 .. N |-> IF n = 0 THEN <<>> ELSE Pick(q, count, w[n - 1], B(n))]
  BY <1>6 DEF B
<1> HIDE DEF w, N, V
<1>8. w[0] = <<>> /\ \A n \in 1 .. N : w[n] = Pick(q, count, w[n - 1], B(n))
  <2>1. 0 \in 0 .. N /\ \A n \in 1 .. N : n \in 0 .. N /\ n # 0
    BY <1>1
  <2> QED BY <1>7, <2>1
<1>9. \A n \in 0 .. N : w[n] \in V
  <2> DEFINE D == {n \in 0 .. N : w[n] \in V}
  <2>1. 0 \in D
    <3>1. 0 \in 0 .. N
      BY <1>1
    <3> QED BY <1>1, <1>8, <3>1
  <2>2. ASSUME NEW n \in 1 .. N, n - 1 \in D PROVE n \in D
    <3>1. w[n - 1] \in V /\ n \in 0 .. N
      BY <1>1, <2>2
    <3>2. w[n] \in V
      BY <1>8, <3>1, PickType DEF V
    <3> QED BY <3>1, <3>2
  <2> HIDE DEF D
  <2>3. \A n \in 0 .. N : n \in D
    BY <1>1, <2>1, <2>2, UpTo
  <2> QED BY <2>3 DEF D
<1> QED BY <1>9 DEF w, N, V

LEMMA StratifiedType ==
  ASSUME NEW q \in Seq(PaperRecords), NEW count
  PROVE  StratifiedIds(q, count) \in Seq(ToSet(IdsOf(q)))
<1> DEFINE T == ToSet(IdsOf(q))
           rounds == PicksUpTo(q, count)[Len(q) * Len(Buckets)]
           all == rounds \o IdsOf(q)
<1>1. rounds \in Seq(T)
  <2>1. Len(q) * Len(Buckets) \in 0 .. Len(q) * Len(Buckets)
    <3>1. Len(q) \in Nat /\ Len(Buckets) = 8
      BY DEF Buckets
    <3> QED BY <3>1
  <2> QED BY <2>1, PicksType
<1>2. all \in Seq(T)
  <2> HIDE DEF rounds, T
  <2>1. IdsOf(q) \in Seq(T)
    BY IdsFacts DEF T
  <2> QED BY <1>1, <2>1
<1>3. StratifiedIds(q, count) = First(Distinct(all), count)
  BY DEF StratifiedIds
<1> HIDE DEF T, all
<1> QED BY <1>2, <1>3, DistinctFacts, FirstFacts DEF T

\* Whatever the model or the rules choose, they choose among the papers.
LEMMA ChoiceType ==
  ASSUME NEW q \in Seq(PaperRecords), NEW wanted, NEW comprehensive, NEW mode,
         NEW ids \in IdChoices(q, wanted, comprehensive, mode)
  PROVE  ids \in Seq(ToSet(IdsOf(q)))
<1> DEFINE T == ToSet(IdsOf(q))
<1>1. CASE q = <<>>
  BY <1>1 DEF IdChoices
<1>2. CASE ids = Distinct(IdsOf(q))
  BY <1>2, IdsFacts, DistinctFacts
<1>3. CASE ids = StratifiedIds(q, Suggested(q, wanted, comprehensive))
  BY <1>3, StratifiedType
<1>4. CASE \E answer \in SeqOf(T \union {"unknown"}, MaxWish) \X (0 .. Len(q)) :
             ids = Answered(q, answer[1], answer[2], wanted, comprehensive)
  <2> PICK answer \in SeqOf(T \union {"unknown"}, MaxWish) \X (0 .. Len(q)) :
             ids = Answered(q, answer[1], answer[2], wanted, comprehensive)
    BY <1>4
  <2> DEFINE wish == answer[1]
             n == answer[2]
             count == Max({Minimum(q, wanted, comprehensive), Min({n, Available(q)})})
             P == {i \in DOMAIN wish : wish[i] \in T}
             known == Distinct(At(wish, P))
             fill == StratifiedIds(q, Suggested(q, wanted, comprehensive))
             few == First(known, count)
             all == few \o fill
  <2>1. ids = First(Distinct(all), count)
    BY DEF Answered
  <2>2. wish \in Seq(T \union {"unknown"})
    <3>1. PICK m \in 0 .. MaxWish : wish \in [1 .. m -> T \union {"unknown"}]
      BY DEF SeqOf
    <3>2. m \in Nat
      BY PoolAssumption, <3>1
    <3> QED BY <3>1, <3>2
  <2>3. At(wish, P) \in Seq(T)
    <3>1. At(wish, P) \in Seq(ToSet(At(wish, P)))
      BY <2>2, AtElements, ElementsOf
    <3>2. ToSet(At(wish, P)) = {wish[i] : i \in P \intersect DOMAIN wish}
      BY <2>2, AtElements
    <3>3. ToSet(At(wish, P)) \subseteq T
      BY <3>2
    <3> DEFINE v == At(wish, P)
    <3> HIDE DEF v, T
    <3>4. v \in Seq(T)
      <4>1. v \in Seq(ToSet(v)) /\ ToSet(v) \subseteq T
        BY <3>1, <3>3 DEF v
      <4>2. v \in [1 .. Len(v) -> T] /\ Len(v) \in Nat
        BY <4>1
      <4> QED BY <4>2
    <3> QED BY <3>4 DEF v
  <2> HIDE DEF P, count, T
  <2>4. few \in Seq(T)
    BY <2>3, DistinctFacts, FirstFacts
  <2>5. fill \in Seq(T)
    BY StratifiedType DEF T
  <2> HIDE DEF few, fill
  <2>6. all \in Seq(T)
    BY <2>4, <2>5
  <2> HIDE DEF all
  <2>7. First(Distinct(all), count) \in Seq(T)
    BY <2>6, DistinctFacts, FirstFacts
  <2> QED BY <2>1, <2>7 DEF T
<1>5. CASE q # <<>>
  <2> DEFINE A == {Answered(q, answer[1], answer[2], wanted, comprehensive) :
                     answer \in SeqOf(T \union {"unknown"}, MaxWish) \X (0 .. Len(q))}
  <2>1. ids = Distinct(IdsOf(q)) \/ ids = StratifiedIds(q, Suggested(q, wanted, comprehensive))
        \/ ids \in A
    <3> HIDE DEF A
    <3>1. ids \in IF Len(q) <= Requested(q, wanted) THEN {Distinct(IdsOf(q))}
                  ELSE (IF mode = "only" THEN {}
                        ELSE {StratifiedIds(q, Suggested(q, wanted, comprehensive))})
                       \union (IF mode = "rule" THEN {} ELSE A)
      BY <1>5 DEF IdChoices, A
    <3> QED BY <3>1
  <2>2. CASE ids \in A
    <3>1. \E answer \in SeqOf(T \union {"unknown"}, MaxWish) \X (0 .. Len(q)) :
             ids = Answered(q, answer[1], answer[2], wanted, comprehensive)
      BY <2>2
    <3> QED BY <1>4, <3>1
  <2> HIDE DEF A
  <2> QED BY <1>2, <1>3, <2>1, <2>2
<1> QED BY <1>1, <1>5

LEMMA ChosenFacts ==
  ASSUME NEW q \in Seq(PaperRecords), NEW ids \in Seq(ToSet(IdsOf(q)))
  PROVE  Chosen(q, ids) \in Seq(PaperRecords) /\ ToSet(Chosen(q, ids)) \subseteq ToSet(q)
<1> DEFINE r == Chosen(q, ids)
<1>1. \A k \in DOMAIN ids : ById(q, ids[k]) \in ToSet(q) /\ ById(q, ids[k]) \in PaperRecords
  <2> SUFFICES ASSUME NEW k \in DOMAIN ids
               PROVE  ById(q, ids[k]) \in ToSet(q) /\ ById(q, ids[k]) \in PaperRecords
    OBVIOUS
  <2>1. ids[k] \in ToSet(IdsOf(q))
    OBVIOUS
  <2>2. PICK i \in DOMAIN q : ids[k] = q[i].id
    BY <2>1, IdsFacts
  <2> QED BY <2>2, ByIdFacts
<1>2. r = [k \in DOMAIN ids |-> ById(q, ids[k])] /\ DOMAIN ids = 1 .. Len(ids) /\ Len(ids) \in Nat
  BY DEF Chosen
<1> HIDE DEF r
<1>3. r \in [1 .. Len(ids) -> PaperRecords]
  BY <1>1, <1>2
<1>4. r \in Seq(PaperRecords)
  BY <1>2, <1>3
<1>5. \A x \in ToSet(r) : x \in ToSet(q)
  <2>1. \A x \in ToSet(r) : \E k \in DOMAIN r : x = r[k]
    BY <1>4, ElementsOf
  <2>2. \A k \in DOMAIN r : k \in DOMAIN ids /\ r[k] = ById(q, ids[k])
    BY <1>2
  <2> QED BY <1>1, <2>1, <2>2, Zenon
<1> QED BY <1>4, <1>5 DEF r

LEMMA SelectionFacts ==
  ASSUME NEW q \in Seq(PaperRecords), NEW S, NEW wanted, NEW comprehensive, NEW mode,
         NEW chosen \in Selections(q, S, wanted, comprehensive, mode)
  PROVE  /\ chosen \in Seq(PaperRecords) /\ ToSet(chosen) \subseteq ToSet(q)
         /\ S # {} /\ wanted \in Int /\ Len(Named(q, S)) <= wanted
              => ToSet(Named(q, S)) \subseteq ToSet(chosen)
         /\ S # {} => ToSet(First(Named(q, S), wanted)) \subseteq ToSet(chosen)
<1> DEFINE named == Named(q, S)
           first == First(named, wanted)
           others == At(q, {i \in DOMAIN q : Key(q[i]) \notin {Key(p) : p \in ToSet(first)}})
<1>1. named \in Seq(PaperRecords) /\ ToSet(named) \subseteq ToSet(q)
  BY NamedFacts
<1>2. others \in Seq(PaperRecords) /\ ToSet(others) \subseteq ToSet(q)
  BY AtElements
<1>3. \/ S = {} /\ \E ids \in IdChoices(q, wanted, comprehensive, mode) : chosen = Chosen(q, ids)
      \/ S # {} /\ chosen = first
      \/ S # {} /\ \E ids \in IdChoices(others, wanted - Len(first), comprehensive, mode) :
                     chosen = first \o Chosen(others, ids)
  BY DEF Selections
<1> HIDE DEF named, others
<1>4. /\ first \in Seq(PaperRecords) /\ ToSet(first) \subseteq ToSet(named)
      /\ wanted \in Int /\ Len(named) <= wanted => ToSet(first) = ToSet(named)
  BY <1>1, FirstFacts
<1> HIDE DEF first
<1>5. CASE S = {} /\ \E ids \in IdChoices(q, wanted, comprehensive, mode) : chosen = Chosen(q, ids)
  BY <1>5, ChoiceType, ChosenFacts
<1>6. CASE S # {} /\ chosen = first
  BY <1>1, <1>4, <1>6 DEF named, first
<1>7. CASE S # {} /\ \E ids \in IdChoices(others, wanted - Len(first), comprehensive, mode) :
                       chosen = first \o Chosen(others, ids)
  <2>1. PICK ids \in IdChoices(others, wanted - Len(first), comprehensive, mode) :
               chosen = first \o Chosen(others, ids)
    BY <1>7
  <2>2. Chosen(others, ids) \in Seq(PaperRecords) /\ ToSet(Chosen(others, ids)) \subseteq ToSet(others)
    BY <1>2, ChoiceType, ChosenFacts
  <2>3. /\ chosen \in Seq(PaperRecords)
        /\ ToSet(chosen) = ToSet(first) \union ToSet(Chosen(others, ids))
    BY <1>4, <2>1, <2>2, ConcatElements
  <2> QED BY <1>1, <1>2, <1>4, <2>2, <2>3 DEF named, first
<1> QED BY <1>3, <1>5, <1>6, <1>7

\* --------------------------------------------------------------------------
\* The seeds in the pool.
LEMMA Extremes ==
  ASSUME NEW a \in Int, NEW b \in Int
  PROVE  /\ Max({a, b}) \in {a, b} /\ Max({a, b}) >= a /\ Max({a, b}) >= b
         /\ Min({a, b}) \in {a, b} /\ Min({a, b}) <= a /\ Min({a, b}) <= b
<1>1. \E x \in {a, b} : \A y \in {a, b} : x >= y
  OBVIOUS
<1>2. Max({a, b}) \in {a, b} /\ \A y \in {a, b} : Max({a, b}) >= y
  BY <1>1 DEF Max
<1>3. \E x \in {a, b} : \A y \in {a, b} : x <= y
  OBVIOUS
<1>4. Min({a, b}) \in {a, b} /\ \A y \in {a, b} : Min({a, b}) <= y
  BY <1>3 DEF Min
<1> QED BY <1>2, <1>4

\* A sequence without repetitions is no longer than one that has all its elements.
AmongFirst(q, g, n) == \A x \in ToSet(q) : \E i \in 1 .. n : g[i] = x

LEMMA NoLonger ==
  ASSUME NEW T, NEW q \in Seq(T), IsInjective(q), NEW n \in Nat, NEW g, AmongFirst(q, g, n)
  PROVE  Len(q) <= n
<1> DEFINE S == ToSet(q)
           at == [x \in S |-> CHOOSE i \in 1 .. n : g[i] = x]
           f == [k \in DOMAIN q |-> at[q[k]]]
<1>1. DOMAIN q = 1 .. Len(q) /\ Len(q) \in Nat /\ \A k \in DOMAIN q : q[k] \in S
  BY ElementsOf
<1>2. \A x \in S : at[x] \in 1 .. n /\ g[at[x]] = x
  BY DEF AmongFirst
<1> HIDE DEF at, S
<1>3. f \in [DOMAIN q -> 1 .. n] /\ \A k \in DOMAIN q : g[f[k]] = q[k]
  BY <1>1, <1>2
<1> HIDE DEF f
<1>4. \A k, l \in DOMAIN q : f[k] = f[l] => k = l
  BY <1>3 DEF IsInjective
<1>5. f \in Injection(1 .. Len(q), 1 .. n)
  BY <1>1, <1>3, <1>4 DEF Injection, IsInjective
<1>6. /\ IsFiniteSet(1 .. n) /\ Cardinality(1 .. n) = n
      /\ Cardinality(1 .. Len(q)) = Len(q)
  <2>1. ASSUME NEW m \in Nat PROVE IsFiniteSet(1 .. m) /\ Cardinality(1 .. m) = m
    <3>1. 1 \in Int /\ m \in Int
      OBVIOUS
    <3>2. IsFiniteSet(1 .. m) /\ Cardinality(1 .. m) = IF 1 > m THEN 0 ELSE m - 1 + 1
      BY <3>1, FS_Interval
    <3> QED BY <3>2
  <2> QED BY <1>1, <2>1
<1>7. Cardinality(1 .. Len(q)) <= Cardinality(1 .. n)
  BY <1>5, <1>6, FS_Injection
<1> QED BY <1>6, <1>7

LEMMA PapersAreRecords ==
  /\ Papers \subseteq PaperRecords /\ IsFiniteSet(Papers)
  /\ \A q \in Seq(Papers) : q \in Seq(PaperRecords)
<1>1. Papers \subseteq PaperRecords /\ IsFiniteSet(Papers)
  BY DataAssumption
<1>2. \A q \in Seq(Papers) : q \in Seq(PaperRecords)
  BY <1>1
<1> QED BY <1>1, <1>2

IdsIn(q) == {p.id : p \in ToSet(q)}

\* Named papers that clash with nothing are kept: they are candidates with one place
\* each, so there are no more of them than there is room.
LEMMA SeedsHaveRoom ==
  ASSUME NEW sd \in Seq(Papers), NEW fd \in Seq(Papers), NEW comprehensive, NEW mode,
         NEW room \in Int, Len(sd) <= room,
         NEW chosen \in Selections(Candidates(IdsIn(sd), sd \o fd), IdsIn(sd), room, comprehensive, mode),
         NoClash(ToSet(Named(DedupSources(sd \o fd), IdsIn(sd))), DedupSources(sd \o fd))
  PROVE  ToSet(IdsOf(Named(DedupSources(sd \o fd), IdsIn(sd)))) \subseteq ToSet(IdsOf(chosen))
<1> DEFINE S == IdsIn(sd)
           raw == sd \o fd
           U == DedupSources(raw)
           C == Candidates(S, raw)
           named == Named(C, S)
<1>1. raw \in Seq(PaperRecords)
  <2>1. raw \in Seq(Papers)
    OBVIOUS
  <2> QED BY <2>1, PapersAreRecords
<1> HIDE DEF raw
<1>2. U \in Seq(PaperRecords) /\ C \in Seq(PaperRecords)
  BY <1>1, DedupFacts, CandidateFacts
<1>3. NoClash(ToSet(Named(U, S)), U)
  BY DEF raw
<1>4. chosen \in Selections(C, S, room, comprehensive, mode)
  BY DEF raw
<1> HIDE DEF C, S
<1>5. chosen \in Seq(PaperRecords)
  BY <1>2, <1>4, SelectionFacts
<1>6. Named(U, S) \in Seq(PaperRecords) /\ named \in Seq(PaperRecords)
  BY <1>2, NamedFacts
<1> SUFFICES ASSUME NEW id \in ToSet(IdsOf(Named(U, S))) PROVE id \in ToSet(IdsOf(chosen))
  BY DEF U, S, raw
<1>7. PICK p \in ToSet(Named(U, S)) : id = p.id
  BY <1>6, IdsFacts
<1>8. S # {}
  <2>1. p.id \in S
    BY <1>2, NamedFacts
  <2> QED BY <2>1
<1>9. /\ \A r \in ToSet(Named(U, S)) : \E x \in ToSet(named) : x.id = r.id
      /\ IsInjective(IdsOf(named))
  BY <1>1, <1>3, <1>8, SeedsAreCandidates DEF C
<1>10. Len(named) <= Len(sd)
  <2> DEFINE w == IdsOf(named)
             g == [i \in 1 .. Len(sd) |-> sd[i].id]
  <2>1. w \in Seq(STRING) /\ Len(w) = Len(named) /\ ToSet(w) = {x.id : x \in ToSet(named)}
    <3>1. w \in Seq(STRING) /\ ToSet(w) = {x.id : x \in ToSet(named)}
      BY <1>6, IdsFacts
    <3>2. DOMAIN w = DOMAIN named
      BY DEF IdsOf
    <3> HIDE DEF w, named
    <3>3. Len(w) = Len(named)
      BY <1>6, <3>1, <3>2
    <3> QED BY <3>1, <3>3
  <2>2. Len(sd) \in Nat /\ \A s \in S : \E i \in 1 .. Len(sd) : g[i] = s
    <3>1. \A x \in ToSet(sd) : \E i \in 1 .. Len(sd) : x = sd[i]
      BY ElementsOf
    <3> QED BY <3>1 DEF S, IdsIn
  <2>3. \A x \in ToSet(named) : x.id \in S
    BY <1>2, NamedFacts
  <2> HIDE DEF w, g, named
  <2>4. AmongFirst(w, g, Len(sd))
    BY <2>1, <2>2, <2>3 DEF AmongFirst
  <2>5. IsInjective(w)
    BY <1>9 DEF w
  <2>6. Len(w) <= Len(sd)
    BY <2>1, <2>2, <2>4, <2>5, NoLonger
  <2> QED BY <2>1, <2>6
<1>11. Len(named) <= room
  BY <1>6, <1>10
<1>12. ToSet(named) \subseteq ToSet(chosen)
  BY <1>2, <1>4, <1>8, <1>11, SelectionFacts
<1>13. PICK x \in ToSet(named) : x.id = id
  BY <1>7, <1>9
<1> QED BY <1>5, <1>12, <1>13, IdsFacts

\* A record that stands where the named papers stand and clashes with nothing is kept,
\* whatever becomes of the others: no step moves it behind a place that there is room
\* for.
LEMMA AloneIsKept ==
  ASSUME NEW raw \in Seq(PaperRecords), NEW S, NEW n \in Nat, NEW room \in Int, n <= room,
         NEW comprehensive, NEW mode,
         NEW chosen \in Selections(Candidates(S, raw), S, room, comprehensive, mode),
         NEW p \in ToSet(First(DedupSources(raw), n)), p.id \in S, NoClash({p}, DedupSources(raw))
  PROVE  p.id \in ToSet(IdsOf(chosen))
<1> DEFINE U == DedupSources(raw)
           C == Candidates(S, raw)
<1>1. PICK g \in Seq(PaperRecords) : StemsFrom(g, U) /\ C = RestoreSeeds(S, g, U)
  BY CandidateFacts
<1>2. U \in Seq(PaperRecords) /\ C \in Seq(PaperRecords)
  BY DedupFacts, CandidateFacts
<1>3. NoClash({p}, U) /\ p \in ToSet(First(U, n))
  OBVIOUS
<1>4. chosen \in Selections(C, S, room, comprehensive, mode)
  OBVIOUS
<1> HIDE DEF U, C
<1>5. PICK j \in DOMAIN U : j <= n /\ U[j] = p
  <2>1. ToSet(First(U, n)) = {U[i] : i \in (1 .. n) \intersect DOMAIN U}
    BY <1>2, AtElements DEF First
  <2>2. \A i \in (1 .. n) \intersect DOMAIN U : i <= n
    OBVIOUS
  <2> QED BY <1>3, <2>1, <2>2
<1>6. PICK k \in DOMAIN Named(U, S) : k <= j /\ Named(U, S)[k] = p
  <2> DEFINE P == {i \in DOMAIN U : U[i].id \in S}
  <2>1. j \in P \intersect DOMAIN U /\ Named(U, S) = At(U, P)
    BY <1>5 DEF Named
  <2> HIDE DEF P
  <2>2. \E k \in DOMAIN At(U, P) : k <= j /\ At(U, P)[k] = U[j]
    BY <1>2, <2>1, AtPosition
  <2> QED BY <1>5, <2>1, <2>2
<1>7. Named(U, S) \in Seq(PaperRecords) /\ ToSet(Named(U, S)) = {x \in ToSet(U) : x.id \in S}
  BY <1>2, NamedFacts
<1> DEFINE X == Named(U, S) \o g
<1>8. /\ X \in Seq(PaperRecords) /\ ToSet(X) = ToSet(Named(U, S)) \union ToSet(g)
      /\ C = DedupSources(X)
  BY <1>1, <1>7, ConcatElements DEF RestoreSeeds
<1>9. k \in DOMAIN X /\ X[k] = p
  <2> DEFINE w == Named(U, S)
  <2>1. w \in Seq(PaperRecords) /\ k \in DOMAIN w /\ w[k] = p
    BY <1>6, <1>7
  <2> HIDE DEF w
  <2>2. k \in DOMAIN (w \o g) /\ (w \o g)[k] = p
    BY <1>1, <2>1
  <2> QED BY <2>2 DEF w
<1> HIDE DEF X
<1>10. \A x \in ToSet(X) : \E u \in ToSet(U) : Like(x, u)
  <2>1. \A x \in ToSet(Named(U, S)) : x \in ToSet(U) /\ Like(x, x)
    BY <1>7 DEF Like
  <2> QED BY <1>1, <1>8, <2>1 DEF StemsFrom
<1>11. NoClash({p}, X)
  <2> SUFFICES ASSUME NEW x \in ToSet(X) PROVE ~Clash(p, x)
    BY DEF NoClash
  <2>1. PICK u \in ToSet(U) : Like(x, u)
    BY <1>10
  <2>2. ~Clash(p, u)
    BY <1>3 DEF NoClash
  <2> QED BY <2>1, <2>2 DEF Like, Clash
<1>12. PICK i \in DOMAIN C : i <= k /\ Key(C[i]) = Key(p)
  <2>1. \A r \in {p} : \A l \in DOMAIN X : Key(X[l]) = Key(r)
          => \E i \in DOMAIN DedupSources(X) : i <= l /\ Key(DedupSources(X)[i]) = Key(r)
    BY <1>8, <1>11, DedupKeeps
  <2> QED BY <1>8, <1>9, <2>1
<1>13. C[i].id = p.id
  <2>1. C[i] \in ToSet(X)
    BY <1>2, <1>8, <1>12, DedupFacts, ElementsOf
  <2> QED BY <1>11, <1>12, <2>1 DEF NoClash, Clash
<1>14. PICK l \in DOMAIN Named(C, S) : l <= i /\ Named(C, S)[l] = C[i]
  <2> DEFINE P == {m \in DOMAIN C : C[m].id \in S}
  <2>1. i \in P \intersect DOMAIN C /\ Named(C, S) = At(C, P)
    BY <1>12, <1>13 DEF Named
  <2> HIDE DEF P
  <2>2. \E l \in DOMAIN At(C, P) : l <= i /\ At(C, P)[l] = C[i]
    BY <1>2, <2>1, AtPosition
  <2> QED BY <2>1, <2>2
<1>15. C[i] \in ToSet(First(Named(C, S), room))
  <2> DEFINE w == Named(C, S)
  <2>1. w \in Seq(PaperRecords) /\ l \in DOMAIN w /\ w[l] = C[i]
    BY <1>2, <1>14, NamedFacts
  <2> HIDE DEF w
  <2>2. l \in (1 .. room) \intersect DOMAIN w
    <3>1. l \in Nat /\ l >= 1
      BY <2>1
    <3>2. i \in Int /\ j \in Int /\ k \in Int
      BY <1>2, <1>5, <1>7, <1>6, <1>12
    <3>3. l <= room
      BY <1>5, <1>6, <1>12, <1>14, <3>1, <3>2
    <3> QED BY <2>1, <3>1, <3>3
  <2>3. ToSet(First(w, room)) = {w[m] : m \in (1 .. room) \intersect DOMAIN w}
    BY <2>1, AtElements DEF First
  <2> QED BY <2>1, <2>2, <2>3 DEF w
<1>16. chosen \in Seq(PaperRecords) /\ C[i] \in ToSet(chosen)
  <2>1. S # {}
    OBVIOUS
  <2> QED BY <1>2, <1>4, <1>15, <2>1, SelectionFacts
<1> QED BY <1>13, <1>16, IdsFacts

\* Only papers that were found or named are chosen.
LEMMA PoolIds ==
  ASSUME NEW raw \in Seq(PaperRecords), NEW S, NEW wanted, NEW comprehensive, NEW mode,
         NEW chosen \in Selections(Candidates(S, raw), S, wanted, comprehensive, mode)
  PROVE  chosen \in Seq(PaperRecords) /\ IdsIn(chosen) \subseteq IdsIn(raw)
<1> DEFINE C == Candidates(S, raw)
           U == DedupSources(raw)
<1>1. C \in Seq(PaperRecords) /\ StemsFrom(C, U)
  BY CandidateFacts
<1>2. ToSet(U) \subseteq ToSet(raw)
  BY DedupFacts
<1> HIDE DEF C, U
<1>3. chosen \in Seq(PaperRecords) /\ ToSet(chosen) \subseteq ToSet(C)
  BY <1>1, SelectionFacts DEF C
<1>4. ASSUME NEW x \in ToSet(chosen) PROVE \E r \in ToSet(raw) : x.id = r.id
  BY <1>1, <1>2, <1>3 DEF StemsFrom, Like
<1> QED BY <1>3, <1>4 DEF IdsIn

\* --------------------------------------------------------------------------
\* Cards and sections.
CardRecords ==
  [claim : STRING, theme : STRING, facets : SUBSET STRING, valid : BOOLEAN,
   quotes : SUBSET Nat, source : STRING, place : Nat, confidence : Int]
CardsFrom(papers) == Seq({c \in CardRecords : c.source \in IdsIn(papers)})

LEMMA CardsOfType ==
  ASSUME sources \in Seq(PaperRecords), NEW n \in DOMAIN sources, NEW yield \in Yields
  PROVE  CardsOf(sources[n], yield) \in CardsFrom(sources)
<1> DEFINE T == {c \in CardRecords : c.source \in IdsIn(sources)}
           p == sources[n]
<1>1. p.id \in STRING /\ p.quality \in Int /\ p.id \in IdsIn(sources)
  <2>1. p \in PaperRecords /\ p \in ToSet(sources)
    BY ElementsOf
  <2> QED BY <2>1 DEF PaperRecords, IdsIn
<1>2. yield \in Seq([claim : STRING, theme : STRING, facets : SUBSET STRING, valid : BOOLEAN,
                      quotes : SUBSET Nat])
  BY DataAssumption
<1> HIDE DEF p
<1>3. Len(yield) \in Nat /\ DOMAIN yield = 1 .. Len(yield)
  BY <1>2
<1>4. ASSUME NEW k \in DOMAIN yield
      PROVE  [claim |-> yield[k].claim, theme |-> yield[k].theme, facets |-> yield[k].facets,
              valid |-> yield[k].valid, quotes |-> yield[k].quotes, source |-> p.id, place |-> k,
              confidence |-> p.quality] \in T
  <2>1. yield[k] \in [claim : STRING, theme : STRING, facets : SUBSET STRING, valid : BOOLEAN,
                      quotes : SUBSET Nat]
    <3> DEFINE Y == [claim : STRING, theme : STRING, facets : SUBSET STRING, valid : BOOLEAN,
                     quotes : SUBSET Nat]
    <3>1. yield \in Seq(Y)
      BY <1>2
    <3> HIDE DEF Y
    <3>2. yield[k] \in Y
      BY <3>1
    <3> QED BY <3>2 DEF Y
  <2>2. k \in Nat
    BY <1>3
  <2> QED BY <1>1, <2>1, <2>2 DEF CardRecords
<1> HIDE DEF T
<1>5. CardsOf(p, yield) \in [1 .. Len(yield) -> T]
  BY <1>3, <1>4 DEF CardsOf
<1>6. CardsOf(p, yield) \in Seq(T)
  BY <1>3, <1>5
<1> QED BY <1>6 DEF p, T, CardsFrom

LEMMA CardsType ==
  ASSUME sources \in Seq(PaperRecords), NEW yields \in [DOMAIN sources -> Yields]
  PROVE  CardsUpTo(yields)[Len(sources)] \in CardsFrom(sources)
<1> DEFINE N == Len(sources)
           V == CardsFrom(sources)
           a == <<>>
           B(n) == CardsOf(sources[n], yields[n])
           G == [n \in 1 .. N |-> [c \in V |-> c \o B(n)]]
<1>1. N \in Nat /\ a \in V /\ N \in 0 .. N
  BY DEF CardsFrom
<1>2. ASSUME NEW n \in 1 .. N, NEW c \in V PROVE c \o B(n) \in V
  <2>1. B(n) \in V
    BY CardsOfType
  <2> HIDE DEF B
  <2> QED BY <2>1 DEF CardsFrom
<1> HIDE DEF B
<1>3. G \in [1 .. N -> [V -> V]]
  <2> HIDE DEF V, N
  <2> QED BY <1>2
<1>4. PICK f \in [0 .. N -> V] : f[0] = a /\ \A k \in 1 .. N : f[k] = G[k][f[k - 1]]
  <2> HIDE DEF G, N, V, a
  <2>1. Solved(N, V, a, G)
    BY <1>1, <1>3, Iterate, Zenon
  <2> QED BY <2>1 DEF Solved
<1>5. ASSUME NEW n \in 0 .. N
      PROVE  f[n] = IF n = 0 THEN <<>> ELSE f[n - 1] \o B(n)
  <2> HIDE DEF V
  <2>1. CASE n = 0
    BY <1>4, <2>1
  <2>2. CASE n # 0
    <3> HIDE DEF N
    <3>1. n \in 1 .. N /\ n - 1 \in 0 .. N
      BY <1>1, <2>2
    <3>2. f[n - 1] \in V /\ f[n] = G[n][f[n - 1]]
      BY <1>4, <3>1
    <3> QED BY <2>2, <3>1, <3>2
  <2> QED BY <2>1, <2>2
<1>6. f = [n \in 0 .. N |-> IF n = 0 THEN <<>> ELSE f[n - 1] \o B(n)]
  <2> HIDE DEF V, N
  <2> QED BY <1>4, <1>5
<1>7. CardsUpTo(yields) =
        [n \in 0 .. Len(sources) |->
           IF n = 0 THEN <<>> ELSE CardsUpTo(yields)[n - 1] \o CardsOf(sources[n], yields[n])]
  BY <1>6, Zenon DEF CardsUpTo, B
<1> DEFINE w == CardsUpTo(yields)
<1>8. w = [n \in 0 .. N |-> IF n = 0 THEN <<>> ELSE w[n - 1] \o B(n)]
  BY <1>7 DEF B
<1> HIDE DEF w, N, V
<1>9. w[0] = <<>> /\ \A n \in 1 .. N : w[n] = w[n - 1] \o B(n)
  <2>1. 0 \in 0 .. N /\ \A n \in 1 .. N : n \in 0 .. N /\ n # 0
    BY <1>1
  <2> QED BY <1>8, <2>1
<1>10. \A n \in 0 .. N : w[n] \in V
  <2> DEFINE D == {n \in 0 .. N : w[n] \in V}
  <2>1. 0 \in D
    <3>1. 0 \in 0 .. N
      BY <1>1
    <3> QED BY <1>1, <1>9, <3>1
  <2>2. ASSUME NEW n \in 1 .. N, n - 1 \in D PROVE n \in D
    <3>1. w[n - 1] \in V /\ n \in 0 .. N
      BY <1>1, <2>2
    <3>2. w[n] \in V
      BY <1>2, <1>9, <3>1
    <3> QED BY <3>1, <3>2
  <2> HIDE DEF D
  <2>3. \A n \in 0 .. N : n \in D
    BY <1>1, <2>1, <2>2, UpTo
  <2> QED BY <2>3 DEF D
<1> QED BY <1>1, <1>10 DEF w, N, V

LEMMA Intervals ==
  \A n \in Nat : IsFiniteSet(1 .. n) /\ Cardinality(1 .. n) = n
<1>1. ASSUME NEW n \in Nat PROVE IsFiniteSet(1 .. n) /\ Cardinality(1 .. n) = n
  <2>1. 1 \in Int /\ n \in Int
    OBVIOUS
  <2>2. IsFiniteSet(1 .. n) /\ Cardinality(1 .. n) = IF 1 > n THEN 0 ELSE n - 1 + 1
    BY <2>1, FS_Interval
  <2> QED BY <2>2
<1> QED BY <1>1

\* A sequence has no more elements than positions.
LEMMA ElementCount ==
  ASSUME NEW T, NEW q \in Seq(T)
  PROVE  IsFiniteSet(ToSet(q)) /\ Cardinality(ToSet(q)) <= Len(q)
<1>1. Len(q) \in Nat /\ DOMAIN q = 1 .. Len(q)
  OBVIOUS
<1>2. q \in Surjection(1 .. Len(q), ToSet(q))
  <2>1. \A x \in ToSet(q) : \E i \in 1 .. Len(q) : x = q[i]
    BY <1>1, ElementsOf
  <2>2. q \in [1 .. Len(q) -> ToSet(q)]
    BY <1>1, ElementsOf
  <2> QED BY <2>1, <2>2 DEF Surjection
<1> QED BY <1>1, <1>2, Intervals, FS_Surjection

LEMMA AtLength ==
  ASSUME NEW T, NEW q \in Seq(T), NEW P
  PROVE  /\ Len(At(q, P)) \in Nat /\ Len(At(q, P)) <= Len(q)
         /\ IsFiniteSet(P) => Len(At(q, P)) <= Cardinality(P)
<1> DEFINE S == P \intersect DOMAIN q
<1>1. Len(At(q, P)) = Cardinality(S) /\ IsFiniteSet(S)
  BY AtFacts
<1>2. Len(q) \in Nat /\ S \in SUBSET (1 .. Len(q)) /\ S \in SUBSET P
  OBVIOUS
<1> HIDE DEF S
<1>3. Cardinality(S) \in Nat
  BY <1>1, FS_CardinalityType
<1>4. Cardinality(S) <= Len(q)
  <2>1. IsFiniteSet(1 .. Len(q)) /\ Cardinality(1 .. Len(q)) = Len(q)
    BY <1>2, Intervals
  <2>2. Cardinality(S) <= Cardinality(1 .. Len(q))
    BY <1>2, <2>1, FS_Subset
  <2> QED BY <2>1, <2>2
<1>5. IsFiniteSet(P) => Cardinality(S) <= Cardinality(P)
  BY <1>2, FS_Subset
<1> QED BY <1>1, <1>3, <1>4, <1>5

LEMMA FirstLength ==
  ASSUME NEW T, NEW q \in Seq(T), NEW n \in Int
  PROVE  /\ Len(First(q, n)) \in Nat /\ Len(First(q, n)) <= Len(q)
         /\ Len(First(q, n)) <= IF n < 0 THEN 0 ELSE n
<1>1. IsFiniteSet(1 .. n) /\ Cardinality(1 .. n) = IF n < 0 THEN 0 ELSE n
  <2>1. 1 \in Int
    OBVIOUS
  <2>2. IsFiniteSet(1 .. n) /\ Cardinality(1 .. n) = IF 1 > n THEN 0 ELSE n - 1 + 1
    BY <2>1, FS_Interval
  <2> QED BY <2>2
<1> QED BY <1>1, AtLength DEF First

LEMMA VerifiedFacts ==
  ASSUME cards \in Seq(CardRecords)
  PROVE  /\ Verified \in Seq(CardRecords)
         /\ \A c \in ToSet(Verified) : c \in ToSet(cards) /\ c.valid
<1> DEFINE First1(k) == \A j \in DOMAIN cards : j < k /\ cards[j].valid => cards[j].claim # cards[k].claim
           P == {k \in DOMAIN cards : cards[k].valid /\ cards[k].claim # "" /\ First1(k)}
<1>1. Verified = At(cards, P)
  BY DEF Verified
<1>2. \A i \in P \intersect DOMAIN cards : cards[i].valid
  OBVIOUS
<1> HIDE DEF P
<1>3. /\ Verified \in Seq(CardRecords) /\ ToSet(Verified) \subseteq ToSet(cards)
      /\ ToSet(Verified) = {cards[i] : i \in P \intersect DOMAIN cards}
  BY <1>1, AtElements
<1> QED BY <1>2, <1>3

\* The evidence of a section is the ids of the cards that were assigned to it.
LEMMA SectionFacts ==
  ASSUME NEW heading, NEW asks, NEW assigned
  PROVE  ToSet(Section(heading, asks, assigned).evidence) = {Id(c) : c \in ToSet(assigned)}
<1>1. Section(heading, asks, assigned).evidence = [k \in DOMAIN assigned |-> Id(assigned[k])]
  BY DEF Section
<1>2. ToSet([k \in DOMAIN assigned |-> Id(assigned[k])]) = {Id(c) : c \in ToSet(assigned)}
  BY DEF ToSet
<1> QED BY <1>1, <1>2

\* If the sections that have a card are told apart by values of a set with two
\* elements, there are two of them at most.
ToldApart(id, sections, by, B) ==
  /\ \A i \in DOMAIN sections : id \in ToSet(sections[i].evidence) => by[i] \in B
  /\ \A i, j \in DOMAIN sections :
       /\ id \in ToSet(sections[i].evidence) /\ id \in ToSet(sections[j].evidence)
       /\ by[i] = by[j]
       => i = j

LEMMA FewUses ==
  ASSUME NEW id, NEW sections, NEW by, NEW B, IsFiniteSet(B), Cardinality(B) <= 2,
         ToldApart(id, sections, by, B)
  PROVE  Uses(id, sections) <= 2
<1> DEFINE H == {i \in DOMAIN sections : id \in ToSet(sections[i].evidence)}
           f == [i \in H |-> by[i]]
<1>1. f \in [H -> B] /\ \A i, j \in H : f[i] = f[j] => i = j
  BY DEF ToldApart
<1>2. Uses(id, sections) = Cardinality(H)
  BY DEF Uses
<1> HIDE DEF f, H
<1>3. f \in Injection(H, B)
  BY <1>1 DEF Injection, IsInjective
<1>4. IsFiniteSet(H) /\ Cardinality(H) <= Cardinality(B)
  BY <1>3, FS_Injection
<1>5. Cardinality(H) \in Nat /\ Cardinality(B) \in Nat
  BY <1>4, FS_CardinalityType
<1> QED BY <1>2, <1>4, <1>5

\* --------------------------------------------------------------------------
\* The outline: how long it is, and what it binds.
Shape(sections) == sections \in Seq(ToSet(sections)) /\ Len(sections) <= Max({MaxSections, 6})
BindsValid(sections) ==
  /\ \A s \in ToSet(sections) : \A id \in ToSet(s.evidence) :
       \E c \in ToSet(cards) : c.valid /\ Id(c) = id
  /\ \A c \in ToSet(cards) :
       (\A d \in ToSet(cards) : Id(d) = Id(c) => d = c) => Uses(Id(c), sections) <= 2

LEMMA Bounds ==
  /\ Max({MaxSections, 6}) \in Nat /\ Max({MaxSections, 6}) >= MaxSections /\ Max({MaxSections, 6}) >= 6
  /\ \A m \in Nat : Min({6, m}) \in 0 .. 6 /\ Min({MaxSections, m}) \in 0 .. MaxSections
<1>1. MaxSections \in Nat \ {0}
  BY StageAssumption
<1>2. Max({MaxSections, 6}) \in {MaxSections, 6} /\ Max({MaxSections, 6}) >= MaxSections
      /\ Max({MaxSections, 6}) >= 6
  BY <1>1, Extremes
<1>3. ASSUME NEW m \in Nat PROVE Min({6, m}) \in 0 .. 6
  <2>1. Min({6, m}) \in {6, m} /\ Min({6, m}) <= 6
    BY Extremes
  <2> QED BY <2>1
<1>4. ASSUME NEW m \in Nat PROVE Min({MaxSections, m}) \in 0 .. MaxSections
  <2>1. Min({MaxSections, m}) \in {MaxSections, m} /\ Min({MaxSections, m}) <= MaxSections
    BY <1>1, Extremes
  <2> QED BY <1>1, <2>1
<1> QED BY <1>1, <1>2, <1>3, <1>4

LEMMA FunctionSeq ==
  ASSUME NEW m \in Nat, NEW f, f = [i \in 1 .. m |-> f[i]]
  PROVE  f \in Seq(ToSet(f)) /\ Len(f) = m /\ DOMAIN f = 1 .. m
<1>1. \A i \in 1 .. m : f[i] \in ToSet(f)
  BY DEF ToSet
<1>2. f \in [1 .. m -> ToSet(f)]
  BY <1>1
<1> QED BY <1>2

LEMMA RequiredFacts ==
  /\ Required \in Seq(ToSet(Required)) /\ IsInjective(Required)
  /\ Len(Required) \in Nat /\ Len(Required) <= 6 /\ DOMAIN Required = 1 .. Len(Required)
<1> DEFINE T == ToSet(DimensionOrder)
           P == {i \in DOMAIN DimensionOrder : DimensionOrder[i] \in run.topic.dimensions}
<1>1. DimensionOrder \in Seq(T) /\ Len(DimensionOrder) = 6
  BY DEF DimensionOrder, ToSet
<1>2. \A i, j \in DOMAIN DimensionOrder : DimensionOrder[i] = DimensionOrder[j] => i = j
  BY DEF DimensionOrder
<1>3. Required = At(DimensionOrder, P)
  BY DEF Required
<1> HIDE DEF T, P
<1>4. Required \in Seq(T) /\ Len(Required) \in Nat /\ Len(Required) <= 6
  BY <1>1, <1>3, AtElements, AtLength
<1>5. IsInjective(Required)
  BY <1>1, <1>2, <1>3, AtInjective
<1>6. DOMAIN Required = 1 .. Len(Required)
  BY <1>4
<1> QED BY <1>4, <1>5, <1>6, ElementsOf

\* A card has two places at most.
LEMMA PlacesFacts ==
  ASSUME NEW card
  PROVE  IsFiniteSet(Places(card)) /\ Cardinality(Places(card)) <= 2
<1> DEFINE T == ToSet(Required)
           fit == {i \in DOMAIN Required : FacetKey(Required[i]) \in card.facets}
           order == At(Required, fit) \o At(Required, DOMAIN Required \ fit)
<1>1. Places(card) = ToSet(First(order, 2))
  BY DEF Places
<1>2. order \in Seq(T)
  <2> HIDE DEF T, fit
  <2>1. At(Required, fit) \in Seq(T) /\ At(Required, DOMAIN Required \ fit) \in Seq(T)
    BY RequiredFacts, AtElements DEF T
  <2> QED BY <2>1
<1> HIDE DEF order, T
<1>3. First(order, 2) \in Seq(T)
  BY <1>2, FirstFacts
<1>4. Len(First(order, 2)) \in Nat /\ Len(First(order, 2)) <= 2
  <2>1. 2 \in Int
    OBVIOUS
  <2>2. Len(First(order, 2)) \in Nat /\ Len(First(order, 2)) <= IF 2 < 0 THEN 0 ELSE 2
    BY <1>2, <2>1, FirstLength
  <2> QED BY <2>2
<1>5. IsFiniteSet(ToSet(First(order, 2))) /\ Cardinality(ToSet(First(order, 2))) <= Len(First(order, 2))
  BY <1>3, ElementCount
<1>6. Cardinality(ToSet(First(order, 2))) \in Nat
  BY <1>5, FS_CardinalityType
<1> QED BY <1>1, <1>4, <1>5, <1>6

LEMMA DimensionFacts ==
  ASSUME cards \in Seq(CardRecords)
  PROVE  Shape(DimensionSections) /\ BindsValid(DimensionSections)
<1> DEFINE s == DimensionSections
           P(i) == {k \in DOMAIN Verified : Required[i] \in Places(Verified[k])}
<1>1. DOMAIN s = DOMAIN Required /\ s = [i \in DOMAIN Required |-> s[i]]
  BY DEF DimensionSections
<1>2. ASSUME NEW i \in DOMAIN s
      PROVE  ToSet(s[i].evidence) = {Id(c) : c \in ToSet(At(Verified, P(i)))}
  <2>1. s[i] = Section({Required[i]}, {Required[i]}, At(Verified, P(i)))
    BY <1>1 DEF DimensionSections
  <2> HIDE DEF s, P
  <2>2. PICK assigned : assigned = At(Verified, P(i))
    OBVIOUS
  <2>3. ToSet(Section({Required[i]}, {Required[i]}, assigned).evidence) = {Id(c) : c \in ToSet(assigned)}
    BY SectionFacts
  <2> QED BY <2>1, <2>2, <2>3
<1>3. ASSUME NEW i \in DOMAIN s, NEW id \in ToSet(s[i].evidence)
      PROVE  \E c \in ToSet(cards) : c.valid /\ Id(c) = id /\ Required[i] \in Places(c)
  <2>1. PICK c \in ToSet(At(Verified, P(i))) : id = Id(c)
    BY <1>2
  <2>2. ToSet(At(Verified, P(i))) = {Verified[k] : k \in P(i) \intersect DOMAIN Verified}
    <3> HIDE DEF P
    <3> QED BY VerifiedFacts, AtElements
  <2>3. PICK k \in P(i) \intersect DOMAIN Verified : c = Verified[k]
    BY <2>1, <2>2
  <2>4. c \in ToSet(Verified)
    BY <2>3, VerifiedFacts, ElementsOf
  <2> QED BY <2>1, <2>3, <2>4, VerifiedFacts
<1> HIDE DEF s, P
<1>4. Shape(s)
  <2>1. s \in Seq(ToSet(s)) /\ Len(s) = Len(Required)
    BY <1>1, RequiredFacts, FunctionSeq
  <2> QED BY <2>1, RequiredFacts, Bounds DEF Shape
<1>5. ASSUME NEW x \in ToSet(s), NEW id \in ToSet(x.evidence)
      PROVE  \E c \in ToSet(cards) : c.valid /\ Id(c) = id
  <2>1. PICK i \in DOMAIN s : x = s[i]
    BY DEF ToSet
  <2> QED BY <1>3, <2>1
<1>6. ASSUME NEW c \in ToSet(cards), \A d \in ToSet(cards) : Id(d) = Id(c) => d = c
      PROVE  Uses(Id(c), s) <= 2
  <2>1. ToldApart(Id(c), s, Required, Places(c))
    <3>1. \A i \in DOMAIN s : Id(c) \in ToSet(s[i].evidence) => Required[i] \in Places(c)
      BY <1>3, <1>6
    <3>2. \A i, j \in DOMAIN s : Required[i] = Required[j] => i = j
      BY <1>1, RequiredFacts DEF IsInjective
    <3> QED BY <3>1, <3>2 DEF ToldApart
  <2> QED BY <2>1, PlacesFacts, FewUses
<1> QED BY <1>4, <1>5, <1>6 DEF BindsValid, s

LEMMA ThemeFacts ==
  ASSUME cards \in Seq(CardRecords)
  PROVE  Shape(ThemeSections) /\ BindsValid(ThemeSections)
<1> DEFINE v == Verified
           all == [k \in DOMAIN v |-> v[k].theme]
           themes == Distinct(all)
           m == Min({6, Len(themes)})
           P(i) == {k \in DOMAIN v : v[k].theme = themes[i]}
           of == [i \in 1 .. m |->
                    Section({themes[i]} \intersect ToSet(DimensionOrder), {}, At(v, P(i)))]
           empty == <<Section({"scope"}, {}, <<>>), Section({"methods"}, {}, <<>>),
                      Section({"limitations"}, {}, <<>>)>>
           rest == First(empty, 3 - Len(of))
           s == ThemeSections
<1>1. s = of \o rest
  BY DEF ThemeSections
<1>2. v \in Seq(CardRecords) /\ \A c \in ToSet(v) : c \in ToSet(cards) /\ c.valid
  BY VerifiedFacts
<1> HIDE DEF v, s
<1>3. themes \in Seq(STRING) /\ IsInjective(themes) /\ Len(themes) \in Nat
  <2>1. all \in Seq(STRING)
    <3>1. \A k \in DOMAIN v : v[k] \in CardRecords
      BY <1>2
    <3>2. \A k \in DOMAIN v : v[k].theme \in STRING
      BY <3>1 DEF CardRecords
    <3>3. Len(v) \in Nat /\ DOMAIN v = 1 .. Len(v)
      BY <1>2
    <3>4. all \in [1 .. Len(v) -> STRING]
      BY <3>2, <3>3
    <3> HIDE DEF all
    <3> QED BY <3>3, <3>4
  <2> HIDE DEF all
  <2>2. Distinct(all) \in Seq(STRING) /\ IsInjective(Distinct(all))
    BY <2>1, DistinctFacts
  <2> HIDE DEF themes
  <2>3. themes \in Seq(STRING)
    BY <2>2 DEF themes
  <2> QED BY <2>2, <2>3 DEF themes
<1>4. /\ empty \in Seq(ToSet(empty)) /\ Len(empty) = 3
      /\ \A x \in ToSet(empty) : ToSet(x.evidence) = {}
  <2>1. empty \in Seq(ToSet(empty)) /\ Len(empty) = 3
    BY DEF ToSet
  <2>2. ToSet(<<>>) = {}
    BY DEF ToSet
  <2>3. \A h : ToSet(Section(h, {}, <<>>).evidence) = {}
    BY <2>2, SectionFacts
  <2>4. ToSet(empty) = {Section({"scope"}, {}, <<>>), Section({"methods"}, {}, <<>>),
                        Section({"limitations"}, {}, <<>>)}
    BY DEF ToSet
  <2> HIDE DEF empty
  <2> QED BY <2>1, <2>3, <2>4
<1> HIDE DEF themes
<1>5. m \in 0 .. 6 /\ m <= Len(themes)
  <2>1. Min({6, Len(themes)}) \in 0 .. 6
    BY <1>3, Bounds
  <2>2. 6 \in Int /\ Len(themes) \in Int
    BY <1>3
  <2>3. Min({6, Len(themes)}) <= Len(themes)
    BY <2>2, Extremes
  <2> QED BY <2>1, <2>3
<1> HIDE DEF m, empty
<1>6. of \in Seq(ToSet(of)) /\ Len(of) = m /\ DOMAIN of = 1 .. m
  <2>1. of = [i \in 1 .. m |-> of[i]] /\ m \in Nat
    BY <1>5
  <2> HIDE DEF of
  <2> QED BY <2>1, FunctionSeq
<1>7. ASSUME NEW i \in 1 .. m
      PROVE  ToSet(of[i].evidence) = {Id(c) : c \in ToSet(At(v, P(i)))}
  <2>1. of[i] = Section({themes[i]} \intersect ToSet(DimensionOrder), {}, At(v, P(i)))
    OBVIOUS
  <2> HIDE DEF of, P
  <2>2. PICK assigned : assigned = At(v, P(i))
    OBVIOUS
  <2>3. ToSet(Section({themes[i]} \intersect ToSet(DimensionOrder), {}, assigned).evidence)
          = {Id(c) : c \in ToSet(assigned)}
    BY SectionFacts
  <2> QED BY <2>1, <2>2, <2>3
<1>8. ASSUME NEW i \in 1 .. m, NEW id \in ToSet(of[i].evidence)
      PROVE  \E c \in ToSet(cards) : c.valid /\ Id(c) = id /\ themes[i] = c.theme
  <2>1. PICK c \in ToSet(At(v, P(i))) : id = Id(c)
    BY <1>7
  <2>2. ToSet(At(v, P(i))) = {v[k] : k \in P(i) \intersect DOMAIN v}
    <3> HIDE DEF P
    <3> QED BY <1>2, AtElements
  <2>3. PICK k \in P(i) \intersect DOMAIN v : c = v[k]
    BY <2>1, <2>2
  <2>4. c \in ToSet(v)
    BY <1>2, <2>3, ElementsOf
  <2> QED BY <1>2, <2>1, <2>3, <2>4
<1> HIDE DEF of, P
<1>9. /\ rest \in Seq(ToSet(empty)) /\ ToSet(rest) \subseteq ToSet(empty)
      /\ Len(rest) \in Nat /\ Len(rest) <= 3
      /\ Len(of) > 3 => Len(rest) = 0
  <2>1. 3 - Len(of) \in Int
    BY <1>5, <1>6
  <2>2. /\ rest \in Seq(ToSet(empty)) /\ ToSet(rest) \subseteq ToSet(empty)
        /\ Len(rest) \in Nat /\ Len(rest) <= Len(empty)
        /\ Len(rest) <= IF 3 - Len(of) < 0 THEN 0 ELSE 3 - Len(of)
    BY <1>4, <2>1, FirstFacts, FirstLength
  <2> HIDE DEF rest
  <2> QED BY <1>4, <1>5, <1>6, <2>2
<1> HIDE DEF rest
<1>10. /\ s \in Seq(ToSet(s)) /\ Len(s) = Len(of) + Len(rest) /\ DOMAIN s = 1 .. Len(s)
       /\ \A i \in 1 .. m : s[i] = of[i]
       /\ \A i \in DOMAIN s : i \notin 1 .. m => s[i] \in ToSet(rest)
  <2> DEFINE T == ToSet(of) \union ToSet(empty)
  <2>1. of \in Seq(T) /\ rest \in Seq(T)
    BY <1>6, <1>9
  <2> HIDE DEF T
  <2>2. s \in Seq(T) /\ Len(s) = Len(of) + Len(rest) /\ DOMAIN s = 1 .. Len(s)
    BY <1>1, <2>1
  <2>3. \A i \in 1 .. m : s[i] = of[i]
    BY <1>1, <1>6, <2>1
  <2>4. ASSUME NEW i \in DOMAIN s, i \notin 1 .. m PROVE s[i] \in ToSet(rest)
    <3>1. i - m \in 1 .. Len(rest) /\ s[i] = rest[i - m]
      BY <1>1, <1>5, <1>6, <2>1, <2>2, <2>4
    <3>2. i - m \in DOMAIN rest
      BY <1>9, <3>1
    <3> QED BY <1>9, <3>1, <3>2, ElementsOf
  <2> QED BY <2>2, <2>3, <2>4, ElementsOf
<1>11. Shape(s)
  <2>1. Len(s) <= 6
    BY <1>5, <1>6, <1>9, <1>10
  <2>2. Len(s) \in Nat
    BY <1>10
  <2> QED BY <1>10, <2>1, <2>2, Bounds DEF Shape
<1>12. ASSUME NEW i \in DOMAIN s, NEW id \in ToSet(s[i].evidence)
       PROVE  i \in 1 .. m /\ \E c \in ToSet(cards) : c.valid /\ Id(c) = id /\ themes[i] = c.theme
  <2>1. i \in 1 .. m
    BY <1>4, <1>9, <1>10
  <2> QED BY <1>8, <1>10, <2>1
<1>13. ASSUME NEW x \in ToSet(s), NEW id \in ToSet(x.evidence)
       PROVE  \E c \in ToSet(cards) : c.valid /\ Id(c) = id
  <2>1. PICK i \in DOMAIN s : x = s[i]
    BY DEF ToSet
  <2> QED BY <1>12, <2>1
<1>14. ASSUME NEW c \in ToSet(cards), \A d \in ToSet(cards) : Id(d) = Id(c) => d = c
       PROVE  Uses(Id(c), s) <= 2
  <2>1. ToldApart(Id(c), s, themes, {c.theme})
    <3>1. \A i \in DOMAIN s : Id(c) \in ToSet(s[i].evidence) => i \in 1 .. m /\ themes[i] = c.theme
      BY <1>12, <1>14
    <3>2. \A i, j \in 1 .. m : themes[i] = themes[j] => i = j
      <4>1. \A i \in 1 .. m : i \in DOMAIN themes
        BY <1>3, <1>5
      <4> QED BY <1>3, <4>1 DEF IsInjective
    <3> QED BY <3>1, <3>2 DEF ToldApart
  <2>2. IsFiniteSet({c.theme}) /\ Cardinality({c.theme}) <= 2
    <3>1. IsFiniteSet({c.theme}) /\ Cardinality({c.theme}) = 1
      BY FS_Singleton
    <3> QED BY <3>1
  <2> QED BY <2>1, <2>2, FewUses
<1> QED BY <1>11, <1>13, <1>14 DEF BindsValid, s

LEMMA RuleOutlineFacts ==
  ASSUME cards \in Seq(CardRecords)
  PROVE  Shape(RuleOutline) /\ BindsValid(RuleOutline)
BY DimensionFacts, ThemeFacts DEF RuleOutline

\* Whatever the model answers, there are not too many sections, and those that are
\* valid bind cards that passed their check, none of them more than twice.
LEMMA NormalizeShape ==
  ASSUME NEW plans \in SeqOf(Plans, MaxSections + 1)
  PROVE  Shape(Normalize(plans))
<1> DEFINE s == Normalize(plans)
           m == Min({MaxSections, Len(plans)})
<1>1. Len(plans) \in Nat
  <2>1. MaxSections \in Nat
    BY StageAssumption
  <2>2. PICK n \in 0 .. MaxSections + 1 : plans \in [1 .. n -> Plans]
    BY DEF SeqOf
  <2>3. n \in Nat
    BY <2>1, <2>2
  <2> QED BY <2>2, <2>3
<1>2. m \in 0 .. MaxSections /\ m \in Nat
  <2>1. m \in 0 .. MaxSections
    BY <1>1, Bounds
  <2> HIDE DEF m
  <2> QED BY <2>1, StageAssumption
<1>3. s = [i \in 1 .. m |-> s[i]]
  BY DEF Normalize
<1> HIDE DEF s, m
<1>4. s \in Seq(ToSet(s)) /\ Len(s) = m
  BY <1>2, <1>3, FunctionSeq
<1>5. MaxSections \in Nat
  BY StageAssumption
<1> QED BY <1>2, <1>4, <1>5, Bounds DEF Shape, s

LEMMA ValidateFacts ==
  ASSUME cards \in Seq(CardRecords), NEW sections, Shape(sections), Validate(sections) = "none"
  PROVE  BindsValid(sections)
<1> DEFINE known == {Id(c) : c \in ToSet(Verified)}
           named == UNION {ToSet(s.evidence) : s \in ToSet(sections)}
<1>1. \A id \in named : id \in known /\ ~(Uses(id, sections) > 2)
  BY DEF Validate
<1>2. \A id \in known : \E c \in ToSet(cards) : c.valid /\ Id(c) = id
  BY VerifiedFacts
<1>3. ASSUME NEW s \in ToSet(sections), NEW id \in ToSet(s.evidence) PROVE id \in named
  OBVIOUS
<1>4. ASSUME NEW id PROVE Uses(id, sections) <= 2
  <2> DEFINE H == {i \in DOMAIN sections : id \in ToSet(sections[i].evidence)}
  <2>1. Uses(id, sections) = Cardinality(H)
    BY DEF Uses
  <2>2. CASE H = {}
    <3>1. Cardinality(H) = 0
      <4> HIDE DEF H
      <4> QED BY <2>2, FS_EmptySet
    <3> QED BY <2>1, <3>1
  <2>3. CASE H # {}
    <3>1. PICK i \in DOMAIN sections : id \in ToSet(sections[i].evidence)
      BY <2>3
    <3>2. sections[i] \in ToSet(sections)
      BY DEF ToSet
    <3>3. id \in named
      BY <1>3, <3>1, <3>2
    <3>4. Cardinality(H) \in Nat
      <4>1. H \in SUBSET (1 .. Len(sections)) /\ Len(sections) \in Nat
        BY DEF Shape
      <4>2. IsFiniteSet(H)
        BY <4>1, Intervals, FS_Subset
      <4> QED BY <4>2, FS_CardinalityType
    <3>5. ~(Uses(id, sections) > 2)
      BY <1>1, <3>3
    <3> QED BY <2>1, <3>4, <3>5
  <2> QED BY <2>2, <2>3
<1> QED BY <1>1, <1>2, <1>3, <1>4 DEF BindsValid

\* --------------------------------------------------------------------------
\* Chapters: what a section's cards let it cite.
Traced(section, cites) ==
  \A n \in cites :
    \E c \in ToSet(cards) :
      c.valid /\ Id(c) \in ToSet(section.evidence) /\ sources[n].id = c.source
Citable == {n \in DOMAIN sources : Traced(This, {n})}

\* Where a number comes from that the program did not put there.
Quotable(section, bare) ==
  \A n \in bare :
    \E c \in ToSet(cards) : Id(c) \in ToSet(section.evidence) /\ n \in c.quotes
Explained(section, chapter) == chapter.by = "llm" \/ Quotable(section, chapter.bare)

LEMMA SourceNumberFacts ==
  ASSUME sources \in Seq(PaperRecords), NEW id \in IdsIn(sources)
  PROVE  SourceNumber(id) \in DOMAIN sources /\ sources[SourceNumber(id)].id = id
<1> DEFINE S == {i \in DOMAIN sources : sources[i].id = id}
<1>1. Len(sources) \in Nat /\ DOMAIN sources = 1 .. Len(sources)
  OBVIOUS
<1>2. S \in SUBSET (1 .. Len(sources))
  BY <1>1
<1>3. S # {}
  <2>1. PICK p \in ToSet(sources) : id = p.id
    BY DEF IdsIn
  <2>2. PICK i \in DOMAIN sources : p = sources[i]
    BY <2>1, ElementsOf
  <2> QED BY <2>1, <2>2
<1>4. Max(S) \in S
  <2> HIDE DEF S
  <2> QED BY <1>1, <1>2, <1>3, LastPosition
<1> QED BY <1>4 DEF SourceNumber

LEMMA OwnFacts ==
  ASSUME sources \in Seq(PaperRecords), cards \in CardsFrom(sources), BindsValid(outline),
         This \in ToSet(outline)
  PROVE  Numbers(PapersOf(Own)) \subseteq Citable
<1> SUFFICES ASSUME NEW c \in Own PROVE SourceNumber(c.source) \in Citable
  BY DEF Numbers, PapersOf
<1>1. c \in ToSet(cards) /\ Id(c) \in ToSet(This.evidence)
  BY DEF Own
<1>2. c.source \in IdsIn(sources)
  <2>1. ToSet(cards) \subseteq {x \in CardRecords : x.source \in IdsIn(sources)}
    BY ElementsOf DEF CardsFrom
  <2> QED BY <1>1, <2>1
<1>3. SourceNumber(c.source) \in DOMAIN sources /\ sources[SourceNumber(c.source)].id = c.source
  BY <1>2, SourceNumberFacts
<1>4. PICK d \in ToSet(cards) : d.valid /\ Id(d) = Id(c)
  BY <1>1 DEF BindsValid
<1>5. d.source = c.source
  BY <1>4 DEF Id
<1> QED BY <1>1, <1>3, <1>4, <1>5 DEF Citable, Traced

LEMMA RuleCitesOwn ==
  ASSUME sources \in Seq(PaperRecords), cards \in CardsFrom(sources), BindsValid(outline),
         This \in ToSet(outline), NEW cites \in RuleCites
  PROVE  cites \subseteq Citable
<1>1. cites \subseteq Numbers(PapersOf(Own))
  BY DEF RuleCites
<1> QED BY <1>1, OwnFacts

LEMMA RuleQuotesOwn ==
  ASSUME cards \in CardsFrom(sources), NEW bare \in RuleQuotes
  PROVE  bare \in SUBSET Nat /\ Quotable(This, bare)
<1>1. bare \subseteq UNION {c.quotes : c \in Own}
  BY DEF RuleQuotes
<1>2. ASSUME NEW n \in bare
      PROVE  n \in Nat /\ \E c \in ToSet(cards) : Id(c) \in ToSet(This.evidence) /\ n \in c.quotes
  <2>1. PICK c \in Own : n \in c.quotes
    BY <1>1
  <2>2. c \in ToSet(cards) /\ Id(c) \in ToSet(This.evidence)
    BY DEF Own
  <2>3. c \in CardRecords
    <3>1. ToSet(cards) \subseteq {x \in CardRecords : x.source \in IdsIn(sources)}
      BY ElementsOf DEF CardsFrom
    <3> QED BY <2>2, <3>1
  <2>4. c.quotes \in SUBSET Nat
    BY <2>3 DEF CardRecords
  <2> QED BY <2>1, <2>2, <2>4
<1> QED BY <1>2 DEF Quotable

\* Whatever the model answers, what is left of it cites the cards that it was shown.
LEMMA AnswerCitesOwn ==
  ASSUME sources \in Seq(PaperRecords), cards \in CardsFrom(sources), BindsValid(outline),
         This \in ToSet(outline), NEW shown \in Shown, NEW answer \in Answers(shown),
         Problem(answer, shown) = "none", NEW cites \in Cites(answer)
  PROVE  cites \subseteq Citable
<1>1. shown \subseteq Own
  <2>1. PICK distinct \in OfEachClaim : shown \in SUBSET distinct
    BY DEF Shown
  <2>2. distinct \subseteq Own
    BY DEF OfEachClaim
  <2> QED BY <2>1, <2>2
<1>2. \A mark \in answer.markers : \E c \in shown : mark = Id(c)
  <2>1. CASE shown = {}
    <3>1. answer.markers = {}
      BY <2>1 DEF Problem
    <3> QED BY <3>1
  <2>2. CASE shown # {}
    <3>1. answer.markers \subseteq {Id(c) : c \in shown}
      BY <2>2 DEF Problem
    <3> QED BY <3>1
  <2> QED BY <2>1, <2>2
<1>3. \A mark \in answer.markers : mark[1] \in PapersOf(Own)
  BY <1>1, <1>2 DEF PapersOf, Id
<1>4. cites \subseteq Numbers({mark[1] : mark \in answer.markers})
  BY DEF Cites
<1>5. cites \subseteq Numbers(PapersOf(Own))
  BY <1>3, <1>4 DEF Numbers
<1> QED BY <1>5, OwnFacts

\* --------------------------------------------------------------------------
\* The inductive invariant of the stages.
ChapterRecords ==
  [by : {"rule", "gap", "llm", "none"}, cites : SUBSET (DOMAIN sources), bare : SUBSET (Nat \union Bare)]

\* What the stages hand on, and when there is none of it yet.
StageData ==
  /\ found \in Seq(Papers) /\ sources \in Seq(PaperRecords) /\ cards \in CardsFrom(sources)
  /\ outline \in Seq(ToSet(outline)) /\ chapters \in Seq(ChapterRecords)
  /\ pc \in {"search", "merge", "read", "analyze"} => cards = <<>>
  /\ pc \in {"search", "merge", "read", "analyze", "outline"} => asked < OutlineTries
  /\ pc \notin {"write", "completed", "failed"} => chapters = <<>>

\* While chapters are written: the outline binds valid cards, a chapter cites those of
\* its section, its other numbers are the model's or quoted of them, and rules write
\* none if only the model may.
WritesOwn ==
  pc \in {"write", "completed"} =>
    /\ BindsValid(outline)
    /\ \A i \in DOMAIN chapters : Traced(outline[i], chapters[i].cites)
    /\ \A i \in DOMAIN chapters : Explained(outline[i], chapters[i])
    /\ run.mode = "only" => \A i \in DOMAIN chapters : chapters[i].by \in {"llm", "none"}

Checked == WritesOwn /\ CitesOwnEvidence /\ AbsencesShown
StageIInv == StageTypeOK /\ StageData /\ SeedsKept /\ Checked

\* The papers that the user named, in some order.
LEMMA SeedsType ==
  ASSUME NEW named \in SUBSET Papers
  PROVE  SetToSeq(named) \in Seq(Papers)
<1>1. IsFiniteSet(named)
  BY PapersAreRecords, FS_Subset
<1>2. Cardinality(named) \in Nat /\ ExistsBijection(1 .. Cardinality(named), named)
  BY <1>1, FS_CardinalityType
<1>3. PICK f \in [1 .. Cardinality(named) -> named] : IsInjective(f)
  BY <1>2 DEF ExistsBijection, Bijection, Injection
<1>4. SetToSeq(named) \in [1 .. Cardinality(named) -> named]
  BY <1>3 DEF SetToSeq
<1>5. SetToSeq(named) \in [1 .. Cardinality(named) -> Papers]
  BY <1>4
<1> QED BY <1>2, <1>5

LEMMA EmptyData ==
  /\ <<>> \in Seq(Papers) /\ <<>> \in Seq(PaperRecords) /\ <<>> \in CardsFrom(<<>>)
  /\ ToSet(<<>>) = {} /\ Len(<<>>) = 0 /\ <<>> \in Seq(ToSet(<<>>)) /\ \A T : <<>> \in Seq(T)
BY DEF CardsFrom, ToSet

\* Before chapters are written there is nothing to check of them.
LEMMA NotYetChecked ==
  /\ pc \notin {"write", "completed"} => Checked
  /\ pc # "read" => SeedsKept
BY DEF Checked, WritesOwn, CitesOwnEvidence, AbsencesShown, SeedsKept

LEMMA StageInitIInv == StageInit => StageIInv
<1> SUFFICES ASSUME StageInit PROVE StageIInv
  OBVIOUS
<1>1. SeedsKept /\ Checked
  BY NotYetChecked DEF StageInit
<1>2. seeds \in Seq(Papers)
  BY SeedsType DEF StageInit
<1>3. StageTypeOK
  <2>1. OutlineTries \in Nat
    BY StageAssumption
  <2> QED BY <1>2, <2>1, EmptyData, Bounds DEF StageInit, StageTypeOK
<1>4. StageData
  <2>1. 0 < OutlineTries
    BY StageAssumption
  <2> QED BY <2>1, EmptyData DEF StageInit, StageData
<1> QED BY <1>1, <1>3, <1>4 DEF StageIInv

\* --------------------------------------------------------------------------
\* Each step keeps it: the papers and the cards.
LEMMA RaiseKeeps == StageIInv /\ Raise => StageIInv'
<1> SUFFICES ASSUME StageIInv, Raise PROVE StageIInv'
  OBVIOUS
<1>1. SeedsKept' /\ Checked'
  BY DEF Raise, SeedsKept, Checked, WritesOwn, CitesOwnEvidence, AbsencesShown
<1>2. StageTypeOK'
  <2>1. OutlineTries \in Nat \ {0}
    BY StageAssumption
  <2>2. asked \in 0 .. OutlineTries
    BY <2>1 DEF StageIInv, StageTypeOK
  <2> QED BY <2>2 DEF Raise, StageIInv, StageTypeOK, Done
<1>3. StageData'
  BY DEF Raise, StageIInv, StageData, CardsFrom, ChapterRecords
<1> QED BY <1>1, <1>2, <1>3 DEF StageIInv

LEMMA SearchKeeps == StageIInv /\ Search => StageIInv'
<1> SUFFICES ASSUME StageIInv, Search PROVE StageIInv'
  OBVIOUS
<1>1. SeedsKept' /\ Checked'
  BY DEF Search, SeedsKept, Checked, WritesOwn, CitesOwnEvidence, AbsencesShown
<1>2. StageTypeOK'
  BY DEF Search, StageIInv, StageTypeOK
<1>3. found' \in Seq(Papers)
  <2>1. MaxFound \in Nat
    BY StageAssumption
  <2>2. PICK n \in 0 .. MaxFound : found' \in [1 .. n -> Papers]
    BY DEF Search, SeqOf
  <2>3. n \in Nat
    BY <2>1, <2>2
  <2> QED BY <2>2, <2>3
<1>4. StageData'
  BY <1>3 DEF Search, StageIInv, StageData, CardsFrom, ChapterRecords
<1> QED BY <1>1, <1>2, <1>4 DEF StageIInv

\* The papers that are chosen are found or named, and the named ones are among them.
LEMMA MergeSearchKeeps == StageIInv /\ MergeSearch => StageIInv'
<1> SUFFICES ASSUME StageIInv, MergeSearch PROVE StageIInv'
  OBVIOUS
<1> DEFINE raw == seeds \o found
<1>1. PICK chosen \in Selections(Candidates(SeedIds, raw), SeedIds, Room,
                                 run.topic.comprehensive, run.mode) :
        sources' = chosen /\ pc' = IF chosen = <<>> THEN "stopped" ELSE "read"
  BY DEF MergeSearch
<1>2. /\ pc = "merge" /\ pc' \in {"stopped", "read"}
      /\ UNCHANGED <<run, seeds, found, cards, outline, asked, chapters, report>>
  BY <1>1 DEF MergeSearch
<1>3. seeds \in Seq(Papers) /\ found \in Seq(Papers) /\ raw \in Seq(Papers)
  <2>1. seeds \in Seq(Papers) /\ found \in Seq(Papers)
    BY DEF StageIInv, StageTypeOK, StageData
  <2> QED BY <2>1
<1>4. raw \in Seq(PaperRecords)
  BY <1>3, PapersAreRecords
<1>5. IdsIn(raw) \subseteq {p.id : p \in Papers}
  <2>1. ToSet(raw) \subseteq Papers
    BY <1>3, ElementsOf
  <2> QED BY <2>1 DEF IdsIn
<1>6. cards = <<>> /\ chapters = <<>>
  BY <1>2 DEF StageIInv, StageData
<1> HIDE DEF raw
<1>7. chosen \in Seq(PaperRecords) /\ IdsIn(chosen) \subseteq IdsIn(raw)
  BY <1>4, PoolIds
<1>8. StageTypeOK'
  <2>1. {p.id : p \in ToSet(sources')} \subseteq {p.id : p \in Papers}
    BY <1>1, <1>5, <1>7 DEF IdsIn
  <2>2. \A c \in ToSet(cards') : c.source \in {p.id : p \in ToSet(sources')} /\ c.valid \in BOOLEAN
    BY <1>2, <1>6, EmptyData
  <2>3. asked' \in 0 .. (IF pc' = "write" THEN 1 ELSE OutlineTries)
    BY <1>2 DEF StageIInv, StageTypeOK
  <2> QED BY <1>2, <2>1, <2>2, <2>3 DEF StageIInv, StageTypeOK, Done
<1>9. StageData'
  <2>1. cards' \in Seq({c \in CardRecords : c.source \in IdsIn(sources')})
    BY <1>2, <1>6
  <2>2. chapters' \in Seq(ChapterRecords')
    BY <1>2, <1>6
  <2> QED BY <1>1, <1>2, <1>6, <1>7, <2>1, <2>2 DEF StageIInv, StageData, CardsFrom
<1>10. Checked'
  BY <1>2 DEF Checked, WritesOwn, CitesOwnEvidence, AbsencesShown
<1>11. PICK room : room = Room /\ room \in Int /\ Len(seeds) \in Nat /\ Len(seeds) <= room
  <2>1. Wanted \in Int /\ Len(seeds) \in Nat
    BY <1>3, StageAssumption
  <2>2. Max({Wanted, Len(seeds)}) \in {Wanted, Len(seeds)} /\ Max({Wanted, Len(seeds)}) >= Len(seeds)
    BY <2>1, Extremes
  <2> QED BY <2>1, <2>2 DEF Room
<1>12. /\ SeedIds = IdsIn(seeds)
       /\ chosen \in Selections(Candidates(SeedIds, raw), SeedIds, room, run.topic.comprehensive, run.mode)
  BY <1>1, <1>11 DEF SeedIds, IdsIn
<1>13. ASSUME NoClash(ToSet(Named(DedupSources(raw), SeedIds)), DedupSources(raw))
       PROVE  ToSet(IdsOf(Named(DedupSources(raw), SeedIds))) \subseteq ToSet(IdsOf(chosen))
  <2>1. chosen \in Selections(Candidates(IdsIn(seeds), seeds \o found), IdsIn(seeds), room,
                              run.topic.comprehensive, run.mode)
    BY <1>12 DEF raw
  <2>2. NoClash(ToSet(Named(DedupSources(seeds \o found), IdsIn(seeds))), DedupSources(seeds \o found))
    BY <1>12, <1>13 DEF raw
  <2>3. ToSet(IdsOf(Named(DedupSources(seeds \o found), IdsIn(seeds)))) \subseteq ToSet(IdsOf(chosen))
    BY <1>3, <1>11, <2>1, <2>2, SeedsHaveRoom
  <2> QED BY <1>12, <2>3 DEF raw
<1>14. ASSUME NEW p \in ToSet(First(DedupSources(raw), Len(seeds))), p.id \in SeedIds,
              NoClash({p}, DedupSources(raw))
       PROVE  p.id \in ToSet(IdsOf(chosen))
  <2>1. PICK n : n = Len(seeds)
    OBVIOUS
  <2>2. PICK S : S = SeedIds
    OBVIOUS
  <2> QED BY <1>4, <1>11, <1>12, <1>14, <2>1, <2>2, AloneIsKept
<1>15. SeedsKept'
  <2> DEFINE U == DedupSources(raw)
             N == Named(U, SeedIds)
             F == First(U, Len(seeds))
             Alone(p) == \A q \in ToSet(U) : ~Clash(p, q)
             kept == ToSet(IdsOf(sources'))
  <2>1. SeedIds' = SeedIds /\ raw' = raw
    BY <1>2 DEF SeedIds, raw
  <2>2. (\A p \in ToSet(N) : Alone(p)) => ToSet(IdsOf(N)) \subseteq kept
    BY <1>1, <1>13 DEF NoClash
  <2>3. \A p \in ToSet(F) : p.id \in SeedIds /\ Alone(p) => p.id \in kept
    BY <1>1, <1>14 DEF NoClash
  <2>4. DedupSources(seeds' \o found') = U /\ Named(U, SeedIds') = N /\ First(U, Len(seeds')) = F
    BY <1>2, <2>1 DEF raw
  <2> HIDE DEF U, N, F
  <2> QED BY <2>1, <2>2, <2>3, <2>4 DEF SeedsKept
<1> QED BY <1>8, <1>9, <1>10, <1>15 DEF StageIInv

LEMMA MergeReadingKeeps == StageIInv /\ MergeReading => StageIInv'
<1> SUFFICES ASSUME StageIInv, MergeReading PROVE StageIInv'
  OBVIOUS
<1>1. /\ pc = "read" /\ pc' = "analyze" /\ seeds' = <<>> /\ found' = <<>>
      /\ sources' = DedupSources(Score(sources))
      /\ UNCHANGED <<run, cards, outline, asked, chapters, report>>
  BY DEF MergeReading
<1>2. sources \in Seq(PaperRecords) /\ cards = <<>> /\ chapters = <<>>
  BY <1>1 DEF StageIInv, StageData
<1>3. sources' \in Seq(PaperRecords) /\ IdsIn(sources') \subseteq IdsIn(sources)
  <2>1. Score(sources) \in Seq(PaperRecords) /\ StemsFrom(Score(sources), sources)
    BY <1>2, ScoreFacts
  <2>2. sources' \in Seq(PaperRecords) /\ ToSet(sources') \subseteq ToSet(Score(sources))
    BY <1>1, <2>1, DedupFacts
  <2> QED BY <2>1, <2>2 DEF IdsIn, StemsFrom, Like
<1>4. StageTypeOK'
  <2>1. {p.id : p \in ToSet(sources')} \subseteq {p.id : p \in Papers}
    BY <1>3 DEF IdsIn, StageIInv, StageTypeOK
  <2>2. \A c \in ToSet(cards') : c.source \in {p.id : p \in ToSet(sources')} /\ c.valid \in BOOLEAN
    BY <1>1, <1>2, EmptyData
  <2>3. asked' \in 0 .. (IF pc' = "write" THEN 1 ELSE OutlineTries)
    BY <1>1 DEF StageIInv, StageTypeOK
  <2>4. seeds' \in Seq(Papers)
    BY <1>1
  <2> QED BY <1>1, <2>1, <2>2, <2>3, <2>4 DEF StageIInv, StageTypeOK, Done
<1>5. StageData'
  <2>1. cards' \in Seq({c \in CardRecords : c.source \in IdsIn(sources')})
    BY <1>1, <1>2
  <2>2. chapters' \in Seq(ChapterRecords') /\ found' \in Seq(Papers)
    BY <1>1, <1>2
  <2> QED BY <1>1, <1>2, <1>3, <2>1, <2>2 DEF StageIInv, StageData, CardsFrom
<1>6. SeedsKept' /\ Checked'
  BY <1>1 DEF SeedsKept, Checked, WritesOwn, CitesOwnEvidence, AbsencesShown
<1> QED BY <1>4, <1>5, <1>6 DEF StageIInv

LEMMA AnalyzeKeeps == StageIInv /\ Analyze => StageIInv'
<1> SUFFICES ASSUME StageIInv, Analyze PROVE StageIInv'
  OBVIOUS
<1>1. /\ pc = "analyze" /\ pc' \in {"stopped", "outline"}
      /\ UNCHANGED <<run, seeds, found, sources, outline, asked, chapters, report>>
  BY DEF Analyze
<1>2. PICK yields \in [DOMAIN sources -> Yields] : cards' = CardsUpTo(yields)[Len(sources)]
  BY DEF Analyze
<1>3. sources \in Seq(PaperRecords) /\ chapters = <<>> /\ asked < OutlineTries
  BY <1>1 DEF StageIInv, StageData
<1>4. cards' \in CardsFrom(sources)
  BY <1>2, <1>3, CardsType
<1>5. \A c \in ToSet(cards') : c.source \in IdsIn(sources) /\ c.valid \in BOOLEAN
  <2>1. ToSet(cards') \subseteq {c \in CardRecords : c.source \in IdsIn(sources)}
    BY <1>4, ElementsOf DEF CardsFrom
  <2> QED BY <2>1 DEF CardRecords
<1>6. StageTypeOK'
  <2>1. \A c \in ToSet(cards') : c.source \in {p.id : p \in ToSet(sources')} /\ c.valid \in BOOLEAN
    BY <1>1, <1>5 DEF IdsIn
  <2>2. asked' \in 0 .. (IF pc' = "write" THEN 1 ELSE OutlineTries)
    BY <1>1 DEF StageIInv, StageTypeOK
  <2> QED BY <1>1, <2>1, <2>2 DEF StageIInv, StageTypeOK, Done
<1>7. StageData'
  <2>1. cards' \in CardsFrom(sources') /\ chapters' \in Seq(ChapterRecords')
    BY <1>1, <1>3, <1>4
  <2> QED BY <1>1, <1>3, <2>1 DEF StageIInv, StageData
<1>8. SeedsKept' /\ Checked'
  BY <1>1 DEF SeedsKept, Checked, WritesOwn, CitesOwnEvidence, AbsencesShown
<1> QED BY <1>6, <1>7, <1>8 DEF StageIInv

LEMMA StopKeeps == StageIInv /\ Stop => StageIInv'
<1> SUFFICES ASSUME StageIInv, Stop PROVE StageIInv'
  OBVIOUS
<1>1. SeedsKept' /\ Checked'
  BY DEF Stop, SeedsKept, Checked, WritesOwn, CitesOwnEvidence, AbsencesShown
<1>2. StageTypeOK'
  BY DEF Stop, StageIInv, StageTypeOK, Done
<1>3. StageData'
  BY DEF Stop, StageIInv, StageData, CardsFrom, ChapterRecords
<1> QED BY <1>1, <1>2, <1>3 DEF StageIInv

\* --------------------------------------------------------------------------
\* Each step keeps it: the outline.
LEMMA AdoptKeeps ==
  ASSUME StageIInv, pc \in {"outline", "repair"}, NEW sections, Shape(sections), BindsValid(sections),
         Adopt(sections)
  PROVE  StageIInv'
<1>1. /\ outline' = sections /\ pc' = "write" /\ asked' = 0
      /\ UNCHANGED <<run, seeds, found, sources, cards, chapters, report>>
  BY DEF Adopt
<1>2. chapters = <<>>
  BY DEF StageIInv, StageData
<1>3. outline' \in Seq(ToSet(outline')) /\ Len(outline') \in Nat /\ Len(outline') <= Max({MaxSections, 6})
  <2>1. sections \in Seq(ToSet(sections)) /\ Len(sections) <= Max({MaxSections, 6})
    BY DEF Shape
  <2> QED BY <1>1, <2>1
<1>4. StageTypeOK'
  <2>1. Len(chapters') <= Len(outline') /\ \A c \in ToSet(chapters') : c.by \in {"rule", "gap", "llm", "none"}
    BY <1>1, <1>2, <1>3, EmptyData
  <2>2. asked' \in 0 .. (IF pc' = "write" THEN 1 ELSE OutlineTries)
    BY <1>1
  <2>3. /\ run' \in [mode : Modes, topic : Topics] /\ seeds' \in Seq(Papers)
        /\ {p.id : p \in ToSet(sources')} \subseteq {p.id : p \in Papers}
        /\ \A c \in ToSet(cards') : c.source \in {p.id : p \in ToSet(sources')} /\ c.valid \in BOOLEAN
    BY <1>1 DEF StageIInv, StageTypeOK
  <2> QED BY <1>1, <1>3, <2>1, <2>2, <2>3 DEF StageTypeOK
<1>5. StageData'
  <2>1. cards' \in CardsFrom(sources') /\ chapters' \in Seq(ChapterRecords')
    BY <1>1, <1>2 DEF StageIInv, StageData
  <2> QED BY <1>1, <1>3, <2>1 DEF StageIInv, StageData
<1>6. Checked'
  <2>1. BindsValid(outline)'
    BY <1>1 DEF BindsValid, Uses
  <2>2. DOMAIN chapters' = {}
    BY <1>1, <1>2
  <2> QED BY <1>1, <2>1, <2>2 DEF Checked, WritesOwn, CitesOwnEvidence, AbsencesShown
<1>7. SeedsKept'
  BY <1>1 DEF SeedsKept
<1> QED BY <1>4, <1>5, <1>6, <1>7 DEF StageIInv

LEMMA CardsAreRecords == StageIInv => cards \in Seq(CardRecords)
<1> SUFFICES ASSUME StageIInv PROVE cards \in Seq(CardRecords)
  OBVIOUS
<1> DEFINE T == {c \in CardRecords : c.source \in IdsIn(sources)}
<1>1. cards \in Seq(T) /\ T \subseteq CardRecords
  BY DEF StageIInv, StageData, CardsFrom
<1> HIDE DEF T
<1>2. Len(cards) \in Nat /\ cards \in [1 .. Len(cards) -> CardRecords]
  BY <1>1
<1> QED BY <1>2

LEMMA OutlineFailsKeeps == StageIInv /\ pc \in {"outline", "repair"} /\ OutlineFails => StageIInv'
<1> SUFFICES ASSUME StageIInv, pc \in {"outline", "repair"}, OutlineFails PROVE StageIInv'
  OBVIOUS
<1>1. CASE Raise
  BY <1>1, RaiseKeeps
<1>2. CASE Adopt(RuleOutline)
  <2>1. Shape(RuleOutline) /\ BindsValid(RuleOutline)
    BY CardsAreRecords, RuleOutlineFacts
  <2>2. PICK sections : sections = RuleOutline
    OBVIOUS
  <2> QED BY <1>2, <2>1, <2>2, AdoptKeeps
<1> QED BY <1>1, <1>2 DEF OutlineFails

LEMMA OutlineByRuleKeeps == StageIInv /\ OutlineByRule => StageIInv'
BY OutlineFailsKeeps DEF OutlineByRule, OutlineFails

\* A draft of the model becomes the outline if it is valid.
LEMMA DraftKeeps ==
  ASSUME StageIInv, pc \in {"outline", "repair"}, NEW plans \in SeqOf(Plans, MaxSections + 1),
         Validate(Normalize(plans)) = "none", Adopt(Normalize(plans))
  PROVE  StageIInv'
<1>1. Shape(Normalize(plans)) /\ BindsValid(Normalize(plans))
  BY CardsAreRecords, NormalizeShape, ValidateFacts
<1>2. PICK sections : sections = Normalize(plans)
  OBVIOUS
<1> QED BY <1>1, <1>2, AdoptKeeps

LEMMA AskOutlineKeeps == StageIInv /\ AskOutline => StageIInv'
<1> SUFFICES ASSUME StageIInv, AskOutline PROVE StageIInv'
  OBVIOUS
<1>1. pc = "outline" /\ asked < OutlineTries /\ asked \in Nat /\ OutlineTries \in Nat /\ chapters = <<>>
  BY StageAssumption DEF AskOutline, StageIInv, StageData, StageTypeOK
<1>2. CASE OutlineFails
  BY <1>1, <1>2, OutlineFailsKeeps
<1>3. ASSUME asked + 1 < OutlineTries, asked' = asked + 1,
             UNCHANGED <<pc, run, seeds, found, sources, cards, outline, chapters, report>>
      PROVE  StageIInv'
  <2>1. asked' \in 0 .. OutlineTries /\ pc' = "outline"
    BY <1>1, <1>3
  <2>2. StageTypeOK'
    BY <1>3, <2>1 DEF StageIInv, StageTypeOK, Done
  <2>3. StageData'
    BY <1>3, <2>1 DEF StageIInv, StageData, CardsFrom, ChapterRecords
  <2>4. SeedsKept' /\ Checked'
    BY <2>1 DEF SeedsKept, Checked, WritesOwn, CitesOwnEvidence, AbsencesShown
  <2> QED BY <2>2, <2>3, <2>4 DEF StageIInv
<1>4. ASSUME NEW plans \in SeqOf(Plans, MaxSections + 1),
             Validate(Normalize(plans)) = "none", Adopt(Normalize(plans))
      PROVE  StageIInv'
  BY <1>1, <1>4, DraftKeeps
<1>5. ASSUME NEW plans \in SeqOf(Plans, MaxSections + 1),
             outline' = Normalize(plans), pc' = "repair", asked' = asked + 1,
             UNCHANGED <<run, seeds, found, sources, cards, chapters, report>>
      PROVE  StageIInv'
  <2>1. outline' \in Seq(ToSet(outline')) /\ Len(outline') \in Nat /\ Len(outline') <= Max({MaxSections, 6})
    <3>1. PICK sections : sections = Normalize(plans)
      OBVIOUS
    <3>2. sections \in Seq(ToSet(sections)) /\ Len(sections) <= Max({MaxSections, 6})
      BY <3>1, NormalizeShape DEF Shape
    <3>3. outline' = sections
      BY <1>5, <3>1
    <3> QED BY <3>2, <3>3
  <2>2. StageTypeOK'
    <3>1. Len(chapters') <= Len(outline') /\ \A c \in ToSet(chapters') : c.by \in {"rule", "gap", "llm", "none"}
      BY <1>1, <1>5, <2>1, EmptyData
    <3>2. asked' \in 0 .. OutlineTries
      BY <1>1, <1>5
    <3> QED BY <1>5, <2>1, <3>1, <3>2 DEF StageIInv, StageTypeOK, Done
  <2>3. StageData'
    <3>1. cards' \in CardsFrom(sources') /\ chapters' \in Seq(ChapterRecords')
      BY <1>1, <1>5 DEF StageIInv, StageData
    <3> QED BY <1>1, <1>5, <2>1, <3>1 DEF StageIInv, StageData
  <2>4. SeedsKept' /\ Checked'
    BY <1>5 DEF SeedsKept, Checked, WritesOwn, CitesOwnEvidence, AbsencesShown
  <2> QED BY <2>2, <2>3, <2>4 DEF StageIInv
<1> QED BY <1>2, <1>3, <1>4, <1>5 DEF AskOutline

LEMMA RepairOutlineKeeps == StageIInv /\ RepairOutline => StageIInv'
<1> SUFFICES ASSUME StageIInv, RepairOutline PROVE StageIInv'
  OBVIOUS
<1>1. pc \in {"outline", "repair"}
  BY DEF RepairOutline
<1>2. \/ OutlineFails
      \/ \E plans \in SeqOf(Plans, MaxSections + 1) :
           Validate(Normalize(plans)) = "none" /\ Adopt(Normalize(plans))
  BY DEF RepairOutline
<1> QED BY <1>1, <1>2, OutlineFailsKeeps, DraftKeeps

\* --------------------------------------------------------------------------
\* Each step keeps it: the chapters and the report.
LEMMA NextSection ==
  ASSUME StageIInv, Len(chapters) < Len(outline)
  PROVE  This \in ToSet(outline) /\ Len(chapters) + 1 \in DOMAIN outline
<1>1. chapters \in Seq(ChapterRecords) /\ outline \in Seq(ToSet(outline))
  BY DEF StageIInv, StageData
<1>2. Len(chapters) \in Nat /\ Len(outline) \in Nat /\ DOMAIN outline = 1 .. Len(outline)
  BY <1>1
<1>3. Len(chapters) + 1 \in DOMAIN outline
  BY <1>2
<1> QED BY <1>1, <1>3, ElementsOf DEF This

LEMMA WrittenKeeps ==
  ASSUME StageIInv, pc = "write", Len(chapters) < Len(outline),
         NEW by \in {"rule", "gap", "llm", "none"}, NEW cites, cites \subseteq Citable,
         NEW bare \in SUBSET (Nat \union Bare), by = "llm" \/ Quotable(This, bare),
         run.mode = "only" => by \in {"llm", "none"}, Written(Chapter(by, cites, bare))
  PROVE  StageIInv'
<1> DEFINE chapter == [by |-> by, cites |-> cites, bare |-> bare]
           n == Len(chapters) + 1
<1>1. /\ chapters' = Append(chapters, chapter) /\ asked' = 0 /\ pc' = "write"
      /\ UNCHANGED <<pc, run, seeds, found, sources, cards, outline, report>>
  BY DEF Written, Chapter
<1>2. chapter \in ChapterRecords
  BY DEF ChapterRecords, Citable
<1>3. chapters \in Seq(ChapterRecords) /\ Len(chapters) \in Nat /\ Len(outline) \in Nat
  <2>1. chapters \in Seq(ChapterRecords) /\ outline \in Seq(ToSet(outline))
    BY DEF StageIInv, StageData
  <2> QED BY <2>1
<1>4. /\ chapters' \in Seq(ChapterRecords) /\ Len(chapters') = n
      /\ \A i \in DOMAIN chapters' : IF i = n THEN chapters'[i] = chapter
                                     ELSE i \in DOMAIN chapters /\ chapters'[i] = chapters[i]
  <2> HIDE DEF chapter
  <2> QED BY <1>1, <1>2, <1>3
<1>5. StageTypeOK'
  <2>1. Len(chapters') <= Len(outline')
    BY <1>1, <1>3, <1>4
  <2>2. \A c \in ToSet(chapters') : c.by \in {"rule", "gap", "llm", "none"}
    <3>1. ToSet(chapters') \subseteq ChapterRecords
      BY <1>4, ElementsOf
    <3> QED BY <3>1 DEF ChapterRecords
  <2>3. asked' \in 0 .. (IF pc' = "write" THEN 1 ELSE OutlineTries)
    BY <1>1
  <2> QED BY <1>1, <2>1, <2>2, <2>3 DEF StageIInv, StageTypeOK, Done
<1>6. StageData'
  <2>1. ChapterRecords' = ChapterRecords
    BY <1>1 DEF ChapterRecords
  <2> QED BY <1>1, <1>4, <2>1 DEF StageIInv, StageData
<1>7. WritesOwn'
  <2>1. BindsValid(outline)'
    BY <1>1 DEF StageIInv, Checked, WritesOwn, BindsValid, Uses
  <2>2. \A i \in DOMAIN chapters : Traced(outline[i], chapters[i].cites)
    BY DEF StageIInv, Checked, WritesOwn
  <2>3. Traced(outline[n], cites)
    BY DEF Citable, Traced, This
  <2>4. \A i \in DOMAIN chapters' : Traced(outline[i], chapters'[i].cites)
    BY <1>4, <2>2, <2>3
  <2>5. (\A i \in DOMAIN chapters : Traced(outline[i], chapters[i].cites))'
    BY <1>1, <2>4 DEF Traced
  <2>6. run.mode = "only" => \A i \in DOMAIN chapters : chapters[i].by \in {"llm", "none"}
    BY DEF StageIInv, Checked, WritesOwn
  <2>7. run'.mode = "only" => \A i \in DOMAIN chapters' : chapters'[i].by \in {"llm", "none"}
    BY <1>1, <1>4, <2>6
  <2>8. \A i \in DOMAIN chapters : Explained(outline[i], chapters[i])
    BY DEF StageIInv, Checked, WritesOwn
  <2>9. Explained(outline[n], chapter)
    BY DEF Explained, This
  <2>10. \A i \in DOMAIN chapters' : Explained(outline[i], chapters'[i])
    BY <1>4, <2>8, <2>9
  <2>11. (\A i \in DOMAIN chapters : Explained(outline[i], chapters[i]))'
    BY <1>1, <2>10 DEF Explained, Quotable
  <2> QED BY <2>1, <2>5, <2>7, <2>11 DEF WritesOwn
<1>8. Checked'
  BY <1>1, <1>7 DEF Checked, CitesOwnEvidence, AbsencesShown
<1>9. SeedsKept'
  BY <1>1 DEF SeedsKept
<1> QED BY <1>5, <1>6, <1>8, <1>9 DEF StageIInv

\* A chapter without numbers.
LEMMA NoNumbers ==
  {} \subseteq Citable /\ {} \in SUBSET (Nat \union Bare) /\ Quotable(This, {})
BY DEF Quotable

LEMMA RuleWritesKeeps ==
  ASSUME StageIInv, pc = "write", Len(chapters) < Len(outline), run.mode # "only",
         RuleWrites
  PROVE  StageIInv'
<1> PICK cites \in RuleCites, bare \in RuleQuotes : Written(Chapter("rule", cites, bare))
  BY DEF RuleWrites
<1>1. sources \in Seq(PaperRecords) /\ cards \in CardsFrom(sources) /\ BindsValid(outline)
  BY DEF StageIInv, StageData, Checked, WritesOwn
<1>2. cites \subseteq Citable
  BY <1>1, NextSection, RuleCitesOwn
<1>3. bare \in SUBSET (Nat \union Bare) /\ Quotable(This, bare)
  BY <1>1, RuleQuotesOwn
<1> QED BY <1>2, <1>3, WrittenKeeps

LEMMA ChapterFailsKeeps ==
  ASSUME StageIInv, pc = "write", Len(chapters) < Len(outline), ChapterFails
  PROVE  StageIInv'
<1>1. CASE run.mode = "only"
  <2>1. Written(Chapter("none", {}, {}))
    BY <1>1 DEF ChapterFails
  <2> QED BY <2>1, NoNumbers, WrittenKeeps
<1>2. CASE run.mode # "only"
  <2>1. RuleWrites
    BY <1>2 DEF ChapterFails
  <2> QED BY <1>2, <2>1, RuleWritesKeeps
<1> QED BY <1>1, <1>2

LEMMA ChapterByRuleKeeps == StageIInv /\ ChapterByRule => StageIInv'
<1> SUFFICES ASSUME StageIInv, ChapterByRule PROVE StageIInv'
  OBVIOUS
<1>1. pc = "write" /\ Len(chapters) < Len(outline) /\ run.mode # "only"
  BY DEF ChapterByRule
<1>2. RuleWrites
  BY DEF ChapterByRule
<1> QED BY <1>1, <1>2, RuleWritesKeeps

LEMMA ChapterGapKeeps == StageIInv /\ ChapterGap => StageIInv'
<1> SUFFICES ASSUME StageIInv, ChapterGap PROVE StageIInv'
  OBVIOUS
<1>1. /\ pc = "write" /\ Len(chapters) < Len(outline) /\ run.mode # "only"
      /\ Written(Chapter("gap", {}, {}))
  BY DEF ChapterGap
<1> QED BY <1>1, NoNumbers, WrittenKeeps

LEMMA WriterFailsKeeps == StageIInv /\ WriterFails => StageIInv'
<1> SUFFICES ASSUME StageIInv, WriterFails PROVE StageIInv'
  OBVIOUS
<1>1. pc = "write" /\ Len(chapters) < Len(outline) /\ Written(Chapter("none", {}, {}))
  BY DEF WriterFails
<1> QED BY <1>1, NoNumbers, WrittenKeeps

LEMMA AskChapterKeeps == StageIInv /\ AskChapter => StageIInv'
<1> SUFFICES ASSUME StageIInv, AskChapter PROVE StageIInv'
  OBVIOUS
<1>1. pc = "write" /\ Len(chapters) < Len(outline)
  BY DEF AskChapter
<1>2. CASE ChapterFails
  BY <1>1, <1>2, ChapterFailsKeeps
<1>3. ASSUME NEW shown \in Shown, NEW answer \in Taken(shown), NEW cites \in Cites(answer),
             Written(Chapter("llm", cites, answer.bare))
      PROVE  StageIInv'
  <2>1. sources \in Seq(PaperRecords) /\ cards \in CardsFrom(sources) /\ BindsValid(outline)
    BY <1>1 DEF StageIInv, StageData, Checked, WritesOwn
  <2>2. cites \subseteq Citable
    <3>1. answer \in Answers(shown) /\ Problem(answer, shown) = "none"
      BY DEF Taken
    <3> QED BY <1>1, <2>1, <3>1, NextSection, AnswerCitesOwn
  <2>3. answer.bare \in SUBSET (Nat \union Bare)
    BY DEF Taken, Answers
  <2> QED BY <1>1, <1>3, <2>2, <2>3, WrittenKeeps
<1>4. ASSUME asked' = 1, UNCHANGED <<pc, run, seeds, found, sources, cards, outline, chapters, report>>
      PROVE  StageIInv'
  <2>1. StageTypeOK'
    <3>1. asked' \in 0 .. (IF pc' = "write" THEN 1 ELSE OutlineTries)
      BY <1>1, <1>4
    <3> QED BY <1>1, <1>4, <3>1 DEF StageIInv, StageTypeOK, Done
  <2>2. StageData'
    BY <1>1, <1>4 DEF StageIInv, StageData, CardsFrom, ChapterRecords
  <2>3. WritesOwn'
    BY <1>4 DEF StageIInv, Checked, WritesOwn, BindsValid, Uses, Traced, Explained, Quotable
  <2>4. SeedsKept' /\ Checked'
    BY <1>1, <1>4, <2>3 DEF SeedsKept, Checked, CitesOwnEvidence, AbsencesShown
  <2> QED BY <2>1, <2>2, <2>4 DEF StageIInv
<1> QED BY <1>1, <1>2, <1>3, <1>4 DEF AskChapter

\* The report: the abstract and the references, and the chapters that are missing.
LEMMA MergeChaptersKeeps == StageIInv /\ MergeChapters => StageIInv'
<1> SUFFICES ASSUME StageIInv, MergeChapters PROVE StageIInv'
  OBVIOUS
<1>1. CASE Raise
  BY <1>1, RaiseKeeps
<1>2. ASSUME NEW text \in Assembled, report' = [ready |-> Lost = {}, issues |-> Lost, text |-> text],
             pc' = "completed",
             UNCHANGED <<run, seeds, found, sources, cards, outline, asked, chapters>>
      PROVE  StageIInv'
  <2>1. pc = "write" /\ Len(chapters) = Len(outline)
    BY DEF MergeChapters
  <2>2. /\ chapters \in Seq(ChapterRecords) /\ Len(chapters) \in Nat
        /\ DOMAIN chapters = 1 .. Len(chapters) /\ DOMAIN outline = DOMAIN chapters
    <3>1. chapters \in Seq(ChapterRecords) /\ outline \in Seq(ToSet(outline))
      BY DEF StageIInv, StageData
    <3> QED BY <2>1, <3>1
  <2>3. /\ \A i \in DOMAIN chapters : Traced(outline[i], chapters[i].cites)
        /\ run.mode = "only" => \A i \in DOMAIN chapters : chapters[i].by \in {"llm", "none"}
        /\ BindsValid(outline)
        /\ \A i \in DOMAIN chapters : Explained(outline[i], chapters[i])
    BY <2>1 DEF StageIInv, Checked, WritesOwn
  <2> DEFINE cited == UNION {c.cites : c \in ToSet(chapters)}
             numbers == UNION {c.cites \union c.bare : c \in ToSet(chapters)}
  <2>4. text.lead \subseteq numbers
    <3>1. text.lead \subseteq UNION {chapters[i].cites \union chapters[i].bare : i \in 1 .. Min({3, Len(chapters)})}
      BY DEF Assembled
    <3>2. \A i \in 1 .. Min({3, Len(chapters)}) : chapters[i] \in ToSet(chapters)
      <4>1. 3 \in Int /\ Len(chapters) \in Int
        BY <2>2
      <4>2. Min({3, Len(chapters)}) \in {3, Len(chapters)} /\ Min({3, Len(chapters)}) <= Len(chapters)
        BY <4>1, Extremes
      <4>3. \A i \in 1 .. Min({3, Len(chapters)}) : i \in DOMAIN chapters
        BY <2>2, <4>2
      <4> QED BY <2>2, <4>3, ElementsOf
    <3> QED BY <3>1, <3>2
  <2>5. cited \subseteq text.traced
    <3> SUFFICES ASSUME NEW n \in cited PROVE n \in text.traced
      OBVIOUS
    <3>1. PICK chapter \in ToSet(chapters) : n \in chapter.cites
      OBVIOUS
    <3>2. PICK i \in DOMAIN chapters : chapter = chapters[i]
      BY <2>2, <3>1, ElementsOf
    <3>3. n \in DOMAIN sources
      <4>1. chapter \in ChapterRecords
        BY <2>2, <3>1, ElementsOf
      <4> QED BY <3>1, <4>1 DEF ChapterRecords
    <3>4. \E c \in ToSet(cards) : c.valid /\ sources[n].id = c.source
      BY <2>3, <3>1, <3>2 DEF Traced
    <3>5. text.traced = {x \in DOMAIN sources :
                           \E c \in ToSet(cards) : c.valid /\ c.source = sources[x].id}
      BY DEF Assembled
    <3> QED BY <3>3, <3>4, <3>5
  <2>6. CitesOwnEvidence'
    <3>1. \A i \in DOMAIN chapters : \A n \in chapters[i].cites :
            \E c \in ToSet(cards) :
              c.valid /\ Id(c) \in ToSet(outline[i].evidence) /\ sources[n].id = c.source
      BY <2>3 DEF Traced
    <3>2. \A c \in ToSet(cards) :
            (\A d \in ToSet(cards) : Id(d) = Id(c) => d = c) => Uses(Id(c), outline) <= 2
      BY <2>3 DEF BindsValid
    <3>3. report'.text.lead \subseteq numbers /\ cited \subseteq report'.text.traced
      BY <1>2, <2>4, <2>5
    <3>4. \A i \in DOMAIN chapters : \A n \in chapters[i].bare :
            \/ chapters[i].by = "llm"
            \/ \E c \in ToSet(cards) : Id(c) \in ToSet(outline[i].evidence) /\ n \in c.quotes
      BY <2>3 DEF Explained, Quotable
    <3>5. chapters' = chapters /\ cards' = cards /\ outline' = outline /\ sources' = sources
      BY <1>2
    <3> QED BY <3>1, <3>2, <3>3, <3>4, <3>5 DEF CitesOwnEvidence, Uses
  <2>7. AbsencesShown'
    <3>1. report'.issues = {i \in DOMAIN outline : chapters[i].by = "none"}
      BY <1>2, <2>2 DEF Lost
    <3>2. report'.ready <=> report'.issues = {}
      BY <1>2
    <3> QED BY <1>2, <2>3, <3>1, <3>2 DEF AbsencesShown
  <2>8. WritesOwn'
    BY <1>2, <2>3 DEF WritesOwn, BindsValid, Uses, Traced, Explained, Quotable
  <2>9. StageTypeOK'
    <3>1. asked' \in 0 .. (IF pc' = "write" THEN 1 ELSE OutlineTries)
      BY <1>2, <2>1, StageAssumption DEF StageIInv, StageTypeOK
    <3> QED BY <1>2, <3>1 DEF StageIInv, StageTypeOK, Done
  <2>10. StageData'
    BY <1>2 DEF StageIInv, StageData, CardsFrom, ChapterRecords
  <2>11. SeedsKept'
    BY <1>2 DEF SeedsKept
  <2> QED BY <2>6, <2>7, <2>8, <2>9, <2>10, <2>11 DEF StageIInv, Checked
<1> QED BY <1>1, <1>2 DEF MergeChapters

LEMMA StageStutters == StageIInv /\ UNCHANGED stageVars => StageIInv'
<1> SUFFICES ASSUME StageIInv, UNCHANGED stageVars PROVE StageIInv'
  OBVIOUS
<1>1. StageTypeOK'
  BY DEF stageVars, StageIInv, StageTypeOK, Done
<1>2. StageData'
  BY DEF stageVars, StageIInv, StageData, CardsFrom, ChapterRecords
<1>3. SeedsKept'
  BY DEF stageVars, StageIInv, SeedsKept, SeedIds
<1>4. WritesOwn'
  BY DEF stageVars, StageIInv, Checked, WritesOwn, BindsValid, Uses, Traced, Explained, Quotable
<1>5. CitesOwnEvidence' /\ AbsencesShown'
  BY DEF stageVars, StageIInv, Checked, CitesOwnEvidence, AbsencesShown, Uses
<1> QED BY <1>1, <1>2, <1>3, <1>4, <1>5 DEF StageIInv, Checked

LEMMA StageStep == StageIInv /\ [StageNext]_stageVars => StageIInv'
<1> SUFFICES ASSUME StageIInv, [StageNext]_stageVars PROVE StageIInv'
  OBVIOUS
<1>1. CASE Search
  BY <1>1, SearchKeeps
<1>2. CASE MergeSearch
  BY <1>2, MergeSearchKeeps
<1>3. CASE SearchRaises
  BY <1>3, RaiseKeeps DEF SearchRaises
<1>4. CASE MergeReading
  BY <1>4, MergeReadingKeeps
<1>5. CASE Analyze
  BY <1>5, AnalyzeKeeps
<1>6. CASE Stop
  BY <1>6, StopKeeps
<1>7. CASE OutlineByRule
  BY <1>7, OutlineByRuleKeeps
<1>8. CASE AskOutline
  BY <1>8, AskOutlineKeeps
<1>9. CASE RepairOutline
  BY <1>9, RepairOutlineKeeps
<1>10. CASE ChapterByRule
  BY <1>10, ChapterByRuleKeeps
<1>11. CASE ChapterGap
  BY <1>11, ChapterGapKeeps
<1>12. CASE AskChapter
  BY <1>12, AskChapterKeeps
<1>13. CASE WriterFails
  BY <1>13, WriterFailsKeeps
<1>14. CASE MergeChapters
  BY <1>14, MergeChaptersKeeps
<1>15. CASE UNCHANGED stageVars
  BY <1>15, StageStutters
<1> QED BY <1>1, <1>2, <1>3, <1>4, <1>5, <1>6, <1>7, <1>8, <1>9, <1>10, <1>11, <1>12, <1>13,
           <1>14, <1>15 DEF StageNext

LEMMA StageInvariant == StageSpec => []StageIInv
<1>1. StageInit => StageIInv
  BY StageInitIInv
<1>2. StageIInv /\ [StageNext]_stageVars => StageIInv'
  BY StageStep
<1> QED BY <1>1, <1>2, PTL DEF StageSpec

\* The stages hand on papers, cards, sections and chapters of their types, and the
\* model is asked no more often than it may be.
THEOREM StageTypeCorrect == StageSpec => []StageTypeOK
<1>1. StageIInv => StageTypeOK
  BY DEF StageIInv
<1> QED BY <1>1, StageInvariant, PTL

\* A paper that the user named, and that clashes with no other, is in the pool,
\* whatever the filters, the ranking, the gate, the room and the model say
\* (seeds in runtime._merge_search).
THEOREM SeedsAreKept == StageSpec => []SeedsKept
<1>1. StageIInv => SeedsKept
  BY DEF StageIInv
<1> QED BY <1>1, StageInvariant, PTL

\* Whatever the model answers, the program puts only numbers of valid cards of its
\* section into a chapter, those of the references, which trace all of them; no card
\* serves more than two chapters; and other numbers are the model's own or quoted of a
\* card of the chapter (report_outline, llm_reviewer, draft_reviewer).
THEOREM CitationsAreOwn == StageSpec => []CitesOwnEvidence
<1>1. StageIInv => CitesOwnEvidence
  BY DEF StageIInv, Checked
<1> QED BY <1>1, StageInvariant, PTL

\* A report that lacks a chapter says so, and rules do not write in the place of the
\* model if only it may (merge of the chapters in runtime and draft_reviewer).
THEOREM AbsencesAreShown == StageSpec => []AbsencesShown
<1>1. StageIInv => AbsencesShown
  BY DEF StageIInv, Checked
<1> QED BY <1>1, StageInvariant, PTL
=============================================================================
