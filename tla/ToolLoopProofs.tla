--------------------------- MODULE ToolLoopProofs ---------------------------
(***************************************************************************)
(* Proofs about ToolLoop, for any team of workers and any limits.          *)
(***************************************************************************)
EXTENDS ToolLoop, FiniteSetTheorems, TLAPS

\* The values of an execution.
Executions ==
  [pc : {"idle", "loop", "asking", "calls", "tool", "rule", "ruletool", "done"},
   pending : Seq(Requests), count : 0 .. ItemCalls, iter : 0 .. MaxIter, errors : Nat,
   called : SUBSET Calls, local : 0 .. ItemCalls, gained : SUBSET Nat, seeded : BOOLEAN,
   left : Nat, fellBack : BOOLEAN, finishes : {0, 1}, ran : Nat, failed : BOOLEAN,
   denied : BOOLEAN,
   status : {"none", "success", "partial", "failed", "timeout", "cancelled"}]

Delivers(x) == x.status \in {"success", "partial"}
AtRules(x) == x.pc \in {"rule", "ruletool"}
Covers(w, x) == item[w].kind = "analyze" => Cardinality(x.gained) >= item[w].need

\* The budget of the item: what was called and what is left of it.
WithinItem(x) ==
  /\ x.ran <= ItemCalls
  /\ x.pc # "done" => x.ran + x.local <= ItemCalls /\ x.status = "none"
  /\ x.pc \in {"calls", "tool"} => Len(x.pending) + x.count <= ItemCalls
  /\ x.pc = "ruletool" => x.left # 0

\* A refusal marks the trace until the item ends without a result.
RefusalMarked(x, refusals) ==
  refusals # 0 => IF x.pc = "done" THEN ~Delivers(x) ELSE x.denied

\* The end of the loop is recorded before its results are looked at.
EndRecorded(w, x) == Loops(w) /\ Retrieval(w) /\ (AtRules(x) \/ Delivers(x)) => x.finishes = 1

\* The results of a loop that did not fall back are what it returned.
ModelCovers(w, x) ==
  Loops(w) /\ ~x.fellBack =>
    /\ AtRules(x) => x.pc = "rule" /\ x.left = 0 /\ Covers(w, x)
    /\ x.status = "success" => Covers(w, x)

Sound(w, x, refusals) ==
  x \in Executions /\ WithinItem(x) /\ RefusalMarked(x, refusals)
    /\ EndRecorded(w, x) /\ ModelCovers(w, x)

\* The run has paid for what the traces show.
Paid == IsFiniteSet(Made) /\ Cardinality(Made) + budget.left = RunCalls

IInv ==
  /\ item \in [Workers -> Items]
  /\ budget \in [registered : BOOLEAN, late : BOOLEAN, left : 0 .. RunCalls]
  /\ refused \in [Workers -> Nat]
  /\ work \in [Workers -> Executions]
  /\ \A w \in Workers : Sound(w, work[w], refused[w])
  /\ Paid

LEMMA Consts ==
  /\ ItemCalls \in Nat /\ RunCalls \in Nat /\ MaxIter \in Nat \ {0} /\ MaxErrors \in Nat \ {0}
  /\ Cardinality(Calls) \in Nat
  BY ToolLoopAssumption, FS_CardinalityType

LEMMA MinOf == ASSUME NEW a \in Nat, NEW b \in Nat
               PROVE  Min({a, b}) \in Nat /\ Min({a, b}) <= a /\ Min({a, b}) <= b
<1>1. PICK m \in {a, b} : \A y \in {a, b} : m <= y
  OBVIOUS
<1>2. Min({a, b}) \in {a, b} /\ \A y \in {a, b} : Min({a, b}) <= y
  BY <1>1 DEF Min
<1> QED BY <1>2

LEMMA IdleType == Idle \in Executions /\ Idle.left = 0 /\ Idle.status = "none"
  BY Consts DEF Idle, Executions

LEMMA AfterLoopType ==
  ASSUME NEW x \in Executions
  PROVE  /\ AfterLoop(x) \in Executions
         /\ AfterLoop(x).pc = "rule" /\ AfterLoop(x).ran = x.ran /\ AfterLoop(x).local = x.local
         /\ AfterLoop(x).denied = x.denied /\ AfterLoop(x).finishes = x.finishes
         /\ AfterLoop(x).status = "none" /\ AfterLoop(x).left = 0
  BY IdleType DEF AfterLoop, Executions

LEMMA RecordedType ==
  ASSUME NEW w, NEW x \in Executions
  PROVE  LET y == Recorded(w, x) IN
         /\ y \in Executions /\ y.pc = x.pc /\ y.ran = x.ran /\ y.local = x.local
         /\ y.denied = x.denied /\ y.fellBack = x.fellBack /\ y.status = x.status
         /\ y.gained = x.gained /\ y.left = x.left /\ (Retrieval(w) => y.finishes = 1)
  BY DEF Recorded, Executions

LEMMA InitIInv == Init => IInv
<1> SUFFICES ASSUME Init PROVE IInv
  OBVIOUS
<1>1. Idle \in Executions
  BY IdleType
<1>2. \A w \in Workers : work[w] = Idle /\ refused[w] = 0
  BY DEF Init
<1>3. \A w \in Workers : Sound(w, Idle, 0)
  BY <1>1, Consts DEF Sound, Idle, WithinItem, RefusalMarked, EndRecorded, ModelCovers, AtRules, Delivers
<1>4. Made = {}
  BY <1>2 DEF Made, Idle
<1>5. Paid
  BY <1>4, FS_EmptySet, Consts DEF Init, Paid
<1> QED BY <1>1, <1>2, <1>3, <1>5, Consts, ToolLoopAssumption DEF Init, IInv

(***************************************************************************)
(* One worker's step changes its execution only.                           *)
(***************************************************************************)
StepTo(w, y) ==
  /\ work' = [work EXCEPT ![w] = y]
  /\ Sound(w, y, refused'[w])
  /\ \/ UNCHANGED <<budget, refused>> /\ y.ran = work[w].ran
     \/ Refuse(w) /\ y.ran = work[w].ran
     \/ Reserve(w) /\ y.ran = work[w].ran + 1

\* An execution that has not ended, with its refusals marked.
Open(x, refusals) ==
  x \in Executions /\ x.ran + x.local <= ItemCalls /\ (refusals # 0 => x.denied)

LEMMA SoundOpen ==
  ASSUME NEW w, NEW x, NEW r, Sound(w, x, r), x.pc # "done"
  PROVE  Open(x, r) /\ x.status = "none"
  BY DEF Sound, Open, WithinItem, RefusalMarked

\* The fallback keeps the trace and its marks.
LEMMA FallBackSound ==
  ASSUME NEW w \in Workers, NEW x, NEW r, Open(x, r)
  PROVE  Sound(w, FallBack(w, x), r) /\ FallBack(w, x).ran = x.ran
<1> DEFINE y == FallBack(w, x)
<1>1. RuleCalls(w) \in Nat
  BY Consts DEF RuleCalls
<1>2. /\ y \in Executions
      /\ y.pc = "rule" /\ y.ran = x.ran /\ y.local = x.local /\ y.denied = x.denied
      /\ y.fellBack /\ y.status = "none" /\ (Retrieval(w) => y.finishes = 1)
  <2> DEFINE z == [AfterLoop(x) EXCEPT !.left = RuleCalls(w), !.fellBack = TRUE]
  <2>1. /\ z \in Executions /\ z.pc = "rule" /\ z.ran = x.ran /\ z.local = x.local
        /\ z.denied = x.denied /\ z.fellBack /\ z.status = "none" /\ z.finishes = x.finishes
    BY <1>1, AfterLoopType DEF Executions, Open
  <2>2. y = Recorded(w, z)
    BY DEF FallBack
  <2> HIDE DEF y, z
  <2> QED BY <2>1, <2>2, RecordedType
<1> HIDE DEF y
<1>3. y.ran + y.local <= ItemCalls /\ y.ran <= ItemCalls
  BY <1>2, Consts DEF Open, Executions
<1> QED BY <1>2, <1>3 DEF Open, Sound, WithinItem, RefusalMarked, EndRecorded, ModelCovers, AtRules,
         Delivers, y

LEMMA ReturnSound ==
  ASSUME NEW w \in Workers, NEW x, NEW r, Open(x, r), Covers(w, x)
  PROVE  Sound(w, Return(w, x), r) /\ Return(w, x).ran = x.ran
<1> DEFINE y == Return(w, x)
<1>2. /\ y \in Executions
      /\ y.pc = "rule" /\ y.ran = x.ran /\ y.local = x.local /\ y.denied = x.denied
      /\ y.left = 0 /\ y.gained = x.gained /\ y.status = "none" /\ (Retrieval(w) => y.finishes = 1)
  <2> DEFINE z == [AfterLoop(x) EXCEPT !.gained = x.gained, !.seeded = x.seeded]
  <2>1. /\ z \in Executions /\ z.pc = "rule" /\ z.ran = x.ran /\ z.local = x.local
        /\ z.denied = x.denied /\ z.status = "none" /\ z.finishes = x.finishes
        /\ z.gained = x.gained /\ z.left = 0
    BY AfterLoopType DEF Executions, Open
  <2>2. y = Recorded(w, z)
    BY DEF Return
  <2> HIDE DEF y, z
  <2> QED BY <2>1, <2>2, RecordedType
<1> HIDE DEF y
<1>3. y.ran + y.local <= ItemCalls /\ y.ran <= ItemCalls
  BY <1>2, Consts DEF Open, Executions
<1> QED BY <1>2, <1>3 DEF Open, Sound, WithinItem, RefusalMarked, EndRecorded, ModelCovers, AtRules,
         Delivers, Covers, y

\* An item may end with a result only if its trace allows it.
LEMMA EndedStep ==
  ASSUME IInv, NEW w \in Workers, NEW s \in {"success", "partial", "failed", "timeout", "cancelled"},
         Ended(w, s), UNCHANGED <<budget, refused>>,
         s \in {"success", "partial"} =>
           /\ refused[w] = 0
           /\ Loops(w) /\ Retrieval(w) => work[w].finishes = 1,
         s = "success" /\ Loops(w) /\ ~work[w].fellBack => Covers(w, work[w])
  PROVE  \E y : StepTo(w, y)
<1> DEFINE x == work[w]
           y == [Idle EXCEPT !.pc = "done", !.status = s, !.ran = x.ran,
                   !.gained = x.gained, !.fellBack = x.fellBack, !.finishes = x.finishes]
<1>1. x \in Executions /\ x.ran <= ItemCalls
  BY DEF IInv, Sound, WithinItem
<1>2. /\ y \in Executions /\ y.pc = "done" /\ y.status = s /\ y.ran = x.ran
      /\ y.gained = x.gained /\ y.fellBack = x.fellBack /\ y.finishes = x.finishes
  BY <1>1, IdleType DEF Executions
<1>3. work' = [work EXCEPT ![w] = y]
  BY DEF Ended
<1> HIDE DEF y
<1>4. Sound(w, y, refused[w])
  BY <1>1, <1>2 DEF Sound, WithinItem, RefusalMarked, EndRecorded, ModelCovers, AtRules, Delivers, Covers
<1>5. StepTo(w, y)
  BY <1>2, <1>3, <1>4 DEF StepTo
<1> QED BY <1>5

LEMMA StepKeeps ==
  ASSUME IInv, NEW w \in Workers, NEW y, StepTo(w, y), UNCHANGED item
  PROVE  IInv'
<1>1. /\ work' \in [Workers -> Executions] /\ work'[w] = y
      /\ \A v \in Workers \ {w} : work'[v] = work[v]
  BY DEF IInv, StepTo, Sound
<1>2. /\ refused' \in [Workers -> Nat]
      /\ \A v \in Workers \ {w} : refused'[v] = refused[v]
      /\ budget' \in [registered : BOOLEAN, late : BOOLEAN, left : 0 .. RunCalls]
  BY Consts DEF IInv, StepTo, Refuse, Reserve, Admitted
<1>3. \A v \in Workers : Sound(v, work[v], refused[v])'
  BY <1>1, <1>2 DEF IInv, StepTo, Sound, WithinItem, RefusalMarked, EndRecorded, ModelCovers, AtRules,
     Delivers, Covers, Loops, Retrieval
<1>4. Paid'
  <2>1. CASE y.ran = work[w].ran /\ budget' = budget
    <3>1. Made' = Made
      BY <1>1, <2>1 DEF Made
    <3> QED BY <2>1, <3>1 DEF IInv, Paid
  <2>2. CASE Reserve(w) /\ y.ran = work[w].ran + 1
    <3> DEFINE e == <<w, work[w].ran + 1>>
    <3>0. \A v \in Workers : work[v].ran \in Nat /\ work'[v].ran \in Nat
      BY <1>1 DEF IInv, Executions
    <3>1. Made' = Made \union {e}
      <4>1. ASSUME NEW v \in Workers, NEW i \in Nat PROVE <<v, i>> \in Made <=> i \in 1 .. work[v].ran
        BY DEF Made
      <4>2. ASSUME NEW v \in Workers, NEW i \in Nat PROVE <<v, i>> \in Made' <=> i \in 1 .. work'[v].ran
        BY DEF Made
      <4>3. /\ \A q \in Made : \E v \in Workers, i \in Nat : q = <<v, i>>
            /\ \A q \in Made' : \E v \in Workers, i \in Nat : q = <<v, i>>
        BY DEF Made
      <4>4. \A v \in Workers, i \in Nat : <<v, i>> \in Made' <=> <<v, i>> \in Made \/ <<v, i>> = e
        <5> SUFFICES ASSUME NEW v \in Workers, NEW i \in Nat
                     PROVE  <<v, i>> \in Made' <=> <<v, i>> \in Made \/ <<v, i>> = e
          OBVIOUS
        <5>1. CASE v = w
          BY <1>1, <2>2, <3>0, <4>1, <4>2, <5>1
        <5>2. CASE v # w
          BY <1>1, <2>2, <3>0, <4>1, <4>2, <5>2
        <5> QED BY <5>1, <5>2
      <4> QED BY <3>0, <4>3, <4>4
    <3>2. e \notin Made
      BY <3>0 DEF Made
    <3>3. IsFiniteSet(Made') /\ Cardinality(Made') = Cardinality(Made) + 1
      BY <3>1, <3>2, FS_AddElement DEF IInv, Paid
    <3>4. budget'.left = budget.left - 1 /\ budget.left \in Nat /\ Cardinality(Made) \in Nat
      BY <2>2, FS_CardinalityType, Consts DEF Reserve, Admitted, IInv, Paid
    <3> QED BY <3>3, <3>4 DEF IInv, Paid
  <2> QED BY <2>1, <2>2 DEF StepTo, Refuse
<1> QED BY <1>1, <1>2, <1>3, <1>4 DEF IInv

\* The execution goes on: what it was called for, refused and found stays with it.
LEMMA GoesOn ==
  ASSUME IInv, NEW w \in Workers, work[w].pc # "done",
         NEW y \in Executions, work' = [work EXCEPT ![w] = y],
         y.pc # "done", y.status = "none",
         y.pc \in {"calls", "tool"} => Len(y.pending) + y.count <= ItemCalls,
         y.pc = "ruletool" => y.left # 0,
         AtRules(y) => \/ ~Loops(w)
                       \/ /\ AtRules(work[w]) /\ work[w].fellBack
                          /\ y.finishes = work[w].finishes /\ y.fellBack,
         \/ /\ UNCHANGED <<budget, refused>>
            /\ y.ran = work[w].ran /\ y.local = work[w].local /\ y.denied = work[w].denied
         \/ Refuse(w) /\ y.ran = work[w].ran /\ y.local <= work[w].local /\ y.denied
         \/ /\ Reserve(w) /\ y.ran = work[w].ran + 1 /\ y.local = work[w].local - 1
            /\ y.denied = work[w].denied
  PROVE  \E z : StepTo(w, z)
<1>1. /\ work[w] \in Executions /\ Sound(w, work[w], refused[w])
      /\ work[w].ran + work[w].local <= ItemCalls
  BY DEF IInv, Sound, WithinItem
<1>2. WithinItem(y)
  <2>1. /\ y.ran \in Nat /\ y.local \in Nat /\ work[w].ran \in Nat /\ work[w].local \in Nat
    BY <1>1, Consts DEF Executions
  <2>2. \/ y.ran = work[w].ran /\ y.local <= work[w].local
        \/ y.ran = work[w].ran + 1 /\ y.local = work[w].local - 1
    BY <2>1
  <2>3. y.ran + y.local <= ItemCalls
    BY <1>1, <2>1, <2>2, Consts
  <2> QED BY <2>1, <2>3, Consts DEF WithinItem
<1>3. RefusalMarked(y, refused'[w])
  BY <1>1 DEF Sound, RefusalMarked, Refuse, Reserve, IInv
<1>4. EndRecorded(w, y) /\ ModelCovers(w, y)
  <2>1. Loops(w) /\ AtRules(y) => y.fellBack
    OBVIOUS
  <2> QED BY <1>1, <2>1 DEF Sound, EndRecorded, ModelCovers, Delivers
<1>5. StepTo(w, y)
  BY <1>2, <1>3, <1>4 DEF StepTo, Sound
<1> QED BY <1>5

\* Falling back, and returning from the loop, from an execution x that has gone on.
LEMMA Leaves ==
  ASSUME IInv, NEW w \in Workers, NEW x, Open(x, refused[w]), x.ran = work[w].ran,
         UNCHANGED <<budget, refused>>,
         \/ work' = [work EXCEPT ![w] = FallBack(w, x)]
         \/ work' = [work EXCEPT ![w] = Return(w, x)] /\ Covers(w, x)
  PROVE  \E y : StepTo(w, y)
<1>1. CASE work' = [work EXCEPT ![w] = FallBack(w, x)]
  <2>1. StepTo(w, FallBack(w, x))
    BY <1>1, FallBackSound DEF StepTo
  <2> QED BY <2>1
<1>2. CASE work' = [work EXCEPT ![w] = Return(w, x)] /\ Covers(w, x)
  <2>1. StepTo(w, Return(w, x))
    BY <1>2, ReturnSound DEF StepTo
  <2> QED BY <2>1
<1> QED BY <1>1, <1>2

LEMMA CompleteCovers ==
  ASSUME NEW w, NEW x, Retrieval(w) \/ Complete(w, x)
  PROVE  Covers(w, x)
  BY DEF Complete, Covers, Retrieval

LEMMA BeginStep == ASSUME IInv, NEW w \in Workers, Begin(w) PROVE \E y : StepTo(w, y)
<1> DEFINE x == [work[w] EXCEPT !.seeded = item[w].resources]
<1>1. work[w].pc = "idle" /\ work[w] \in Executions /\ Open(work[w], refused[w]) /\ work[w].status = "none"
  BY SoundOpen DEF Begin, IInv
<1>2. item[w] \in Items
  BY DEF IInv
<1>3. /\ x \in Executions /\ Open(x, refused[w]) /\ x.ran = work[w].ran /\ x.local = work[w].local
      /\ x.denied = work[w].denied /\ x.status = "none"
  BY <1>1, <1>2 DEF Open, Executions, Items
<1>4. UNCHANGED <<budget, refused>>
  BY DEF Begin
<1>5. CASE Ended(w, "timeout") \/ Ended(w, "failed")
  BY <1>4, <1>5, EndedStep
<1>6. CASE \E y \in Started(w, x) : work' = [work EXCEPT ![w] = y]
  <2>1. CASE Loops(w) /\ work' = [work EXCEPT ![w] = FallBack(w, x)]
    BY <1>3, <1>4, <2>1, Leaves
  <2>2. CASE Loops(w) /\ work' = [work EXCEPT ![w] = [x EXCEPT !.pc = "loop"]]
    <3> DEFINE y == [x EXCEPT !.pc = "loop"]
    <3>1. /\ y \in Executions /\ y.pc = "loop" /\ y.ran = x.ran /\ y.local = x.local
          /\ y.denied = x.denied /\ y.status = "none"
      BY <1>3 DEF Executions
    <3> HIDE DEF x, y
    <3> QED BY <1>1, <1>3, <1>4, <2>2, <3>1, GoesOn DEF AtRules, y
  <2>3. CASE ~Loops(w)
    <3>1. RuleCalls(w) \in Nat
      BY Consts DEF RuleCalls
    <3>2. PICK n \in Nat : work' = [work EXCEPT ![w] = [x EXCEPT !.pc = "rule", !.left = n]]
      BY <1>6, <2>3, <3>1, Consts, MinOf DEF Started
    <3> DEFINE y == [x EXCEPT !.pc = "rule", !.left = n]
    <3>3. /\ y \in Executions /\ y.pc = "rule" /\ y.ran = x.ran /\ y.local = x.local
          /\ y.denied = x.denied /\ y.status = "none"
      BY <1>3 DEF Executions
    <3> HIDE DEF x, y
    <3> QED BY <1>1, <1>3, <1>4, <2>3, <3>2, <3>3, GoesOn DEF AtRules, y
  <2> QED BY <1>6, <2>1, <2>2, <2>3 DEF Started
<1> QED BY <1>5, <1>6 DEF Begin

LEMMA LoopStep ==
  ASSUME IInv, NEW w \in Workers, Ask(w) \/ LoopTimeout(w) \/ Limit(w)
  PROVE  \E y : StepTo(w, y)
<1>1. /\ work[w].pc = "loop" /\ work[w] \in Executions /\ Open(work[w], refused[w])
      /\ work[w].status = "none"
  BY SoundOpen DEF Ask, LoopTimeout, Limit, IInv
<1>2. UNCHANGED <<budget, refused>>
  BY DEF Ask, LoopTimeout, Limit
<1>3. CASE Ask(w)
  <2> DEFINE y == [work[w] EXCEPT !.pc = "asking", !.iter = @ + 1]
  <2>1. /\ y \in Executions /\ y.pc = "asking" /\ y.ran = work[w].ran /\ y.local = work[w].local
        /\ y.denied = work[w].denied /\ y.status = "none"
    <3>1. work[w].iter + 1 \in 0 .. MaxIter
      BY <1>1, <1>3, Consts DEF Ask, Executions
    <3> QED BY <1>1, <3>1 DEF Executions
  <2>2. work' = [work EXCEPT ![w] = y]
    BY <1>3 DEF Ask
  <2> HIDE DEF y
  <2> QED BY <1>1, <1>2, <2>1, <2>2, GoesOn DEF AtRules
<1>4. CASE LoopTimeout(w)
  BY <1>1, <1>2, <1>4, Leaves, CompleteCovers DEF LoopTimeout
<1>5. CASE Limit(w)
  BY <1>1, <1>2, <1>5, Leaves, CompleteCovers DEF Limit
<1> QED BY <1>3, <1>4, <1>5

LEMMA AnswerStep ==
  ASSUME IInv, NEW w \in Workers, ModelError(w) \/ ModelFinish(w) \/ ModelCalls(w)
  PROVE  \E y : StepTo(w, y)
<1>1. /\ work[w].pc = "asking" /\ work[w] \in Executions /\ Open(work[w], refused[w])
      /\ work[w].status = "none"
  BY SoundOpen DEF ModelError, ModelFinish, ModelCalls, IInv
<1>2. UNCHANGED <<budget, refused>>
  BY DEF ModelError, ModelFinish, ModelCalls
<1>3. ASSUME NEW n \in Nat
      PROVE  LET x == [work[w] EXCEPT !.errors = n] IN
             /\ x \in Executions /\ Open(x, refused[w]) /\ x.ran = work[w].ran /\ x.local = work[w].local
             /\ x.denied = work[w].denied /\ x.status = "none" /\ x.count = work[w].count
             /\ x.pc = "asking" /\ x.gained = work[w].gained
  BY <1>1 DEF Open, Executions
<1>4. ASSUME NEW n \in Nat, work' = [work EXCEPT ![w] = [[work[w] EXCEPT !.errors = n] EXCEPT !.pc = "loop"]]
      PROVE  \E y : StepTo(w, y)
  <2> DEFINE x == [work[w] EXCEPT !.errors = n]
             y == [x EXCEPT !.pc = "loop"]
  <2>1. /\ y \in Executions /\ y.pc = "loop" /\ y.ran = work[w].ran /\ y.local = work[w].local
        /\ y.denied = work[w].denied /\ y.status = "none"
    BY <1>1, <1>3 DEF Executions
  <2> HIDE DEF x, y
  <2> QED BY <1>1, <1>2, <1>4, <2>1, GoesOn DEF AtRules, x, y
<1>5. CASE ModelError(w)
  <2>1. work[w].errors + 1 \in Nat
    BY <1>1 DEF Executions
  <2>2. CASE work' = [work EXCEPT ![w] = FallBack(w, [work[w] EXCEPT !.errors = work[w].errors + 1])]
    BY <1>2, <1>3, <2>1, <2>2, Leaves
  <2>3. CASE work' = [work EXCEPT ![w] = [[work[w] EXCEPT !.errors = work[w].errors + 1] EXCEPT !.pc = "loop"]]
    BY <1>4, <2>1, <2>3
  <2> QED BY <1>5, <2>2, <2>3 DEF ModelError
<1>6. CASE ModelFinish(w)
  <2>1. CASE Complete(w, [work[w] EXCEPT !.errors = 0])
    BY <1>2, <1>3, <1>6, <2>1, Leaves, CompleteCovers DEF ModelFinish
  <2>2. CASE ~Complete(w, [work[w] EXCEPT !.errors = 0])
    BY <1>4, <1>6, <2>2 DEF ModelFinish
  <2> QED BY <2>1, <2>2
<1>7. CASE ModelCalls(w)
  <2> DEFINE x == [work[w] EXCEPT !.errors = 0]
  <2>1. PICK answer \in BoundedSeq(Requests, MaxBatch) :
          work' = [work EXCEPT ![w] =
            IF answer = <<>> THEN FallBack(w, x)
            ELSE [x EXCEPT !.pc = "calls",
                           !.pending = SubSeq(answer, 1, Min({Len(answer), ItemCalls - x.count}))]]
    BY <1>7 DEF ModelCalls
  <2>2. CASE answer = <<>>
    BY <1>2, <1>3, <2>1, <2>2, Leaves
  <2>3. CASE answer # <<>>
    <3>1. answer \in Seq(Requests) /\ Len(answer) \in Nat
      <4>1. PICK n \in 0 .. MaxBatch : answer \in [1 .. n -> Requests]
        BY <2>1 DEF BoundedSeq, SeqOf
      <4> QED BY <4>1, ToolLoopAssumption
    <3>2. x.count \in 0 .. ItemCalls /\ ItemCalls - x.count \in Nat
      BY <1>1, <1>3, Consts DEF Executions
    <3> DEFINE m == Min({Len(answer), ItemCalls - x.count})
               p == SubSeq(answer, 1, m)
    <3>3. m \in Nat /\ m <= Len(answer) /\ m <= ItemCalls - x.count
      BY <3>1, <3>2, MinOf
    <3> HIDE DEF m
    <3>4. p \in Seq(Requests) /\ Len(p) = m
      BY <3>1, <3>3
    <3> DEFINE y == [x EXCEPT !.pc = "calls", !.pending = p]
    <3>5. /\ y \in Executions /\ y.pc = "calls" /\ y.ran = work[w].ran /\ y.local = work[w].local
          /\ y.denied = work[w].denied /\ y.status = "none" /\ y.pending = p /\ y.count = x.count
      BY <1>1, <1>3, <3>4 DEF Executions
    <3>6. work' = [work EXCEPT ![w] = y]
      BY <2>1, <2>3 DEF m
    <3>7. Len(y.pending) + y.count <= ItemCalls
      BY <3>2, <3>3, <3>4, <3>5, Consts
    <3> HIDE DEF x, y
    <3> QED BY <1>1, <1>2, <3>5, <3>6, <3>7, GoesOn DEF AtRules
  <2> QED BY <2>2, <2>3
<1> QED BY <1>5, <1>6, <1>7

\* What the provers read off the type of an execution.
LEMMA ExecutionFields ==
  ASSUME NEW x \in Executions
  PROVE  /\ x.errors \in Nat /\ x.count \in Nat /\ x.pending \in Seq(Requests)
         /\ x.local \in 0 .. ItemCalls /\ x.ran \in Nat /\ x.called \subseteq Calls
         /\ Len(x.pending) \in Nat
<1>1. x.errors \in Nat /\ x.count \in Nat /\ x.ran \in Nat
  BY DEF Executions
<1>2. x.local \in 0 .. ItemCalls /\ x.called \in SUBSET Calls
  BY DEF Executions
<1>3. x.pending \in Seq(Requests)
  BY DEF Executions
<1> QED BY <1>1, <1>2, <1>3

LEMMA CallStep ==
  ASSUME IInv, NEW w \in Workers, HandleCall(w) \/ ToolAnswer(w) \/ EndOfCalls(w)
  PROVE  \E y : StepTo(w, y)
<1>1. /\ work[w].pc \in {"calls", "tool"} /\ work[w] \in Executions /\ Open(work[w], refused[w])
      /\ work[w].status = "none" /\ Len(work[w].pending) + work[w].count <= ItemCalls
  BY SoundOpen DEF HandleCall, ToolAnswer, EndOfCalls, IInv, Sound, WithinItem
<1>2. /\ work[w].errors \in Nat /\ work[w].count \in Nat /\ work[w].pending \in Seq(Requests)
      /\ work[w].local \in 0 .. ItemCalls /\ work[w].ran \in Nat /\ work[w].called \subseteq Calls
      /\ Len(work[w].pending) \in Nat
  BY <1>1, ExecutionFields
<1>3. CASE HandleCall(w)
  <2> DEFINE x == [work[w] EXCEPT !.pending = Tail(@)]
             c == Head(work[w].pending)
             counted == [x EXCEPT !.called = @ \union {c}, !.count = @ + 1]
  <2>1. /\ Tail(work[w].pending) \in Seq(Requests) /\ c \in Requests
        /\ Len(Tail(work[w].pending)) = Len(work[w].pending) - 1 /\ work[w].pc = "calls"
    BY <1>2, <1>3 DEF HandleCall
  <2>2. /\ x \in Executions /\ x.pc = "calls" /\ x.ran = work[w].ran /\ x.local = work[w].local
        /\ x.denied = work[w].denied /\ x.status = "none" /\ x.count = work[w].count
        /\ x.errors = work[w].errors /\ x.called = work[w].called
        /\ x.pending = Tail(work[w].pending)
    BY <1>1, <1>2, <2>1 DEF Executions
  <2> HIDE DEF x
  <2>8. x.count \in Nat /\ Len(x.pending) \in Nat /\ Len(x.pending) + x.count + 1 <= ItemCalls
    BY <1>1, <1>2, <2>1, <2>2, Consts
  <2>3. CASE /\ c = "invalid" /\ work' = [work EXCEPT ![w] = [x EXCEPT !.errors = @ + 1]]
             /\ UNCHANGED <<budget, refused>>
    <3> DEFINE y == [x EXCEPT !.errors = @ + 1]
    <3>1. /\ y \in Executions /\ y.pc = "calls" /\ y.ran = x.ran /\ y.local = x.local
          /\ y.denied = x.denied /\ y.status = "none" /\ y.count = x.count /\ y.pending = x.pending
      <4>1. x.errors + 1 \in Nat
        BY <1>2, <2>2
      <4> QED BY <2>2, <4>1 DEF Executions
    <3>2. Len(y.pending) + y.count <= ItemCalls
      BY <2>8, <3>1, Consts
    <3> HIDE DEF y, c
    <3> QED BY <1>1, <2>2, <2>3, <3>1, <3>2, GoesOn DEF AtRules, y
  <2>4. CASE /\ c \in x.called /\ work' = [work EXCEPT ![w] = x] /\ UNCHANGED <<budget, refused>>
    <3>1. Len(x.pending) + x.count <= ItemCalls
      BY <2>8, Consts
    <3> HIDE DEF c
    <3> QED BY <1>1, <2>2, <2>4, <3>1, GoesOn DEF AtRules
  <2>5. /\ c \in Calls => /\ counted \in Executions /\ Len(counted.pending) + counted.count <= ItemCalls
        /\ counted.pc = "calls" /\ counted.ran = x.ran /\ counted.local = x.local
        /\ counted.denied = x.denied /\ counted.status = "none" /\ counted.errors = x.errors
    <3>1. x.count + 1 \in 0 .. ItemCalls
      BY <2>8, Consts
    <3>2. /\ counted.pending = x.pending /\ counted.count = x.count + 1
          /\ counted.pc = "calls" /\ counted.ran = x.ran /\ counted.local = x.local
          /\ counted.denied = x.denied /\ counted.status = "none" /\ counted.errors = x.errors
      BY <2>2 DEF Executions
    <3>3. c \in Calls => counted \in Executions
      BY <1>2, <2>2, <3>1 DEF Executions
    <3>4. Len(x.pending) + (x.count + 1) <= ItemCalls
      BY <2>8, Consts
    <3> QED BY <3>2, <3>3, <3>4
  <2> HIDE DEF counted
  <2>9. c \in Calls => /\ counted.local \in 0 .. ItemCalls /\ counted.ran \in Nat
                       /\ counted.errors \in Nat /\ counted.local = work[w].local
                       /\ counted.ran = work[w].ran /\ counted.denied = work[w].denied
    BY <1>2, <2>2, <2>5
  <2>6. CASE /\ c \in Calls /\ Reserve(w)
             /\ work' = [work EXCEPT ![w] = [Called(counted) EXCEPT !.pc = "tool"]]
    <3> DEFINE y == [Called(counted) EXCEPT !.pc = "tool"]
    <3>1. counted.local - 1 \in 0 .. ItemCalls /\ counted.local > 0 /\ counted.ran + 1 \in Nat
      BY <2>6, <2>9, Consts DEF Reserve, Admitted
    <3>2. /\ y \in Executions /\ y.pc = "tool" /\ y.ran = counted.ran + 1 /\ y.local = counted.local - 1
          /\ y.denied = counted.denied /\ y.status = "none" /\ y.pending = counted.pending
          /\ y.count = counted.count
      BY <2>5, <2>6, <3>1 DEF Called, Spent, Executions
    <3>3. work' = [work EXCEPT ![w] = y]
      BY <2>6
    <3> HIDE DEF c, y
    <3>4. AtRules(y) => FALSE
      BY <3>2 DEF AtRules
    <3> QED BY <1>1, <2>5, <2>6, <2>9, <3>2, <3>3, <3>4, GoesOn
  <2>7. CASE /\ c \in Calls /\ Refuse(w)
             /\ work' = [work EXCEPT ![w] = [Spent(counted) EXCEPT !.errors = @ + 1, !.denied = TRUE]]
    <3> DEFINE y == [Spent(counted) EXCEPT !.errors = @ + 1, !.denied = TRUE]
               n == IF counted.local > 0 THEN counted.local - 1 ELSE 0
    <3>1. n \in 0 .. ItemCalls /\ n <= counted.local /\ counted.errors + 1 \in Nat
      BY <2>7, <2>9, Consts
    <3>2. /\ y \in Executions /\ y.pc = "calls" /\ y.ran = counted.ran /\ y.local = n
          /\ y.denied /\ y.status = "none" /\ y.pending = counted.pending
          /\ y.count = counted.count
      BY <2>5, <2>7, <3>1 DEF Spent, Executions
    <3>3. work' = [work EXCEPT ![w] = y]
      BY <2>7
    <3> HIDE DEF c, y, n
    <3>4. AtRules(y) => FALSE
      BY <3>2 DEF AtRules
    <3> QED BY <1>1, <2>5, <2>7, <2>9, <3>1, <3>2, <3>3, <3>4, GoesOn
  <2> QED BY <1>3, <2>3, <2>4, <2>6, <2>7 DEF HandleCall, x, counted
<1>4. CASE ToolAnswer(w)
  <2>1. PICK ok, useful \in BOOLEAN :
          work' = [work EXCEPT ![w] =
            [Accumulate(work[w], work[w].count, useful) EXCEPT
               !.pc = "calls", !.failed = @ \/ ~ok, !.errors = IF ok THEN 0 ELSE @ + 1]]
    BY <1>4 DEF ToolAnswer
  <2> DEFINE y == [Accumulate(work[w], work[w].count, useful) EXCEPT
               !.pc = "calls", !.failed = @ \/ ~ok, !.errors = IF ok THEN 0 ELSE @ + 1]
  <2>2. /\ y \in Executions /\ y.pc = "calls" /\ y.ran = work[w].ran /\ y.local = work[w].local
        /\ y.denied = work[w].denied /\ y.status = "none" /\ y.pending = work[w].pending
        /\ y.count = work[w].count
    <3>1. /\ Accumulate(work[w], work[w].count, useful) \in Executions
          /\ \E g : Accumulate(work[w], work[w].count, useful) = [work[w] EXCEPT !.gained = g]
      BY <1>1, <1>2 DEF Accumulate, Executions
    <3> DEFINE s == Accumulate(work[w], work[w].count, useful)
               n == IF ok THEN 0 ELSE s.errors + 1
    <3>2. /\ s.pc = work[w].pc /\ s.ran = work[w].ran /\ s.local = work[w].local
          /\ s.denied = work[w].denied /\ s.status = "none" /\ s.pending = work[w].pending
          /\ s.count = work[w].count /\ s.errors = work[w].errors
      BY <1>1, <3>1 DEF Executions
    <3>3. n \in Nat /\ (s.failed \/ ~ok) \in BOOLEAN
      BY <1>2, <3>2
    <3>4. y = [s EXCEPT !.pc = "calls", !.failed = s.failed \/ ~ok, !.errors = n]
      OBVIOUS
    <3> HIDE DEF s, n, y
    <3> QED BY <3>1, <3>2, <3>3, <3>4 DEF Executions, s
  <2> HIDE DEF y
  <2>3. work' = [work EXCEPT ![w] = y] /\ UNCHANGED <<budget, refused>>
    BY <1>4, <2>1 DEF ToolAnswer, y
  <2> QED BY <1>1, <2>2, <2>3, GoesOn DEF AtRules
<1>5. CASE EndOfCalls(w)
  <2>1. UNCHANGED <<budget, refused>>
    BY <1>5 DEF EndOfCalls
  <2>2. CASE work' = [work EXCEPT ![w] = FallBack(w, work[w])]
    BY <1>1, <2>1, <2>2, Leaves
  <2>3. CASE work' = [work EXCEPT ![w] = [work[w] EXCEPT !.pc = "loop"]]
    <3> DEFINE y == [work[w] EXCEPT !.pc = "loop"]
    <3>1. /\ y \in Executions /\ y.pc = "loop" /\ y.ran = work[w].ran /\ y.local = work[w].local
          /\ y.denied = work[w].denied /\ y.status = "none"
      BY <1>1 DEF Executions
    <3> HIDE DEF y
    <3> QED BY <1>1, <2>1, <2>3, <3>1, GoesOn DEF AtRules, y
  <2> QED BY <1>5, <2>2, <2>3 DEF EndOfCalls
<1> QED BY <1>3, <1>4, <1>5

LEMMA RuleStep ==
  ASSUME IInv, NEW w \in Workers, RuleCall(w) \/ RuleAnswer(w)
  PROVE  \E y : StepTo(w, y)
<1>1. /\ AtRules(work[w]) /\ work[w] \in Executions /\ Open(work[w], refused[w])
      /\ work[w].status = "none" /\ work[w].pc \in {"rule", "ruletool"}
  BY SoundOpen DEF RuleCall, RuleAnswer, IInv, AtRules
<1>2. /\ work[w].left \in Nat /\ work[w].local \in 0 .. ItemCalls /\ work[w].ran \in Nat
  BY <1>1 DEF Executions
<1>3. work[w].left # 0 /\ (Loops(w) => work[w].fellBack)
  <2>1. ModelCovers(w, work[w]) /\ (work[w].pc = "ruletool" => work[w].left # 0)
    BY DEF IInv, Sound, WithinItem
  <2>2. work[w].left # 0
    <3>1. CASE RuleCall(w)
      <4>1. work[w].left > 0
        BY <3>1 DEF RuleCall
      <4> QED BY <1>2, <4>1
    <3>2. CASE RuleAnswer(w)
      BY <2>1, <3>2 DEF RuleAnswer
    <3> QED BY <3>1, <3>2
  <2> QED BY <1>1, <2>1, <2>2 DEF ModelCovers
<1>4. CASE RuleCall(w) /\ Reserve(w)
           /\ work' = [work EXCEPT ![w] = [Called(work[w]) EXCEPT !.pc = "ruletool"]]
  <2> DEFINE y == [Called(work[w]) EXCEPT !.pc = "ruletool"]
  <2>1. work[w].local > 0 /\ work[w].local - 1 \in 0 .. ItemCalls
    BY <1>2, <1>4, Consts DEF Reserve, Admitted
  <2>2. /\ y \in Executions /\ y.pc = "ruletool" /\ y.ran = work[w].ran + 1
        /\ y.local = work[w].local - 1 /\ y.denied = work[w].denied /\ y.status = "none"
        /\ y.left = work[w].left /\ y.fellBack = work[w].fellBack /\ y.finishes = work[w].finishes
    <3> DEFINE s == Spent(work[w])
    <3>1. /\ s \in Executions /\ s.local = work[w].local - 1 /\ s.ran = work[w].ran
          /\ s.denied = work[w].denied /\ s.status = "none" /\ s.left = work[w].left
          /\ s.fellBack = work[w].fellBack /\ s.finishes = work[w].finishes
      BY <1>1, <1>2, <2>1 DEF Spent, Executions
    <3>2. y = [[s EXCEPT !.ran = @ + 1] EXCEPT !.pc = "ruletool"]
      BY DEF Called
    <3> HIDE DEF s, y
    <3> DEFINE r == [s EXCEPT !.ran = @ + 1]
    <3>3. /\ r \in Executions /\ r.local = s.local /\ r.ran = work[w].ran + 1
          /\ r.denied = s.denied /\ r.status = "none" /\ r.left = s.left
          /\ r.fellBack = s.fellBack /\ r.finishes = s.finishes
      <4>1. s.ran + 1 \in Nat /\ s.ran + 1 = work[w].ran + 1
        BY <1>2, <3>1
      <4> QED BY <3>1, <4>1 DEF Executions
    <3> HIDE DEF r
    <3>4. y = [r EXCEPT !.pc = "ruletool"]
      BY <3>2 DEF r
    <3> QED BY <3>1, <3>3, <3>4 DEF Executions
  <2> HIDE DEF y
  <2>3. work[w].left # 0
    BY <1>2, <1>4 DEF RuleCall
  <2> QED BY <1>1, <1>3, <1>4, <2>2, <2>3, GoesOn DEF y
<1>5. CASE RuleCall(w) /\ Refuse(w)
           /\ work' = [work EXCEPT ![w] = [Spent(work[w]) EXCEPT !.left = @ - 1, !.denied = TRUE]]
  <2> DEFINE y == [Spent(work[w]) EXCEPT !.left = @ - 1, !.denied = TRUE]
             n == IF work[w].local > 0 THEN work[w].local - 1 ELSE 0
  <2>1. n \in 0 .. ItemCalls /\ n <= work[w].local /\ work[w].left - 1 \in Nat
    BY <1>2, <1>5, Consts DEF RuleCall
  <2>2. /\ y \in Executions /\ y.pc = work[w].pc /\ y.ran = work[w].ran
        /\ y.local = n /\ y.denied /\ y.status = "none"
        /\ y.fellBack = work[w].fellBack /\ y.finishes = work[w].finishes
    BY <1>1, <1>2, <2>1 DEF Spent, Executions
  <2> HIDE DEF y, n
  <2>3. work[w].pc = "rule"
    BY <1>5 DEF RuleCall
  <2> QED BY <1>1, <1>3, <1>5, <2>1, <2>2, <2>3, GoesOn DEF y
<1>6. CASE RuleAnswer(w)
  <2>1. PICK ok, useful \in BOOLEAN :
          work' = [work EXCEPT ![w] =
            [work[w] EXCEPT !.pc = "rule", !.left = @ - 1, !.failed = @ \/ ~ok,
                      !.gained = IF useful THEN @ \union {work[w].left} ELSE @]]
    BY <1>6 DEF RuleAnswer
  <2> DEFINE y == [work[w] EXCEPT !.pc = "rule", !.left = @ - 1, !.failed = @ \/ ~ok,
                      !.gained = IF useful THEN @ \union {work[w].left} ELSE @]
  <2>2. work[w].left - 1 \in Nat
    BY <1>2, <1>3
  <2>3. /\ y \in Executions /\ y.pc = "rule" /\ y.ran = work[w].ran
        /\ y.local = work[w].local /\ y.denied = work[w].denied /\ y.status = "none"
        /\ y.fellBack = work[w].fellBack /\ y.finishes = work[w].finishes
    BY <1>1, <1>2, <2>2 DEF Executions
  <2> HIDE DEF y
  <2>4. work' = [work EXCEPT ![w] = y] /\ UNCHANGED <<budget, refused>>
    BY <1>6, <2>1 DEF RuleAnswer, y
  <2> QED BY <1>1, <1>3, <2>3, <2>4, GoesOn
<1> QED BY <1>4, <1>5, <1>6 DEF RuleCall
LEMMA ConcludeStep ==
  ASSUME IInv, NEW w \in Workers, Conclude(w)
  PROVE  \E y : StepTo(w, y)
<1> DEFINE x == work[w]
<1>1. /\ x.pc = "rule" /\ AtRules(x) /\ UNCHANGED <<budget, refused>> /\ Open(x, refused[w])
      /\ Sound(w, x, refused[w])
  BY SoundOpen DEF Conclude, IInv, AtRules
<1>2. CASE Ended(w, "failed") \/ Ended(w, "timeout")
  BY <1>1, <1>2, EndedStep
<1>3. CASE ~Overdrawn(x) /\ (Ended(w, "success") \/ Ended(w, "partial"))
  <2>1. refused[w] = 0
    BY <1>1, <1>3 DEF Open, Overdrawn
  <2>2. Loops(w) /\ Retrieval(w) => x.finishes = 1
    BY <1>1 DEF Sound, EndRecorded
  <2>3. Loops(w) /\ ~x.fellBack => Covers(w, x)
    BY <1>1 DEF Sound, ModelCovers
  <2> HIDE DEF x
  <2> QED BY <1>1, <1>3, <2>1, <2>2, <2>3, EndedStep DEF x
<1> QED BY <1>2, <1>3 DEF Conclude

LEMMA StopStep ==
  ASSUME IInv, NEW w \in Workers, ItemTimeout(w) \/ Cancelled(w)
  PROVE  \E y : StepTo(w, y)
  BY EndedStep DEF ItemTimeout, Cancelled

LEMMA NextIInv == IInv /\ [Next]_vars => IInv'
<1> SUFFICES ASSUME IInv, [Next]_vars PROVE IInv'
  OBVIOUS
<1>1. ASSUME NEW w \in Workers, Work(w) \/ ItemTimeout(w) \/ Cancelled(w) PROVE IInv'
  <2>1. UNCHANGED item
    BY <1>1 DEF Work, Begin, Ask, LoopTimeout, Limit, ModelError, ModelFinish, ModelCalls, HandleCall,
       ToolAnswer, EndOfCalls, RuleCall, RuleAnswer, Conclude, ItemTimeout, Cancelled
  <2>2. \E y : StepTo(w, y)
    BY <1>1, BeginStep, LoopStep, AnswerStep, CallStep, RuleStep, ConcludeStep, StopStep DEF Work
  <2> QED BY <2>1, <2>2, StepKeeps
<1>2. CASE Expire \/ RunEnds
  <2>1. /\ UNCHANGED <<item, work, refused>> /\ budget'.left = budget.left
        /\ budget' \in [registered : BOOLEAN, late : BOOLEAN, left : 0 .. RunCalls]
    BY <1>2 DEF Expire, RunEnds, IInv
  <2>2. Paid'
    BY <2>1 DEF IInv, Paid, Made
  <2>3. \A w \in Workers : Sound(w, work[w], refused[w])'
    BY <2>1 DEF IInv, Sound, WithinItem, RefusalMarked, EndRecorded, ModelCovers, Covers, Loops, Retrieval
  <2> QED BY <2>1, <2>2, <2>3 DEF IInv
<1>3. CASE UNCHANGED vars
  <2>1. \A w \in Workers : Sound(w, work[w], refused[w])'
    BY <1>3 DEF vars, IInv, Sound, WithinItem, RefusalMarked, EndRecorded, ModelCovers, Covers, Loops, Retrieval
  <2>2. Paid'
    BY <1>3 DEF vars, IInv, Paid, Made
  <2> QED BY <1>3, <2>1, <2>2 DEF vars, IInv
<1> QED BY <1>1, <1>2, <1>3 DEF Next

\* The invariant is inductive for any items, limits and answers of the model.
THEOREM InductiveInvariant == Spec => []IInv
<1> QED BY InitIInv, NextIInv, PTL DEF Spec

\* Every variable keeps to its values.
THEOREM TypeCorrect == Spec => []TypeOK
<1>1. IInv => TypeOK
  <2> SUFFICES ASSUME IInv PROVE TypeOK
    OBVIOUS
  <2>1. \A w \in Workers : work[w] \in Executions
    BY DEF IInv
  <2>2. \A x \in Executions :
          /\ x.pc \in {"idle", "loop", "asking", "calls", "tool", "rule", "ruletool", "done"}
          /\ x.pending \in Seq(Requests) /\ x.called \subseteq Calls
          /\ x.count \in 0 .. ItemCalls /\ x.local \in 0 .. ItemCalls /\ x.iter \in 0 .. MaxIter
          /\ x.status \in {"none", "success", "partial", "failed", "timeout", "cancelled"}
    BY DEF Executions
  <2> QED BY <2>1, <2>2 DEF IInv, TypeOK
<1> QED BY <1>1, InductiveInvariant, PTL

\* The run has paid for every call in a trace, and no item makes more calls than it
\* was given, its fallback included, however many workers there are.
THEOREM CallsArePaid == Spec => []CallsPaid
<1>1. IInv => CallsPaid
  BY DEF IInv, Paid, CallsPaid, Sound, WithinItem
<1> QED BY <1>1, InductiveInvariant, PTL

\* What an item says of itself is so: no refused call is hidden, the end of a
\* retrieval is recorded once, and an analysis covers what it must.
THEOREM OutcomesAreHonest == Spec => []OutcomeHonest
<1>1. IInv => OutcomeHonest
  <2> SUFFICES ASSUME IInv PROVE OutcomeHonest
    OBVIOUS
  <2>1. ASSUME NEW w \in Workers
        PROVE  /\ work[w].finishes \in {0, 1} /\ refused[w] \in Nat
               /\ work[w].pc # "done" => work[w].status = "none"
    BY DEF IInv, Sound, WithinItem, Executions
  <2>2. RefusalsReported
    BY <2>1 DEF IInv, Sound, RefusalMarked, RefusalsReported, Delivers
  <2>3. RetrievalFinishedOnce
    BY <2>1 DEF IInv, Sound, EndRecorded, RetrievalFinishedOnce, AtRules, Delivers
  <2>4. EvidenceCovered
    BY DEF IInv, Sound, ModelCovers, EvidenceCovered, ByModel, Covers
  <2> QED BY <2>2, <2>3, <2>4 DEF OutcomeHonest
<1> QED BY <1>1, InductiveInvariant, PTL
============================================================================
