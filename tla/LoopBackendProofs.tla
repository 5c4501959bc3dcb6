------------------------- MODULE LoopBackendProofs -------------------------
(***************************************************************************)
(* Proofs about LoopBackend, for any texts and any number of papers.        *)
(***************************************************************************)
EXTENDS LoopBackend, FiniteSetTheorems, SequenceTheorems, NaturalsInduction, WellFoundedInduction, TLAPS

Distinct(list) == \A j, k \in DOMAIN list : list[j] = list[k] => j = k
OneRound(list) == \A j, k \in DOMAIN list : list[j].round = list[k].round

Types ==
  /\ pc \in {"search", "read", "analyze", "evaluate", "completed", "failed"}
  /\ runEval \in BOOLEAN /\ round \in {1, 2} /\ warned \in BOOLEAN
  /\ found \in Seq(Papers) /\ Len(found) <= MaxPapers
  /\ scored \in Seq(1 .. Len(found)) /\ left \in Seq(1 .. Len(found))
  /\ fresh \in Seq(CardType) /\ cards \in Seq(CardType)
  /\ summary \in {"none", "valid", "invalid"}
  /\ checks \in Seq([card : CardType, valid : BOOLEAN])

\* A paper is analysed once in a round, so that no two cards are the same.
Analysed ==
  /\ Distinct(scored) /\ Distinct(left)
  /\ pc = "search" => scored = <<>> /\ left = <<>>
  /\ pc \in {"search", "read"} => fresh = <<>>
  /\ \A k \in DOMAIN fresh : fresh[k].round = round
  /\ \A k \in DOMAIN fresh, i \in DOMAIN left :
       pc = "analyze" => fresh[k].paper # left[i]
  /\ Distinct(fresh)
  /\ OneRound(cards) /\ Distinct(cards)

\* The checks are those of the cards that are kept, and the summary is theirs.
Checked ==
  /\ \A k \in DOMAIN checks : k \in DOMAIN cards => checks[k].card = cards[k]
  /\ (\E k \in DOMAIN checks : ~checks[k].valid) => summary = "invalid"

\* The report was made from what there is in the end.
Reported ==
  pc = "completed" => final \in Reports /\ DraftWarnings \subseteq notices

LoopInv == Types /\ Analysed /\ Checked /\ Reported
\* --------------------------------------------------------------------------
\* A set of numbers has a least one.
LEMMA Least ==
  ASSUME NEW S \in SUBSET Nat, S # {}
  PROVE \E m \in S : \A k \in S : m <= k
<1>1. PICK m \in S : \A k \in S : <<k, m>> \notin OpToRel(<, Nat)
  BY WFMin, NatLessThanWellFounded, Zenon
<1>2. \A k \in S : ~(k < m)
  BY <1>1, Zenon DEF OpToRel
<1>3. \A k \in S : m <= k
  BY <1>2
<1> QED
  BY <1>3, Zenon

\* The papers with a title: the recursion has a solution, and it is the definition.
LEMMA TitledSteps ==
  ASSUME found \in Seq(Papers)
  PROVE \A n \in 0 .. Len(found) :
          titledUpTo[n] = IF n = 0 THEN <<>>
                          ELSE IF found[n].titled THEN Append(titledUpTo[n - 1], n)
                          ELSE titledUpTo[n - 1]
<1> DEFINE Step(g, k) == IF k = 0 THEN <<>>
                         ELSE IF found[k].titled THEN Append(g[k - 1], k) ELSE g[k - 1]
           Solves(g, n) == g = [k \in 0 .. n |-> Step(g, k)]
           Bad == {n \in 0 .. Len(found) : ~\E g : Solves(g, n)}
<1>1. Len(found) \in Nat
  OBVIOUS
<1>2. Bad = {}
  <2> SUFFICES ASSUME Bad # {} PROVE FALSE
    OBVIOUS
  <2>1. Bad \in SUBSET Nat
    BY <1>1
  <2>2. PICK m \in Bad : \A k \in Bad : m <= k
    BY <2>1, Least
  <2>3. m # 0
    <3>1. Solves([k \in 0 .. 0 |-> <<>>], 0)
      OBVIOUS
    <3> QED
      BY <3>1, <2>2
  <2>4. m \in Nat /\ m - 1 \in 0 .. Len(found) /\ m - 1 \in Nat
    BY <1>1, <2>2, <2>3
  <2>5. m - 1 \notin Bad
    <3>1. ~(m <= m - 1)
      BY <2>4
    <3> QED
      BY <2>2, <3>1, Zenon
  <2>6. PICK g : Solves(g, m - 1)
    BY <2>4, <2>5
  <2> DEFINE h == [k \in 0 .. m |-> IF k = m THEN Step(g, m) ELSE g[k]]
  <2>7. \A k \in 0 .. m : h[k] = Step(h, k)
    <3> SUFFICES ASSUME NEW k \in 0 .. m PROVE h[k] = Step(h, k)
      OBVIOUS
    <3>1. CASE k = 0
      <4>1. h[0] = g[0] /\ g[0] = Step(g, 0)
        BY <2>3, <2>4, <2>6
      <4> QED
        BY <3>1, <4>1
    <3>2. CASE k # 0
      <4>1. k - 1 \in 0 .. m - 1 /\ k - 1 \in 0 .. m /\ k - 1 # m
        BY <2>4, <3>2
      <4>2. h[k - 1] = g[k - 1]
        BY <4>1
      <4>3. h[k] = Step(g, k)
        <5>1. CASE k = m
          BY <5>1
        <5>2. CASE k # m
          <6>1. k \in 0 .. m - 1
            BY <2>4, <5>2
          <6>2. g[k] = Step(g, k)
            BY <2>6, <6>1
          <6> QED
            BY <5>2, <6>2
        <5> QED
          BY <5>1, <5>2
      <4> QED
        BY <3>2, <4>2, <4>3
    <3> QED
      BY <3>1, <3>2
  <2>8. Solves(h, m)
    <3> HIDE DEF Step
    <3>1. [k \in 0 .. m |-> h[k]] = [k \in 0 .. m |-> Step(h, k)]
      BY <2>7, Zenon
    <3> QED
      BY <3>1
  <2> HIDE DEF Solves
  <2> QED
    BY <2>2, <2>8
<1>3. \E g : Solves(g, Len(found))
  <2>1. Len(found) \in 0 .. Len(found)
    BY <1>1
  <2> QED
    BY <1>2, <2>1, Zenon
<1>4. Solves(titledUpTo, Len(found))
  BY <1>3, Zenon DEF titledUpTo
<1>5. \A n \in 0 .. Len(found) : titledUpTo[n] = Step(titledUpTo, n)
  BY <1>4
<1> QED
  BY <1>5

\* They are papers, each of them once.
LEMMA TitledType ==
  ASSUME found \in Seq(Papers)
  PROVE Titled \in Seq(1 .. Len(found)) /\ Distinct(Titled)
<1> DEFINE Good(n) == /\ titledUpTo[n] \in Seq(1 .. n)
                      /\ Distinct(titledUpTo[n])
           Bad == {n \in 0 .. Len(found) : ~Good(n)}
<1>1. Len(found) \in Nat
  OBVIOUS
<1>2. Bad = {}
  <2> SUFFICES ASSUME Bad # {} PROVE FALSE
    OBVIOUS
  <2>1. Bad \in SUBSET Nat
    BY <1>1
  <2>2. PICK m \in Bad : \A k \in Bad : m <= k
    BY <2>1, Least
  <2>3. m # 0
    <3>1. titledUpTo[0] = <<>>
      BY <1>1, TitledSteps
    <3>2. Good(0)
      BY <3>1 DEF Distinct
    <3> QED
      BY <3>2, <2>2
  <2>4. m \in Nat /\ m - 1 \in 0 .. Len(found) /\ m - 1 \in Nat /\ m \in 0 .. Len(found)
    BY <1>1, <2>2, <2>3
  <2>5. Good(m - 1)
    BY <2>2, <2>4
  <2> DEFINE s == titledUpTo[m - 1]
  <2>6. titledUpTo[m] = Append(s, m) \/ titledUpTo[m] = s
    BY <2>3, <2>4, TitledSteps
  <2> HIDE DEF s
  <2>7. s \in Seq(1 .. m - 1) /\ Distinct(s)
    BY <2>5 DEF s
  <2>8. \A k \in DOMAIN s : s[k] \in 1 .. m - 1
    BY <2>7
  <2>9. s \in Seq(1 .. m)
    BY <2>4, <2>7, <2>8
  <2>10. Distinct(Append(s, m)) /\ Append(s, m) \in Seq(1 .. m)
    <3>1. Append(s, m) \in Seq(1 .. m)
      BY <2>3, <2>4, <2>9
    <3>2. ASSUME NEW j \in DOMAIN Append(s, m), NEW k \in DOMAIN Append(s, m),
                 Append(s, m)[j] = Append(s, m)[k]
          PROVE j = k
      <4>1. DOMAIN Append(s, m) = 1 .. Len(s) + 1 /\ DOMAIN s = 1 .. Len(s)
        BY <2>9, <3>1
      <4>2. \A i \in DOMAIN Append(s, m) : Append(s, m)[i] = IF i = Len(s) + 1 THEN m ELSE s[i]
        BY <2>9, <4>1
      <4>3. Len(s) \in Nat
        BY <2>9
      <4> QED
        BY <2>4, <2>7, <2>8, <3>2, <4>1, <4>2, <4>3 DEF Distinct
    <3> QED
      BY <3>1, <3>2 DEF Distinct
  <2>11. Good(m)
    BY <2>6, <2>7, <2>9, <2>10
  <2> QED
    BY <2>2, <2>11
<1>3. Good(Len(found))
  BY <1>1, <1>2
<1> QED
  BY <1>3 DEF Titled

\* All positions in order are a list of papers, each of them once.
LEMMA AllFound ==
  ASSUME found \in Seq(Papers)
  PROVE /\ [i \in 1 .. Len(found) |-> i] \in Seq(1 .. Len(found))
        /\ Distinct([i \in 1 .. Len(found) |-> i])
  BY DEF Distinct

LEMMA MaterialType ==
  ASSUME Types, Distinct(scored)
  PROVE Material \in Seq(1 .. Len(found)) /\ Distinct(Material)
  BY AllFound DEF Types, Material

\* What extraction makes of a paper: cards of that paper and this round, each once.
LEMMA CardsType ==
  ASSUME Types, NEW p \in 1 .. Len(found)
  PROVE /\ Cards(p) \in Seq(CardType)
        /\ \A k \in 1 .. Len(Cards(p)) :
             Cards(p)[k].paper = p /\ Cards(p)[k].place = k /\ Cards(p)[k].round = round
<1>1. found[p] \in Papers /\ Len(found) \in Nat /\ p \in 1 .. MaxPapers
  BY LoopAssumption DEF Types
<1>2. found[p].text \in Seq(Passages)
  BY <1>1, LoopAssumption DEF Papers
<1> DEFINE text == found[p].text
<1>3. /\ Len(text) \in Nat
      /\ \A k \in 1 .. Len(text) : text[k] \in Passages /\ k \in Nat \ {0}
  BY <1>2
<1> HIDE DEF text
<1>4. \A k \in 1 .. Len(text) :
        [paper |-> p, place |-> k, says |-> text[k], round |-> round] \in CardType
  BY <1>1, <1>3 DEF Types, CardType
<1>5. Cards(p) = [k \in 1 .. Len(text) |->
                    [paper |-> p, place |-> k, says |-> text[k], round |-> round]]
  BY DEF Cards, text
<1>6. Cards(p) \in Seq(CardType) /\ Len(Cards(p)) = Len(text)
  BY <1>3, <1>4, <1>5
<1> QED
  BY <1>5, <1>6

LEMMA Initially == Init => LoopInv
<1> SUFFICES ASSUME Init PROVE LoopInv
  OBVIOUS
<1>1. Types
  <2>1. found \in Seq(Papers) /\ Len(found) = 0 /\ 0 <= MaxPapers
    BY LoopAssumption DEF Init
  <2>2. /\ scored \in Seq(1 .. Len(found)) /\ left \in Seq(1 .. Len(found))
        /\ fresh \in Seq(CardType) /\ cards \in Seq(CardType)
        /\ checks \in Seq([card : CardType, valid : BOOLEAN])
    BY DEF Init
  <2> QED
    BY <2>1, <2>2 DEF Init, Types
<1>2. Analysed
  BY DEF Init, Analysed, Distinct, OneRound
<1>3. Checked /\ Reported
  BY DEF Init, Checked, Reported
<1> QED
  BY <1>1, <1>2, <1>3 DEF LoopInv

LEMMA CalledType ==
  ASSUME Types, NEW task, NEW oks, Called(task, oks)
  PROVE warned' \in BOOLEAN
  BY DEF Types, Called

LEMMA SearchKeeps == LoopInv /\ (Search \/ SearchRaises) => LoopInv'
<1> SUFFICES ASSUME LoopInv, Search \/ SearchRaises PROVE LoopInv'
  OBVIOUS
<1>0. Types /\ Analysed /\ Checked /\ Reported
  BY DEF LoopInv
<1>1. CASE Search
  <2>1. found' \in Seq(Papers) /\ Len(found') <= MaxPapers
    <3>1. CASE found' = <<>>
      BY <3>1, LoopAssumption
    <3>2. ASSUME NEW n \in 0 .. MaxPapers, NEW list \in [1 .. n -> Papers], found' = list
          PROVE found' \in Seq(Papers) /\ Len(found') <= MaxPapers
      BY <3>2, LoopAssumption
    <3> QED
      BY <1>1, <3>1, <3>2 DEF Search
  <2>2. scored = <<>> /\ left = <<>> /\ fresh = <<>> /\ pc' = "read"
    BY <1>0, <1>1 DEF Search, Analysed
  <2>3. warned' \in BOOLEAN
    BY <1>0, <1>1, CalledType DEF Search
  <2>4. UNCHANGED <<runEval, round, scored, left, fresh, cards, checks, summary>>
    BY <1>1 DEF Search
  <2>5. Types'
    BY <1>0, <2>1, <2>2, <2>3, <2>4 DEF Types
  <2>6. Analysed'
    BY <1>0, <2>2, <2>4 DEF Analysed, Distinct, OneRound
  <2>7. Checked' /\ Reported'
    BY <1>0, <2>2, <2>4 DEF Checked, Reported
  <2> QED
    BY <2>5, <2>6, <2>7 DEF LoopInv
<1>2. CASE SearchRaises
  BY <1>0, <1>2 DEF SearchRaises, LoopInv, Types, Analysed, Checked, Reported, Distinct, OneRound
<1> QED
  BY <1>1, <1>2

LEMMA ReadKeeps == LoopInv /\ Read => LoopInv'
<1> SUFFICES ASSUME LoopInv, Read PROVE LoopInv'
  OBVIOUS
<1>0. Types /\ Analysed /\ Checked /\ Reported
  BY DEF LoopInv
<1>1. /\ pc = "read" /\ pc' = "analyze"
      /\ UNCHANGED <<runEval, round, found, fresh, cards, checks, summary>>
  BY DEF Read
<1> DEFINE all == [i \in 1 .. Len(found) |-> i]
<1>2. /\ all \in Seq(1 .. Len(found)) /\ Distinct(all)
      /\ Titled \in Seq(1 .. Len(found)) /\ Distinct(Titled)
  BY <1>0, AllFound, TitledType DEF Types
<1>3. scored' \in {<<>>, Titled, all} /\ left' \in {scored', all}
  BY DEF Read
<1>4. warned' \in BOOLEAN
  BY <1>0, CalledType DEF Read
<1> HIDE DEF all
<1>5. /\ scored' \in Seq(1 .. Len(found)) /\ Distinct(scored')
      /\ left' \in Seq(1 .. Len(found)) /\ Distinct(left')
  <2>1. <<>> \in Seq(1 .. Len(found)) /\ Distinct(<<>>)
    BY DEF Distinct
  <2>2. \A s \in {<<>>, Titled, all} : s \in Seq(1 .. Len(found)) /\ Distinct(s)
    BY <1>2, <2>1, Zenon
  <2> QED
    BY <1>3, <2>2, Zenon
<1>6. Types'
  BY <1>0, <1>1, <1>4, <1>5 DEF Types
<1>7. Analysed'
  BY <1>0, <1>1, <1>5 DEF Analysed, Distinct, OneRound
<1>8. Checked' /\ Reported'
  BY <1>0, <1>1 DEF Checked, Reported
<1> QED
  BY <1>6, <1>7, <1>8 DEF LoopInv

\* The cards that an analysis adds are new, and of its round.
LEMMA AddedCards ==
  ASSUME Types, Analysed, pc = "analyze", left # <<>>,
         NEW list, list = fresh \o Cards(Head(left)) \/ list = fresh
  PROVE /\ list \in Seq(CardType) /\ Distinct(list)
        /\ \A k \in DOMAIN list : list[k].round = round
        /\ \A k \in DOMAIN list, i \in DOMAIN Tail(left) : list[k].paper # Tail(left)[i]
<1> DEFINE p == Head(left)
<1>1. left \in Seq(1 .. Len(found)) /\ Len(left) \in Nat \ {0} /\ DOMAIN left = 1 .. Len(left)
  BY DEF Types
<1>2. p \in 1 .. Len(found) /\ p = left[1]
  BY <1>1
<1>3. /\ DOMAIN Tail(left) = 1 .. Len(left) - 1
      /\ \A i \in DOMAIN Tail(left) : Tail(left)[i] = left[i + 1] /\ i + 1 \in DOMAIN left
  BY <1>1
<1>4. \A i \in DOMAIN Tail(left) : Tail(left)[i] # p
  <2>1. \A i \in DOMAIN Tail(left) : i + 1 # 1 /\ 1 \in DOMAIN left
    BY <1>1, <1>3
  <2> QED
    BY <1>2, <1>3, <2>1 DEF Analysed, Distinct
<1>5. /\ Distinct(fresh) /\ fresh \in Seq(CardType)
      /\ \A k \in DOMAIN fresh : fresh[k].round = round
      /\ \A k \in DOMAIN fresh, i \in DOMAIN left : fresh[k].paper # left[i]
  BY DEF Analysed, Types
<1>6. CASE list = fresh
  BY <1>3, <1>5, <1>6
<1>7. CASE list = fresh \o Cards(p)
  <2> DEFINE new == Cards(p)
  <2>1. /\ new \in Seq(CardType)
        /\ \A k \in 1 .. Len(new) : new[k].paper = p /\ new[k].place = k /\ new[k].round = round
    BY <1>2, CardsType
  <2> HIDE DEF new
  <2>2. /\ list \in Seq(CardType) /\ Len(list) = Len(fresh) + Len(new)
        /\ \A i \in 1 .. Len(fresh) + Len(new) :
             list[i] = IF i <= Len(fresh) THEN fresh[i] ELSE new[i - Len(fresh)]
    BY <1>5, <1>7, <2>1, ConcatProperties DEF new
  <2>3. Len(fresh) \in Nat /\ Len(new) \in Nat /\ DOMAIN fresh = 1 .. Len(fresh)
        /\ DOMAIN list = 1 .. Len(fresh) + Len(new)
    BY <1>5, <2>1, <2>2
  <2>4. \A i \in DOMAIN list :
          \/ i \in DOMAIN fresh /\ list[i] = fresh[i]
          \/ /\ i - Len(fresh) \in 1 .. Len(new) /\ list[i] = new[i - Len(fresh)]
             /\ i \in Nat
    BY <2>2, <2>3
  <2>5. \A k \in DOMAIN fresh : fresh[k].paper # p
    <3>1. 1 \in DOMAIN left
      BY <1>1
    <3> QED
      BY <1>2, <1>5, <3>1
  <2>6. \A k \in DOMAIN list : list[k].round = round
    BY <1>5, <2>1, <2>4
  <2>7. \A k \in DOMAIN list, i \in DOMAIN Tail(left) : list[k].paper # Tail(left)[i]
    <3> SUFFICES ASSUME NEW k \in DOMAIN list, NEW i \in DOMAIN Tail(left)
                 PROVE list[k].paper # Tail(left)[i]
      OBVIOUS
    <3>1. CASE k \in DOMAIN fresh /\ list[k] = fresh[k]
      BY <1>3, <1>5, <3>1
    <3>2. CASE k - Len(fresh) \in 1 .. Len(new) /\ list[k] = new[k - Len(fresh)]
      BY <1>4, <2>1, <3>2
    <3> QED
      BY <2>4, <3>1, <3>2
  <2>8. ASSUME NEW j \in DOMAIN list, NEW k \in DOMAIN list, list[j] = list[k] PROVE j = k
    <3>1. CASE j \in DOMAIN fresh /\ list[j] = fresh[j] /\ k \in DOMAIN fresh /\ list[k] = fresh[k]
      BY <1>5, <2>8, <3>1 DEF Distinct
    <3>2. CASE /\ j - Len(fresh) \in 1 .. Len(new) /\ list[j] = new[j - Len(fresh)] /\ j \in Nat
               /\ k - Len(fresh) \in 1 .. Len(new) /\ list[k] = new[k - Len(fresh)] /\ k \in Nat
      <4>1. list[j].place = j - Len(fresh) /\ list[k].place = k - Len(fresh)
        BY <2>1, <3>2
      <4>2. j - Len(fresh) = k - Len(fresh)
        BY <2>8, <4>1
      <4> QED
        BY <2>3, <3>2, <4>2
    <3>3. CASE /\ j \in DOMAIN fresh /\ list[j] = fresh[j]
               /\ k - Len(fresh) \in 1 .. Len(new) /\ list[k] = new[k - Len(fresh)]
      BY <2>1, <2>5, <2>8, <3>3
    <3>4. CASE /\ k \in DOMAIN fresh /\ list[k] = fresh[k]
               /\ j - Len(fresh) \in 1 .. Len(new) /\ list[j] = new[j - Len(fresh)]
      BY <2>1, <2>5, <2>8, <3>4
    <3> QED
      BY <2>4, <3>1, <3>2, <3>3, <3>4
  <2> QED
    BY <2>2, <2>6, <2>7, <2>8 DEF Distinct
<1> QED
  BY <1>6, <1>7

LEMMA AnalyzeKeeps == LoopInv /\ Analyze => LoopInv'
<1> SUFFICES ASSUME LoopInv, Analyze PROVE LoopInv'
  OBVIOUS
<1>0. Types /\ Analysed /\ Checked /\ Reported
  BY DEF LoopInv
<1>1. /\ pc = "analyze" /\ left # <<>> /\ left' = Tail(left)
      /\ UNCHANGED <<pc, runEval, round, found, scored, cards, checks, summary>>
      /\ fresh' = fresh \o Cards(Head(left)) \/ fresh' = fresh
  BY DEF Analyze
<1>2. warned' \in BOOLEAN
  BY <1>0, CalledType DEF Analyze
<1>3. /\ fresh' \in Seq(CardType) /\ Distinct(fresh')
      /\ \A k \in DOMAIN fresh' : fresh'[k].round = round
      /\ \A k \in DOMAIN fresh', i \in DOMAIN Tail(left) : fresh'[k].paper # Tail(left)[i]
  BY <1>0, <1>1, AddedCards
<1>4. Tail(left) \in Seq(1 .. Len(found)) /\ Distinct(Tail(left))
  <2>1. left \in Seq(1 .. Len(found)) /\ Len(left) \in Nat \ {0} /\ DOMAIN left = 1 .. Len(left)
    BY <1>0, <1>1 DEF Types
  <2>2. /\ DOMAIN Tail(left) = 1 .. Len(left) - 1
        /\ \A i \in DOMAIN Tail(left) : Tail(left)[i] = left[i + 1] /\ i + 1 \in DOMAIN left
    BY <2>1
  <2>3. \A i, k \in DOMAIN Tail(left) : i + 1 = k + 1 => i = k
    BY <2>1, <2>2
  <2> QED
    BY <1>0, <1>1, <2>1, <2>2, <2>3 DEF Analysed, Distinct
<1>5. Types'
  BY <1>0, <1>1, <1>2, <1>3, <1>4 DEF Types
<1>6. Analysed'
  BY <1>0, <1>1, <1>3, <1>4 DEF Analysed, Distinct, OneRound
<1>7. Checked' /\ Reported'
  BY <1>0, <1>1 DEF Checked, Reported
<1> QED
  BY <1>5, <1>6, <1>7 DEF LoopInv

LEMMA CiteKeeps == LoopInv /\ Cite => LoopInv'
<1> SUFFICES ASSUME LoopInv, Cite PROVE LoopInv'
  OBVIOUS
<1>0. Types /\ Analysed /\ Checked /\ Reported
  BY DEF LoopInv
<1>1. /\ pc' = "evaluate"
      /\ UNCHANGED <<runEval, round, found, scored, left, fresh>>
      /\ cards' = IF round = 2 /\ fresh = <<>> THEN cards ELSE fresh
  BY DEF Cite
<1> DEFINE all == [k \in 1 .. Len(fresh) |-> Check(fresh[k])]
<1>2. \/ checks' = <<>> /\ summary' = "none"
      \/ checks' = all /\ summary' = IF AllValid(checks') THEN "valid" ELSE "invalid"
  BY DEF Cite
<1>3. fresh \in Seq(CardType) /\ Len(fresh) \in Nat /\ DOMAIN fresh = 1 .. Len(fresh)
  BY <1>0 DEF Types
<1>4. all \in Seq([card : CardType, valid : BOOLEAN])
  BY <1>3 DEF Check
<1>5. \A k \in 1 .. Len(fresh) : all[k].card = fresh[k]
  BY DEF Check
<1> HIDE DEF all
<1>6. warned' \in BOOLEAN
  BY <1>0, CalledType DEF Cite, Types
<1>7. Types'
  <2>1. cards' \in Seq(CardType)
    BY <1>0, <1>1 DEF Types
  <2>2. checks' \in Seq([card : CardType, valid : BOOLEAN]) /\ summary' \in {"none", "valid", "invalid"}
    <3>1. <<>> \in Seq([card : CardType, valid : BOOLEAN])
      OBVIOUS
    <3> QED
      BY <1>2, <1>4, <3>1, Zenon
  <2> QED
    BY <1>0, <1>1, <1>6, <2>1, <2>2 DEF Types
<1>8. Analysed'
  <2>1. OneRound(cards') /\ Distinct(cards')
    BY <1>0, <1>1 DEF Analysed, OneRound
  <2> QED
    BY <1>0, <1>1, <2>1 DEF Analysed, Distinct, OneRound
<1>9. Checked'
  <2>1. CASE checks' = <<>>
    BY <2>1 DEF Checked
  <2>2. CASE checks' = all /\ summary' = IF AllValid(checks') THEN "valid" ELSE "invalid"
    <3>1. DOMAIN all = 1 .. Len(fresh)
      BY DEF all
    <3>2. \A k \in DOMAIN checks' : cards' = fresh
      BY <1>1, <1>3, <2>2, <3>1
    <3> QED
      BY <1>5, <2>2, <3>1, <3>2 DEF Checked, AllValid
  <2> QED
    BY <1>2, <2>1, <2>2
<1>10. Reported'
  BY <1>1 DEF Reported
<1> QED
  BY <1>7, <1>8, <1>9, <1>10 DEF LoopInv

LEMMA RetryKeeps == LoopInv /\ Retry => LoopInv'
<1> SUFFICES ASSUME LoopInv, Retry PROVE LoopInv'
  OBVIOUS
<1>0. Types /\ Analysed /\ Checked /\ Reported
  BY DEF LoopInv
<1>1. /\ pc' = "analyze" /\ round' = 2 /\ left' = Material /\ fresh' = <<>>
      /\ UNCHANGED <<runEval, found, scored, cards, checks, summary, warned>>
  BY DEF Retry
<1>2. Material \in Seq(1 .. Len(found)) /\ Distinct(Material)
  BY <1>0, MaterialType DEF Analysed
<1>3. Types'
  BY <1>0, <1>1, <1>2 DEF Types
<1>4. Analysed'
  BY <1>0, <1>1, <1>2 DEF Analysed, Distinct, OneRound
<1>5. Checked' /\ Reported'
  BY <1>0, <1>1 DEF Checked, Reported
<1> QED
  BY <1>3, <1>4, <1>5 DEF LoopInv

\* The report depends on the sources, the cards, their checks and the evaluation.
LEMMA SameReport ==
  ASSUME UNCHANGED <<runEval, scored, cards, checks, summary>>
  PROVE DraftWarnings' = DraftWarnings /\ Reports' = Reports
<1>1. Verified' = Verified /\ InvalidIds' = InvalidIds
  BY DEF Verified, InvalidIds
<1>2. \A set : /\ Numbers(set)' = Numbers(set) /\ Claimed(set)' = Claimed(set)
              /\ Limits(set)' = Limits(set)
  BY DEF Numbers, Claimed, Limits
<1>3. DraftWarnings' = DraftWarnings
  BY <1>1 DEF DraftWarnings
<1>4. Draft' = Draft
  <2>1. Limited' = Limited
    BY <1>1 DEF Limited
  <2>2. \A n, set : First(n, set)' = First(n, set)
    BY DEF First
  <2>3. \A kind, of, set : Quoting(kind, of, set)' = Quoting(kind, of, set)
    BY <1>2 DEF Quoting, Line
  <2>4. \A kind, of, refs : Line(kind, of, refs)' = Line(kind, of, refs)
    BY DEF Line
  <2> DEFINE one == {Quoting("finding", k, {k}) : k \in First(10, Verified)}
             two == {Line("source", i, {i}) : i \in DOMAIN scored}
             three == {Quoting("summary", 0, First(3, Verified)), Line("theme", 0, Numbers(Verified)),
                       Quoting("synthesis", 0, First(3, Verified)),
                       Line("gap", 0, Limits(First(2, Limited))),
                       Line("conclusion", 0, Numbers(Verified))}
  <2>5. one' = one
    <3>1. First(10, Verified)' = First(10, Verified)
      BY <1>1 DEF First
    <3> QED
      BY <2>3, <3>1
  <2>6. two' = two
    BY <2>4
  <2>7. three' = three
    BY <1>1, <1>2, <2>1 DEF First, Line, Quoting
  <2> HIDE DEF one, two, three
  <2>8. Draft = (one \union two) \union three
    BY DEF Draft, one, two, three
  <2>9. Draft' = ((one \union two) \union three)'
    BY DEF Draft, one, two, three
  <2> QED
    BY <2>5, <2>6, <2>7, <2>8, <2>9
<1>5. WithoutFakes(Draft)' = WithoutFakes(Draft)
  BY <1>1, <1>4 DEF WithoutFakes
<1>6. Mismatched' = Mismatched /\ Repairing' = Repairing
  BY <1>2, <1>4 DEF Mismatched, Repairing
<1>7. Misbound(WithoutFakes(Draft))' = Misbound(WithoutFakes(Draft))
  BY <1>5, <1>6 DEF Misbound
<1>8. \A lines, lost, closest :
        Repaired(lines, lost, closest)' = Repaired(lines, lost, closest)
  BY <1>6 DEF Repaired
<1>9. Reports' = Reports
  BY <1>2, <1>5, <1>7, <1>8 DEF Reports
<1> QED
  BY <1>3, <1>9

LEMMA FinishKeeps == LoopInv /\ Finish => LoopInv'
<1> SUFFICES ASSUME LoopInv, Finish PROVE LoopInv'
  OBVIOUS
<1>0. Types /\ Analysed /\ Checked /\ Reported
  BY DEF LoopInv
<1>1. /\ pc' = "completed" /\ final' \in Reports
      /\ UNCHANGED <<runEval, round, found, scored, left, fresh, cards, checks, summary, warned>>
  BY DEF Finish
<1>2. DraftWarnings \subseteq notices'
  BY DEF Finish
<1>3. DraftWarnings' = DraftWarnings /\ Reports' = Reports
  BY <1>1, SameReport
<1>4. Types'
  BY <1>0, <1>1 DEF Types
<1>5. Analysed'
  BY <1>0, <1>1 DEF Analysed, Distinct, OneRound
<1>6. Checked'
  BY <1>0, <1>1 DEF Checked
<1>7. Reported'
  BY <1>1, <1>2, <1>3 DEF Reported
<1> QED
  BY <1>4, <1>5, <1>6, <1>7 DEF LoopInv

LEMMA Stutters == LoopInv /\ UNCHANGED vars => LoopInv'
<1> SUFFICES ASSUME LoopInv, UNCHANGED vars PROVE LoopInv'
  OBVIOUS
<1>0. Types /\ Analysed /\ Checked /\ Reported
  BY DEF LoopInv
<1>1. UNCHANGED <<pc, runEval, round, found, scored, left, fresh, cards, checks, summary, warned>>
      /\ UNCHANGED <<draft, final, notices>>
  BY DEF vars, reportVars
<1>2. DraftWarnings' = DraftWarnings /\ Reports' = Reports
  BY <1>1, SameReport
<1>3. Types' /\ Analysed' /\ Checked'
  BY <1>0, <1>1 DEF Types, Analysed, Checked, Distinct, OneRound
<1>4. Reported'
  BY <1>0, <1>1, <1>2 DEF Reported
<1> QED
  BY <1>3, <1>4 DEF LoopInv

\* Whatever the tools bring, the invariant holds: in particular the checks that are
\* kept are those of the cards that are kept, over a retry as well.
THEOREM InductiveInvariant == Spec => []LoopInv
<1>1. LoopInv /\ [Next]_vars => LoopInv'
  <2> SUFFICES ASSUME LoopInv, [Next]_vars PROVE LoopInv'
    OBVIOUS
  <2> QED
    BY SearchKeeps, ReadKeeps, AnalyzeKeeps, CiteKeeps, RetryKeeps, FinishKeeps, Stutters DEF Next
<1> QED
  BY Initially, <1>1, PTL DEF Spec

\* The state of the loop backend has its types, and an analysis brings each card
\* once, of one round only.
THEOREM TypeCorrect == Spec => []TypeOK
<1>1. LoopInv => TypeOK
  <2> SUFFICES ASSUME LoopInv PROVE TypeOK
    OBVIOUS
  <2>1. Types /\ Analysed
    BY DEF LoopInv
  <2>2. found \in Seq(Papers) /\ DOMAIN found = 1 .. Len(found)
    BY <2>1 DEF Types
  <2>3. {scored, left} \subseteq Seq(DOMAIN found) /\ {fresh, cards} \subseteq Seq(CardType)
    BY <2>1, <2>2 DEF Types
  <2>4. \A list \in {fresh, cards} : \A j, k \in DOMAIN list :
          list[j].round = list[k].round /\ (list[j] = list[k] => j = k)
    BY <2>1 DEF Analysed, Distinct, OneRound
  <2> QED
    BY <2>1, <2>3, <2>4 DEF Types, TypeOK
<1> QED
  BY InductiveInvariant, <1>1, PTL

\* A line of the draft that is no source has the numbers of papers of verified
\* cards, and those that verified cards quote.
LEMMA DraftRefs ==
  ASSUME NEW l \in Draft, l.kind # "source", NEW n \in l.refs
  PROVE \E k \in Verified : n \in Numbers({k}) \/ n \in Quoted(k)
<1> DEFINE Backed(line) ==
      \E set \in SUBSET Verified : line.refs \subseteq Numbers(set) \union Claimed(set) \union Limits(set)
<1>1. ASSUME NEW k \in First(10, Verified), l = Quoting("finding", k, {k}) PROVE Backed(l)
  <2>1. {k} \in SUBSET Verified
    BY DEF First
  <2> QED
    BY <1>1, <2>1 DEF Line, Quoting
<1>2. ASSUME l \in {Quoting("summary", 0, First(3, Verified)), Line("theme", 0, Numbers(Verified)),
                    Quoting("synthesis", 0, First(3, Verified)), Line("gap", 0, Limits(First(2, Limited))),
                    Line("conclusion", 0, Numbers(Verified))}
      PROVE Backed(l)
  <2>1. First(3, Verified) \in SUBSET Verified /\ Verified \in SUBSET Verified
        /\ First(2, Limited) \in SUBSET Verified
    BY DEF First, Limited
  <2>2. \/ l.refs = Numbers(First(3, Verified)) \union Claimed(First(3, Verified))
        \/ l.refs = Numbers(Verified) \/ l.refs = Limits(First(2, Limited))
    BY <1>2 DEF Line, Quoting
  <2> QED
    BY <2>1, <2>2
<1>3. ASSUME NEW i \in DOMAIN scored, l = Line("source", i, {i}) PROVE FALSE
  BY <1>3 DEF Line
<1>4. Backed(l)
  BY <1>1, <1>2, <1>3 DEF Draft
<1>5. PICK set \in SUBSET Verified : n \in Numbers(set) \union Claimed(set) \union Limits(set)
  BY <1>4
<1>6. CASE n \in Numbers(set)
  BY <1>6 DEF Numbers
<1>7. CASE n \in Claimed(set) \/ n \in Limits(set)
  <2>1. PICK k \in set : n \in cards[k].says.claim \/ n \in cards[k].says.limitation
    BY <1>7 DEF Claimed, Limits
  <2>2. n \in Quoted(k)
    BY <2>1 DEF Quoted, Claimed, Limits
  <2> QED
    BY <2>2
<1> QED
  BY <1>5, <1>6, <1>7

\* A draft has lines only.
LEMMA DraftLines ==
  ASSUME NEW l \in Draft
  PROVE \E kind, of, refs : l = Line(kind, of, refs)
BY Zenon DEF Draft, Quoting

\* The lines that are left after the bad citations are gone have fewer markers.
LEMMA FakesGone ==
  ASSUME NEW line \in WithoutFakes(Draft)
  PROVE \E l \in Draft : /\ line.kind = l.kind /\ line.refs = l.refs \ InvalidIds
                         /\ \E kind, of, refs : line = Line(kind, of, refs)
<1>1. PICK l \in Draft : line = [l EXCEPT !.refs = @ \ InvalidIds]
  BY DEF WithoutFakes
<1>2. PICK kind, of, refs : l = Line(kind, of, refs)
  BY DraftLines
<1>3. line = Line(kind, of, refs \ InvalidIds)
  BY <1>1, <1>2 DEF Line
<1> QED
  BY <1>1, <1>2, <1>3 DEF Line

\* A line of a report was one before the repair, which only touched misbound lines.
LEMMA RepairedLines ==
  ASSUME NEW report \in Reports, NEW line \in report
  PROVE \/ line \in WithoutFakes(Draft) \ Misbound(WithoutFakes(Draft))
        \/ \E l \in Misbound(WithoutFakes(Draft)), n \in Numbers(DOMAIN cards) :
             line = [l EXCEPT !.refs = (@ \ Mismatched) \union {n}]
<1> DEFINE lines == WithoutFakes(Draft)
           bad == Misbound(lines)
<1>1. PICK lost \in SUBSET bad, closest \in [bad -> Numbers(DOMAIN cards)] :
        report = Repaired(lines, lost, closest)
  BY DEF Reports
<1>2. DOMAIN closest = bad /\ \A l \in bad : closest[l] \in Numbers(DOMAIN cards)
  BY <1>1
<1> HIDE DEF lines, bad
<1>3. \/ line \in lines \ bad
      \/ \E l \in bad : line = [l EXCEPT !.refs = (@ \ Mismatched) \union {closest[l]}]
  BY <1>1, <1>2 DEF Repaired
<1> QED
  BY <1>2, <1>3 DEF lines, bad

\* A number in the text is mismatched, or it is the number of a paper with a card.
LEMMA WhatMismatches ==
  \A n : n \in Mismatched <=>
          /\ n \in UNION {line.refs : line \in {x \in Draft : x.kind # "source"}}
          /\ n \notin Numbers(DOMAIN cards)
<1> DEFINE text == UNION {line.refs : line \in {x \in Draft : x.kind # "source"}}
           bound == Numbers(DOMAIN cards)
<1>1. Mismatched = text \ bound
  BY DEF Mismatched
<1> HIDE DEF text, bound
<1>2. \A n : n \in Mismatched <=> n \in text /\ n \notin bound
  BY <1>1
<1> QED
  BY <1>2 DEF text, bound

\* A line that was left after the removal had its markers from verified cards.
LEMMA LeftRefs ==
  ASSUME NEW l \in WithoutFakes(Draft), l.kind # "source", NEW n \in l.refs
  PROVE /\ \E k \in Verified : n \in Numbers({k}) \/ n \in Quoted(k)
        /\ n \in Mismatched \/ n \in Numbers(DOMAIN cards)
<1>1. PICK d \in Draft : l.kind = d.kind /\ l.refs = d.refs \ InvalidIds
  BY FakesGone
<1>2. n \in d.refs /\ d.kind # "source"
  BY <1>1
<1>3. \E k \in Verified : n \in Numbers({k}) \/ n \in Quoted(k)
  BY <1>2, DraftRefs
<1>4. n \in UNION {line.refs : line \in {x \in Draft : x.kind # "source"}}
  BY <1>2
<1>5. n \in Mismatched \/ n \in Numbers(DOMAIN cards)
  BY <1>4, WhatMismatches
<1> QED
  BY <1>3, <1>5

\* Every marker that is left in the text of a report, whatever the retry brought, is
\* the number of a paper one of whose cards passed the check made for it; or such a
\* card quotes a number, and then it is the number of a listed paper with a card, if
\* the evaluation could tell (draft_reviewer, evaluator, final_reviewer).
THEOREM CitationsAreVerified == Spec => []CitedVerified
<1>1. LoopInv => CitedVerified
  <2> SUFFICES ASSUME LoopInv, pc = "completed",
                      NEW line \in final, line.kind # "source", NEW n \in line.refs
               PROVE \E k \in DOMAIN cards :
                       /\ Passed(k)
                       /\ \/ n \in Numbers({k})
                          \/ /\ Repairing /\ n \in Numbers(DOMAIN cards)
                             /\ Quoted(k) \intersect (Mismatched \union {n}) # {}
                          \/ ~Repairing /\ n \in Quoted(k)
    BY DEF CitedVerified
  <2>1. final \in Reports
    BY DEF LoopInv, Reported
  <2>2. \A k \in Verified : k \in DOMAIN cards /\ Passed(k)
    BY DEF LoopInv, Checked, Verified, Passed
  <2>3. \A k \in Verified : n \in Numbers({k}) => n \in Numbers(DOMAIN cards)
    BY <2>2 DEF Numbers
  \* a line as it was: its markers are not mismatched, if there was a repair
  <2>4. ASSUME NEW l \in WithoutFakes(Draft), l.kind # "source", n \in l.refs,
               Repairing => n \notin Mismatched
        PROVE \E k \in Verified :
                \/ n \in Numbers({k})
                \/ /\ Repairing /\ n \in Numbers(DOMAIN cards)
                   /\ Quoted(k) \intersect (Mismatched \union {n}) # {}
                \/ ~Repairing /\ n \in Quoted(k)
    BY <2>4, LeftRefs
  <2>5. CASE line \in WithoutFakes(Draft) \ Misbound(WithoutFakes(Draft))
    <3>1. Repairing => n \notin Mismatched
      BY <2>5 DEF Misbound
    <3> QED
      BY <2>2, <2>4, <2>5, <3>1
  <2>6. ASSUME NEW l \in Misbound(WithoutFakes(Draft)), NEW m \in Numbers(DOMAIN cards),
               line = [l EXCEPT !.refs = (@ \ Mismatched) \union {m}]
        PROVE \E k \in Verified :
                \/ n \in Numbers({k})
                \/ /\ Repairing /\ n \in Numbers(DOMAIN cards)
                   /\ Quoted(k) \intersect (Mismatched \union {n}) # {}
                \/ ~Repairing /\ n \in Quoted(k)
    <3>1. l \in WithoutFakes(Draft) /\ Repairing /\ l.refs \intersect Mismatched # {}
      BY DEF Misbound
    <3>2. line.kind = l.kind /\ line.refs = (l.refs \ Mismatched) \union {m}
      <4>1. PICK kind, of, refs : l = Line(kind, of, refs)
        BY <3>1, FakesGone
      <4> QED
        BY <2>6, <4>1 DEF Line
    <3>3. CASE n \in l.refs /\ n \notin Mismatched
      BY <2>4, <3>1, <3>2, <3>3
    \* the number that was put: the line had a mismatched one, which a card quotes
    <3>4. CASE n = m
      <4>1. PICK old \in l.refs : old \in Mismatched
        BY <3>1
      <4>2. PICK k \in Verified : old \in Numbers({k}) \/ old \in Quoted(k)
        BY <3>1, <3>2, <4>1, LeftRefs
      <4>3. old \notin Numbers({k})
        <5>1. old \notin Numbers(DOMAIN cards)
          BY <4>1, WhatMismatches
        <5> QED
          BY <2>2, <4>2, <5>1 DEF Numbers
      <4>4. Quoted(k) \intersect (Mismatched \union {n}) # {}
        BY <4>1, <4>2, <4>3
      <4> QED
        BY <3>1, <3>4, <4>2, <4>4
    <3> QED
      BY <3>2, <3>3, <3>4
  <2> QED
    BY <2>1, <2>2, <2>5, <2>6, RepairedLines
<1> QED
  BY InductiveInvariant, <1>1, PTL

\* If any card is verified, the first of them has a line among the findings.
LEMMA FirstFinding ==
  ASSUME Types, Verified # {}
  PROVE \E k \in Verified : Quoting("finding", k, {k}) \in Draft
<1>1. Verified \in SUBSET Nat
  BY DEF Types, Verified
<1>2. PICK k \in Verified : \A j \in Verified : k <= j
  BY <1>1, Least
<1>3. {j \in Verified : j < k} = {}
  <2>1. \A j \in Verified : ~(j < k)
    BY <1>1, <1>2
  <2> QED
    BY <2>1, Zenon
<1>4. Cardinality({j \in Verified : j < k}) = 0
  BY <1>3, FS_EmptySet
<1>5. k \in First(10, Verified)
  BY <1>4 DEF First
<1> QED
  BY <1>5 DEF Draft

\* A finding that is left after the removal stays, with other markers at most.
LEMMA FindingsStay ==
  ASSUME NEW report \in Reports, NEW l \in WithoutFakes(Draft), l.kind = "finding"
  PROVE \E line \in report : line.kind = "finding"
<1> DEFINE lines == WithoutFakes(Draft)
           bad == Misbound(lines)
<1>1. PICK lost \in SUBSET {x \in bad : x.kind \in {"gap", "source"}},
           closest \in [bad -> Numbers(DOMAIN cards)] :
        report = Repaired(lines, lost, closest)
  BY DEF Reports
<1>2. DOMAIN closest = bad /\ l \in lines /\ l \notin lost
  BY <1>1
<1> HIDE DEF lines, bad
<1>3. CASE l \notin bad
  BY <1>1, <1>2, <1>3 DEF Repaired
<1>4. CASE l \in bad
  <2> DEFINE line == [l EXCEPT !.refs = (@ \ Mismatched) \union {closest[l]}]
  <2>1. line \in report
    BY <1>1, <1>2, <1>4 DEF Repaired
  <2>2. PICK kind, of, refs : l = Line(kind, of, refs)
    BY FakesGone
  <2>3. line.kind = "finding"
    BY <2>2 DEF Line
  <2> QED
    BY <2>1, <2>3
<1> QED
  BY <1>3, <1>4

\* A completed run whose report has no findings left says so in a banner, an issue
\* or a warning, whether the run was evaluated or not.
THEOREM EmptyReportsSaySo == Spec => []EmptySaysSo
<1>1. LoopInv => EmptySaysSo
  <2> SUFFICES ASSUME LoopInv, pc = "completed",
                      \A line \in final : line.kind # "finding"
               PROVE notices # {}
    BY DEF EmptySaysSo
  <2>1. Types /\ Checked /\ final \in Reports /\ DraftWarnings \subseteq notices
    BY DEF LoopInv, Reported
  <2>2. CASE Verified = {}
    <3>1. "no verified cards" \in DraftWarnings
      BY <2>2 DEF DraftWarnings
    <3> QED
      BY <2>1, <3>1
  <2>3. CASE Verified # {}
    <3>1. PICK k \in Verified : Quoting("finding", k, {k}) \in Draft
      BY <2>1, <2>3, FirstFinding
    <3> DEFINE l == Quoting("finding", k, {k})
    <3>2. l.kind = "finding"
      BY DEF Line, Quoting
    <3>3. l.refs # {} /\ l.refs \subseteq InvalidIds
      <4> SUFFICES ASSUME l.refs = {} \/ ~(l.refs \subseteq InvalidIds) PROVE FALSE
        OBVIOUS
      <4> DEFINE rest == [l EXCEPT !.refs = @ \ InvalidIds]
      <4>1. rest \in WithoutFakes(Draft)
        BY <3>1 DEF WithoutFakes
      <4>2. rest.kind = "finding"
        BY DEF Line, Quoting
      <4> QED
        BY <2>1, <4>1, <4>2, FindingsStay
    <3>4. summary = "invalid"
      BY <2>1, <3>3 DEF InvalidIds, Checked
    <3>5. "invalid citations" \in DraftWarnings
      BY <3>4 DEF DraftWarnings
    <3> QED
      BY <2>1, <3>5
  <2> QED
    BY <2>2, <2>3
<1> QED
  BY InductiveInvariant, <1>1, PTL
=============================================================================
