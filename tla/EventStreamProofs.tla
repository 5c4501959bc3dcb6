-------------------------- MODULE EventStreamProofs --------------------------
(***************************************************************************)
(* Proofs about EventStream, for any set of clients, any queue size and    *)
(* any bound on events and dropped connections.                            *)
(***************************************************************************)
EXTENDS EventStream, SequenceTheorems, TLAPS

\* A queue that holds the ids right after base.
Continues(q, base) == \A i \in 1 .. Len(q) : q[i] = base + i

\* A connection as its generator sees it.  While it replays it is inside its
\* snapshot, which is the whole history when the run was over at the start;
\* once it is subscribed, what waits in its queue continues what it has sent.
ConnInv(c) ==
  /\ pos[c] <= Len(events) /\ lastId[c] <= Len(events) /\ subAt[c] <= Len(events)
  /\ Attached(c) /\ ~finStart[c] => pos[c] = lastId[c]
  /\ Attached(c) /\ finStart[c] => finished
  /\ pc[c] \in {"replay", "replayAll"} =>
       1 <= pos[c] /\ pos[c] <= snap[c] /\ snap[c] <= Len(events)
  /\ pc[c] \in {"replay", "live", "sent"} => ~finStart[c]
  /\ pc[c] = "replayAll" => finStart[c]
  /\ pc[c] = "sent" => 1 <= pos[c]
  /\ c \in subs => pc[c] \in {"live", "sent", "gone"}
  /\ pc[c] \in {"live", "sent"} =>
       LET from == Larger(pos[c], subAt[c]) IN
       /\ Continues(queue[c], from)
       /\ from + Len(queue[c]) <= Len(events)
       /\ c \in subs => from + Len(queue[c]) = Len(events)

\* An event that settles a client is published only when the run ends.
EndsLast == \A i \in 1 .. Len(events) : Settles(events[i]) => finished

IInv ==
  /\ TypeOK
  /\ Len(events) >= 1
  /\ EndsLast
  /\ \A c \in Clients : ConnInv(c)

\* Pushing n ids after k to a queue of ids up to k.
LEMMA PushIds ==
  ASSUME NEW q \in Seq(Nat), NEW k \in Nat, NEW n \in Nat
  PROVE  LET r == q \o [i \in 1 .. n |-> k + i] IN
         /\ r \in Seq(Nat)
         /\ Len(r) = Len(q) + n
         /\ \A base \in Nat : Continues(q, base) /\ base + Len(q) = k => Continues(r, base)
<1> DEFINE t == [i \in 1 .. n |-> k + i]
           r == q \o t
<1>1. t \in Seq(Nat) /\ Len(t) = n
  OBVIOUS
<1>2. \A i \in 1 .. n : t[i] = k + i
  OBVIOUS
<1> HIDE DEF t
<1>3. /\ r \in Seq(Nat)
      /\ Len(r) = Len(q) + n
      /\ \A i \in 1 .. Len(q) + n : r[i] = IF i <= Len(q) THEN q[i] ELSE t[i - Len(q)]
  BY <1>1, ConcatProperties
<1> HIDE DEF r
<1>4. ASSUME NEW base \in Nat, Continues(q, base), base + Len(q) = k,
             NEW i \in 1 .. Len(r)
      PROVE  r[i] = base + i
  <2>1. Len(q) \in Nat
    OBVIOUS
  <2>2. CASE i <= Len(q)
    <3>1. i \in 1 .. Len(q) /\ i \in 1 .. Len(q) + n
      BY <1>3, <1>4, <2>1, <2>2
    <3>2. r[i] = q[i]
      BY <1>3, <2>2, <3>1
    <3> QED BY <1>4, <3>1, <3>2 DEF Continues
  <2>3. CASE i > Len(q)
    <3>1. i - Len(q) \in 1 .. n /\ r[i] = t[i - Len(q)]
      <4>1. i \in 1 .. Len(q) + n /\ ~(i <= Len(q))
        BY <1>3, <1>4, <2>1, <2>3
      <4>2. r[i] = t[i - Len(q)]
        BY <1>3, <4>1
      <4> QED BY <2>1, <4>1, <4>2
    <3>2. r[i] = k + (i - Len(q))
      BY <1>2, <3>1
    <3> QED BY <1>4, <2>1, <3>2
  <2> QED BY <2>1, <2>2, <2>3
<1>5. \A base \in Nat : Continues(q, base) /\ base + Len(q) = k => Continues(r, base)
  BY <1>4 DEF Continues
<1> QED BY <1>3, <1>5 DEF r, t

\* What the batches look like.
LEMMA Batches ==
  /\ \A b \in Chunks : /\ b \in Seq(EventTypes) /\ Len(b) \in 1 .. 2
                       /\ \A i \in 1 .. Len(b) : ~Settles(b[i])
  /\ \A b \in Endings : b \in Seq(EventTypes) /\ Len(b) \in 1 .. 2
<1>1. \A e \in EventTypes : <<e>> \in Seq(EventTypes) /\ Len(<<e>>) = 1 /\ <<e>>[1] = e
  OBVIOUS
<1>2. \A e, f \in EventTypes : /\ <<e, f>> \in Seq(EventTypes) /\ Len(<<e, f>>) = 2
                              /\ <<e, f>>[1] = e /\ <<e, f>>[2] = f
  OBVIOUS
<1>3. /\ "progress" \in EventTypes /\ "trace_error" \in EventTypes /\ "error" \in EventTypes
      /\ "cancelled" \in EventTypes /\ "run_finished" \in EventTypes
  BY DEF EventTypes
<1>4. \A b \in Endings : b \in Seq(EventTypes) /\ Len(b) \in 1 .. 2
  <2>1. ASSUME NEW b \in Endings
        PROVE  (\E e \in EventTypes : b = <<e>>) \/ (\E e, f \in EventTypes : b = <<e, f>>)
    BY <1>3 DEF Endings
  <2> SUFFICES ASSUME NEW b \in Endings PROVE b \in Seq(EventTypes) /\ Len(b) \in 1 .. 2
    OBVIOUS
  <2>2. CASE \E e \in EventTypes : b = <<e>>
    BY <1>1, <2>2
  <2>3. CASE \E e, f \in EventTypes : b = <<e, f>>
    BY <1>2, <2>3
  <2> QED BY <2>1, <2>2, <2>3
<1>5. ASSUME NEW b \in Chunks
      PROVE  /\ b \in Seq(EventTypes) /\ Len(b) \in 1 .. 2
             /\ \A i \in 1 .. Len(b) : ~Settles(b[i])
  <2>1. ~Settles("progress") /\ ~Settles("trace_error")
    BY DEF Settles
  <2>2. b = <<"progress">> \/ b = <<"trace_error", "progress">>
    BY DEF Chunks
  <2>3. CASE b = <<"progress">>
    BY <1>1, <1>3, <2>1, <2>3
  <2>4. CASE b = <<"trace_error", "progress">>
    BY <1>2, <1>3, <2>1, <2>4
  <2> QED BY <2>2, <2>3, <2>4
<1> QED BY <1>4, <1>5

LEMMA InitIInv == Init => IInv
<1> SUFFICES ASSUME Init PROVE IInv
  OBVIOUS
<1>1. events = <<"run_started">> /\ Len(events) = 1 /\ events[1] = "run_started"
  BY DEF Init
<1>2. TypeOK
  <2>1. events \in Seq(EventTypes) /\ <<>> \in Seq(Nat) /\ Len(<<>>) = 0
    BY <1>1 DEF EventTypes
  <2>2. queue \in [Clients -> Seq(Nat)] /\ \A c \in Clients : Len(queue[c]) <= QueueSize
    BY <2>1, StreamAssumption DEF Init
  <2>3. /\ pc \in [Clients -> PCs] /\ finStart \in [Clients -> BOOLEAN]
        /\ snap \in [Clients -> Nat] /\ subAt \in [Clients -> Nat]
        /\ pos \in [Clients -> Nat] /\ lastId \in [Clients -> Nat]
        /\ drops \in [Clients -> 0 .. MaxDrops]
    BY StreamAssumption DEF Init, PCs
  <2> QED BY <2>1, <2>2, <2>3 DEF Init, TypeOK
<1>3. EndsLast
  BY <1>1 DEF EndsLast, Settles
<1>4. ASSUME NEW c \in Clients PROVE ConnInv(c)
  BY <1>1 DEF Init, ConnInv, Attached
<1> QED BY <1>1, <1>2, <1>3, <1>4 DEF IInv

\* A batch that is published: how the history and the queues grow.
LEMMA PublishEffect ==
  ASSUME IInv, NEW batch \in Chunks \union Endings, Publish(batch)
  PROVE  /\ batch \in Seq(EventTypes) /\ Len(batch) \in 1 .. 2
         /\ events' \in Seq(EventTypes)
         /\ Len(events') = Len(events) + Len(batch)
         /\ \A i \in 1 .. Len(events') :
              events'[i] = IF i <= Len(events) THEN events[i] ELSE batch[i - Len(events)]
         /\ \A c \in Clients : Fitting(c, Len(batch)) \in 0 .. Len(batch)
         /\ queue' \in [Clients -> Seq(Nat)]
         /\ \A c \in subs : /\ Len(queue'[c]) = Len(queue[c]) + Fitting(c, Len(batch))
                            /\ Len(queue'[c]) <= QueueSize
                            /\ \A base \in Nat :
                                 Continues(queue[c], base) /\ base + Len(queue[c]) = Len(events)
                                   => Continues(queue'[c], base)
         /\ \A c \in Clients \ subs : queue'[c] = queue[c]
<1>1. batch \in Seq(EventTypes) /\ Len(batch) \in 1 .. 2
  BY Batches
<1>2. /\ events \in Seq(EventTypes) /\ Len(events) \in Nat
      /\ queue \in [Clients -> Seq(Nat)] /\ subs \subseteq Clients
      /\ \A c \in Clients : Len(queue[c]) \in 0 .. QueueSize
  BY DEF IInv, TypeOK
<1>3. /\ events' \in Seq(EventTypes)
      /\ Len(events') = Len(events) + Len(batch)
      /\ \A i \in 1 .. Len(events') :
           events'[i] = IF i <= Len(events) THEN events[i] ELSE batch[i - Len(events)]
  BY <1>1, <1>2, ConcatProperties DEF Publish
<1>4. \A c \in Clients : /\ Fitting(c, Len(batch)) \in 0 .. Len(batch)
                         /\ Len(queue[c]) + Fitting(c, Len(batch)) <= QueueSize
  BY <1>1, <1>2, StreamAssumption DEF Fitting, Smaller
<1>5. ASSUME NEW c \in Clients
      PROVE  LET f == Fitting(c, Len(batch))
                 r == queue[c] \o [i \in 1 .. f |-> Len(events) + i] IN
             /\ r \in Seq(Nat)
             /\ Len(r) = Len(queue[c]) + f
             /\ \A base \in Nat :
                  Continues(queue[c], base) /\ base + Len(queue[c]) = Len(events)
                    => Continues(r, base)
  <2>1. queue[c] \in Seq(Nat) /\ Len(events) \in Nat /\ Fitting(c, Len(batch)) \in Nat
    BY <1>2, <1>4
  <2> QED BY <2>1, PushIds
<1>6. queue' = [c \in Clients |->
        IF c \in subs
        THEN queue[c] \o [i \in 1 .. Fitting(c, Len(batch)) |-> Len(events) + i]
        ELSE queue[c]]
  BY DEF Publish
<1>7. queue' \in [Clients -> Seq(Nat)]
  BY <1>2, <1>5, <1>6
<1>8. ASSUME NEW c \in subs
      PROVE  /\ Len(queue'[c]) = Len(queue[c]) + Fitting(c, Len(batch))
             /\ Len(queue'[c]) <= QueueSize
             /\ \A base \in Nat :
                  Continues(queue[c], base) /\ base + Len(queue[c]) = Len(events)
                    => Continues(queue'[c], base)
  <2>1. queue'[c] = queue[c] \o [i \in 1 .. Fitting(c, Len(batch)) |-> Len(events) + i]
    BY <1>2, <1>6
  <2> QED BY <1>2, <1>4, <1>5, <2>1
<1>9. \A c \in Clients \ subs : queue'[c] = queue[c]
  BY <1>6
<1> QED BY <1>1, <1>3, <1>4, <1>7, <1>8, <1>9

LEMMA PublisherStep ==
  ASSUME IInv, ~finished,
         NEW batch \in Chunks \union Endings, Publish(batch),
         finished' \in BOOLEAN, batch \in Endings => finished',
         UNCHANGED <<connVars, clientVars>>
  PROVE  IInv'
<1>1. /\ events' \in Seq(EventTypes)
      /\ Len(events') = Len(events) + Len(batch)
      /\ \A i \in 1 .. Len(events') :
           events'[i] = IF i <= Len(events) THEN events[i] ELSE batch[i - Len(events)]
      /\ Len(batch) \in 1 .. 2 /\ Len(events) \in Nat /\ Len(events) >= 1
  <2>1. Len(events) \in Nat /\ Len(events) >= 1
    BY DEF IInv, TypeOK
  <2> QED BY <2>1, PublishEffect
<1>q. /\ queue' \in [Clients -> Seq(Nat)]
      /\ \A c \in Clients \ subs : queue'[c] = queue[c]
      /\ \A c \in subs :
           /\ Len(queue'[c]) = Len(queue[c]) + Fitting(c, Len(batch))
           /\ Len(queue'[c]) <= QueueSize
           /\ Fitting(c, Len(batch)) \in 0 .. Len(batch)
           /\ \A base \in Nat :
                Continues(queue[c], base) /\ base + Len(queue[c]) = Len(events)
                  => Continues(queue'[c], base)
  <2>1. subs \subseteq Clients
    BY DEF IInv, TypeOK
  <2> QED BY <2>1, PublishEffect
<1>2. TypeOK'
  <2>1. \A c \in Clients : Len(queue'[c]) <= QueueSize
    BY <1>q DEF IInv, TypeOK
  <2>2. subs' \subseteq Clients
    BY DEF Publish, IInv, TypeOK
  <2> QED BY <1>1, <1>q, <2>1, <2>2 DEF IInv, TypeOK, connVars, clientVars
<1>3. Len(events') >= 1
  BY <1>1
<1>4. EndsLast'
  <2> SUFFICES ASSUME NEW i \in 1 .. Len(events'), Settles(events'[i]), ~finished'
               PROVE  FALSE
    BY DEF EndsLast, Settles
  <2>1. i <= Len(events) => ~Settles(events[i])
    BY <1>1 DEF IInv, EndsLast
  <2>2. batch \in Chunks
    OBVIOUS
  <2>3. \A j \in 1 .. Len(batch) : ~Settles(batch[j])
    BY <2>2, Batches
  <2> QED BY <1>1, <2>1, <2>3
<1>5. ASSUME NEW c \in Clients PROVE ConnInv(c)'
  <2>1. ConnInv(c) BY DEF IInv
  <2>2. /\ pos[c] \in Nat /\ lastId[c] \in Nat /\ subAt[c] \in Nat /\ snap[c] \in Nat
        /\ Len(queue[c]) \in Nat /\ Len(queue'[c]) \in Nat
    <3>1. queue[c] \in Seq(Nat) /\ queue'[c] \in Seq(Nat)
      BY <1>q DEF IInv, TypeOK
    <3> QED BY <3>1 DEF IInv, TypeOK
  <2>3. UNCHANGED <<pc[c], pos[c], lastId[c], subAt[c], snap[c], finStart[c]>>
    BY DEF connVars, clientVars
  <2>4. c \in subs' => c \in subs /\ Fitting(c, Len(batch)) = Len(batch)
    BY DEF Publish
  <2>5. CASE c \in subs
    <3>1. /\ Len(queue'[c]) = Len(queue[c]) + Fitting(c, Len(batch))
          /\ Fitting(c, Len(batch)) \in 0 .. Len(batch)
          /\ \A base \in Nat :
               Continues(queue[c], base) /\ base + Len(queue[c]) = Len(events)
                 => Continues(queue'[c], base)
      BY <1>q, <2>5
    <3>2. ASSUME pc[c] \in {"live", "sent"}
          PROVE  LET from == Larger(pos[c], subAt[c]) IN
                 /\ Continues(queue'[c], from)
                 /\ from + Len(queue'[c]) <= Len(events')
                 /\ c \in subs' => from + Len(queue'[c]) = Len(events')
      <4> DEFINE from == Larger(pos[c], subAt[c])
      <4>1. from \in Nat /\ Continues(queue[c], from) /\ from + Len(queue[c]) = Len(events)
        BY <2>1, <2>2, <2>5, <3>2 DEF ConnInv, Larger
      <4> HIDE DEF from
      <4>2. Continues(queue'[c], from)
        BY <3>1, <4>1
      <4>3. from + Len(queue'[c]) <= Len(events')
        BY <1>1, <2>2, <3>1, <4>1
      <4>4. c \in subs' => from + Len(queue'[c]) = Len(events')
        <5> SUFFICES ASSUME c \in subs' PROVE from + Len(queue'[c]) = Len(events')
          OBVIOUS
        <5>1. Len(queue'[c]) = Len(queue[c]) + Len(batch)
          BY <2>4, <3>1
        <5>2. Len(queue'[c]) \in Nat /\ Len(queue[c]) \in Nat /\ Len(batch) \in Nat /\ Len(events) \in Nat
          BY <1>1, <2>2
        <5>3. from + Len(queue'[c]) = (from + Len(queue[c])) + Len(batch)
          BY <4>1, <5>1, <5>2
        <5> QED BY <1>1, <4>1, <5>3
      <4> QED BY <4>2, <4>3, <4>4 DEF from
    <3> QED BY <1>1, <2>1, <2>2, <2>3, <2>4, <2>5, <3>2 DEF ConnInv, Attached
  <2>6. CASE c \notin subs
    <3>1. queue'[c] = queue[c] /\ c \notin subs'
      BY <1>q, <2>4, <2>6
    <3> QED BY <1>1, <2>1, <2>2, <2>3, <3>1 DEF ConnInv, Attached, Larger
  <2> QED BY <2>5, <2>6
<1> QED BY <1>2, <1>3, <1>4, <1>5 DEF IInv

\* A step on the connection of one client.
ConnStep(c) == Connect(c) \/ Serve(c) \/ Leave(c)

\* Such a step leaves the history alone, and everything of the other clients.
LEMMA ConnFrame ==
  ASSUME TypeOK, NEW c \in Clients, ConnStep(c)
  PROVE  /\ events' = events /\ finished' = finished
         /\ \A x \in Clients \ {c} :
              /\ UNCHANGED <<pc[x], queue[x], finStart[x], snap[x], subAt[x], pos[x], lastId[x], drops[x]>>
              /\ x \in subs' <=> x \in subs
              /\ x \in told' <=> x \in told
  BY DEF TypeOK, ConnStep, Connect, Serve, Leave, StartReplay, EmitReplay, Subscribe, EndReplayAll,
         Take, Resume, WaitTimeout, Cleanup, Deliver, Close, brokerVars, clientVars

LEMMA OtherClients ==
  ASSUME IInv, NEW c \in Clients, ConnStep(c), NEW x \in Clients \ {c}
  PROVE  ConnInv(x)'
<1>1. ConnInv(x) /\ TypeOK
  BY DEF IInv
<1> QED BY <1>1, ConnFrame DEF ConnInv, Attached

\* Queues after a step on a connection.
LEMMA ConnQueues ==
  ASSUME TypeOK, NEW c \in Clients, ConnStep(c)
  PROVE  queue' \in [Clients -> Seq(Nat)] /\ \A x \in Clients : Len(queue'[x]) <= QueueSize
<1>1. CASE UNCHANGED queue
  BY <1>1 DEF TypeOK
<1>2. CASE queue' = [queue EXCEPT ![c] = <<>>]
  <2>1. <<>> \in Seq(Nat) /\ Len(<<>>) = 0
    OBVIOUS
  <2> QED BY <1>2, <2>1, StreamAssumption DEF TypeOK
<1>3. CASE queue[c] # <<>> /\ queue' = [queue EXCEPT ![c] = Tail(@)]
  <2>1. queue[c] \in Seq(Nat) /\ Len(queue[c]) \in Nat /\ Len(queue[c]) <= QueueSize
    BY DEF TypeOK
  <2>2. Tail(queue[c]) \in Seq(Nat) /\ Len(Tail(queue[c])) = Len(queue[c]) - 1
    BY <1>3, <2>1, HeadTailProperties
  <2>3. Len(Tail(queue[c])) <= QueueSize
    BY <2>1, <2>2, StreamAssumption
  <2> QED BY <1>3, <2>2, <2>3 DEF TypeOK
<1> QED
  BY <1>1, <1>2, <1>3 DEF ConnStep, Connect, Serve, Leave, StartReplay, EmitReplay, Subscribe,
     EndReplayAll, Take, Resume, WaitTimeout, Cleanup, Close

LEMMA ConnTypes ==
  ASSUME IInv, NEW c \in Clients, ConnStep(c)
  PROVE  TypeOK'
<1>0. TypeOK /\ Len(events) \in Nat /\ queue[c] \in Seq(Nat)
  BY DEF IInv, TypeOK
<1>1. events' \in Seq(EventTypes) /\ finished' \in BOOLEAN
  BY <1>0, ConnFrame DEF TypeOK
<1>2. subs' \subseteq Clients /\ told' \subseteq Clients
  BY <1>0 DEF TypeOK, ConnStep, Connect, Serve, Leave, StartReplay, EmitReplay, Subscribe,
     EndReplayAll, Take, Resume, WaitTimeout, Cleanup, Close, Deliver, clientVars
<1>3. pc' \in [Clients -> PCs] /\ finStart' \in [Clients -> BOOLEAN]
  BY <1>0 DEF TypeOK, PCs, ConnStep, Connect, Serve, Leave, StartReplay, EmitReplay, Subscribe,
     EndReplayAll, Take, Resume, WaitTimeout, Cleanup, Close
<1>4. snap' \in [Clients -> Nat] /\ subAt' \in [Clients -> Nat]
  BY <1>0 DEF TypeOK, ConnStep, Connect, Serve, Leave, StartReplay, EmitReplay, Subscribe,
     EndReplayAll, Take, Resume, WaitTimeout, Cleanup
<1>5. \/ UNCHANGED <<pos, lastId>>
      \/ Connect(c)
      \/ \E id \in Nat : Deliver(c, id)
  <2>1. queue[c] # <<>> => Head(queue[c]) \in Nat
    BY <1>0, HeadTailProperties
  <2>2. pos[c] + 1 \in Nat
    BY <1>0 DEF TypeOK
  <2> QED BY <2>1, <2>2 DEF ConnStep, Serve, Leave, StartReplay, EmitReplay, Subscribe,
          EndReplayAll, Take, Resume, WaitTimeout, Cleanup, clientVars
<1>6. pos' \in [Clients -> Nat] /\ lastId' \in [Clients -> Nat]
  <2>1. CASE Connect(c)
    BY <1>0, <2>1 DEF TypeOK, Connect, clientVars
  <2>2. CASE \E id \in Nat : Deliver(c, id)
    BY <1>0, <2>2 DEF TypeOK, Deliver
  <2> QED BY <1>0, <1>5, <2>1, <2>2 DEF TypeOK
<1>7. drops' \in [Clients -> 0 .. MaxDrops]
  <2>1. CASE UNCHANGED drops
    BY <1>0, <2>1 DEF TypeOK
  <2>2. CASE drops[c] < MaxDrops /\ drops' = [drops EXCEPT ![c] = @ + 1]
    <3>1. drops[c] \in Nat /\ drops[c] + 1 \in 0 .. MaxDrops
      BY <1>0, <2>2, StreamAssumption DEF TypeOK
    <3> QED BY <1>0, <2>2, <3>1 DEF TypeOK
  <2> QED BY <2>1, <2>2 DEF ConnStep, Connect, Serve, Leave, StartReplay, EmitReplay, Subscribe,
          EndReplayAll, Take, Resume, WaitTimeout, Cleanup, Deliver, clientVars
<1> QED BY <1>0, <1>1, <1>2, <1>3, <1>4, <1>6, <1>7, ConnQueues DEF TypeOK

\* The client whose connection takes the step.
LEMMA OwnClient ==
  ASSUME IInv, NEW c \in Clients, ConnStep(c)
  PROVE  ConnInv(c)'
<1>0. /\ TypeOK /\ ConnInv(c)
      /\ events' = events /\ finished' = finished /\ finished \in BOOLEAN
      /\ Len(events) \in Nat /\ Len(events) >= 1
      /\ pos[c] \in Nat /\ lastId[c] \in Nat /\ subAt[c] \in Nat /\ snap[c] \in Nat
      /\ queue[c] \in Seq(Nat) /\ Len(queue[c]) \in Nat
  BY ConnFrame DEF IInv, TypeOK
<1>1. CASE Connect(c)
  BY <1>0, <1>1 DEF Connect, ConnInv, TypeOK, Attached, clientVars
<1>2. CASE StartReplay(c)
  BY <1>0, <1>2 DEF StartReplay, Deliver, ConnInv, TypeOK, Attached
<1>3. CASE EmitReplay(c)
  BY <1>0, <1>3 DEF EmitReplay, Deliver, ConnInv, TypeOK, Attached
<1>4. CASE Subscribe(c)
  BY <1>0, <1>4 DEF Subscribe, ConnInv, TypeOK, Attached, Continues, Larger, clientVars
<1>5. CASE EndReplayAll(c) \/ WaitTimeout(c) \/ Cleanup(c)
  BY <1>0, <1>5 DEF EndReplayAll, WaitTimeout, Cleanup, Close, ConnInv, TypeOK, Attached, clientVars
<1>6. CASE Take(c)
  <2> DEFINE q == queue[c]
             from == Larger(pos[c], subAt[c])
  <2>1. /\ q \in Seq(Nat) /\ Len(q) \in Nat /\ Len(q) >= 1
        /\ from \in Nat /\ from >= subAt[c]
        /\ Continues(q, from) /\ from + Len(q) <= Len(events)
        /\ c \in subs => from + Len(q) = Len(events)
        /\ ~finStart[c] /\ pc[c] = "live"
    BY <1>0, <1>6 DEF Take, ConnInv, Larger
  <2>2. /\ Head(q) = from + 1 /\ Tail(q) \in Seq(Nat) /\ Len(Tail(q)) = Len(q) - 1
        /\ Continues(Tail(q), from + 1)
    <3>1. /\ Tail(q) \in Seq(Nat) /\ Len(Tail(q)) = Len(q) - 1
          /\ \A i \in 1 .. Len(Tail(q)) : Tail(q)[i] = q[i + 1]
      BY <2>1, HeadTailProperties
    <3>2. Head(q) = q[1]
      BY <2>1
    <3>3. ASSUME NEW i \in 1 .. Len(Tail(q)) PROVE Tail(q)[i] = (from + 1) + i
      <4>1. i + 1 \in 1 .. Len(q) /\ Tail(q)[i] = q[i + 1]
        BY <2>1, <3>1
      <4>2. q[i + 1] = from + (i + 1)
        BY <2>1, <4>1 DEF Continues
      <4> QED BY <2>1, <4>1, <4>2
    <3> QED BY <2>1, <3>1, <3>2, <3>3 DEF Continues
  <2> HIDE DEF from
  <2>3. /\ pos' [c] = from + 1 /\ lastId'[c] = from + 1 /\ queue'[c] = Tail(q)
        /\ pc'[c] = "sent" /\ subAt'[c] = subAt[c] /\ subs' = subs /\ finStart'[c] = finStart[c]
    BY <1>0, <1>6, <2>2 DEF Take, Deliver, TypeOK
  <2>4. Larger(pos'[c], subAt'[c]) = from + 1
    BY <1>0, <2>1, <2>3 DEF Larger
  <2>5. from + 1 <= Len(events)
    BY <1>0, <2>1
  <2>6. (from + 1) + Len(Tail(q)) = from + Len(q)
    BY <2>1, <2>2
  <2> QED BY <1>0, <2>1, <2>2, <2>3, <2>4, <2>5, <2>6 DEF ConnInv, Attached
<1>7. CASE Resume(c)
  BY <1>0, <1>7 DEF Resume, Close, ConnInv, TypeOK, Attached, clientVars
<1>8. CASE Leave(c)
  BY <1>0, <1>8 DEF Leave, ConnInv, TypeOK, Attached
<1> QED BY <1>1, <1>2, <1>3, <1>4, <1>5, <1>6, <1>7, <1>8 DEF ConnStep, Serve

LEMMA NextIInv == IInv /\ [Next]_vars => IInv'
<1> SUFFICES ASSUME IInv, [Next]_vars PROVE IInv'
  OBVIOUS
<1>1. ASSUME NEW batch \in Chunks, PublishChunk(batch) PROVE IInv'
  <2>1. batch \notin Endings
    BY DEF Chunks, Endings
  <2> QED BY <1>1, <2>1, PublisherStep DEF PublishChunk, IInv, TypeOK
<1>2. ASSUME NEW batch \in Endings, FinishRun(batch) PROVE IInv'
  BY <1>2, PublisherStep DEF FinishRun
<1>3. ASSUME NEW c \in Clients, ConnStep(c) PROVE IInv'
  <2>1. TypeOK' BY <1>3, ConnTypes
  <2>2. events' = events /\ finished' = finished BY <1>3, ConnFrame DEF IInv
  <2>3. Len(events') >= 1 /\ EndsLast' BY <2>2 DEF IInv, EndsLast
  <2>4. \A x \in Clients : ConnInv(x)' BY <1>3, OwnClient, OtherClients
  <2> QED BY <2>1, <2>3, <2>4 DEF IInv
<1>4. CASE UNCHANGED vars
  BY <1>4 DEF vars, brokerVars, connVars, clientVars, IInv, TypeOK, EndsLast, ConnInv, Attached
<1> QED BY <1>1, <1>2, <1>3, <1>4 DEF Next, ConnStep

THEOREM InductiveInvariant == Spec => []IInv
<1>1. Init => IInv BY InitIInv
<1>2. IInv /\ [Next]_vars => IInv' BY NextIInv
<1> QED BY <1>1, <1>2, PTL DEF Spec

\* Every variable keeps its type, and no queue outgrows its capacity, for any
\* number of clients.
THEOREM TypeCorrect == Spec => []TypeOK
<1>1. IInv => TypeOK BY DEF IInv
<1> QED BY <1>1, InductiveInvariant, PTL

\* A subscribed connection loses events only as a tail, when the broker drops
\* its queue.
THEOREM NothingLostAfterSubscribing == Spec => []NoLossAfterSubscribe
<1>1. IInv => NoLossAfterSubscribe
  BY DEF IInv, ConnInv, Continues, NoLossAfterSubscribe
<1> QED BY <1>1, InductiveInvariant, PTL

\* While the run goes on, no event is sent to a client twice.
THEOREM NothingSentTwice == Spec => NoRedeliveryWhileRunning
<1> DEFINE Forward == \A c \in Clients : Sends(c) /\ ~finStart[c] => lastId'[c] > lastId[c]
<1>1. IInv => [Forward]_vars
  <2> SUFFICES ASSUME IInv, NEW c \in Clients, Sends(c), ~finStart[c]
               PROVE  lastId'[c] > lastId[c]
    OBVIOUS
  <2>0. /\ ConnInv(c) /\ lastId \in [Clients -> Nat]
        /\ pos[c] \in Nat /\ lastId[c] \in Nat /\ subAt[c] \in Nat
        /\ queue[c] \in Seq(Nat) /\ Len(queue[c]) \in Nat
    BY DEF IInv, TypeOK
  <2>1. CASE StartReplay(c) \/ EmitReplay(c)
    BY <2>0, <2>1 DEF StartReplay, EmitReplay, Deliver, ConnInv, Attached
  <2>2. CASE Take(c)
    <3>1. Head(queue[c]) = queue[c][1] /\ Len(queue[c]) >= 1
      BY <2>0, <2>2 DEF Take
    <3>2. pos[c] = lastId[c] /\ Head(queue[c]) = Larger(pos[c], subAt[c]) + 1
      BY <2>0, <2>2, <3>1 DEF Take, ConnInv, Attached, Continues
    <3> QED BY <2>0, <2>2, <3>2 DEF Take, Deliver, Larger
  <2> QED BY <2>1, <2>2 DEF Sends
<1> QED BY <1>1, InductiveInvariant, PTL DEF NoRedeliveryWhileRunning

\* A publisher's step appends one to three events to the feed.
LEMMA PublisherRefines ==
  ASSUME IInv, ~finished, finished' \in BOOLEAN,
         NEW batch \in Chunks \union Endings, Publish(batch),
         UNCHANGED <<connVars, clientVars>>
  PROVE  \E n \in 1 .. 3, last \in BOOLEAN : Feed!Append(n, last)
<1>1. Len(batch) \in 1 .. 3 /\ Len(events') = Len(events) + Len(batch)
  BY PublishEffect
<1>2. {c \in Clients : Attached(c)}' = {c \in Clients : Attached(c)}
  BY DEF connVars, Attached
<1>3. Feed!Append(Len(batch), finished')
  BY <1>1, <1>2 DEF Feed!Append, connVars, clientVars
<1> QED BY <1>1, <1>3

\* Sending an event is a Receive of the feed: it is further along, and who
\* settles on it does so after the end.
LEMMA SendingRefines ==
  ASSUME IInv, NEW c \in Clients, Sends(c)
  PROVE  \E at \in 0 .. Len(events) : Feed!Receive(c, at)
<1>0. /\ ConnInv(c) /\ Len(events) \in Nat /\ pc \in [Clients -> PCs]
      /\ pos[c] \in Nat /\ subAt[c] \in Nat /\ snap[c] \in Nat
      /\ queue[c] \in Seq(Nat) /\ Len(queue[c]) \in Nat
  BY DEF IInv, TypeOK
<1>1. PICK id \in 1 .. Len(events) : id > pos[c] /\ Deliver(c, id)
  <2>1. CASE StartReplay(c) \/ EmitReplay(c)
    <3>1. pos[c] + 1 \in 1 .. Len(events) /\ Deliver(c, pos[c] + 1)
      BY <1>0, <2>1 DEF StartReplay, EmitReplay, ConnInv
    <3> QED BY <1>0, <3>1
  <2>2. CASE Take(c)
    <3>1. Head(queue[c]) = queue[c][1] /\ Len(queue[c]) >= 1
      BY <1>0, <2>2 DEF Take
    <3>2. Head(queue[c]) = Larger(pos[c], subAt[c]) + 1
      BY <1>0, <2>2, <3>1 DEF Take, ConnInv, Continues
    <3>3. Larger(pos[c], subAt[c]) + Len(queue[c]) <= Len(events)
      BY <1>0, <2>2 DEF Take, ConnInv
    <3>4. Larger(pos[c], subAt[c]) \in Nat /\ Larger(pos[c], subAt[c]) >= pos[c]
      BY <1>0 DEF Larger
    <3>5. Head(queue[c]) \in 1 .. Len(events) /\ Head(queue[c]) > pos[c]
      BY <1>0, <3>1, <3>2, <3>3, <3>4
    <3> QED BY <2>2, <3>5 DEF Take
  <2> QED BY <2>1, <2>2 DEF Sends
<1>2. /\ events' = events /\ finished' = finished
      /\ Attached(c) /\ pc'[c] \in {"replay", "replayAll", "sent"}
      /\ \A x \in Clients \ {c} : pc'[x] = pc[x]
  BY <1>0 DEF Sends, StartReplay, EmitReplay, Take, brokerVars, Attached
<1>3. {x \in Clients : Attached(x)}' = {x \in Clients : Attached(x)}
  BY <1>2 DEF Attached
<1>4. told' \in {told, told \union {x \in {c} : finished}}
  <2>1. Settles(events[id]) => finished
    BY DEF IInv, EndsLast
  <2>2. finished => {x \in {c} : finished} = {c}
    OBVIOUS
  <2> QED BY <1>1, <2>1, <2>2 DEF Deliver
<1>5. Feed!Receive(c, id)
  BY <1>1, <1>2, <1>3, <1>4 DEF Feed!Receive, Deliver
<1> QED BY <1>0, <1>1, <1>5

\* Every other step on a connection attaches the client, detaches it, tells it
\* of the end, or is not visible in the feed.
LEMMA ConnRefines ==
  ASSUME IInv, NEW c \in Clients, ConnStep(c)
  PROVE  Feed!FeedNext \/ UNCHANGED Feed!feedVars
<1>0. /\ ConnInv(c) /\ Len(events) \in Nat /\ pc \in [Clients -> PCs]
      /\ lastId[c] \in 0 .. Len(events) /\ events' = events /\ finished' = finished
      /\ \A x \in Clients \ {c} : pc'[x] = pc[x]
  BY ConnFrame DEF IInv, TypeOK, ConnInv
<1> DEFINE attached == {x \in Clients : Attached(x)}
<1>1. CASE Sends(c)
  BY <1>1, SendingRefines DEF Feed!FeedNext
<1>2. CASE Connect(c)
  <2>1. /\ c \notin attached /\ attached' = attached \union {c}
        /\ (IF finished THEN 0 ELSE lastId[c]) \in 0 .. Len(events)
    BY <1>0, <1>2 DEF Connect, Attached
  <2>2. Feed!Attach(c, IF finished THEN 0 ELSE lastId[c])
    BY <1>0, <1>2, <2>1 DEF Connect, Feed!Attach, clientVars
  <2> QED BY <2>1, <2>2 DEF Feed!FeedNext
<1>3. CASE Subscribe(c) \/ Cleanup(c) \/ (Resume(c) /\ ~EndsStream(c))
  <2>1. attached' = attached
    BY <1>0, <1>3 DEF Subscribe, Cleanup, Close, Resume, Attached
  <2>2. UNCHANGED <<pos, told>>
    BY <1>3 DEF Subscribe, Cleanup, Resume, clientVars
  <2> QED BY <1>0, <2>1, <2>2 DEF Feed!feedVars
<1>4. CASE WaitTimeout(c) \/ Leave(c) \/ (Resume(c) /\ EndsStream(c))
  <2>1. attached' = attached \ {c} /\ UNCHANGED <<pos, told>>
    BY <1>0, <1>4 DEF WaitTimeout, Leave, Resume, Close, Attached, clientVars
  <2>2. Feed!Detach(c)
    BY <1>0, <2>1 DEF Feed!Detach
  <2> QED BY <2>2 DEF Feed!FeedNext
<1>5. CASE EndReplayAll(c)
  <2>1. attached' = attached \ {c} /\ UNCHANGED pos /\ finished
    BY <1>0, <1>5 DEF EndReplayAll, Close, ConnInv, Attached
  <2>2. CASE told' = told
    BY <1>0, <2>1, <2>2 DEF Feed!Detach, Feed!FeedNext
  <2>3. CASE told' = told \union {c}
    BY <1>0, <2>1, <2>3 DEF Feed!Tell, Feed!FeedNext
  <2> QED BY <1>5, <2>2, <2>3 DEF EndReplayAll
<1> QED BY <1>1, <1>2, <1>3, <1>4, <1>5 DEF ConnStep, Serve, Sends

\* The stream implements the safety part of the feed's specification: on a
\* connection events are only sent in order, no client is told of an end that
\* has not come, and nothing is published after the end.
THEOREM StreamImplementsFeed == Spec => Feed!FeedSafety
<1>1. Init => Feed!FeedInit
  <2> SUFFICES ASSUME Init PROVE Feed!FeedInit
    OBVIOUS
  <2>1. Len(events) = 1 /\ {c \in Clients : Attached(c)} = {}
    BY DEF Init, Attached
  <2> QED BY <2>1 DEF Init, Feed!FeedInit
<1>2. IInv /\ [Next]_vars => [Feed!FeedNext]_(Feed!feedVars)
  <2> SUFFICES ASSUME IInv, [Next]_vars PROVE Feed!FeedNext \/ UNCHANGED Feed!feedVars
    OBVIOUS
  <2>1. ASSUME NEW batch \in Chunks, PublishChunk(batch) PROVE Feed!FeedNext
    BY <2>1, PublisherRefines DEF PublishChunk, IInv, TypeOK, Feed!FeedNext
  <2>2. ASSUME NEW batch \in Endings, FinishRun(batch) PROVE Feed!FeedNext
    BY <2>2, PublisherRefines DEF FinishRun, Feed!FeedNext
  <2>3. ASSUME NEW c \in Clients, ConnStep(c) PROVE Feed!FeedNext \/ UNCHANGED Feed!feedVars
    BY <2>3, ConnRefines
  <2>4. CASE UNCHANGED vars
    BY <2>4 DEF vars, brokerVars, connVars, clientVars, Attached, Feed!feedVars
  <2> QED BY <2>1, <2>2, <2>3, <2>4 DEF Next, ConnStep
<1> QED BY <1>1, <1>2, InductiveInvariant, PTL DEF Spec, Feed!FeedSafety
=============================================================================
