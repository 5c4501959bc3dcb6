------------------------------ MODULE EventFeed ------------------------------
(***************************************************************************)
(* What the event stream of one run promises, without queues, replay       *)
(* snapshots or reconnection mechanics.                                    *)
(*                                                                         *)
(* A run appends events to a feed until it is over.  A client attaches,    *)
(* receives events further and further along the feed, possibly with gaps, *)
(* and detaches; it learns that the run is over only once it is, and a     *)
(* client that keeps coming back learns it eventually.                     *)
(***************************************************************************)
EXTENDS Naturals

CONSTANT Clients

VARIABLES
  length,    \* number of events published so far: their ids are 1..length
  over,      \* the run has published its terminal event
  attached,  \* the clients whose connection is being served
  cursor,    \* cursor[c]: id of the last event received on that connection
  told       \* the clients that know the run is over

feedVars == <<length, over, attached, cursor, told>>

FeedInit ==
  /\ length \in Nat
  /\ over = FALSE
  /\ attached = {}
  /\ cursor = [c \in Clients |-> 0]
  /\ told = {}

Append(n, last) ==
  /\ ~over
  /\ length' = length + n
  /\ over' = last
  /\ UNCHANGED <<attached, cursor, told>>

\* A connection starts anywhere in the feed, also before what an earlier
\* connection of the client has received.
Attach(c, at) ==
  /\ c \notin attached
  /\ attached' = attached \union {c}
  /\ cursor' = [cursor EXCEPT ![c] = at]
  /\ UNCHANGED <<length, over, told>>

\* Within a connection a client only moves forward.
Receive(c, id) ==
  /\ c \in attached
  /\ id > cursor[c]
  /\ cursor' = [cursor EXCEPT ![c] = id]
  /\ told' \in {told, told \union {x \in {c} : over}}
  /\ UNCHANGED <<length, over, attached>>

Tell(c) ==
  /\ over
  /\ told' = told \union {c}
  /\ attached' \in {attached, attached \ {c}}
  /\ UNCHANGED <<length, over, cursor>>

Detach(c) ==
  /\ attached' = attached \ {c}
  /\ UNCHANGED <<length, over, cursor, told>>

FeedNext ==
  \/ \E n \in 1 .. 3, last \in BOOLEAN : Append(n, last)
  \/ \E c \in Clients :
       \/ \E at \in 0 .. length : Attach(c, at) \/ Receive(c, at)
       \/ Tell(c)
       \/ Detach(c)

\* The liveness a reader relies on: a client does not wait for ever on a run
\* that is over.
EveryClientTold == \A c \in Clients : over ~> (c \in told)

FeedSafety == FeedInit /\ [][FeedNext]_feedVars
FeedSpec == FeedSafety /\ EveryClientTold
=============================================================================
