---------------------------- MODULE BoundedCalls ----------------------------
(***************************************************************************)
(* What every call of an outside service promises: it is tried a limited    *)
(* number of times, it ends with one answer, and nothing is sent after that.*)
(***************************************************************************)
EXTENDS Naturals

VARIABLES
  busy,     \* a call is being made
  limit,    \* how often it may be tried, fixed when it begins
  sent      \* requests sent for it

callVars == <<busy, limit, sent>>

CallInit == ~busy /\ limit = 0 /\ sent = 0

Begin ==
  /\ ~busy
  /\ limit' \in Nat /\ sent' = 0
  /\ busy' \in BOOLEAN      \* some calls are answered without being sent

Try ==
  /\ busy /\ sent < limit
  /\ sent' = sent + 1
  /\ UNCHANGED <<busy, limit>>

Answer ==
  /\ busy /\ busy' = FALSE
  /\ UNCHANGED <<limit, sent>>

CallNext == Begin \/ Try \/ Answer

CallSafety == CallInit /\ [][CallNext]_callVars
\* A call that was begun ends.
CallSpec == CallSafety /\ WF_callVars(Try \/ Answer)
=============================================================================
