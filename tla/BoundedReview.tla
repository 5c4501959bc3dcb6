---------------------------- MODULE BoundedReview ----------------------------
(***************************************************************************)
(* What the review loop of a run promises, whatever its workers return:    *)
(* the work is revised at most twice, by at most one repair and at most    *)
(* one replan in either order, and the run then has one status that does   *)
(* not change any more.                                                    *)
(***************************************************************************)
EXTENDS Naturals

VARIABLES
  repairs,  \* local repairs begun
  replans,  \* replans made
  status    \* "none" while the run is working, then its outcome

reviewVars == <<repairs, replans, status>>

ReviewInit == repairs = 0 /\ replans = 0 /\ status = "none"

Repair ==
  /\ status = "none" /\ repairs = 0
  /\ repairs' = 1
  /\ UNCHANGED <<replans, status>>

Replan ==
  /\ status = "none" /\ replans = 0
  /\ replans' = 1
  /\ UNCHANGED <<repairs, status>>

Conclude ==
  /\ status = "none"
  /\ status' \in {"completed", "partial", "failed"}
  /\ UNCHANGED <<repairs, replans>>

ReviewNext == Repair \/ Replan \/ Conclude

ReviewSafety == ReviewInit /\ [][ReviewNext]_reviewVars
ReviewSpec == ReviewSafety /\ <>(status # "none")
=============================================================================
