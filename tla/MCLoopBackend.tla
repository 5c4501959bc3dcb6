--------------------------- MODULE MCLoopBackend ---------------------------
(* LoopBackend for TLC: what the papers yield. *)
EXTENDS LoopBackend

Says(verdict, claim, limitation) ==
  [verdict |-> verdict, claim |-> claim, limitation |-> limitation]

\* Two of the passages quote numbers: that of the second paper, and one that is
\* beyond the list.
MCTexts ==
  {<<>>, <<Says("valid", {}, {})>>, <<Says("unquoted", {}, {}), Says("valid", {}, {})>>,
   <<Says("unidentified", {}, {})>>, <<Says("valid", {2}, {})>>, <<Says("valid", {3}, {2})>>}
=============================================================================
