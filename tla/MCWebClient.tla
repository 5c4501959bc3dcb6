---------------------------- MODULE MCWebClient ----------------------------
(* WebClient for TLC. *)
EXTENDS WebClient

CONSTANTS saved, first, second

MCRuns == {saved, first, second}
MCFound == [r \in MCRuns |-> 1]
=============================================================================
