---------------------------- MODULE MCEventStream ----------------------------
(* EventStream for TLC: one history of a few events and one client.  Clients    *)
(* share only the history, which no client changes, so one stands for all.      *)
EXTENDS EventStream
=============================================================================
