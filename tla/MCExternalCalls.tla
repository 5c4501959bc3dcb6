--------------------------- MODULE MCExternalCalls ---------------------------
(* ExternalCalls for TLC: two servers whose tools clash in two ways. *)
EXTENDS ExternalCalls

CONSTANTS m1, m2, a, b, n1, n2

MCServers == {m1, m2}
MCRemote == {a, b}
\* The tools of m2 have one public name, which is that of a tool of m1 as well.
MCPublic == [o \in MCServers \X MCRemote |->
               CASE o = <<m1, a>> -> n1 [] o = <<m1, b>> -> n2 [] o[1] = m2 -> n2]
=============================================================================
