------------------------------ MODULE MCToolLoop ------------------------------
(* ToolLoop for TLC: a worker with any item beside one that reads. *)
EXTENDS ToolLoop

CONSTANTS w1, w2, a, b

MCWorkers == {w1, w2}
MCCalls == {a, b}

Item(kind, llm, only, resources, need) ==
  [kind |-> kind, llm |-> llm, only |-> only, resources |-> resources, need |-> need]

MCItems ==
  {Item("search", llm, llm, FALSE, 0) : llm \in BOOLEAN}
    \union {Item("direct", llm, FALSE, llm, 0) : llm \in BOOLEAN}
    \union {Item("analyze", TRUE, FALSE, FALSE, 2)}
    \union {Item(kind, FALSE, FALSE, FALSE, 0) : kind \in {"cite", "analyze"}}

MCTeams == {[w \in MCWorkers |-> IF w = w1 THEN first ELSE
               Item("read", FALSE, FALSE, FALSE, 0)] : first \in MCItems}
=============================================================================
