------------------------------ MODULE McpLink ------------------------------
(***************************************************************************)
(* The manager of MCP servers (mcp/manager.py, mcp/client.py): connecting   *)
(* the configured servers at start, registering their tools under public    *)
(* names, and giving everything back at shutdown.  ExternalCalls has the    *)
(* calls.                                                                   *)
(***************************************************************************)
EXTENDS Naturals, Sequences, SequencesExt, FiniteSets

CONSTANTS
  Servers,      \* configured MCP servers
  Remote,       \* names of tools at the servers
  Public,       \* make_public_tool_name, a function on Servers \X Remote
  Disabled,     \* servers that are switched off or not in the allowed set
  FailOpen      \* values of MCP_FAIL_OPEN to consider

Owners == Servers \X Remote
ASSUME McpAssumption ==
  /\ IsFiniteSet(Servers) /\ IsFiniteSet(Remote)
  /\ Disabled \subseteq Servers
  /\ Owners \subseteq DOMAIN Public
  /\ FailOpen \subseteq BOOLEAN

Names == {Public[o] : o \in Owners}
Nobody == <<>>

VARIABLES
  life,       \* phase of the manager within the life of the application
  enabled,    \* MCP_ENABLED
  failOpen,
  todo,       \* servers still to be connected, or to be closed
  session,    \* the transport of a server's connection
  links,      \* _connections
  adapters,   \* _adapters and _routes: the tool behind a public name
  registry,   \* the tool registry, as far as it holds MCP tools
  status      \* _servers: what the status page says of a server

modeVars == <<enabled, failOpen>>
linkVars == <<life, modeVars, todo, session, links, adapters, registry, status>>

LinkTypeOK ==
  /\ life \in {"off", "starting", "up", "closing", "down", "failed"}
  /\ enabled \in BOOLEAN /\ failOpen \in BOOLEAN
  /\ todo \in SeqOf(Servers, Cardinality(Servers))
  /\ session \in [Servers -> {"none", "opening", "open", "closed"}]
  /\ links \subseteq Servers
  /\ adapters \in [Names -> Owners \union {Nobody}]
  /\ registry \in [Names -> Owners \union {Nobody}]
  /\ status \in [Servers -> {"none", "disabled", "connected", "failed"}]

LinkInit ==
  /\ life = "off" /\ enabled \in BOOLEAN /\ failOpen \in FailOpen
  /\ todo = <<>>
  /\ session = [s \in Servers |-> "none"]
  /\ links = {}
  /\ adapters = [n \in Names |-> Nobody]
  /\ registry = [n \in Names |-> Nobody]
  /\ status = [s \in Servers |-> "none"]

\* Any check of the configuration file raises.
Unreadable == enabled /\ life' = (IF failOpen THEN "up" ELSE "failed") /\ todo' = <<>>

\* The lifespan of the application begins.
Initialize ==
  /\ life = "off"
  /\ \/ life' = "up" /\ ~enabled /\ todo' = <<>>
     \/ Unreadable
     \/ life' = "starting" /\ enabled /\ todo' \in SetToSeqs(Servers)
  /\ UNCHANGED <<modeVars, session, links, adapters, registry, status>>

Skip(s) ==
  /\ s \in Disabled
  /\ status' = [status EXCEPT ![s] = "disabled"]
  /\ todo' = Tail(todo)
  /\ UNCHANGED <<life, modeVars, session, links, adapters, registry>>

Open(s) ==
  /\ s \notin Disabled /\ session[s] = "none"
  /\ session' = [session EXCEPT ![s] = "opening"]
  /\ UNCHANGED <<life, modeVars, todo, links, adapters, registry, status>>

\* Mutant: a connection that could not be made is only reported.
FailReported(s) ==
  /\ session' = session
  /\ status' = [status EXCEPT ![s] = "failed"]
  /\ todo' = Tail(todo)
  /\ life' = IF failOpen THEN life ELSE "failed"

\* The server is reported as failed and its connection is closed; without
\* fail-open the exception ends the start of the application.
Fail(s) ==
  /\ session' = [session EXCEPT ![s] = "closed"]
  /\ status' = [status EXCEPT ![s] = "failed"]
  /\ todo' = Tail(todo)
  /\ life' = IF failOpen THEN life ELSE "failed"

\* connect or list_tools raises, or the timeout of the connection passes.
ConnectFails(s) ==
  /\ session[s] = "opening"
  /\ Fail(s)
  /\ UNCHANGED <<modeVars, links, adapters, registry>>

\* How many of the listed tools are registered before a public name is taken.
Registered(s, listed) ==
  LET taken(i) == \/ registry[Public[<<s, listed[i]>>]] # Nobody
                  \/ \E j \in 1 .. i - 1 : Public[<<s, listed[j]>>] = Public[<<s, listed[i]>>]
      clashes == {i \in DOMAIN listed : taken(i)}
  IN IF clashes = {} THEN Len(listed)
     ELSE (CHOOSE i \in clashes : \A j \in clashes : i <= j) - 1

\* The server listed its tools.  They are registered one by one without a
\* suspension; a name that is taken fails the server, whose tools before it keep
\* their registration and routes.
Listed(s) ==
  /\ session[s] = "opening"
  /\ \E listed \in UNION {SetToSeqs(tools) : tools \in SUBSET Remote} :
       LET n == Registered(s, listed)
           added == [name \in Names |->
                       IF \E i \in 1 .. n : Public[<<s, listed[i]>>] = name
                       THEN <<s, listed[CHOOSE i \in 1 .. n : Public[<<s, listed[i]>>] = name]>>
                       ELSE Nobody]
           With(table) == [name \in Names |->
                             IF added[name] # Nobody THEN added[name] ELSE table[name]]
       IN /\ registry' = With(registry)
          /\ adapters' = With(adapters)
          /\ links' = links \union {s}
          /\ IF n = Len(listed)
             THEN /\ session' = [session EXCEPT ![s] = "open"]
                  /\ status' = [status EXCEPT ![s] = "connected"]
                  /\ todo' = Tail(todo)
                  /\ UNCHANGED life
             ELSE Fail(s)
  /\ UNCHANGED modeVars

Started ==
  /\ life = "starting" /\ todo = <<>>
  /\ life' = "up"
  /\ UNCHANGED <<modeVars, todo, session, links, adapters, registry, status>>

\* Tools are taken out of the registry unless replaced since; then the
\* connections are closed one after the other.
Shutdown ==
  /\ life = "up"
  /\ life' = "closing"
  /\ registry' = [n \in Names |-> IF registry[n] = adapters[n] THEN Nobody ELSE registry[n]]
  /\ todo' \in SetToSeqs(links)
  /\ UNCHANGED <<modeVars, session, links, adapters, status>>

\* A close that raises does not keep the others from being closed.
CloseNext ==
  /\ life = "closing" /\ todo # <<>>
  /\ session' = [session EXCEPT ![Head(todo)] = "closed"]
  /\ todo' = Tail(todo)
  /\ UNCHANGED <<life, modeVars, links, adapters, registry, status>>

Closed ==
  /\ life = "closing" /\ todo = <<>>
  /\ life' = "down"
  /\ links' = {}
  /\ adapters' = [n \in Names |-> Nobody]
  /\ status' = [s \in Servers |-> "none"]
  /\ UNCHANGED <<modeVars, todo, session, registry>>

InitializeServer ==
  /\ life = "starting" /\ todo # <<>>
  /\ LET s == Head(todo) IN Skip(s) \/ Open(s) \/ ConnectFails(s) \/ Listed(s)

LinkNext == Initialize \/ InitializeServer \/ Started \/ Shutdown \/ CloseNext \/ Closed

\* When the application is down, every tool that a server ever registered is out
\* of the registry and every transport that was opened is closed: also those of a
\* server that failed on the way, whose tools the status page no longer lists.
ShutdownClean ==
  life = "down" =>
    /\ \A n \in Names : registry[n] = Nobody
    /\ \A s \in Servers : session[s] \in {"none", "closed"}
=============================================================================
