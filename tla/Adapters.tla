----------------------------- MODULE Adapters -----------------------------
(***************************************************************************)
(* The registry of adapters, their shared HTTP client and their life       *)
(* cycle.  PluginManager and PluginRegistry (app/plugins) and              *)
(* MarketplaceManager and MarketplaceRegistry (app/marketplaces) are the   *)
(* same code over other adapters.  An adapter is made once, with the       *)
(* client that the manager has then, and kept: `instances' tells with      *)
(* which client, 0 for none, and whether with its configuration.  `db' is  *)
(* what the last call answered.                                            *)
(***************************************************************************)
EXTENDS Sessions

Started(configurations, operations) ==
  /\ mem \in [initialized : {FALSE}, client : {0}, opened : {0}, closed : {{}}, instances : {<<>>},
              enabled : configurations, asked : operations]
  /\ db = [all |-> FALSE, answers |-> <<>>] /\ NoRequests

\* registry.get: what is there, or a new one without configuration.
Get(code) == IF code \in DOMAIN mem.instances THEN mem.instances[code] ELSE [client |-> mem.client, configured |-> FALSE]

\* initialize does not await: a new client, and an adapter for each enabled one that has none.
Initialize ==
  /\ ~mem.initialized /\ calls < MaxCalls
  /\ LET fresh == [client |-> mem.opened + 1, configured |-> TRUE]
         made == [code \in DOMAIN mem.instances \cup mem.enabled |->
                    IF code \in DOMAIN mem.instances THEN mem.instances[code] ELSE fresh]
     IN mem' = [mem EXCEPT !.initialized = TRUE, !.client = fresh.client, !.opened = fresh.client, !.instances = made]
  /\ calls' = calls + 1 /\ UNCHANGED <<db, req>>

\* shutdown waits for the client to close and only then forgets it, whichever is there then.
Shutdown(c) ==
  /\ req[c].op = "idle" /\ mem.client # 0 /\ calls < MaxCalls
  /\ req' = [req EXCEPT ![c] = [op |-> "closing"]]
  /\ mem' = [mem EXCEPT !.closed = @ \cup {mem.client}] /\ calls' = calls + 1 /\ UNCHANGED db
Closed(c) ==
  /\ req[c].op = "closing"
  /\ req' = [req EXCEPT ![c] = Idle]
  /\ mem' = [mem EXCEPT !.client = 0, !.initialized = FALSE] /\ UNCHANGED <<db, calls>>

\* A call of one adapter, or of several, one after the other, whose failures are logged.
Call(c, codes, all) ==
  /\ req[c].op = "idle" /\ codes # <<>> /\ calls < MaxCalls
  /\ req' = [req EXCEPT ![c] = [op |-> "call", all |-> all, todo |-> codes, uses |-> Get(codes[1]), answers |-> <<>>]]
  /\ mem' = [mem EXCEPT !.instances = With(@, codes[1], Get(codes[1]))] /\ calls' = calls + 1 /\ UNCHANGED db

\* The client that was closed meanwhile, or that the adapter has kept, refuses the request.
IsClosed(c) == req[c].uses.client \in mem.closed

Answered(c, answers) ==
  LET rest == Tail(req[c].todo)
  IN /\ req[c].op = "call"
     /\ IF rest = <<>>
          THEN db' = [all |-> req[c].all, answers |-> answers] /\ req' = [req EXCEPT ![c] = Idle] /\ UNCHANGED mem
          ELSE /\ req' = [req EXCEPT ![c] = [@ EXCEPT !.todo = rest, !.uses = Get(rest[1]), !.answers = answers]]
               /\ mem' = [mem EXCEPT !.instances = With(@, rest[1], Get(rest[1]))] /\ UNCHANGED db
     /\ UNCHANGED calls

-----------------------------------------------------------------------------
InstancesTyped(codes) ==
  /\ DOMAIN mem.instances \subseteq codes
  /\ \A code \in DOMAIN mem.instances : mem.instances[code] \in [client : 0 .. mem.opened, configured : BOOLEAN]
  /\ mem.closed \subseteq 1 .. mem.opened /\ mem.client \in 0 .. mem.opened

\* The manager is initialised as long as it has a client, and only what is enabled is ever
\* configured.  A client in use that is closed is being shut down.
LifeCycleSound ==
  /\ mem.initialized <=> mem.client # 0
  /\ \A code \in DOMAIN mem.instances : mem.instances[code].configured => code \in mem.enabled
  /\ mem.client \in mem.closed => \E c \in Clients : req[c].op = "closing"

\* An adapter that was made stays the one it is: a configuration that comes later, or a new
\* client, never reaches it.
InstancesKept ==
  \A code \in DOMAIN mem.instances : code \in DOMAIN mem'.instances /\ mem'.instances[code] = mem.instances[code]
=============================================================================
