--------------------------- MODULE MCOnline ---------------------------
(* The program while it is connected: the run loop, the catalogue of        *)
(* modules, the upstream check and the log forwarder.  The four models      *)
(* share no variable; "which" chooses one of them for a whole behaviour and *)
(* the others stay in one initial state, so the run explores their union.   *)
EXTENDS HostLoop, UpstreamCheck, LogForwarder, ModuleCatalog

VARIABLE which

\* A root, two branches and their merge: 1 <- 2 <- 4, 1 <- 3, {3, 4} <- 5.
MCParents == <<{}, {1}, {1}, {2}, {3, 4}>>
MCVersionOf == <<<<0>>, <<1>>, <<>>, <<1, 0>>, <<1, 0, 2>>>>

MCManifests ==
  {[protocol |-> 6, commands |-> {"run", "stop"}, default |-> "run"],
   [protocol |-> 3, commands |-> {"stop"}, default |-> NoCommand]}

OnlineInit ==
  /\ which \in {"loop", "modules", "upstream", "logs"}
  /\ HostInit /\ CheckInit /\ LogInit /\ CatalogInit
  /\ which # "loop" => botfather
  /\ which # "upstream" => build = Unknown /\ main = 1
  /\ which # "logs" => files = [token |-> 0, chat |-> FALSE, topic |-> FALSE]
  /\ which # "modules" => registered = Nothing /\ enabledIds = {}

OnlineNext ==
  \/ which = "loop" /\ HostNext /\ UNCHANGED <<which, checkVars, logVars, catalogVars>>
  \/ which = "modules" /\ CatalogNext /\ UNCHANGED <<which, hostVars, checkVars, logVars>>
  \/ which = "upstream" /\ CheckNext /\ UNCHANGED <<which, hostVars, logVars, catalogVars>>
  \/ which = "logs" /\ LogNext /\ UNCHANGED <<which, hostVars, checkVars, catalogVars>>

\* HostFairness asks nothing of the other behaviours: in the run loop's initial
\* state none of its actions is enabled.
OnlineSpec ==
  /\ OnlineInit /\ [][OnlineNext]_<<which, hostVars, checkVars, logVars, catalogVars>>
  /\ HostFairness
=============================================================================
