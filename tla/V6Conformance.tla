--------------------------- MODULE V6Conformance ---------------------------
(***************************************************************************)
(* V6Process driven by a module that keeps the Module API v6 contract of   *)
(* docs/module-api-v6.md, as the module sees it: it answers a lifecycle    *)
(* frame it has received once and with the right type, logs only under it, *)
(* keeps its call_ids unique among the calls it has no result for and at   *)
(* most V6_MAX_ACTIVE_RPCS of them open, uses the methods the host         *)
(* implements, and leaves only after the shutdown frame.                   *)
(***************************************************************************)
EXTENDS V6Process

CONSTANT ReuseCallIds   \* the module reuses a call_id once it has its result

ASSUME ReuseAssumption == ReuseCallIds \in BOOLEAN

VARIABLE issued         \* [Calls -> calls the module has made under that id]

conformingVars == <<vars, issued>>

Received(t, x) == \E i \in DOMAIN inbox : inbox[i].t = t /\ inbox[i].x = x

Unanswered(id) == Received("lifecycle", id) /\ id \notin answered

Open(c) == issued[c] > ResultsFor(inbox, c)

MayCall(c) ==
  /\ ~Open(c)
  /\ ReuseCallIds \/ issued[c] = 0
  /\ Cardinality({d \in Calls : Open(d)}) < MaxActive

ConformingInit == Init /\ issued = [c \in Calls |-> 0]

ConformingResponse(id, kind) ==
  /\ Unanswered(id)
  /\ \E r \in Requests : ReqId[r] = id /\ ExpectedMatches(Expected[r], kind)
  /\ ReadTerminal(id, kind)
  /\ UNCHANGED issued

ConformingLog(id) ==
  /\ Unanswered(id)
  /\ Read(Msg("log", id, ""))
  /\ UNCHANGED <<stdout, answered, issued>>

ConformingTelegramCall(c, m) ==
  /\ MayCall(c)
  /\ Read(Msg("telegram_invoke", c, m))
  /\ issued' = [issued EXCEPT ![c] = @ + 1]
  /\ UNCHANGED <<stdout, answered>>

ConformingHostCall(c, m) ==
  /\ MayCall(c) /\ m \in ExecutorHostMethods
  /\ Read(Msg("host_invoke", c, m))
  /\ issued' = [issued EXCEPT ![c] = @ + 1]
  /\ UNCHANGED <<stdout, answered>>

ConformingEof == Received("shutdown", NoId) /\ ReadEof /\ UNCHANGED issued

ConformingExit ==
  Received("shutdown", NoId) /\ ChildExit /\ child' = "exit_ok" /\ UNCHANGED issued

HostNext == (CallerNext \/ SupervisorNext \/ TaskNext) /\ UNCHANGED issued

ConformingNext ==
  \/ HostNext
  \/ \E id \in Ids, kind \in TerminalKinds : ConformingResponse(id, kind)
  \/ \E id \in Ids : ConformingLog(id)
  \/ \E c \in Calls, m \in GatewayMethods : ConformingTelegramCall(c, m)
  \/ \E c \in Calls, m \in HostCalls : ConformingHostCall(c, m)
  \/ ConformingEof \/ ConformingExit

ConformingSpec == ConformingInit /\ [][ConformingNext]_conformingVars

\* A module that keeps the contract is never stopped for breaking it or for
\* dying, however its frames race the writer's acknowledgements, the shutdown
\* and other callers (every fatal_reason of supervise that blames the module).
ConformingModuleNeverBlamed ==
  fatal \notin {"protocol_decode", "line_too_large", "wrong_request_id",
                "wrong_module_id", "unavailable"}
=============================================================================
