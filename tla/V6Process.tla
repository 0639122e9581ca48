------------------------------ MODULE V6Process ------------------------------
(***************************************************************************)
(* The Module API v6 runtime of one external module: the supervisor actor  *)
(* of v6_process.rs, its stdin writer, stdout reader and call workers, the *)
(* callers of the V6Process front end, and the child process they drive.   *)
(*                                                                         *)
(* One action is one arm of the supervisor's select! loop (taken whole, up *)
(* to the next await), or one step of another task.  select! is unbiased,  *)
(* so any ready arm may be taken.                                          *)
(*                                                                         *)
(* A definition X_Y that precedes X is a faulty variant of X: no other     *)
(* definition uses it, and the checked properties must tell it from X.     *)
(***************************************************************************)
EXTENDS Integers, Sequences, FiniteSets

CONSTANTS
  Requests,       \* lifecycle requests, one per call of V6Process::request
  Ids,            \* lifecycle request ids
  ReqId,          \* [Requests -> Ids]: the request_id each caller supplies
  Expected,       \* [Requests -> ExpectedKinds]: the response type awaited
  Calls,          \* call_ids a module uses for telegram.invoke / host.invoke
  Stoppers,       \* callers of manager::shutdown_process
  Handles,        \* message and peer handles registered by the manager
  NoId,           \* "no request", "no caller", "no frame"
  ControlQueue,   \* V6_CONTROL_QUEUE
  ReaderQueue,    \* V6_READER_QUEUE
  WriterQueue,    \* V6_WRITER_QUEUE
  RpcQueue,       \* V6_RPC_QUEUE
  MaxActive,      \* V6_MAX_ACTIVE_RPCS
  MaxPending,     \* V6_MAX_PENDING
  UsizeModulus,   \* 2^64 in the build: AtomicUsize arithmetic wraps
  MaxEmits,       \* bound on the frames the module writes to its stdout
  TerminalKinds,  \* types of terminal frame the module may emit
  GatewayMethods, \* "granted" and "denied": telegram.invoke methods it uses
  HostCalls       \* host.invoke methods it uses

ASSUME ConstantsAssumption ==
  /\ ReqId \in [Requests -> Ids]
  /\ NoId \notin Requests \cup Ids \cup Calls \cup Stoppers \cup Handles
  /\ {ControlQueue, ReaderQueue, WriterQueue, RpcQueue, MaxActive} \subseteq Nat \ {0}
  /\ MaxPending \in Nat
  /\ MaxEmits \in Nat
  /\ UsizeModulus \in Nat \ {0, 1}
  /\ Ids \cap Calls = {}

ExpectedKinds == {"Initialized", "Health", "Result", "EventResult"}

ASSUME ExpectedAssumption == Expected \in [Requests -> ExpectedKinds]

\* FatalReason: the stable error categories of a terminal failure.
FatalReason ==
  {"unavailable", "protocol_decode", "line_too_large", "wrong_request_id",
   "wrong_module_id", "execution_timeout", "shutdown_timeout", "backpressure",
   "writer_unavailable"}

ASSUME SentinelAssumption == NoId \notin FatalReason

\* What a caller of request() holds: nothing yet, an awaited oneshot, a future
\* it dropped, a response frame, or an ExternalError.
ReplyState == {"idle", "sent", "abandoned", "ok"} \cup FatalReason

\* The host methods the supervisor lets through to V6HostExecutor::execute ...
SupervisorHostMethods ==
  {"message.edit", "message.sendBot", "inline.form", "inline.answer",
   "message.editBot", "message.deleteInvoker", "message.deleteBot"}

\* ... and the methods V6HostExecutor::execute implements.
ExecutorHostMethods == SupervisorHostMethods \cup {"message.delete"}

ASSUME MethodsAssumption ==
  /\ TerminalKinds \subseteq
       {"initialized", "initialized_other", "result", "error", "health", "event_result"}
  /\ GatewayMethods \subseteq {"granted", "denied"}
  /\ HostCalls \subseteq ExecutorHostMethods \cup {"unknown"}

VARIABLES
  control,        \* mpsc channel into the supervisor
  senders,        \* FALSE once every V6Process clone is dropped
  reply,          \* [Requests -> ReplyState]
  stop,           \* [Stoppers -> state of shutdown_process]
  phase,          \* "run" (the select! loop), "teardown", "killed", "done"
  inFlight,       \* in_flight: the request awaiting its response, or NoId
  deadline,       \* TRUE iff the in-flight request's deadline is armed
  waiting,        \* VecDeque of accepted, undispatched requests
  awaitingFlush,  \* awaiting_lifecycle_flush: ids
  cancelled,      \* cancelled_lifecycle_request: id or NoId
  activeCalls,    \* reserved call_ids
  workers,        \* [Calls -> "none" | "rpc" | "host"]: the JoinSet
  closing,
  shutdownReply,  \* the stopper awaiting the shutdown result, or NoId
  forceReply,     \* the stopper awaiting ForceTerminate, or NoId
  shutdownFlushed,\* TRUE also arms shutdown_deadline
  exitSeen,       \* the child exit was observed by child.wait()
  readerOpen,
  controlOpen,
  writerQ,        \* mpsc channel to write_stdin
  writerOpen,     \* FALSE once write_stdin has returned
  ack,            \* event write_stdin is about to send, or NoId
  rpcQ,           \* mpsc channel of ActorEvents from writer and workers
  readerQ,        \* mpsc channel of ActorEvents from read_stdout
  stdout,         \* "open", or "closed" once the reader has returned
  child,          \* "alive", "exit_ok", "exit_fail", "killed"
  status,         \* V6RuntimeState.status
  fatal,          \* fatal_reason, or NoId
  diagnostic,     \* V6RuntimeState.diagnostic: a category, or NoId
  hostActive,     \* host_active: AtomicUsize
  registry,       \* V6HandleRegistry: the handles that resolve
  release,        \* [Handles -> progress of release_handle]; "deferred" handles
                  \* are the members of pending_handle_releases
  emits,          \* frames the module has emitted (bounded by MaxEmits)
  inbox,          \* history: frames written to the module's stdin
  answered,       \* history: ids the module has emitted a terminal frame for
  invoked         \* history: [Calls -> number of calls the supervisor accepted]

callerVars  == <<control, senders, reply, stop>>
lifeVars    == <<inFlight, deadline, waiting, awaitingFlush, cancelled>>
callVars    == <<activeCalls, workers, hostActive>>
closeVars   == <<closing, shutdownReply, forceReply, shutdownFlushed, exitSeen>>
openVars    == <<readerOpen, controlOpen>>
writerVars  == <<writerOpen, ack, inbox>>
moduleVars  == <<stdout, child, emits, answered>>
endVars     == <<phase, status, fatal, diagnostic>>
handleVars  == <<registry, release>>

vars == <<callerVars, lifeVars, callVars, closeVars, openVars, writerQ, writerVars,
          rpcQ, readerQ, moduleVars, endVars, handleVars, invoked>>

\* Frames and events share one shape: a type, an id and a method or kind.
Msg(t, x, m) == [t |-> t, x |-> x, m |-> m]

Init ==
  /\ control = <<>> /\ senders = TRUE
  /\ reply = [r \in Requests |-> "idle"]
  /\ stop = [s \in Stoppers |-> "idle"]
  /\ phase = "run" /\ status = "Running" /\ fatal = NoId /\ diagnostic = NoId
  /\ inFlight = NoId /\ deadline = FALSE /\ waiting = <<>>
  /\ awaitingFlush = {} /\ cancelled = NoId
  /\ activeCalls = {} /\ workers = [c \in Calls |-> "none"] /\ hostActive = 0
  /\ closing = FALSE /\ shutdownReply = NoId /\ forceReply = NoId
  /\ shutdownFlushed = FALSE /\ exitSeen = FALSE
  /\ readerOpen = TRUE /\ controlOpen = TRUE
  /\ writerQ = <<>> /\ writerOpen = TRUE /\ ack = NoId /\ inbox = <<>>
  /\ rpcQ = <<>> /\ readerQ = <<>>
  /\ stdout = "open" /\ child = "alive" /\ emits = 0 /\ answered = {}
  /\ registry = {} /\ release = [h \in Handles |-> "none"]
  /\ invoked = [c \in Calls |-> 0]

-----------------------------------------------------------------------------
(* Callers: V6Process::request, manager::shutdown_process, dropped futures. *)

\* request(): control.send().await waits for room in the channel.
Submit(r) ==
  /\ senders /\ reply[r] = "idle"
  /\ phase # "done" /\ Len(control) < ControlQueue
  /\ control' = Append(control, Msg("request", r, ""))
  /\ reply' = [reply EXCEPT ![r] = "sent"]
  /\ UNCHANGED <<senders, stop, lifeVars, callVars, closeVars, openVars, writerQ,
                 writerVars, rpcQ, readerQ, moduleVars, endVars, handleVars, invoked>>

\* request() after the supervisor returned: the channel is closed.
SubmitClosed(r) ==
  /\ senders /\ reply[r] = "idle" /\ phase = "done"
  /\ reply' = [reply EXCEPT ![r] = "unavailable"]
  /\ UNCHANGED <<control, senders, stop, lifeVars, callVars, closeVars, openVars,
                 writerQ, writerVars, rpcQ, readerQ, moduleVars, endVars, handleVars,
                 invoked>>

\* The caller's future is dropped while it awaits its reply (bot_callback's
\* outer timeout, an aborted event task): the supervisor is not told.
Abandon(r) ==
  /\ reply[r] = "sent"
  /\ reply' = [reply EXCEPT ![r] = "abandoned"]
  /\ UNCHANGED <<control, senders, stop, lifeVars, callVars, closeVars, openVars,
                 writerQ, writerVars, rpcQ, readerQ, moduleVars, endVars, handleVars,
                 invoked>>

\* shutdown_process: nothing to do unless the status reads Running; otherwise
\* graceful_shutdown() sends Control::Shutdown and awaits its reply.
StopBegin(s) ==
  /\ senders /\ stop[s] = "idle"
  /\ \/ /\ status # "Running"
        /\ stop' = [stop EXCEPT ![s] = "stopped"]
        /\ UNCHANGED control
     \/ /\ status = "Running" /\ phase # "done" /\ Len(control) < ControlQueue
        /\ control' = Append(control, Msg("shutdown", s, ""))
        /\ stop' = [stop EXCEPT ![s] = "shutting"]
  /\ UNCHANGED <<senders, reply, lifeVars, callVars, closeVars, openVars, writerQ,
                 writerVars, rpcQ, readerQ, moduleVars, endVars, handleVars, invoked>>

\* graceful_shutdown() failed: terminate() sends Control::ForceTerminate, or
\* returns at once when the channel is closed.
StopForce(s) ==
  /\ stop[s] = "failed"
  /\ \/ /\ phase = "done"
        /\ stop' = [stop EXCEPT ![s] = "stopped"]
        /\ UNCHANGED control
     \/ /\ phase # "done" /\ Len(control) < ControlQueue
        /\ control' = Append(control, Msg("force", s, ""))
        /\ stop' = [stop EXCEPT ![s] = "forcing"]
  /\ UNCHANGED <<senders, reply, lifeVars, callVars, closeVars, openVars, writerQ,
                 writerVars, rpcQ, readerQ, moduleVars, endVars, handleVars, invoked>>

\* The last V6Process clone is dropped: no caller is inside one of its methods.
DropSenders ==
  /\ senders
  /\ \A r \in Requests : reply[r] # "sent"
  /\ \A s \in Stoppers : stop[s] \in {"idle", "stopped"}
  /\ senders' = FALSE
  /\ UNCHANGED <<control, reply, stop, lifeVars, callVars, closeVars, openVars,
                 writerQ, writerVars, rpcQ, readerQ, moduleVars, endVars, handleVars,
                 invoked>>

\* register_current_message / register_peer_handle: a handle enters the registry.
RegisterHandle(h) ==
  /\ senders /\ h \notin registry /\ release[h] = "none" /\ phase # "done"
  /\ registry' = registry \cup {h}
  /\ UNCHANGED <<callerVars, lifeVars, callVars, closeVars, openVars, writerQ, writerVars,
                 rpcQ, readerQ, moduleVars, endVars, release, invoked>>

\* release_handle, first half: load host_active ...
ReleaseLoad(h) ==
  /\ senders /\ h \in registry /\ release[h] = "none"
  /\ release' = [release EXCEPT ![h] = IF hostActive # 0 THEN "deferring" ELSE "releasing"]
  /\ UNCHANGED <<callerVars, lifeVars, callVars, closeVars, openVars, writerQ, writerVars,
                 rpcQ, readerQ, moduleVars, endVars, registry, invoked>>

\* ... second half, under another lock: push to the pending list, or release.
ReleaseApply(h) ==
  /\ \/ /\ release[h] = "deferring"
        /\ release' = [release EXCEPT ![h] = "deferred"]
        /\ UNCHANGED registry
     \/ /\ release[h] = "releasing"
        /\ release' = [release EXCEPT ![h] = "done"]
        /\ registry' = registry \ {h}
  /\ UNCHANGED <<callerVars, lifeVars, callVars, closeVars, openVars, writerQ, writerVars,
                 rpcQ, readerQ, moduleVars, endVars, invoked>>

CallerNext ==
  \/ \E r \in Requests : Submit(r) \/ SubmitClosed(r) \/ Abandon(r)
  \/ \E s \in Stoppers : StopBegin(s) \/ StopForce(s)
  \/ DropSenders
  \/ \E h \in Handles : RegisterHandle(h) \/ ReleaseLoad(h) \/ ReleaseApply(h)

-----------------------------------------------------------------------------
(* Helpers of the supervisor.                                               *)

\* What no arm of the supervisor's loop touches.
armFrame == <<senders, writerVars, moduleVars, diagnostic>>

RunPhase == phase = "run"

\* Resolve the oneshots of the requests rs: a dropped receiver sees nothing.
Answer(rep, rs, v) ==
  [r \in Requests |-> IF r \in rs /\ rep[r] = "sent" THEN v ELSE rep[r]]

Elements(q) == {q[i] : i \in DOMAIN q}

\* The requests fail_lifecycle resolves.
Outstanding == (Requests \cap {inFlight}) \cup Elements(waiting)

\* fail_lifecycle / fail_lifecycle_with, once `rep` has been answered.
FailLifecycle(rep, rs, v) ==
  /\ reply' = Answer(rep, rs, v)
  /\ inFlight' = NoId /\ deadline' = FALSE /\ waiting' = <<>>

\* `fatal_reason = Some(reason); break`, up to the first await of the teardown.
Fatal(rep, rs, reason) ==
  /\ FailLifecycle(rep, rs, reason)
  /\ phase' = "teardown" /\ status' = "Crashed" /\ fatal' = reason

FatalHere(reason) == Fatal(reply, Outstanding, reason)

\* A break without a fatal reason: the status changes when the teardown ends.
CleanBreak ==
  /\ FailLifecycle(reply, Outstanding, "unavailable")
  /\ phase' = "teardown" /\ UNCHANGED <<status, fatal>>

\* queue_writer: try_send into the bounded writer channel.
CanQueue == writerOpen /\ Len(writerQ) < WriterQueue
QueueFailure == IF writerOpen THEN "backpressure" ELSE "writer_unavailable"

\* Resolve the shutdown oneshot, if a stopper awaits it.
StopReply(v) ==
  /\ stop' = [s \in Stoppers |-> IF s = shutdownReply THEN v ELSE stop[s]]
  /\ shutdownReply' = NoId

\* shutdown_child_exit_result after a flushed shutdown, and the break.
FinishShutdown ==
  IF child = "exit_ok" THEN StopReply("stopped") /\ CleanBreak
                       ELSE StopReply("failed") /\ FatalHere("unavailable")

-----------------------------------------------------------------------------
(* Supervisor: child.wait().                                                *)

ObserveExit ==
  /\ RunPhase /\ ~exitSeen /\ child # "alive"
  /\ exitSeen' = TRUE
  /\ \/ /\ ~closing
        /\ FatalHere("unavailable") /\ UNCHANGED <<stop, shutdownReply>>
     \/ /\ closing /\ shutdownFlushed
        /\ FinishShutdown
     \/ /\ closing /\ ~shutdownFlushed
        /\ UNCHANGED <<reply, inFlight, deadline, waiting, phase, status, fatal, stop,
                       shutdownReply>>
  /\ UNCHANGED <<armFrame, control, awaitingFlush, cancelled, callVars, closing,
                 forceReply, shutdownFlushed, openVars, writerQ, rpcQ, readerQ,
                 handleVars, invoked>>

-----------------------------------------------------------------------------
(* Supervisor: control_rx.recv().                                           *)

IdPresent(id) ==
  \/ \E r \in Outstanding : ReqId[r] = id
  \/ id \in awaitingFlush

\* The early returns of the Control::Request arm, in order.
Refusal_WhileClosing(r) == IF IdPresent(ReqId[r]) THEN "wrong_request_id" ELSE NoId
Refusal(r) ==
  CASE closing -> "unavailable"
    [] ~closing /\ IdPresent(ReqId[r]) -> "wrong_request_id"
    [] ~closing /\ ~IdPresent(ReqId[r]) /\ inFlight # NoId /\ Len(waiting) = MaxPending
         -> "backpressure"
    [] OTHER -> NoId

\* A dispatched request has no deadline until its frame is flushed.
DispatchDeadline_AtOnce == TRUE
DispatchDeadline == FALSE

\* dispatch_lifecycle: rep are the replies so far, rest the queue left behind.
DispatchLifecycle(r, rep, rest) ==
  IF CanQueue
  THEN /\ writerQ' = Append(writerQ, Msg("lifecycle", ReqId[r], ""))
       /\ awaitingFlush' = awaitingFlush \cup {ReqId[r]}
       /\ inFlight' = r /\ deadline' = DispatchDeadline /\ waiting' = rest /\ reply' = rep
       /\ UNCHANGED <<phase, status, fatal>>
  ELSE /\ Fatal(rep, {r} \cup Elements(rest), QueueFailure)
       /\ UNCHANGED <<writerQ, awaitingFlush>>

MustWait_Never == FALSE
MustWait == inFlight # NoId

HandleRequest ==
  /\ RunPhase /\ controlOpen /\ control # <<>> /\ Head(control).t = "request"
  /\ control' = Tail(control)
  /\ LET r == Head(control).x IN
     \/ /\ Refusal(r) # NoId
        /\ reply' = Answer(reply, {r}, Refusal(r))
        /\ UNCHANGED <<inFlight, deadline, waiting, awaitingFlush, writerQ, phase, status,
                       fatal>>
     \/ /\ Refusal(r) = NoId /\ MustWait
        /\ waiting' = Append(waiting, r)
        /\ UNCHANGED <<reply, inFlight, deadline, awaitingFlush, writerQ, phase, status,
                       fatal>>
     \/ /\ Refusal(r) = NoId /\ ~MustWait
        /\ DispatchLifecycle(r, reply, waiting)
  /\ UNCHANGED <<armFrame, stop, cancelled, callVars, closeVars, openVars, rpcQ, readerQ,
                 handleVars, invoked>>

\* start_shutdown for the stopper s (NoId: every V6Process clone is gone).  The
\* aborted workers stop on their own: see WorkerAbort.
StartShutdown(s) ==
  /\ closing' = TRUE
  /\ cancelled' = IF inFlight = NoId THEN NoId ELSE ReqId[inFlight]
  /\ IF CanQueue
     THEN /\ writerQ' = Append(writerQ, Msg("shutdown", NoId, ""))
          /\ shutdownReply' = s
          /\ FailLifecycle(reply, Outstanding, "unavailable")
          /\ UNCHANGED <<stop, phase, status, fatal>>
     ELSE /\ Fatal(Answer(reply, Outstanding, "unavailable"), {}, QueueFailure)
          /\ stop' = [t \in Stoppers |-> IF t = s THEN "failed" ELSE stop[t]]
          /\ UNCHANGED <<writerQ, shutdownReply>>

\* A second shutdown request fails, so its caller goes on to terminate().
SecondShutdownReply_Ok == "stopped"
SecondShutdownReply == "failed"

HandleShutdown ==
  /\ RunPhase /\ controlOpen /\ control # <<>> /\ Head(control).t = "shutdown"
  /\ control' = Tail(control)
  /\ LET s == Head(control).x IN
     \/ /\ ~closing
        /\ StartShutdown(s)
     \/ /\ closing
        /\ stop' = [stop EXCEPT ![s] = SecondShutdownReply]
        /\ UNCHANGED <<reply, inFlight, deadline, waiting, cancelled, closing,
                       shutdownReply, writerQ, phase, status, fatal>>
  /\ UNCHANGED <<armFrame, awaitingFlush, callVars, forceReply, shutdownFlushed, exitSeen,
                 openVars, rpcQ, readerQ, handleVars, invoked>>

HandleForce ==
  /\ RunPhase /\ controlOpen /\ control # <<>> /\ Head(control).t = "force"
  /\ control' = Tail(control)
  /\ forceReply' = Head(control).x
  /\ CleanBreak
  /\ UNCHANGED <<armFrame, stop, awaitingFlush, cancelled, callVars, closing,
                 shutdownReply, shutdownFlushed, exitSeen, openVars, writerQ, rpcQ,
                 readerQ, handleVars, invoked>>

HandleControlClosed ==
  /\ RunPhase /\ controlOpen /\ ~senders /\ control = <<>>
  /\ controlOpen' = FALSE
  /\ \/ /\ ~closing
        /\ StartShutdown(NoId)
     \/ /\ closing
        /\ UNCHANGED <<reply, inFlight, deadline, waiting, cancelled, closing, stop,
                       shutdownReply, writerQ, phase, status, fatal>>
  /\ UNCHANGED <<armFrame, control, awaitingFlush, callVars, forceReply, shutdownFlushed,
                 exitSeen, readerOpen, rpcQ, readerQ, handleVars, invoked>>

ControlArm == HandleRequest \/ HandleShutdown \/ HandleForce \/ HandleControlClosed

-----------------------------------------------------------------------------
(* Supervisor: reader_rx.recv().                                            *)

ReaderReady(t) ==
  /\ RunPhase /\ readerOpen /\ readerQ # <<>> /\ Head(readerQ).t = t
  /\ readerQ' = Tail(readerQ)

\* What the handlers of module calls leave alone unless they fail.
lifecycleAndEnd == <<reply, inFlight, deadline, waiting, phase, status, fatal>>

\* Queue a telegram.result or host.result, or break with the writer's failure.
QueueResult_DropWhenFull(frame) ==
  /\ writerQ' = IF CanQueue THEN Append(writerQ, frame) ELSE writerQ
  /\ UNCHANGED lifecycleAndEnd
QueueResult(frame) ==
  IF CanQueue
  THEN writerQ' = Append(writerQ, frame) /\ UNCHANGED lifecycleAndEnd
  ELSE FatalHere(QueueFailure) /\ UNCHANGED writerQ

\* After reserve_call_id: telegram.invoke answers "capacity" to the call that
\* exceeds the limit, host.invoke breaks before it reserves.
OverCapacity_OffByOne(active) == Cardinality(active) > MaxActive + 1
OverCapacity(active) == Cardinality(active) > MaxActive
HostAtCapacity == Cardinality(activeCalls) >= MaxActive

\* validate_invoke: the method exists and the manifest grants it.
ValidateInvoke(m) == m = "granted"

HandleTelegramInvoke ==
  /\ ReaderReady("telegram_invoke")
  /\ LET c == Head(readerQ).x
         active == activeCalls \cup {c} IN
     \/ /\ closing
        /\ UNCHANGED <<lifecycleAndEnd, callVars, writerQ, invoked>>
     \/ /\ ~closing /\ c \in activeCalls
        /\ FatalHere("protocol_decode")
        /\ UNCHANGED <<callVars, writerQ, invoked>>
     \/ /\ ~closing /\ c \notin activeCalls
        /\ activeCalls' = active
        /\ hostActive' = (hostActive + 1) % UsizeModulus
        /\ invoked' = [invoked EXCEPT ![c] = @ + 1]
        /\ \/ /\ OverCapacity(active)
              /\ QueueResult(Msg("telegram_result", c, "capacity"))
              /\ UNCHANGED workers
           \/ /\ ~OverCapacity(active) /\ ~ValidateInvoke(Head(readerQ).m)
              /\ QueueResult(Msg("telegram_result", c, "denied"))
              /\ UNCHANGED workers
           \/ /\ ~OverCapacity(active) /\ ValidateInvoke(Head(readerQ).m)
              /\ workers' = [workers EXCEPT ![c] = "rpc"]
              /\ UNCHANGED <<lifecycleAndEnd, writerQ>>
  /\ UNCHANGED <<armFrame, control, stop, awaitingFlush, cancelled, closeVars, openVars,
                 rpcQ, handleVars>>

HandleHostInvoke ==
  /\ ReaderReady("host_invoke")
  /\ LET c == Head(readerQ).x IN
     \/ /\ closing
        /\ UNCHANGED <<lifecycleAndEnd, activeCalls, workers, invoked>>
     \/ /\ ~closing
        /\ \/ c \in activeCalls
           \/ Head(readerQ).m \notin SupervisorHostMethods
        /\ FatalHere("protocol_decode")
        /\ UNCHANGED <<activeCalls, workers, invoked>>
     \/ /\ ~closing /\ c \notin activeCalls /\ Head(readerQ).m \in SupervisorHostMethods
        /\ HostAtCapacity
        /\ FatalHere("backpressure")
        /\ UNCHANGED <<activeCalls, workers, invoked>>
     \/ /\ ~closing /\ c \notin activeCalls /\ Head(readerQ).m \in SupervisorHostMethods
        /\ ~HostAtCapacity
        /\ activeCalls' = activeCalls \cup {c}
        /\ workers' = [workers EXCEPT ![c] = "host"]
        /\ invoked' = [invoked EXCEPT ![c] = @ + 1]
        /\ UNCHANGED lifecycleAndEnd
  /\ UNCHANGED <<armFrame, control, stop, awaitingFlush, cancelled, hostActive, closeVars,
                 openVars, writerQ, rpcQ, handleVars>>

\* expected_matches.
ExpectedMatches(expected, kind) ==
  kind \in CASE expected = "Initialized" -> {"initialized"}
             [] expected = "Health" -> {"health"}
             [] expected = "Result" -> {"result", "error"}
             [] expected = "EventResult" -> {"event_result", "error"}

\* A late frame for the one request that the shutdown cancelled is drained.
Cancelled_Never(id) == FALSE
Cancelled(id) == closing /\ id = cancelled

InFlightId(id) == inFlight # NoId /\ ReqId[inFlight] = id

HandleTerminal ==
  /\ ReaderReady("terminal")
  /\ LET id == Head(readerQ).x
         kind == Head(readerQ).m
         rep == Answer(reply, {inFlight}, "ok") IN
     \/ /\ Cancelled(id)
        /\ UNCHANGED <<lifecycleAndEnd, awaitingFlush, writerQ>>
     \/ /\ ~Cancelled(id) /\ ~InFlightId(id)
        /\ FatalHere("wrong_request_id") /\ UNCHANGED <<awaitingFlush, writerQ>>
     \/ /\ ~Cancelled(id) /\ InFlightId(id) /\ kind = "initialized_other"
        /\ FatalHere("wrong_module_id") /\ UNCHANGED <<awaitingFlush, writerQ>>
     \/ /\ ~Cancelled(id) /\ InFlightId(id) /\ kind # "initialized_other"
        /\ ~ExpectedMatches(Expected[inFlight], kind)
        /\ FatalHere("protocol_decode") /\ UNCHANGED <<awaitingFlush, writerQ>>
     \/ /\ ~Cancelled(id) /\ InFlightId(id)
        /\ ExpectedMatches(Expected[inFlight], kind)
        /\ \/ /\ waiting = <<>>
              /\ reply' = rep /\ inFlight' = NoId /\ deadline' = FALSE
              /\ UNCHANGED <<waiting, awaitingFlush, writerQ, phase, status, fatal>>
           \/ /\ waiting # <<>>
              /\ DispatchLifecycle(Head(waiting), rep, Tail(waiting))
  /\ UNCHANGED <<armFrame, control, stop, cancelled, callVars, closeVars, openVars, rpcQ,
                 handleVars, invoked>>

HandleLog ==
  /\ ReaderReady("log")
  /\ LET id == Head(readerQ).x IN
     \/ /\ Cancelled(id) \/ InFlightId(id)
        /\ UNCHANGED lifecycleAndEnd
     \/ /\ ~Cancelled(id) /\ ~InFlightId(id)
        /\ FatalHere("wrong_request_id")
  /\ UNCHANGED <<armFrame, control, stop, awaitingFlush, cancelled, callVars, closeVars,
                 openVars, writerQ, rpcQ, handleVars, invoked>>

HandleInboundError ==
  /\ ReaderReady("inbound_error")
  /\ FatalHere(Head(readerQ).m)
  /\ UNCHANGED <<armFrame, control, stop, awaitingFlush, cancelled, callVars, closeVars,
                 openVars, writerQ, rpcQ, handleVars, invoked>>

HandleEof ==
  /\ ReaderReady("eof")
  /\ readerOpen' = FALSE
  /\ \/ /\ closing
        /\ UNCHANGED <<lifecycleAndEnd, stop, shutdownReply>>
     \/ /\ ~closing
        /\ StopReply("failed") /\ FatalHere("unavailable")
  /\ UNCHANGED <<armFrame, control, awaitingFlush, cancelled, callVars, closing,
                 forceReply, shutdownFlushed, exitSeen, controlOpen, writerQ, rpcQ,
                 handleVars, invoked>>

ReaderArm ==
  \/ HandleTelegramInvoke \/ HandleHostInvoke \/ HandleTerminal \/ HandleLog
  \/ HandleInboundError \/ HandleEof

-----------------------------------------------------------------------------
(* Supervisor: rpc_rx.recv() and the two deadlines.                         *)

RpcReady(t) ==
  /\ RunPhase /\ rpcQ # <<>> /\ Head(rpcQ).t = t
  /\ rpcQ' = Tail(rpcQ)

\* A completion that races the shutdown is discarded, never queued behind it.
DiscardCompletion_Never == FALSE
DiscardCompletion == closing

\* A discarded completion releases its call_id; a queued one keeps it until the
\* result is flushed.
ActiveAfterCompletion_Early(c) == activeCalls \ {c}
ActiveAfterCompletion(c) == IF DiscardCompletion THEN activeCalls \ {c} ELSE activeCalls

HandleRpcComplete ==
  /\ RpcReady("rpc_complete")
  /\ activeCalls' = ActiveAfterCompletion(Head(rpcQ).x)
  /\ \/ /\ DiscardCompletion
        /\ UNCHANGED <<lifecycleAndEnd, writerQ>>
     \/ /\ ~DiscardCompletion
        /\ QueueResult(Msg("telegram_result", Head(rpcQ).x, "done"))
  /\ UNCHANGED <<armFrame, control, stop, awaitingFlush, cancelled, workers, hostActive,
                 closeVars, openVars, readerQ, handleVars, invoked>>

\* finish_host_call: fetch_sub wraps, and only a count that was 1 drains the
\* pending releases.
FinishHostCall ==
  LET drained == {h \in Handles : hostActive = 1 /\ release[h] = "deferred"} IN
  /\ hostActive' = (hostActive - 1) % UsizeModulus
  /\ registry' = registry \ drained
  /\ release' = [h \in Handles |-> IF h \in drained THEN "done" ELSE release[h]]

HandleHostComplete ==
  /\ RpcReady("host_complete")
  /\ activeCalls' = ActiveAfterCompletion(Head(rpcQ).x)
  /\ \/ /\ DiscardCompletion
        /\ FinishHostCall
        /\ UNCHANGED <<lifecycleAndEnd, writerQ>>
     \/ /\ ~DiscardCompletion
        /\ QueueResult(Msg("host_result", Head(rpcQ).x, "done"))
        /\ IF CanQueue THEN FinishHostCall ELSE UNCHANGED <<hostActive, handleVars>>
  /\ UNCHANGED <<armFrame, control, stop, awaitingFlush, cancelled, workers, closeVars,
                 openVars, readerQ, invoked>>

HandleFlushed ==
  /\ RpcReady("call_flushed")
  /\ activeCalls' = activeCalls \ {Head(rpcQ).x}
  /\ UNCHANGED <<armFrame, callerVars, lifeVars, workers, hostActive, closeVars, openVars,
                 writerQ, readerQ, endVars, handleVars, invoked>>

\* handle_lifecycle_flushed: the deadline of a request starts here.
HandleLifecycleFlushed ==
  /\ RpcReady("lifecycle_flushed")
  /\ LET id == Head(rpcQ).x IN
     /\ awaitingFlush' = awaitingFlush \ {id}
     /\ IF id \notin awaitingFlush \/ (InFlightId(id) /\ deadline)
        THEN FatalHere("wrong_request_id")
        ELSE /\ deadline' = (deadline \/ InFlightId(id))
             /\ UNCHANGED <<reply, inFlight, waiting, phase, status, fatal>>
  /\ UNCHANGED <<armFrame, control, stop, cancelled, callVars, closeVars, openVars,
                 writerQ, readerQ, handleVars, invoked>>

HandleShutdownFlushed ==
  /\ RpcReady("shutdown_flushed")
  /\ shutdownFlushed' = TRUE
  /\ \/ /\ exitSeen
        /\ FinishShutdown
     \/ /\ ~exitSeen
        /\ UNCHANGED <<lifecycleAndEnd, stop, shutdownReply>>
  /\ UNCHANGED <<armFrame, control, awaitingFlush, cancelled, callVars, closing,
                 forceReply, exitSeen, openVars, writerQ, readerQ, handleVars, invoked>>

HandleWriterFailed ==
  /\ RpcReady("writer_failed")
  /\ StopReply("failed") /\ FatalHere("writer_unavailable")
  /\ UNCHANGED <<armFrame, control, awaitingFlush, cancelled, callVars, closing,
                 forceReply, shutdownFlushed, exitSeen, openVars, writerQ, readerQ,
                 handleVars, invoked>>

RpcArm ==
  \/ HandleRpcComplete \/ HandleHostComplete \/ HandleFlushed \/ HandleLifecycleFlushed
  \/ HandleShutdownFlushed \/ HandleWriterFailed

\* V6_SHUTDOWN_TIMEOUT after the shutdown frame was flushed.
ShutdownDeadlineArmed_Never == FALSE
ShutdownDeadlineArmed == closing /\ shutdownFlushed

ShutdownDeadline ==
  /\ RunPhase /\ ShutdownDeadlineArmed
  /\ StopReply("failed") /\ FatalHere("shutdown_timeout")
  /\ UNCHANGED <<armFrame, control, awaitingFlush, cancelled, callVars, closing,
                 forceReply, shutdownFlushed, exitSeen, openVars, writerQ, rpcQ, readerQ,
                 handleVars, invoked>>

\* V6_LIFECYCLE_TIMEOUT after the request's frame was flushed.
LifecycleDeadlineStarted_Never == FALSE
LifecycleDeadlineStarted == inFlight # NoId /\ deadline

LifecycleDeadline ==
  /\ RunPhase /\ LifecycleDeadlineStarted
  /\ FatalHere("execution_timeout")
  /\ UNCHANGED <<armFrame, control, stop, awaitingFlush, cancelled, callVars, closeVars,
                 openVars, writerQ, rpcQ, readerQ, handleVars, invoked>>

-----------------------------------------------------------------------------
(* write_stdin, the call workers and read_stdout.                           *)

TasksAlive == phase \in {"run", "teardown"}

\* The ActorEvent a Flush token turns into.
FlushEvent(f) ==
  CASE f.t = "lifecycle" -> Msg("lifecycle_flushed", f.x, "")
    [] f.t = "shutdown"  -> Msg("shutdown_flushed", NoId, "")
    [] OTHER             -> Msg("call_flushed", f.x, "")

WriterIdle == TasksAlive /\ writerOpen /\ ack = NoId /\ writerQ # <<>>

\* A frame is written and flushed; a descendant of the child may still hold
\* the pipe after the child's exit.
WriterWrite ==
  /\ WriterIdle
  /\ writerQ' = Tail(writerQ)
  /\ inbox' = Append(inbox, Head(writerQ))
  /\ ack' = FlushEvent(Head(writerQ))
  /\ UNCHANGED <<callerVars, lifeVars, callVars, closeVars, openVars, writerOpen, rpcQ,
                 readerQ, moduleVars, endVars, handleVars, invoked>>

\* The write fails or V6_WRITE_TIMEOUT elapses, before or after the whole line
\* reached the pipe.
WriterFail ==
  /\ WriterIdle
  /\ writerQ' = Tail(writerQ)
  /\ inbox' \in {inbox, Append(inbox, Head(writerQ))}
  /\ ack' = Msg("writer_failed", NoId, "")
  /\ UNCHANGED <<callerVars, lifeVars, callVars, closeVars, openVars, writerOpen, rpcQ,
                 readerQ, moduleVars, endVars, handleVars, invoked>>

\* tx.send(event).await; the task returns after WriterFailed.
WriterAck ==
  /\ TasksAlive /\ ack # NoId /\ Len(rpcQ) < RpcQueue
  /\ rpcQ' = Append(rpcQ, ack)
  /\ ack' = NoId
  /\ writerOpen' = (ack.t # "writer_failed")
  /\ writerQ' = IF ack.t = "writer_failed" THEN <<>> ELSE writerQ
  /\ UNCHANGED <<callerVars, lifeVars, callVars, closeVars, openVars, inbox, readerQ,
                 moduleVars, endVars, handleVars, invoked>>

\* The completion of a call, whether it returned, failed or timed out.
Completion(kind, c) ==
  Msg(IF kind = "rpc" THEN "rpc_complete" ELSE "host_complete", c, "")

\* A worker ends its call and sends the completion.
WorkerComplete(c) ==
  /\ RunPhase /\ workers[c] # "none" /\ Len(rpcQ) < RpcQueue
  /\ rpcQ' = Append(rpcQ, Completion(workers[c], c))
  /\ workers' = [workers EXCEPT ![c] = "none"]
  /\ UNCHANGED <<callerVars, lifeVars, activeCalls, hostActive, closeVars, openVars, writerQ,
                 writerVars, readerQ, moduleVars, endVars, handleVars, invoked>>

\* An aborted worker stops at its next await; until then it may still complete.
WorkerAbort(c) ==
  /\ TasksAlive /\ workers[c] # "none"
  /\ closing \/ phase = "teardown"
  /\ workers' = [workers EXCEPT ![c] = "none"]
  /\ UNCHANGED <<callerVars, lifeVars, activeCalls, hostActive, closeVars, openVars, writerQ,
                 writerVars, rpcQ, readerQ, moduleVars, endVars, handleVars, invoked>>

\* read_stdout parses one line of the module and sends it.
Read(event) ==
  /\ RunPhase /\ stdout = "open" /\ Len(readerQ) < ReaderQueue /\ emits < MaxEmits
  /\ readerQ' = Append(readerQ, event)
  /\ emits' = emits + 1
  /\ UNCHANGED <<callerVars, lifeVars, callVars, closeVars, openVars, writerQ, writerVars,
                 rpcQ, child, endVars, handleVars, invoked>>

ReadTerminal(id, kind) ==
  /\ Read(Msg("terminal", id, kind))
  /\ answered' = answered \cup {id}
  /\ UNCHANGED stdout

ReadOther ==
  /\ \/ \E id \in Ids : Read(Msg("log", id, ""))
     \/ \E c \in Calls, m \in GatewayMethods : Read(Msg("telegram_invoke", c, m))
     \/ \E c \in Calls, m \in HostCalls : Read(Msg("host_invoke", c, m))
     \/ Read(Msg("inbound_error", NoId, "protocol_decode"))
  /\ UNCHANGED <<stdout, answered>>

\* An overlong line or a read error ends the reader.
ReadError ==
  /\ \E reason \in {"line_too_large", "protocol_decode"} :
       Read(Msg("inbound_error", NoId, reason))
  /\ stdout' = "closed"
  /\ UNCHANGED answered

ReadEof ==
  /\ RunPhase /\ stdout = "open" /\ Len(readerQ) < ReaderQueue
  /\ readerQ' = Append(readerQ, Msg("eof", NoId, ""))
  /\ stdout' = "closed"
  /\ UNCHANGED <<callerVars, lifeVars, callVars, closeVars, openVars, writerQ, writerVars,
                 rpcQ, child, emits, answered, endVars, handleVars, invoked>>

\* The child exits; lines it wrote earlier may still be read.
ChildExit ==
  /\ RunPhase /\ child = "alive"
  /\ child' \in {"exit_ok", "exit_fail"}
  /\ UNCHANGED <<callerVars, lifeVars, callVars, closeVars, openVars, writerQ, writerVars,
                 rpcQ, readerQ, stdout, emits, answered, endVars, handleVars, invoked>>

ModuleNext ==
  \/ \E id \in Ids, kind \in TerminalKinds : ReadTerminal(id, kind)
  \/ ReadOther \/ ReadError \/ ReadEof \/ ChildExit

-----------------------------------------------------------------------------
(* Teardown.                                                                *)

\* Workers are joined, reader and writer aborted, the process group killed.
Kill ==
  /\ phase = "teardown"
  /\ phase' = "killed"
  /\ workers' = [c \in Calls |-> "none"]
  /\ writerOpen' = FALSE /\ writerQ' = <<>> /\ ack' = NoId
  /\ stdout' = "closed"
  /\ child' = IF child = "alive" THEN "killed" ELSE child
  /\ UNCHANGED <<callerVars, lifeVars, activeCalls, hostActive, closeVars, openVars, inbox,
                 rpcQ, readerQ, emits, answered, status, fatal, diagnostic, handleVars,
                 invoked>>

\* What the stopper s learns when supervise returns and its oneshot, if any, is
\* answered or dropped with the control channel.
StopAtReturn(s) ==
  CASE s = forceReply                             -> "stopped"
    [] Msg("force", s, "") \in Elements(control)    -> "stopped"
    [] s = shutdownReply                          -> "failed"
    [] Msg("shutdown", s, "") \in Elements(control) -> "failed"
    [] OTHER                                      -> stop[s]

\* The final status and diagnostic, the force reply and a fresh handle registry;
\* then supervise returns and drops its receivers.
Finish ==
  /\ phase = "killed"
  /\ phase' = "done"
  /\ status' = IF fatal = NoId THEN "Terminated" ELSE "Crashed"
  /\ diagnostic' = fatal
  /\ reply' = Answer(reply, {r \in Requests : Msg("request", r, "") \in Elements(control)},
                     "unavailable")
  /\ stop' = [s \in Stoppers |-> StopAtReturn(s)]
  /\ control' = <<>> /\ rpcQ' = <<>> /\ readerQ' = <<>>
  /\ shutdownReply' = NoId
  /\ registry' = {}
  /\ UNCHANGED <<senders, lifeVars, callVars, closing, forceReply, shutdownFlushed, exitSeen,
                 openVars, writerQ, writerVars, moduleVars, fatal, release, invoked>>

-----------------------------------------------------------------------------
SupervisorNext ==
  \/ ObserveExit \/ ControlArm \/ ReaderArm \/ RpcArm
  \/ ShutdownDeadline \/ LifecycleDeadline \/ Kill \/ Finish

TaskNext ==
  \/ WriterWrite \/ WriterFail \/ WriterAck
  \/ \E c \in Calls : WorkerComplete(c) \/ WorkerAbort(c)

Next == CallerNext \/ SupervisorNext \/ TaskNext \/ ModuleNext

\* select! picks a ready arm at random, so an arm that stays ready is taken; a
\* write ends by V6_WRITE_TIMEOUT and a call by V6_RPC_TIMEOUT; a stopper whose
\* graceful shutdown failed goes on to terminate() and a started release_handle
\* completes.  Neither the module nor the other callers owe any progress.
Fairness ==
  /\ WF_vars(ObserveExit) /\ WF_vars(ControlArm) /\ WF_vars(ReaderArm) /\ WF_vars(RpcArm)
  /\ WF_vars(ShutdownDeadline) /\ WF_vars(LifecycleDeadline)
  /\ WF_vars(Kill) /\ WF_vars(Finish)
  /\ WF_vars(WriterWrite \/ WriterFail) /\ WF_vars(WriterAck)
  /\ \A c \in Calls : WF_vars(WorkerComplete(c) \/ WorkerAbort(c))
  /\ \A s \in Stoppers : WF_vars(StopForce(s))
  /\ \A h \in Handles : WF_vars(ReleaseApply(h))

Spec == Init /\ [][Next]_vars
FairSpec == Spec /\ Fairness

-----------------------------------------------------------------------------
(* Properties.                                                              *)

ControlMsg ==
  [t : {"request"}, x : Requests, m : {""}]
    \cup [t : {"shutdown", "force"}, x : Stoppers, m : {""}]

WriterMsg ==
  [t : {"lifecycle"}, x : Ids, m : {""}]
    \cup [t : {"telegram_result", "host_result"}, x : Calls,
          m : {"done", "capacity", "denied"}]
    \cup [t : {"shutdown"}, x : {NoId}, m : {""}]

ActorMsg ==
  [t : {"rpc_complete", "host_complete", "call_flushed"}, x : Calls, m : {""}]
    \cup [t : {"lifecycle_flushed"}, x : Ids, m : {""}]
    \cup [t : {"shutdown_flushed", "writer_failed"}, x : {NoId}, m : {""}]

ASSUME AckAssumption == NoId \notin ActorMsg

ReaderMsg ==
  [t : {"terminal"}, x : Ids, m : TerminalKinds]
    \cup [t : {"log"}, x : Ids, m : {""}]
    \cup [t : {"telegram_invoke"}, x : Calls, m : GatewayMethods]
    \cup [t : {"host_invoke"}, x : Calls, m : HostCalls]
    \cup [t : {"inbound_error"}, x : {NoId}, m : {"protocol_decode", "line_too_large"}]
    \cup [t : {"eof"}, x : {NoId}, m : {""}]

TypeCallers ==
  /\ control \in Seq(ControlMsg)
  /\ reply \in [Requests -> ReplyState]
  /\ stop \in [Stoppers -> {"idle", "shutting", "failed", "forcing", "stopped"}]

TypeLife ==
  /\ inFlight \in Requests \cup {NoId} /\ waiting \in Seq(Requests)
  /\ awaitingFlush \subseteq Ids /\ cancelled \in Ids \cup {NoId}

TypeCalls ==
  /\ activeCalls \subseteq Calls /\ workers \in [Calls -> {"none", "rpc", "host"}]
  /\ hostActive \in 0 .. (UsizeModulus - 1) /\ invoked \in [Calls -> Nat]
  /\ registry \subseteq Handles
  /\ release \in [Handles -> {"none", "deferring", "releasing", "deferred", "done"}]

TypeClose ==
  shutdownReply \in Stoppers \cup {NoId} /\ forceReply \in Stoppers \cup {NoId}

TypeFlags ==
  /\ senders \in BOOLEAN /\ deadline \in BOOLEAN
  /\ closing \in BOOLEAN /\ shutdownFlushed \in BOOLEAN /\ exitSeen \in BOOLEAN
  /\ readerOpen \in BOOLEAN /\ controlOpen \in BOOLEAN /\ writerOpen \in BOOLEAN

TypeWriter ==
  /\ writerQ \in Seq(WriterMsg) /\ inbox \in Seq(WriterMsg)
  /\ ack \in ActorMsg \cup {NoId} /\ rpcQ \in Seq(ActorMsg)

TypeModule ==
  /\ readerQ \in Seq(ReaderMsg) /\ stdout \in {"open", "closed"}
  /\ child \in {"alive", "exit_ok", "exit_fail", "killed"}
  /\ emits \in Nat /\ answered \subseteq Ids

TypeEnd ==
  /\ phase \in {"run", "teardown", "killed", "done"}
  /\ status \in {"Running", "Crashed", "Terminated"}
  /\ fatal \in FatalReason \cup {NoId} /\ diagnostic \in FatalReason \cup {NoId}

\* Every variable has the type its Rust counterpart has, and a queue holds only
\* its own messages.
TypeOK ==
  /\ TypeCallers /\ TypeLife /\ TypeCalls /\ TypeClose /\ TypeFlags /\ TypeWriter
  /\ TypeModule /\ TypeEnd

\* Everything handed to the module's stdin so far, or about to be.
sent == inbox \o writerQ

\* docs/module-api-v6.md: "At most one lifecycle request is sent and awaiting a
\* response at a time".  A lifecycle frame reaches the writer only when every
\* earlier one has been answered by the module (supervise, dispatch_lifecycle).
SequentialContract ==
  \A i, j \in DOMAIN sent :
    (i < j /\ sent[i].t = "lifecycle" /\ sent[j].t = "lifecycle") => sent[i].x \in answered

\* The shutdown frame is a writer barrier: nothing is written or queued behind
\* it, whatever requests, calls and completions race the shutdown
\* (handle_rpc_complete, start_shutdown and the `if closing` early returns).
ShutdownBarrier ==
  \A i \in DOMAIN sent : sent[i].t = "shutdown" => i = Len(sent)

\* Once closing, no request is in flight or waiting, so none can be dispatched
\* behind the shutdown or lose its reply (start_shutdown, fail_lifecycle).
ClosingDrainsRequests == closing => inFlight = NoId /\ waiting = <<>>

\* The response deadline runs only for the in-flight request, and only once its
\* frame is on the module's stdin (handle_lifecycle_flushed).
DeadlineOnlyAfterFlush ==
  deadline => /\ inFlight # NoId
              /\ \E i \in DOMAIN inbox :
                   inbox[i].t = "lifecycle" /\ inbox[i].x = ReqId[inFlight]

\* The lifecycle acknowledgements on their way back to the supervisor.
FlushTokens ==
  [ frames |-> {i \in DOMAIN writerQ : writerQ[i].t = "lifecycle"},
    events |-> {i \in DOMAIN rpcQ : rpcQ[i].t = "lifecycle_flushed"} ]

\* While the supervisor loops, every acknowledgement that can still arrive is
\* expected exactly once, so handle_lifecycle_flushed never breaks the loop on a
\* healthy transport, even for a request answered or cancelled before its
\* acknowledgement was processed.
FlushAcksExpected ==
  RunPhase =>
    \A id \in Ids :
      LET n == Cardinality({i \in FlushTokens.frames : writerQ[i].x = id})
               + Cardinality({i \in FlushTokens.events : rpcQ[i].x = id})
               + (IF ack = Msg("lifecycle_flushed", id, "") THEN 1 ELSE 0) IN
      /\ n <= (IF id \in awaitingFlush THEN 1 ELSE 0)
      /\ (id \in awaitingFlush /\ writerOpen /\ ack # Msg("writer_failed", NoId, "")) => n = 1

\* At most V6_MAX_ACTIVE_RPCS calls of a module execute at once, whatever mix of
\* telegram.invoke and host.invoke it sends.
WorkersBounded == Cardinality({c \in Calls : workers[c] # "none"}) <= MaxActive

ResultsFor(q, c) ==
  Cardinality({i \in DOMAIN q : q[i].t \in {"telegram_result", "host_result"} /\ q[i].x = c})

CompletionsFor(c) ==
  Cardinality({i \in DOMAIN rpcQ : rpcQ[i].t \in {"rpc_complete", "host_complete"}
                                   /\ rpcQ[i].x = c})

Running(c) == IF workers[c] = "none" THEN 0 ELSE 1

\* Every accepted call has exactly one result delivered, queued or still owed
\* while the module is not being shut down: none is lost between the worker, the
\* supervisor and the writer, and none is answered twice.
EveryCallAnsweredOnce ==
  (RunPhase /\ ~closing /\ writerOpen /\ ack # Msg("writer_failed", NoId, "")) =>
    \A c \in Calls :
      invoked[c] = ResultsFor(sent, c) + CompletionsFor(c) + Running(c)

\* A host call runs, or the supervisor has not seen its completion.
HostCallActive ==
  \/ \E c \in Calls : workers[c] = "host"
  \/ \E i \in DOMAIN rpcQ : rpcQ[i].t = "host_complete"

\* docs/module-api-v6.md: "A handle release requested while a host call is active
\* is deferred until that host call completes" (release_handle, host_active).
ReleaseWaitsForHostCalls ==
  [][\A h \in Handles :
       HostCallActive /\ release[h] = "none" => release'[h] # "releasing"]_vars

\* A call_id stays reserved until its result is flushed, so a call whose id is
\* accepted can never be confused with an earlier one (reserve_call_id).
ReservedUntilFlushed ==
  RunPhase =>
    \A c \in Calls :
      (\/ workers[c] # "none" \/ CompletionsFor(c) # 0 \/ ResultsFor(writerQ, c) # 0
       \/ ack = Msg("call_flushed", c, "")) => c \in activeCalls

\* A stopper that is told the module stopped is never told so while the
\* supervisor still serves it, and a child that still runs then is the one of a
\* crashed module whose group is about to be killed (shutdown_process).
StopMeansStopped ==
  \A s \in Stoppers :
    stop[s] = "stopped" => phase # "run" /\ (child # "alive" \/ fatal # NoId)

\* A module reported Terminated did what a caller asked: it exited cleanly after
\* the shutdown frame reached it, or a stopper forced it.
TerminatedOnlyOnRequest ==
  status = "Terminated" =>
    \/ child = "exit_ok" /\ \E i \in DOMAIN inbox : inbox[i].t = "shutdown"
    \/ forceReply # NoId

\* Every caller that keeps waiting for a reply gets one, whatever the module,
\* the transport and the other callers do (request, fail_lifecycle, deadlines).
RequestsAnswered == \A r \in Requests : reply[r] = "sent" ~> reply[r] # "sent"

\* shutdown_process always returns: a refused, timed out or failed graceful
\* shutdown falls back to a termination that completes.
StopsComplete == \A s \in Stoppers : stop[s] # "idle" ~> stop[s] = "stopped"

\* The flush rules of the supervisor together: see DeadlineOnlyAfterFlush and FlushAcksExpected.
FlushDiscipline == DeadlineOnlyAfterFlush /\ FlushAcksExpected

\* What shutdown answers and what it records: see StopMeansStopped and TerminatedOnlyOnRequest.
StopContract == StopMeansStopped /\ TerminatedOnlyOnRequest

=============================================================================
