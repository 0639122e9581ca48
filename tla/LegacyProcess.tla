----------------------------- MODULE LegacyProcess -----------------------------
(***************************************************************************)
(* A module of protocol 2 to 5 (process.rs): one child process behind one  *)
(* mutex, one request at a time, at most one nested Telegram call in a     *)
(* protocol 5 request.  The caller holds the mutex for the whole request,  *)
(* and its future may be dropped at any await: the mutex is then free and  *)
(* the request is still in flight.                                         *)
(*                                                                         *)
(* The module itself is external: one that follows the protocol, until it  *)
(* commits a fault.  A definition X_Y that precedes X is a faulty variant  *)
(* of X.                                                                   *)
(***************************************************************************)
EXTENDS Integers, Sequences, FiniteSets

CONSTANTS
  MaxRequest,    \* bound on the callers' requests
  Versions,      \* protocol versions
  ParentTime,    \* PARENT_REQUEST_TIMEOUT, in ticks
  ExecuteTime,   \* EXECUTE_TIMEOUT
  CallTime,      \* TELEGRAM_CALL_TIMEOUT
  ReserveTime,   \* TELEGRAM_RESULT_WRITE_RESERVE
  TerminalTime,  \* TERMINAL_REPLY_TIMEOUT
  ShortTime,     \* INIT_TIMEOUT, HEALTH_TIMEOUT and SHUTDOWN_TIMEOUT
  PipeSize       \* messages a pipe holds

ASSUME LegacyAssumption ==
  /\ MaxRequest \in Nat /\ Versions \subseteq 2 .. 5
  /\ {ParentTime, ExecuteTime, CallTime, ReserveTime, TerminalTime, ShortTime} \subseteq Nat \ {0}
  /\ CallTime + ReserveTime + TerminalTime <= ParentTime
  /\ PipeSize \in Nat \ {0}

VARIABLES
  version,   \* the descriptor's protocol_version
  status,    \* LegacyMetadata.status, "none" before the start and "dropped" after the drop
  host,      \* what the holder of the mutex does: [at, kind, id]
  clock,     \* ticks since the request, since telegram.result, and of the current write or call
  inflight,  \* in_flight_request
  invoked,   \* telegram_invoke_parent
  abandoned, \* active_call_ids holds the id of a call whose caller was dropped
  child,     \* "none", "alive", "exited" or "reaped"
  stdin,     \* lines the module has not read
  stdout,    \* lines the host has not read
  module,    \* the module: request served and whether it waits for a call
  answers,   \* history: what each caller received
  calls,     \* history: Telegram calls made for each request
  excuse     \* history: "fault", "late", "drop": reasons for a crash

legacyVars == <<version, status, host, clock, inflight, invoked, abandoned, child, stdin, stdout,
          module, answers, calls, excuse>>

Kinds == {"execute", "event", "edited", "health"}
InitId == 0                  \* the id of the initialize request
StopId == MaxRequest + 1     \* the id of the shutdown request
Ids == InitId .. StopId
None == -1
ReplyTypes == {"initialized", "result", "error", "event_result", "health"}
Frame(t, id) == [t |-> t, id |-> id]
Got(how, id) == [how |-> how, id |-> id]
Reset == [req |-> 0, res |-> None, op |-> 0]
Idle == [at |-> "idle", kind |-> "none", id |-> None]
Busy == host.at \notin {"idle", "reap"}

LegacyTypeOK ==
  /\ version \in Versions
  /\ status \in {"none", "starting", "running", "crashed", "terminated", "dropped"}
  /\ host.at \in {"idle", "send", "read", "gateway", "result", "reap"} /\ host.id \in Ids \cup {None}
  /\ inflight \in Ids \cup {None} /\ invoked \in Ids \cup {None} /\ abandoned \in BOOLEAN
  /\ child \in {"none", "alive", "exited", "reaped"}
  /\ Len(stdin) <= PipeSize /\ Len(stdout) <= PipeSize
  /\ host.at = "read" => clock.res \in {None} \cup 0 .. TerminalTime

LegacyInit ==
  /\ version \in Versions /\ status = "none" /\ host = Idle
  /\ clock = Reset
  /\ inflight = None /\ invoked = None /\ abandoned = FALSE /\ child = "none" /\ stdin = <<>> /\ stdout = <<>>
  /\ module = [id |-> None, t |-> "none", call |-> "no"]
  /\ answers = [r \in 1 .. MaxRequest |-> Got("none", None)] /\ calls = [r \in Ids |-> 0]
  /\ excuse = {}

-----------------------------------------------------------------------------
(* Deadlines.                                                                *)

RequestTimeout(kind) ==
  IF kind \in {"initialize", "health", "shutdown"} THEN ShortTime
  ELSE IF version = 5 THEN ParentTime ELSE ExecuteTime

\* collect_reply_until: the request's own deadline, and after telegram.result
\* the earlier of it and the terminal reply's.
ReadExpired ==
  \/ clock.req >= RequestTimeout(host.kind)
  \/ clock.res # None /\ clock.res >= TerminalTime

HasNestedCallBudget_CallOnly == RequestTimeout(host.kind) - clock.req >= CallTime
HasNestedCallBudget ==
  RequestTimeout(host.kind) - clock.req >= CallTime + ReserveTime + TerminalTime

AllowsTelegramInvoke(id) ==
  version = 5 /\ inflight = host.id /\ id = host.id /\ invoked # host.id

\* Time passes while the host waits; a module that lets a deadline of its own
\* pass is late.
Tick ==
  /\ host.at \in {"read", "gateway", "result"} \/ (host.at = "reap" /\ host.kind = "shutdown")
  /\ host.at = "read" => ~ReadExpired
  /\ host.at = "gateway" => clock.op < CallTime
  /\ host.at = "result" => clock.op <= ReserveTime
  /\ host.at = "reap" => clock.req < ShortTime
  /\ clock' = [clock EXCEPT !.req = @ + 1, !.op = @ + 1, !.res = IF @ = None THEN @ ELSE @ + 1]
  /\ UNCHANGED <<version, status, host, inflight, invoked, abandoned, child, stdin, stdout, module, answers,
                 calls, excuse>>

-----------------------------------------------------------------------------
(* The ends of a request.                                                    *)

ClearRequestState == inflight' = None /\ invoked' = None /\ abandoned' = FALSE

\* fail_and_terminate: the status, the signal to the process group, then the
\* wait for the child.
Fail_NoTerminate(why) ==
  /\ ClearRequestState /\ host' = Idle /\ status' = IF host.kind = "initialize" THEN "dropped" ELSE status
  /\ answers' = (IF host.id \in DOMAIN answers THEN [answers EXCEPT ![host.id] = Got(why, None)] ELSE answers)
  /\ clock' = Reset /\ UNCHANGED <<version, child, stdin, module, calls>>
Fail(why) ==
  /\ ClearRequestState /\ status' = "crashed" /\ host' = [host EXCEPT !.at = "reap", !.kind = "fail"]
  /\ child' = (IF child = "alive" THEN "exited" ELSE child)
  /\ answers' = (IF host.id \in DOMAIN answers THEN [answers EXCEPT ![host.id] = Got(why, None)] ELSE answers)
  /\ clock' = Reset /\ UNCHANGED <<version, stdin, module, calls>>

\* shutdown_process terminates again what graceful_shutdown could not stop.
Reap ==
  /\ host.at = "reap" /\ child = "exited"
  /\ child' = "reaped" /\ host' = Idle /\ stdin' = <<>> /\ stdout' = <<>>
  /\ status' = IF host.kind = "shutdown" \/ host.id = StopId THEN "terminated" ELSE status
  /\ ClearRequestState /\ clock' = Reset
  /\ UNCHANGED <<version, module, answers, calls, excuse>>

Complete(answer) ==
  /\ ClearRequestState /\ host' = Idle
  /\ answers' = [answers EXCEPT ![host.id] = answer]
  /\ clock' = Reset /\ UNCHANGED <<version, status, child, stdin, module, calls, excuse>>

-----------------------------------------------------------------------------
(* The holder of the mutex.                                                  *)

\* start_with_gateway up to the handshake; a failed spawn leaves nothing.
Start ==
  /\ status = "none"
  /\ \/ /\ status' = "starting" /\ child' = "alive" /\ inflight' = InitId
        /\ host' = [at |-> "send", kind |-> "initialize", id |-> InitId]
     \/ status' = "dropped" /\ UNCHANGED <<child, inflight, host>>
  /\ UNCHANGED <<version, clock, invoked, abandoned, stdin, stdout, module, answers, calls, excuse>>

NextRequest == 1 + Cardinality({r \in 1 .. MaxRequest : answers[r].how # "none"})

\* execute, dispatch_event and health_check, with the manager's tests.
Ask(kind) ==
  /\ host.at = "idle" /\ status = "running" /\ NextRequest <= MaxRequest
  /\ kind = "event" => version >= 3
  /\ kind = "edited" => version >= 4
  /\ host' = [at |-> "send", kind |-> kind, id |-> NextRequest] /\ inflight' = NextRequest
  /\ UNCHANGED <<version, status, clock, invoked, abandoned, child, stdin, stdout, module, answers, calls, excuse>>

\* shutdown_all and stop_module.
GracefulShutdown ==
  /\ host.at = "idle" /\ status = "running"
  /\ host' = [at |-> "send", kind |-> "shutdown", id |-> StopId] /\ inflight' = StopId
  /\ UNCHANGED <<version, status, clock, invoked, abandoned, child, stdin, stdout, module, answers, calls, excuse>>

\* A write waits for the module as long as it takes, and fails once it is gone.
Send ==
  /\ host.at = "send" /\ child = "alive" /\ Len(stdin) < PipeSize
  /\ stdin' = Append(stdin, Frame(host.kind, host.id))
  /\ host' = [host EXCEPT !.at = IF host.kind = "shutdown" THEN "reap" ELSE "read"]
  /\ clock' = Reset
  /\ UNCHANGED <<version, status, inflight, invoked, abandoned, child, stdout, module, answers, calls, excuse>>

SendFails ==
  /\ host.at \in {"send", "result"} /\ child = "exited"
  /\ Fail("unavailable") /\ UNCHANGED <<stdout, excuse>>

\* A module that never stops logging does not hold the deadline back: the
\* scheduler interrupts the reader.
ReadDeadline_OnSilence ==
  /\ host.at = "read" /\ ReadExpired /\ stdout = <<>>
  /\ Fail("timeout") /\ UNCHANGED stdout /\ excuse' = excuse \cup {"late"}
ReadDeadline ==
  /\ host.at = "read" /\ ReadExpired
  /\ Fail("timeout") /\ UNCHANGED stdout
  /\ excuse' = excuse \cup (IF \/ clock.req >= RequestTimeout(host.kind)
                               \/ clock.res # None /\ clock.res >= TerminalTime THEN {"late"} ELSE {})

ReadEof ==
  /\ host.at = "read" /\ stdout = <<>> /\ child = "exited"
  /\ Fail("unavailable") /\ UNCHANGED <<stdout, excuse>>

\* What the request accepts as its end: the answer, or "crash".
Outcome(kind, m) ==
  CASE kind = "execute" /\ m.t = "result" -> "ok"
    [] kind = "execute" /\ m.t = "error" -> "module_error"
    [] kind \in {"event", "edited"} /\ m.t = "event_result" -> "ok"
    [] kind = "health" /\ m.t = "health" -> "ok"
    [] OTHER -> "crash"

\* collect_reply_until compares the id before the kind of the reply.
Correlated(m) == m.id = host.id

ReadHandshake(m) ==
  /\ host.kind = "initialize" /\ stdout' = Tail(stdout)
  /\ \/ m.t = "log" /\ Correlated(m)
        /\ UNCHANGED <<version, status, host, clock, inflight, invoked, abandoned, child, stdin, module, answers, calls>>
     \/ /\ m.t = "initialized" /\ Correlated(m) /\ status' = "running" /\ host' = Idle
        /\ ClearRequestState /\ clock' = Reset
        /\ UNCHANGED <<version, child, stdin, module, answers, calls>>
     \/ ~(m.t \in {"log", "initialized"} /\ Correlated(m)) /\ Fail("protocol")
  /\ UNCHANGED excuse

\* While the id of an abandoned call is kept, the id of an invoke may be that one.
ReadLine(m) ==
  /\ host.kind # "initialize" /\ stdout' = Tail(stdout)
  /\ \/ /\ m.t = "log" /\ Correlated(m)
        /\ UNCHANGED <<version, status, host, clock, inflight, invoked, abandoned, child, stdin, module,
                       answers, calls, excuse>>
     \/ /\ m.t = "invoke" /\ AllowsTelegramInvoke(m.id)
        /\ invoked' = host.id
        /\ host' = [host EXCEPT !.at = IF HasNestedCallBudget THEN "gateway" ELSE "result"]
        /\ calls' = [calls EXCEPT ![host.id] = IF HasNestedCallBudget THEN @ + 1 ELSE @]
        /\ clock' = [clock EXCEPT !.op = 0]
        /\ UNCHANGED <<version, status, inflight, abandoned, child, stdin, module, answers, excuse>>
     \/ /\ m.t \in ReplyTypes \ {"initialized"} /\ Correlated(m) /\ Outcome(host.kind, m) # "crash"
        /\ Complete(Got(Outcome(host.kind, m), m.id))
     \/ /\ \/ m.t \in {"log"} \cup ReplyTypes /\ ~Correlated(m)
           \/ m.t = "invoke" /\ (abandoned \/ ~AllowsTelegramInvoke(m.id))
           \/ m.t \in ReplyTypes /\ Correlated(m) /\ Outcome(host.kind, m) = "crash"
           \/ m.t = "garbage"
        /\ Fail("protocol") /\ UNCHANGED excuse

Read ==
  host.at = "read" /\ stdout # <<>> /\ (ReadHandshake(Head(stdout)) \/ ReadLine(Head(stdout)))

\* The gateway's answer, its error, the missing capability and the timeout all
\* become a telegram.result.
GatewayEnds ==
  /\ host.at = "gateway"
  /\ host' = [host EXCEPT !.at = "result"] /\ clock' = [clock EXCEPT !.op = 0]
  /\ UNCHANGED <<version, status, inflight, invoked, abandoned, child, stdin, stdout, module, answers, calls, excuse>>

SendTelegramResult ==
  /\ host.at = "result" /\ child = "alive" /\ Len(stdin) < PipeSize
  /\ stdin' = Append(stdin, Frame("telegram.result", host.id))
  /\ host' = [host EXCEPT !.at = "read"]
  /\ clock' = [clock EXCEPT !.res = 0]
  /\ UNCHANGED <<version, status, inflight, invoked, abandoned, child, stdout, module, answers, calls, excuse>>

ShutdownDeadline ==
  /\ host.at = "reap" /\ host.kind = "shutdown" /\ child = "alive" /\ clock.req >= ShortTime
  /\ Fail("timeout") /\ UNCHANGED stdout /\ excuse' = excuse \cup {"late"}

\* The caller's future is dropped: a command by the deadline of the setup
\* dialogue or by ctrl-c, an event by the abort of its task.  A line being
\* read is lost up to the byte it reached.  A start that is dropped drops the
\* process with it, and kill_on_drop ends the child.
Drop ==
  /\ host.at \in {"send", "read", "gateway", "result"} /\ host.kind # "shutdown"
  /\ host' = Idle /\ excuse' = excuse \cup {"drop"}
  /\ \/ stdout' = stdout
     \/ host.at = "read" /\ stdout # <<>> /\ stdout' = <<Frame("garbage", None)>> \o Tail(stdout)
  /\ \/ /\ host.kind = "initialize" /\ status' = "dropped" /\ child' = "reaped" /\ UNCHANGED answers
     \/ /\ host.kind # "initialize" /\ answers' = [answers EXCEPT ![host.id] = Got("dropped", None)]
        /\ UNCHANGED <<status, child>>
  /\ abandoned' = (abandoned \/ host.at = "gateway")
  /\ clock' = Reset /\ UNCHANGED <<version, inflight, invoked, stdin, module, calls>>

-----------------------------------------------------------------------------
(* The module (external).                                                    *)

ModuleUnchanged == UNCHANGED <<version, status, host, clock, inflight, invoked, abandoned, answers, calls>>
Writes(m) == Len(stdout) < PipeSize /\ stdout' = Append(stdout, m)
ReplyTo(t) ==
  CASE t = "initialize" -> {"initialized"} [] t = "execute" -> {"result", "error"}
    [] t \in {"event", "edited"} -> {"event_result"} [] t = "health" -> {"health"}
    [] OTHER -> {}

ModuleReads ==
  /\ child = "alive" /\ stdin # <<>> /\ stdin' = Tail(stdin)
  /\ \/ /\ module.call = "waits" /\ Head(stdin).t = "telegram.result"
        /\ module' = [module EXCEPT !.call = "done"] /\ UNCHANGED child
     \/ /\ module.id = None /\ Head(stdin).t # "shutdown"
        /\ module' = [id |-> Head(stdin).id, t |-> Head(stdin).t, call |-> "no"] /\ UNCHANGED child
     \/ module.id = None /\ Head(stdin).t = "shutdown" /\ child' = "exited" /\ UNCHANGED module
  /\ UNCHANGED <<stdout, excuse>> /\ ModuleUnchanged

ModuleWrites ==
  /\ child = "alive" /\ module.id # None /\ module.call # "waits"
  /\ \/ Writes(Frame("log", module.id)) /\ UNCHANGED module
     \/ /\ version = 5 /\ module.t \in {"execute", "event", "edited"} /\ module.call = "no"
        /\ Writes(Frame("invoke", module.id)) /\ module' = [module EXCEPT !.call = "waits"]
     \/ \E t \in ReplyTo(module.t) :
          Writes(Frame(t, module.id)) /\ module' = [module EXCEPT !.id = None]
  /\ UNCHANGED <<child, stdin, excuse>> /\ ModuleUnchanged

\* Once: any line, or the end of the process.
ModuleFaults ==
  /\ child = "alive" /\ "fault" \notin excuse /\ excuse' = excuse \cup {"fault"}
  /\ \/ \E t \in {"log", "invoke", "garbage"} \cup ReplyTypes, id \in Ids :
          Writes(Frame(t, id)) /\ UNCHANGED child
     \/ child' = "exited" /\ UNCHANGED stdout
  /\ UNCHANGED <<stdin, module>> /\ ModuleUnchanged

\* The process is over, or both sides wait to write: a write has no deadline.
Stopped ==
  /\ \/ status \in {"crashed", "terminated", "dropped"} /\ host.at = "idle"
     \/ host.at \in {"send", "result"} /\ Len(stdin) = PipeSize
  /\ UNCHANGED legacyVars

LegacyNext ==
  \/ Tick \/ Reap \/ Start \/ GracefulShutdown \/ Send \/ SendFails \/ ReadDeadline \/ ReadEof \/ Read
  \/ GatewayEnds \/ SendTelegramResult \/ ShutdownDeadline \/ Drop
  \/ \E kind \in Kinds : Ask(kind)
  \/ ModuleReads \/ ModuleWrites \/ ModuleFaults \/ Stopped

LegacySpec == LegacyInit /\ [][LegacyNext]_legacyVars

\* The host's own steps and the clock; nothing is assumed of the module.
LegacyFairness ==
  /\ WF_legacyVars(Tick) /\ WF_legacyVars(Read) /\ WF_legacyVars(ReadDeadline) /\ WF_legacyVars(ReadEof)
  /\ WF_legacyVars(GatewayEnds) /\ WF_legacyVars(ShutdownDeadline) /\ WF_legacyVars(Reap)

-----------------------------------------------------------------------------
(* Properties.                                                               *)

\* A caller never receives the reply to another request, although the reply to
\* an abandoned request may still be in the pipe when the next one is made
\* (the correlation in collect_reply_until).
ResultMatchesRequest ==
  \A r \in 1 .. MaxRequest : answers[r].how \in {"ok", "module_error"} => answers[r].id = r

\* A process is declared crashed only if the module broke the protocol, missed a
\* deadline, or a caller was dropped in the middle of a request: an application
\* error, a log or a nested call is never a crash (execute_with_entities,
\* collect_reply_until).
CrashHasCause == status = "crashed" => excuse # {}

\* One request makes at most one Telegram call, whatever the module writes
\* (allows_telegram_invoke).
OneNestedCall == \A r \in Ids : calls[r] <= 1

\* A call is only made if the module still has its whole reply window after it:
\* the gateway's timeout and the write of telegram.result within its reserve
\* never eat into TERMINAL_REPLY_TIMEOUT (has_nested_call_budget).
FullReplyWindow ==
  host.at = "read" /\ clock.res = 0 /\ calls[host.id] = 1 /\ clock.op <= ReserveTime
    => RequestTimeout(host.kind) - clock.req >= TerminalTime

\* Once the mutex is free again a crashed or terminated process has been reaped
\* and keeps no request in flight (fail_and_terminate, terminate).
CrashedIsReaped ==
  status \in {"crashed", "terminated"} /\ host.at = "idle" => child = "reaped" /\ inflight = None

\* A request whose line has been written ends, whatever the module does, unless
\* the host is writing telegram.result: send has no deadline of its own, every
\* wait for a line has one.
SentRequestEnds == (host.at = "read") ~> (host.at \in {"idle", "result"})

\* The process implements the sequential service: initialize and shutdown are
\* internal, a dropped caller ends its request although the process still
\* holds it in flight.
ServedId == IF Busy /\ host.id \in 1 .. MaxRequest THEN host.id ELSE 0
HowEnded(a) == CASE a.how \in {"none", "dropped"} -> a.how
                 [] a.how \in {"protocol", "timeout", "unavailable"} -> "failed"
                 [] a.how \in {"ok", "module_error"} -> "answered"
Service == INSTANCE SequentialService WITH
  svc <- CASE status \in {"none", "starting"} -> "off" [] status = "running" -> "up" [] OTHER -> "down",
  cur <- ServedId,
  ended <- [r \in 1 .. MaxRequest |-> HowEnded(answers[r])]
ImplementsService == Service!SvcSpec

\* The invariant of ModuleProcess: results answer their requests, a crash has a cause and
\* a reaped child, and the one nested call of a request leaves the module its whole reply window.
LegacyInv ==
  /\ LegacyTypeOK
  /\ ResultMatchesRequest
  /\ CrashHasCause
  /\ OneNestedCall
  /\ FullReplyWindow
  /\ CrashedIsReaped

================================================================================
