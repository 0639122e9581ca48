---------------------------- MODULE ProtocolProofs ----------------------------
(***************************************************************************)
(* What crosses Lavis's boundaries, for every value of the constants and   *)
(* every input: the invariant of a v2-v5 module process and that it        *)
(* implements the sequential service; that a manifest's grants are         *)
(* honoured, a command keeps its authority and entities their characters.  *)
(***************************************************************************)
EXTENDS MCProtocols, FiniteSetTheorems, NaturalsInduction, WellFoundedInduction,
        SequenceTheorems, TLAPS

-----------------------------------------------------------------------------
(* The inductive invariant.  LegacyInv is not inductive.  That a request is  *)
(* asked only once needs the ended requests to be the first ones; that a     *)
(* call leaves the whole window needs the clock to be followed through the   *)
(* call; that a crash has a cause needs every state of the conversation with *)
(* a module that has kept to the protocol.                                   *)

OpenId == Ids \cup {None}
LineTypes == Kinds \cup ReplyTypes
             \cup {"initialize", "shutdown", "telegram.result", "log", "invoke", "garbage"}
Lines == [t : LineTypes, id : OpenId]
Hosts == [at : {"idle", "send", "read", "gateway", "result", "reap"},
          kind : Kinds \cup {"none", "initialize", "shutdown", "fail"}, id : OpenId]
Clocks == [req : Nat, res : Nat \cup {None}, op : Nat]
Modules == [id : OpenId, t : LineTypes \cup {"none"}, call : {"no", "waits", "done"}]
Ends == [how : {"none", "dropped", "protocol", "timeout", "unavailable", "ok", "module_error"}, id : OpenId]

Shape ==
  /\ version \in Versions
  /\ status \in {"none", "starting", "running", "crashed", "terminated", "dropped"}
  /\ host \in Hosts /\ clock \in Clocks /\ inflight \in OpenId /\ invoked \in OpenId
  /\ child \in {"none", "alive", "exited", "reaped"}
  /\ stdin \in Seq(Lines) /\ Len(stdin) <= PipeSize
  /\ stdout \in Seq(Lines) /\ Len(stdout) <= PipeSize
  /\ module \in Modules /\ answers \in [1 .. MaxRequest -> Ends] /\ calls \in [Ids -> Nat]
  /\ excuse \subseteq {"fault", "late", "drop"}
  /\ host.at = "read" => clock.res \in {None} \cup 0 .. TerminalTime

\* What the holder of the mutex does, and what that says of the process.
Serves ==
  \/ host.kind = "initialize" /\ status = "starting" /\ host.id = InitId /\ host.at \in {"send", "read"}
  \/ host.kind \in Kinds /\ status = "running" /\ host.id \in 1 .. MaxRequest
  \/ host.kind = "shutdown" /\ status = "running" /\ host.id = StopId /\ host.at = "send"

HolderInv ==
  /\ Busy => Serves /\ child \in {"alive", "exited"} /\ inflight = host.id
  /\ host.at = "reap" => \/ /\ host.kind = "shutdown" /\ host.id = StopId /\ status = "running"
                            /\ child \in {"alive", "exited"}
                         \/ host.kind = "fail" /\ status = "crashed" /\ child = "exited"
  /\ host.at = "idle" => /\ host = Idle /\ status # "starting"
                         /\ status \in {"crashed", "terminated"} => child = "reaped" /\ inflight = None
                         /\ status = "running" => child \in {"alive", "exited"}
                         /\ status \in {"none", "dropped"} => child # "alive"

\* The requests that have ended are the first ones; the next is the one being served.
NumberInv ==
  \E k \in 0 .. MaxRequest :
    /\ \A r \in 1 .. MaxRequest : answers[r].how # "none" <=> r <= k
    /\ Busy /\ host.kind \in Kinds => host.id = k + 1

NestedInv ==
  \A r \in Ids :
    /\ calls[r] <= 1
    /\ calls[r] = 1 => \/ Busy /\ host.kind \in Kinds /\ host.id = r /\ invoked = r
                       \/ r \in 1 .. MaxRequest /\ answers[r].how # "none"

\* The time a call and its result may have taken.
WindowInv ==
  LET left == RequestTimeout(host.kind) - clock.req IN
  /\ host.at = "gateway" => /\ calls[host.id] = 1 /\ clock.op <= CallTime
                            /\ left + clock.op >= CallTime + ReserveTime + TerminalTime
  /\ host.at = "result" /\ calls[host.id] = 1 => left + clock.op >= ReserveTime + TerminalTime
  /\ host.at = "read" /\ clock.res = 0 /\ calls[host.id] = 1 => left + clock.op >= ReserveTime + TerminalTime

\* The conversation with a module that keeps to the protocol.
Serving == module.id = host.id /\ module.t = host.kind
LogsUpTo(n) == \A i \in 1 .. n : stdout[i] = Frame("log", host.id)
LastLine(t) == stdout # <<>> /\ stdout[Len(stdout)] = Frame(t, host.id) /\ LogsUpTo(Len(stdout) - 1)

Quiet == stdin = <<>> /\ stdout = <<>> /\ module.id = None /\ module.call # "waits" /\ invoked = None
Asked == stdin = <<Frame(host.kind, host.id)>> /\ stdout = <<>> /\ module.id = None
         /\ module.call # "waits" /\ invoked = None
Working == stdin = <<>> /\ Serving /\ module.call # "waits" /\ LogsUpTo(Len(stdout))
           /\ (module.call = "no" => invoked = None)
Invoking == stdin = <<>> /\ Serving /\ module.call = "waits" /\ LastLine("invoke") /\ invoked = None
            /\ version = 5 /\ host.kind \in {"execute", "event", "edited"}
Called == stdin = <<>> /\ stdout = <<>> /\ Serving /\ module.call = "waits"
Resulted == stdin = <<Frame("telegram.result", host.id)>> /\ stdout = <<>> /\ Serving /\ module.call = "waits"
ReplyGiven == stdin = <<>> /\ module.id = None /\ module.call # "waits" /\ \E t \in ReplyTo(host.kind) : LastLine(t)

Conversation ==
  /\ host.at \in {"idle", "send"} => Quiet
  /\ host.at = "read" => Asked \/ Working \/ Invoking \/ Resulted \/ ReplyGiven
  /\ host.at \in {"gateway", "result"} => Called

ConformInv ==
  excuse = {} => /\ status # "crashed" /\ (child = "exited" => host.at = "reap")
                 /\ status \in {"none", "starting", "running"} => Conversation

\* The id of a call is left behind only by a caller that was dropped.
AbandonedInv == abandoned \in BOOLEAN /\ (abandoned => "drop" \in excuse)

LegacyStrong ==
  /\ AbandonedInv
  /\ Shape /\ HolderInv /\ NumberInv /\ NestedInv /\ WindowInv /\ ResultMatchesRequest /\ ConformInv

\* A line is taken from a pipe.
LEMMA TakeLine ==
  ASSUME NEW q \in Seq(Lines), q # <<>>, Len(q) <= PipeSize
  PROVE  Head(q) \in Lines /\ Tail(q) \in Seq(Lines) /\ Len(Tail(q)) <= PipeSize
<1>1. Len(q) \in Nat /\ Len(Tail(q)) = Len(q) - 1 /\ Tail(q) \in Seq(Lines) /\ Head(q) \in Lines
  OBVIOUS
<1>2. PipeSize \in Nat
  BY LegacyAssumption
<1> QED BY <1>1, <1>2

\* Every step keeps the shape of the state.
LEMMA ShapeKeeps ==
  ASSUME LegacyStrong, LegacyNext
  PROVE  Shape'
<1>s. Shape /\ HolderInv
  BY DEF LegacyStrong
<1>c. Reset \in Clocks /\ Idle \in Hosts /\ None \in OpenId /\ InitId \in OpenId /\ StopId \in OpenId
      /\ TerminalTime \in Nat
  BY LegacyAssumption DEF Reset, Clocks, Idle, Hosts, OpenId, InitId, StopId, Ids, None
<1>k. clock.req \in Nat /\ clock.op \in Nat /\ clock.res \in Nat \cup {None} /\ None \notin Nat
  BY <1>s DEF Shape, Clocks, None
<1>f. ASSUME NEW why \in {"protocol", "timeout", "unavailable"}, Fail(why),
             excuse' \subseteq {"fault", "late", "drop"}, stdout' = stdout \/ stdout' = Tail(stdout),
             stdout # <<>> \/ stdout' = stdout
      PROVE  Shape'
  <2>1. host' \in Hosts /\ host'.at = "reap"
    BY <1>f, <1>s DEF Fail, Shape, Hosts
  <2>2. answers' \in [1 .. MaxRequest -> Ends]
    BY <1>f, <1>s, <1>c DEF Fail, Shape, Ends, Got
  <2>3. stdout' \in Seq(Lines) /\ Len(stdout') <= PipeSize
    BY <1>f, <1>s, TakeLine DEF Shape
  <2> QED BY <1>f, <2>1, <2>2, <2>3, <1>s, <1>c DEF Fail, ClearRequestState, Shape
<1>1. CASE Tick
  <2>1. clock' \in Clocks /\ (clock.res = None => clock'.res = None)
        /\ (clock.res # None => clock'.res = clock.res + 1)
    <3>1. clock' = [req |-> clock.req + 1, res |-> IF clock.res = None THEN None ELSE clock.res + 1,
                    op |-> clock.op + 1]
      BY <1>1, <1>s DEF Tick, Shape, Clocks
    <3>2. clock.req + 1 \in Nat /\ clock.op + 1 \in Nat /\ (clock.res # None => clock.res + 1 \in Nat)
      BY <1>k
    <3> QED BY <3>1, <3>2 DEF Clocks
  <2>2. host.at = "read" => clock'.res \in {None} \cup 0 .. TerminalTime
    BY <1>1, <2>1, <1>s, <1>k, <1>c DEF Tick, ReadExpired, Shape
  <2> QED BY <1>1, <2>1, <2>2, <1>s DEF Tick, Shape
<1>2. CASE Reap
  BY <1>2, <1>s, <1>c, LegacyAssumption DEF Reap, ClearRequestState, Idle, Shape
<1>3. CASE Start
  BY <1>3, <1>s, <1>c DEF Start, Shape, Hosts
<1>4. CASE GracefulShutdown
  BY <1>4, <1>s, <1>c DEF GracefulShutdown, Shape, Hosts
<1>5. CASE Send
  <2>1. Frame(host.kind, host.id) \in Lines
    BY <1>5, <1>s DEF Send, HolderInv, Busy, Serves, Shape, Hosts, Lines, Frame, LineTypes, Kinds, InitId, StopId, OpenId
  <2>2. stdin' \in Seq(Lines) /\ Len(stdin') <= PipeSize
    BY <1>5, <2>1, <1>s, LegacyAssumption DEF Send, Shape
  <2>3. host' \in Hosts /\ clock'.res = None
    BY <1>5, <1>s DEF Send, Shape, Hosts, Reset
  <2> QED BY <1>5, <2>2, <2>3, <1>s, <1>c DEF Send, Shape
<1>6. CASE SendFails
  BY <1>6, <1>f, <1>s DEF SendFails, Shape
<1>7. CASE ReadDeadline
  BY <1>7, <1>f, <1>s DEF ReadDeadline, Shape
<1>8. CASE ReadEof
  BY <1>8, <1>f, <1>s DEF ReadEof, Shape
<1>9. CASE Read
  <2>0. stdout # <<>> /\ stdout' = Tail(stdout) /\ stdout' \in Seq(Lines) /\ Len(stdout') <= PipeSize
        /\ Head(stdout) \in Lines
    BY <1>9, <1>s, TakeLine DEF Read, ReadHandshake, ReadLine, Shape
  <2>1. CASE Fail("protocol") /\ excuse' = excuse
    BY <2>1, <1>f, <2>0, <1>s DEF Shape
  <2>2. CASE \E how \in {"ok", "module_error"} : Complete(Got(how, Head(stdout).id))
    <3>1. PICK how \in {"ok", "module_error"} : Complete(Got(how, Head(stdout).id))
      BY <2>2
    <3>2. Got(how, Head(stdout).id) \in Ends
      BY <2>0 DEF Got, Ends, Lines
    <3>3. answers' \in [1 .. MaxRequest -> Ends]
      BY <3>1, <3>2, <1>s DEF Complete, Shape
    <3> QED BY <2>0, <3>1, <3>3, <1>s, <1>c DEF Complete, ClearRequestState, Shape, Idle
  <2>3. CASE UNCHANGED <<version, status, host, clock, inflight, invoked, child, stdin, module, answers, calls, excuse>>
    BY <2>0, <2>3, <1>s DEF Shape
  <2>4. CASE /\ status' = "running" /\ host' = Idle /\ ClearRequestState /\ clock' = Reset
             /\ UNCHANGED <<version, child, stdin, module, answers, calls, excuse>>
    BY <2>0, <2>4, <1>s, <1>c DEF ClearRequestState, Shape, Idle
  <2>5. CASE /\ invoked' = host.id
             /\ host' = [host EXCEPT !.at = IF HasNestedCallBudget THEN "gateway" ELSE "result"]
             /\ calls' = [calls EXCEPT ![host.id] = IF HasNestedCallBudget THEN @ + 1 ELSE @]
             /\ clock' = [clock EXCEPT !.op = 0]
             /\ UNCHANGED <<version, status, inflight, child, stdin, module, answers, excuse>>
    <3>1. host' \in Hosts /\ host'.at # "read" /\ host.id \in OpenId
      BY <2>5, <1>s DEF Shape, Hosts
    <3>2. clock' \in Clocks
      BY <2>5, <1>s DEF Shape, Clocks
    <3>3. calls' \in [Ids -> Nat]
      <4>1. calls \in [Ids -> Nat] /\ \A n \in Nat : n + 1 \in Nat
        BY <1>s DEF Shape
      <4>2. CASE HasNestedCallBudget
        BY <2>5, <4>1, <4>2
      <4>3. CASE ~HasNestedCallBudget
        BY <2>5, <4>1, <4>3
      <4> QED BY <4>2, <4>3
    <3> QED BY <2>0, <2>5, <3>1, <3>2, <3>3, <1>s DEF Shape
  <2>6. \A m : Outcome(host.kind, m) # "crash" => Outcome(host.kind, m) \in {"ok", "module_error"}
    BY DEF Outcome
  <2> QED BY <1>9, <2>1, <2>2, <2>3, <2>4, <2>5, <2>6 DEF Read, ReadHandshake, ReadLine
<1>10. CASE GatewayEnds
  BY <1>10, <1>s DEF GatewayEnds, Shape, Hosts, Clocks
<1>11. CASE SendTelegramResult
  <2>1. Frame("telegram.result", host.id) \in Lines
    BY <1>s DEF Shape, Hosts, Lines, Frame, LineTypes
  <2>2. stdin' \in Seq(Lines) /\ Len(stdin') <= PipeSize
    BY <1>11, <2>1, <1>s, LegacyAssumption DEF SendTelegramResult, Shape
  <2>3. host' \in Hosts /\ clock' \in Clocks /\ clock'.res = 0
    BY <1>11, <1>s DEF SendTelegramResult, Shape, Hosts, Clocks
  <2> QED BY <1>11, <2>2, <2>3, <1>s, <1>c DEF SendTelegramResult, Shape
<1>12. CASE ShutdownDeadline
  BY <1>12, <1>f, <1>s DEF ShutdownDeadline, Shape
<1>13. CASE Drop
  <2>1. stdout' \in Seq(Lines) /\ Len(stdout') <= PipeSize
    <3>1. Frame("garbage", None) \in Lines
      BY <1>c DEF Frame, Lines, LineTypes
    <3>2. CASE stdout # <<>> /\ stdout' = <<Frame("garbage", None)>> \o Tail(stdout)
      BY <3>1, <3>2, <1>s, LegacyAssumption DEF Shape
    <3> QED BY <1>13, <3>2, <1>s DEF Drop, Shape
  <2>2. answers' \in [1 .. MaxRequest -> Ends]
    BY <1>13, <1>s, <1>c DEF Drop, Shape, Ends, Got
  <2> QED BY <1>13, <2>1, <2>2, <1>s, <1>c DEF Drop, Shape, Idle
<1>14. CASE \E kind \in Kinds : Ask(kind)
  <2>1. NextRequest <= MaxRequest
    BY <1>14 DEF Ask
  <2>2. NextRequest \in OpenId
    <3>1. IsFiniteSet(1 .. MaxRequest)
      BY FS_Interval, LegacyAssumption
    <3>2. Cardinality({r \in 1 .. MaxRequest : answers[r].how # "none"}) \in Nat
      BY <3>1, FS_Subset, FS_CardinalityType
    <3> QED BY <2>1, <3>2, LegacyAssumption DEF NextRequest, OpenId, Ids, InitId, StopId
  <2> QED BY <1>14, <2>2, <1>s DEF Ask, Shape, Hosts
<1>15. CASE ModuleReads
  <2>1. stdin' \in Seq(Lines) /\ Len(stdin') <= PipeSize /\ Head(stdin) \in Lines
    BY <1>15, <1>s, LegacyAssumption DEF ModuleReads, Shape
  <2>2. module' \in Modules
    BY <1>15, <2>1, <1>s DEF ModuleReads, Shape, Modules, Lines
  <2> QED BY <1>15, <2>1, <2>2, <1>s DEF ModuleReads, ModuleUnchanged, Shape
<1>16. CASE ModuleWrites
  <2>1. module.id \in OpenId
    BY <1>s DEF Shape, Modules
  <2>2. PICK t \in {"log", "invoke"} \cup ReplyTypes : Writes(Frame(t, module.id))
    BY <1>16 DEF ModuleWrites, ReplyTo, ReplyTypes
  <2>3. Frame(t, module.id) \in Lines
    BY <2>1 DEF Frame, Lines, LineTypes, ReplyTypes
  <2>4. stdout' \in Seq(Lines) /\ Len(stdout') <= PipeSize
    BY <2>2, <2>3, <1>s, LegacyAssumption DEF Writes, Shape
  <2>5. module' \in Modules
    BY <1>16, <1>s, <1>c DEF ModuleWrites, Shape, Modules
  <2> QED BY <1>16, <2>4, <2>5, <1>s DEF ModuleWrites, ModuleUnchanged, Shape
<1>17. CASE ModuleFaults
  <2>1. stdout' \in Seq(Lines) /\ Len(stdout') <= PipeSize
    <3>1. CASE \E t \in {"log", "invoke", "garbage"} \cup ReplyTypes, id \in Ids : Writes(Frame(t, id))
      <4>1. PICK t \in {"log", "invoke", "garbage"} \cup ReplyTypes, id \in Ids : Writes(Frame(t, id))
        BY <3>1
      <4>2. Frame(t, id) \in Lines
        BY DEF Frame, Lines, LineTypes, OpenId
      <4> QED BY <4>1, <4>2, <1>s, LegacyAssumption DEF Writes, Shape
    <3> QED BY <1>17, <3>1, <1>s DEF ModuleFaults, Shape
  <2> QED BY <1>17, <2>1, <1>s DEF ModuleFaults, ModuleUnchanged, Shape
<1>18. CASE Stopped
  BY <1>18, <1>s DEF Stopped, legacyVars, Shape
<1> QED BY <1>1, <1>2, <1>3, <1>4, <1>5, <1>6, <1>7, <1>8, <1>9, <1>10, <1>11, <1>12, <1>13, <1>14,
           <1>15, <1>16, <1>17, <1>18 DEF LegacyNext

-----------------------------------------------------------------------------
(* What reading a line does: a log, the handshake, a call, a reply, a failure. *)

ReadLog == /\ Head(stdout).t = "log" /\ Correlated(Head(stdout))
           /\ UNCHANGED <<version, status, host, clock, inflight, invoked, child, stdin, module, answers, calls, excuse>>
HandshakeDone == /\ host.kind = "initialize" /\ status' = "running" /\ host' = Idle
                 /\ inflight' = None /\ invoked' = None /\ clock' = Reset
                 /\ Head(stdout).t = "initialized"
                 /\ UNCHANGED <<version, child, stdin, module, answers, calls, excuse>>
InvokeRead == /\ host.kind # "initialize" /\ Head(stdout).t = "invoke" /\ AllowsTelegramInvoke(Head(stdout).id)
              /\ invoked' = host.id
              /\ host' = [host EXCEPT !.at = IF HasNestedCallBudget THEN "gateway" ELSE "result"]
              /\ calls' = [calls EXCEPT ![host.id] = IF HasNestedCallBudget THEN @ + 1 ELSE @]
              /\ clock' = [clock EXCEPT !.op = 0]
              /\ UNCHANGED <<version, status, inflight, child, stdin, module, answers, excuse>>
ReplyRead == /\ host.kind # "initialize" /\ Head(stdout).id = host.id /\ Head(stdout).t \in ReplyTypes
             /\ \E how \in {"ok", "module_error"} : answers' = [answers EXCEPT ![host.id] = Got(how, host.id)]
             /\ inflight' = None /\ invoked' = None /\ host' = Idle /\ clock' = Reset
             /\ UNCHANGED <<version, status, child, stdin, module, calls, excuse>>
ReadFails == Fail("protocol") /\ UNCHANGED excuse

LEMMA ReadCases ==
  ASSUME Read
  PROVE  /\ host.at = "read" /\ stdout # <<>> /\ stdout' = Tail(stdout)
         /\ ReadLog \/ HandshakeDone \/ InvokeRead \/ ReplyRead \/ ReadFails
<1>1. \A m : Outcome(host.kind, m) # "crash" => Outcome(host.kind, m) \in {"ok", "module_error"}
  BY DEF Outcome
<1>2. CASE ReadHandshake(Head(stdout))
  BY <1>2 DEF Read, ReadHandshake, ReadLog, HandshakeDone, ReadFails, ClearRequestState
<1>3. CASE ReadLine(Head(stdout))
  BY <1>1, <1>3 DEF Read, ReadLine, ReadLog, InvokeRead, ReplyRead, ReadFails, Complete, Correlated,
     ClearRequestState, ReplyTypes
<1> QED BY <1>2, <1>3 DEF Read

\* The steps that end in fail_and_terminate.
Fails == \E why \in {"protocol", "timeout", "unavailable"} : Fail(why)

LEMMA FailCases ==
  ASSUME SendFails \/ ReadDeadline \/ ReadEof \/ ReadFails \/ ShutdownDeadline
  PROVE  Fails
BY DEF SendFails, ReadDeadline, ReadEof, ReadFails, ShutdownDeadline, Fails

\* The steps of the module.
ModuleSteps == ModuleReads \/ ModuleWrites \/ ModuleFaults

LEMMA ModuleKeepsHost ==
  ASSUME ModuleSteps
  PROVE  /\ UNCHANGED <<version, status, host, clock, inflight, invoked, answers, calls>>
         /\ child = "alive" /\ child' \in {"alive", "exited"}
BY DEF ModuleSteps, ModuleReads, ModuleWrites, ModuleFaults, ModuleUnchanged

\* What the holder does agrees with the state of the process.
LEMMA HolderKeeps ==
  ASSUME LegacyStrong, LegacyNext
  PROVE  HolderInv'
<1>s. Shape /\ HolderInv
  BY DEF LegacyStrong
<1>h. host \in Hosts /\ child \in {"none", "alive", "exited", "reaped"}
      /\ status \in {"none", "starting", "running", "crashed", "terminated", "dropped"}
  BY <1>s DEF Shape
<1>f. ASSUME Fails, Busy \/ host.at = "reap"
      PROVE  HolderInv'
  <2>1. host'.at = "reap" /\ host'.kind = "fail" /\ status' = "crashed" /\ child' = "exited"
    BY <1>f, <1>s, <1>h DEF Fails, Fail, HolderInv, Hosts
  <2> QED BY <2>1 DEF HolderInv, Busy
<1>1. CASE Tick
  BY <1>1, <1>s DEF Tick, HolderInv, Busy, Serves
<1>2. CASE Reap
  BY <1>2, <1>s DEF Reap, ClearRequestState, HolderInv, Busy, Idle
<1>3. CASE Start
  BY <1>3, <1>s DEF Start, HolderInv, Busy, Serves
<1>4. CASE GracefulShutdown
  BY <1>4, <1>s DEF GracefulShutdown, HolderInv, Busy, Serves
<1>5. CASE Send
  <2>1. /\ host'.at = IF host.kind = "shutdown" THEN "reap" ELSE "read"
        /\ host'.kind = host.kind /\ host'.id = host.id
        /\ UNCHANGED <<status, child, inflight>> /\ Serves /\ child = "alive" /\ inflight = host.id
    BY <1>5, <1>s, <1>h DEF Send, Hosts, HolderInv, Busy
  <2> QED BY <2>1 DEF HolderInv, Busy, Serves, Kinds
<1>6. CASE Read
  <2>1. host.at = "read" /\ Busy /\ Serves
    BY <1>6, <1>s, ReadCases DEF HolderInv, Busy
  <2>2. CASE ReadLog
    BY <2>2, <1>s DEF ReadLog, HolderInv, Busy, Serves
  <2>3. CASE HandshakeDone
    BY <2>3, <2>1, <1>s DEF HandshakeDone, HolderInv, Busy, Idle
  <2>4. CASE InvokeRead
    <3>1. host'.at \in {"gateway", "result"} /\ host'.kind = host.kind /\ host'.id = host.id
          /\ UNCHANGED <<status, child, inflight>>
      BY <2>4, <1>h DEF InvokeRead, Hosts
    <3>2. host.kind \in Kinds
      BY <2>1, <2>4 DEF Serves, InvokeRead
    <3> QED BY <2>1, <3>1, <3>2, <1>s DEF HolderInv, Busy, Serves, Kinds
  <2>5. CASE ReplyRead
    BY <2>5, <2>1, <1>s DEF ReplyRead, HolderInv, Busy, Idle, Serves
  <2>6. CASE ReadFails
    BY <2>6, <2>1, <1>f, FailCases
  <2> QED BY <1>6, <2>2, <2>3, <2>4, <2>5, <2>6, ReadCases
<1>7. CASE SendFails \/ ReadDeadline \/ ReadEof \/ ShutdownDeadline
  <2>1. Busy \/ host.at = "reap"
    BY <1>7 DEF SendFails, ReadDeadline, ReadEof, ShutdownDeadline, Busy
  <2> QED BY <1>7, <2>1, <1>f, FailCases
<1>8. CASE GatewayEnds
  BY <1>8, <1>s, <1>h DEF GatewayEnds, HolderInv, Busy, Serves, Hosts, Kinds
<1>9. CASE SendTelegramResult
  BY <1>9, <1>s, <1>h DEF SendTelegramResult, HolderInv, Busy, Serves, Hosts, Kinds
<1>10. CASE Drop
  BY <1>10, <1>s DEF Drop, HolderInv, Busy, Serves, Idle, Kinds
<1>11. CASE \E kind \in Kinds : Ask(kind)
  <2>1. PICK kind \in Kinds : Ask(kind)
    BY <1>11
  <2>2. NextRequest \in 1 .. MaxRequest
    <3>1. IsFiniteSet(1 .. MaxRequest)
      BY FS_Interval, LegacyAssumption
    <3>2. Cardinality({r \in 1 .. MaxRequest : answers[r].how # "none"}) \in Nat
      BY <3>1, FS_Subset, FS_CardinalityType
    <3> QED BY <2>1, <3>2, LegacyAssumption DEF Ask, NextRequest
  <2> QED BY <2>1, <2>2, <1>s DEF Ask, HolderInv, Busy, Serves
<1>12. CASE ModuleSteps
  BY <1>12, <1>s, ModuleKeepsHost DEF HolderInv, Busy, Serves
<1>13. CASE Stopped
  BY <1>13, <1>s DEF Stopped, legacyVars, HolderInv, Busy, Serves
<1> QED BY <1>1, <1>2, <1>3, <1>4, <1>5, <1>6, <1>7, <1>8, <1>9, <1>10, <1>11, <1>12, <1>13
        DEF LegacyNext, ModuleSteps

-----------------------------------------------------------------------------
(* Requests end once, in the order in which they are made.                   *)

\* The request being served ends.
LEMMA EndCounts ==
  ASSUME LegacyStrong, Busy, host.kind \in Kinds, NEW a, a.how # "none",
         answers' = [answers EXCEPT ![host.id] = a], ~Busy'
  PROVE  NumberInv'
<1>1. PICK k \in 0 .. MaxRequest : /\ \A r \in 1 .. MaxRequest : answers[r].how # "none" <=> r <= k
                                   /\ host.id = k + 1
  BY DEF LegacyStrong, NumberInv
<1>2. host.id \in 1 .. MaxRequest /\ k + 1 \in 0 .. MaxRequest
  BY <1>1, LegacyAssumption DEF LegacyStrong, HolderInv, Serves, Kinds
<1>3. ASSUME NEW r \in 1 .. MaxRequest PROVE answers'[r].how # "none" <=> r <= k + 1
  <2>1. answers \in [1 .. MaxRequest -> Ends]
    BY DEF LegacyStrong, Shape
  <2>2. CASE r = host.id
    BY <2>1, <2>2, <1>1, <1>2
  <2>3. CASE r # host.id
    <3>1. answers'[r] = answers[r]
      BY <2>1, <2>3
    <3>2. (r <= k + 1) <=> (r <= k)
      BY <2>3, <1>1
    <3> QED BY <3>1, <3>2, <1>1
  <2> QED BY <2>2, <2>3
<1> QED BY <1>2, <1>3 DEF NumberInv

\* Nothing ends, and the request being served is the same or none.
LEMMA NumberStays ==
  ASSUME NumberInv, answers' = answers,
         Busy' /\ host'.kind \in Kinds => Busy /\ host.kind \in Kinds /\ host'.id = host.id
  PROVE  NumberInv'
BY DEF NumberInv

\* The next request is the first that has not ended.
LEMMA NextRequestIsNext ==
  ASSUME LegacyStrong, NEW k \in 0 .. MaxRequest,
         \A r \in 1 .. MaxRequest : answers[r].how # "none" <=> r <= k
  PROVE  NextRequest = k + 1
<1>1. {r \in 1 .. MaxRequest : answers[r].how # "none"} = 1 .. k
  BY LegacyAssumption
<1>2. Cardinality(1 .. k) = k - 1 + 1 /\ k \in Nat
  BY FS_Interval, LegacyAssumption
<1>3. NextRequest = 1 + Cardinality(1 .. k)
  BY <1>1 DEF NextRequest
<1>4. 1 + (k - 1 + 1) = k + 1
  BY <1>2
<1> QED BY <1>2, <1>3, <1>4

\* What a failure does to the request being served.
LEMMA FailEnds ==
  ASSUME LegacyStrong, Fails
  PROVE  /\ host'.at = "reap" /\ ~Busy'
         /\ \/ answers' = answers /\ host.id \notin 1 .. MaxRequest
            \/ \E a : /\ a.how \in {"protocol", "timeout", "unavailable"} /\ host.id \in 1 .. MaxRequest
                      /\ answers' = [answers EXCEPT ![host.id] = a]
         /\ UNCHANGED <<version, calls>>
<1>1. host \in Hosts /\ answers \in [1 .. MaxRequest -> Ends]
  BY DEF LegacyStrong, Shape
<1>2. PICK why \in {"protocol", "timeout", "unavailable"} : Fail(why)
  BY DEF Fails
<1>3. host'.at = "reap" /\ ~Busy'
  BY <1>1, <1>2 DEF Fail, Hosts, Busy
<1>4. Got(why, None).how = why
  BY DEF Got
<1> QED BY <1>1, <1>2, <1>3, <1>4 DEF Fail

ServesRequest == Busy /\ host.kind \in Kinds

\* The request being served, if any, is served on; a new one comes only from Ask.
Continues ==
  /\ answers' = answers
  /\ ServesRequest => /\ ServesRequest' /\ host'.kind = host.kind /\ host'.id = host.id
                      /\ invoked' = invoked \/ (Read /\ InvokeRead)
  /\ ServesRequest' => ServesRequest \/ \E kind \in Kinds : Ask(kind)

\* The request being served ends with a.
EndsWith(a) ==
  /\ ServesRequest /\ host.id \in 1 .. MaxRequest /\ ~Busy'
  /\ answers' = [answers EXCEPT ![host.id] = a]
  /\ a.how # "none" /\ (a.how \in {"ok", "module_error"} => a.id = host.id)
  /\ \/ a.how = "dropped" /\ UNCHANGED status
     \/ a.how \in {"protocol", "timeout", "unavailable"} /\ status' = "crashed"
     \/ a.how \in {"ok", "module_error"} /\ UNCHANGED status

\* Every step continues the request being served or ends it.
LEMMA AnswersStep ==
  ASSUME LegacyStrong, LegacyNext
  PROVE  Continues \/ \E a : EndsWith(a)
<1>s. Shape /\ HolderInv
  BY DEF LegacyStrong
<1>h. host \in Hosts
  BY <1>s DEF Shape
<1>i. InitId \notin 1 .. MaxRequest /\ StopId \notin 1 .. MaxRequest
  BY LegacyAssumption DEF InitId, StopId
<1>f. ASSUME Fails, Busy \/ (host.at = "reap" /\ host.kind = "shutdown")
      PROVE  Continues \/ \E a : EndsWith(a)
  <2>1. PICK why \in {"protocol", "timeout", "unavailable"} : Fail(why)
    BY <1>f DEF Fails
  <2>2. ~Busy' /\ ~ServesRequest' /\ status' = "crashed"
    BY <2>1, <1>f, FailEnds DEF ServesRequest, Fail
  <2>3. CASE host.id \in 1 .. MaxRequest
    <3>1. ServesRequest
      BY <2>3, <1>f, <1>i, <1>s DEF HolderInv, Serves, ServesRequest
    <3>2. answers' = [answers EXCEPT ![host.id] = Got(why, None)] /\ Got(why, None).how = why
      BY <2>1, <2>3, <1>s DEF Fail, Shape, Got
    <3>3. EndsWith(Got(why, None))
      BY <2>2, <2>3, <3>1, <3>2 DEF EndsWith
    <3> QED BY <3>3
  <2>4. CASE host.id \notin 1 .. MaxRequest
    <3>1. answers' = answers
      BY <2>1, <2>4, <1>s DEF Fail, Shape
    <3>2. ~ServesRequest
      BY <2>4, <1>f, <1>s DEF ServesRequest, HolderInv, Serves, Kinds
    <3> QED BY <2>2, <3>1, <3>2 DEF Continues
  <2> QED BY <2>3, <2>4
<1>1. CASE Tick \/ Stopped
  BY <1>1 DEF Tick, Stopped, legacyVars, Busy, ServesRequest, Continues
<1>2. CASE Reap
  BY <1>2 DEF Reap, Busy, Idle, ServesRequest, Continues
<1>3. CASE Start
  BY <1>3, <1>s DEF Start, Busy, Kinds, ServesRequest, Continues, HolderInv, Serves
<1>4. CASE GracefulShutdown
  BY <1>4 DEF GracefulShutdown, Busy, Kinds, ServesRequest, Continues
<1>5. CASE Send
  BY <1>5, <1>h DEF Send, Busy, Hosts, ServesRequest, Continues, Kinds
<1>6. CASE Read
  <2>1. host.at = "read" /\ Busy /\ Serves
    BY <1>6, <1>s, ReadCases DEF HolderInv, Busy
  <2>2. CASE ReadLog
    BY <2>2 DEF ReadLog, Busy, ServesRequest, Continues
  <2>3. CASE HandshakeDone
    BY <2>3 DEF HandshakeDone, Busy, Idle, ServesRequest, Continues, Kinds
  <2>4. CASE InvokeRead
    BY <1>6, <2>4, <2>1, <1>h DEF InvokeRead, Busy, Hosts, ServesRequest, Continues
  <2>5. CASE ReplyRead
    <3>1. PICK how \in {"ok", "module_error"} : answers' = [answers EXCEPT ![host.id] = Got(how, host.id)]
      BY <2>5 DEF ReplyRead
    <3>2. Got(how, host.id).how = how /\ Got(how, host.id).id = host.id
      BY DEF Got
    <3>3. ServesRequest /\ ~Busy' /\ UNCHANGED status /\ host.id \in 1 .. MaxRequest
      BY <2>1, <2>5 DEF Serves, ReplyRead, Busy, Idle, ServesRequest
    <3>4. EndsWith(Got(how, host.id))
      BY <3>1, <3>2, <3>3 DEF EndsWith
    <3> QED BY <3>4
  <2>6. CASE ReadFails
    BY <2>1, <2>6, <1>f, FailCases
  <2> QED BY <1>6, <2>2, <2>3, <2>4, <2>5, <2>6, ReadCases
<1>7. CASE SendFails \/ ReadDeadline \/ ReadEof \/ ShutdownDeadline
  <2>1. Busy \/ (host.at = "reap" /\ host.kind = "shutdown")
    BY <1>7 DEF SendFails, ReadDeadline, ReadEof, ShutdownDeadline, Busy
  <2> QED BY <1>7, <2>1, <1>f, FailCases
<1>8. CASE GatewayEnds
  BY <1>8, <1>h DEF GatewayEnds, Busy, Hosts, ServesRequest, Continues
<1>9. CASE SendTelegramResult
  BY <1>9, <1>h DEF SendTelegramResult, Busy, Hosts, ServesRequest, Continues
<1>10. CASE Drop
  <2>1. ~Busy' /\ ~ServesRequest' /\ Busy
    BY <1>10 DEF Drop, Busy, Idle, ServesRequest
  <2>2. CASE host.kind = "initialize"
    BY <1>10, <2>1, <2>2 DEF Drop, ServesRequest, Continues, Kinds
  <2>3. CASE host.kind # "initialize"
    <3>1. Got("dropped", None).how = "dropped"
      BY DEF Got
    <3>2. ServesRequest /\ host.id \in 1 .. MaxRequest
      BY <1>10, <2>1, <2>3, <1>s DEF Drop, HolderInv, Serves, ServesRequest
    <3>3. EndsWith(Got("dropped", None))
      BY <1>10, <2>1, <2>3, <3>1, <3>2 DEF Drop, EndsWith
    <3> QED BY <3>3
  <2> QED BY <2>2, <2>3
<1>11. CASE \E kind \in Kinds : Ask(kind)
  BY <1>11 DEF Ask, Busy, ServesRequest, Continues
<1>12. CASE ModuleSteps
  BY <1>12, ModuleKeepsHost DEF Busy, ServesRequest, Continues
<1> QED BY <1>1, <1>2, <1>3, <1>4, <1>5, <1>6, <1>7, <1>8, <1>9, <1>10, <1>11, <1>12
        DEF LegacyNext, ModuleSteps

LEMMA NumberKeeps ==
  ASSUME LegacyStrong, LegacyNext
  PROVE  NumberInv'
<1>s. NumberInv
  BY DEF LegacyStrong
<1>1. CASE Continues /\ ~(\E kind \in Kinds : Ask(kind))
  BY <1>1, <1>s, NumberStays DEF Continues, ServesRequest
<1>2. CASE \E a : EndsWith(a)
  <2>1. PICK a : EndsWith(a)
    BY <1>2
  <2> QED BY <2>1, EndCounts DEF EndsWith, ServesRequest
<1>3. CASE \E kind \in Kinds : Ask(kind)
  <2>1. PICK k \in 0 .. MaxRequest : \A r \in 1 .. MaxRequest : answers[r].how # "none" <=> r <= k
    BY <1>s DEF NumberInv
  <2>2. NextRequest = k + 1
    BY <2>1, NextRequestIsNext
  <2> QED BY <1>3, <2>1, <2>2 DEF Ask, NumberInv
<1> QED BY <1>1, <1>2, <1>3, AnswersStep

\* The request being served has not ended yet.
LEMMA ServedIsOpen ==
  ASSUME LegacyStrong, ServesRequest
  PROVE  host.id \in 1 .. MaxRequest /\ answers[host.id].how = "none"
<1>1. host.id \in 1 .. MaxRequest
  BY DEF LegacyStrong, HolderInv, ServesRequest, Serves, Kinds
<1>2. PICK k \in 0 .. MaxRequest : /\ \A r \in 1 .. MaxRequest : answers[r].how # "none" <=> r <= k
                                   /\ host.id = k + 1
  BY DEF LegacyStrong, NumberInv, ServesRequest
<1>3. ~(host.id <= k)
  BY <1>2
<1> QED BY <1>1, <1>2, <1>3

\* A caller receives the reply to its own request.
LEMMA ResultKeeps ==
  ASSUME LegacyStrong, LegacyNext
  PROVE  ResultMatchesRequest'
<1>1. ResultMatchesRequest /\ answers \in [1 .. MaxRequest -> Ends]
  BY DEF LegacyStrong, Shape
<1>2. CASE Continues
  BY <1>1, <1>2 DEF Continues, ResultMatchesRequest
<1>3. ASSUME NEW a, EndsWith(a) PROVE ResultMatchesRequest'
  BY <1>1, <1>3 DEF EndsWith, ResultMatchesRequest
<1> QED BY <1>2, <1>3, AnswersStep

\* Only an invoke makes a call.
LEMMA CallsStep ==
  ASSUME LegacyNext
  PROVE  calls' = calls \/ (Read /\ InvokeRead)
<1>1. Fails => calls' = calls
  BY DEF Fails, Fail
<1>2. Read => calls' = calls \/ InvokeRead
  BY <1>1, ReadCases, FailCases DEF ReadLog, HandshakeDone, ReplyRead
<1>3. ModuleSteps => calls' = calls
  BY ModuleKeepsHost
<1>4. SendFails \/ ReadDeadline \/ ReadEof \/ ShutdownDeadline => calls' = calls
  BY <1>1, FailCases
<1> QED BY <1>2, <1>3, <1>4 DEF LegacyNext, Tick, Reap, Start, GracefulShutdown, Send, GatewayEnds,
           SendTelegramResult, Drop, Ask, ModuleSteps, Stopped, legacyVars

\* A request makes one call at most.
LEMMA NestedKeeps ==
  ASSUME LegacyStrong, LegacyNext
  PROVE  NestedInv'
<1>1. NestedInv /\ answers \in [1 .. MaxRequest -> Ends] /\ calls \in [Ids -> Nat] /\ host \in Hosts
  BY DEF LegacyStrong, Shape
<1>2. CASE Read /\ InvokeRead
  <2>1. ServesRequest /\ host.at = "read"
    BY <1>2, ReadCases DEF LegacyStrong, HolderInv, ServesRequest, Busy, Serves, InvokeRead
  <2>2. host.id \in 1 .. MaxRequest /\ answers[host.id].how = "none"
    BY <2>1, ServedIsOpen
  <2>3. invoked # host.id
    BY <1>2 DEF InvokeRead, AllowsTelegramInvoke
  <2>4. host.id \in Ids
    BY <2>2, LegacyAssumption DEF Ids, InitId, StopId
  <2>5. calls[host.id] = 0
    BY <1>1, <2>2, <2>3, <2>4 DEF NestedInv
  <2>6. /\ ServesRequest' /\ host'.id = host.id /\ invoked' = host.id /\ answers' = answers
        /\ calls' = [calls EXCEPT ![host.id] = IF HasNestedCallBudget THEN @ + 1 ELSE @]
    BY <1>1, <1>2, <2>1 DEF InvokeRead, ServesRequest, Busy, Hosts
  <2>7. calls'[host.id] \in {0, 1} /\ \A r \in Ids \ {host.id} : calls'[r] = calls[r]
    BY <1>1, <2>4, <2>5, <2>6
  <2>8. ASSUME NEW r \in Ids
        PROVE  /\ calls'[r] <= 1
               /\ calls'[r] = 1 => \/ ServesRequest' /\ host'.id = r /\ invoked' = r
                                   \/ r \in 1 .. MaxRequest /\ answers'[r].how # "none"
    <3>1. CASE r = host.id
      BY <3>1, <2>6, <2>7
    <3>2. CASE r # host.id
      BY <3>2, <2>6, <2>7, <1>1 DEF NestedInv
    <3> QED BY <3>1, <3>2
  <2> QED BY <2>8 DEF NestedInv, ServesRequest
<1>3. CASE calls' = calls /\ Continues /\ ~(Read /\ InvokeRead)
  BY <1>1, <1>3 DEF Continues, NestedInv, ServesRequest
<1>4. ASSUME calls' = calls, NEW a, EndsWith(a) PROVE NestedInv'
  <2>1. \A r \in 1 .. MaxRequest : answers[r].how # "none" => answers'[r].how # "none"
    BY <1>1, <1>4 DEF EndsWith
  <2>2. answers'[host.id].how # "none" /\ host.id \in 1 .. MaxRequest
    BY <1>1, <1>4 DEF EndsWith
  <2> QED BY <1>1, <1>4, <2>1, <2>2 DEF NestedInv
<1> QED BY <1>2, <1>3, <1>4, AnswersStep, CallsStep

\* Time is counted through the call, its result and the module's answer.
LEMMA WindowKeeps ==
  ASSUME LegacyStrong, LegacyNext
  PROVE  WindowInv'
<1>s. WindowInv /\ Shape /\ host \in Hosts /\ clock \in Clocks
  BY DEF LegacyStrong, Shape
<1>t. /\ \A kind : RequestTimeout(kind) \in Nat
      /\ CallTime \in Nat /\ ReserveTime \in Nat /\ TerminalTime \in Nat
      /\ clock.req \in Nat /\ clock.op \in Nat /\ clock.res \in Nat \cup {None}
  BY <1>s, LegacyAssumption DEF RequestTimeout, Clocks
<1>r. Reset.res # 0 /\ None # 0
  BY DEF Reset, None
<1>u. ASSUME UNCHANGED <<version, host, clock, calls>> PROVE WindowInv'
  BY <1>s, <1>u DEF WindowInv, RequestTimeout
<1>f. Fails => WindowInv'
  <2>1. Fails => host'.at = "reap"
    BY FailEnds
  <2> QED BY <2>1 DEF WindowInv
<1>1. CASE Tick
  <2>1. /\ clock'.req = clock.req + 1 /\ clock'.op = clock.op + 1
        /\ clock'.res = IF clock.res = None THEN None ELSE clock.res + 1
        /\ UNCHANGED <<version, host, calls>>
        /\ host.at = "gateway" => clock.op < CallTime
    BY <1>1, <1>s DEF Tick, Clocks
  <2>2. clock'.res # 0
    BY <2>1, <1>t, <1>r
  <2>3. RequestTimeout(host.kind)' = RequestTimeout(host.kind)
    BY <2>1 DEF RequestTimeout
  <2>4. RequestTimeout(host.kind) - clock'.req + clock'.op = RequestTimeout(host.kind) - clock.req + clock.op
    BY <2>1, <1>t
  <2>5. host.at = "gateway" => clock'.op <= CallTime
    BY <2>1, <1>t
  <2> QED BY <2>1, <2>2, <2>3, <2>4, <2>5, <1>s DEF WindowInv
<1>2. CASE Read
  <2>1. CASE ReadLog
    BY <2>1, <1>u DEF ReadLog
  <2>2. CASE HandshakeDone \/ ReplyRead
    BY <2>2 DEF HandshakeDone, ReplyRead, Idle, WindowInv
  <2>3. CASE InvokeRead
    <3>1. ServesRequest /\ host.at = "read"
      BY <1>2, <2>3, ReadCases DEF LegacyStrong, HolderInv, ServesRequest, Busy, Serves, InvokeRead
    <3>2. host.id \in 1 .. MaxRequest /\ answers[host.id].how = "none"
      BY <3>1, ServedIsOpen
    <3>3. invoked # host.id /\ host.id \in Ids
      BY <2>3, <3>2, LegacyAssumption DEF InvokeRead, AllowsTelegramInvoke, Ids, InitId, StopId
    <3>4. calls[host.id] = 0 /\ calls \in [Ids -> Nat]
      BY <3>2, <3>3 DEF LegacyStrong, NestedInv, Shape
    <3>5. calls'[host.id] = IF HasNestedCallBudget THEN 1 ELSE 0
      BY <2>3, <3>3, <3>4 DEF InvokeRead
    <3>6. /\ clock'.op = 0 /\ clock'.req = clock.req /\ host'.kind = host.kind /\ host'.id = host.id
          /\ host'.at = IF HasNestedCallBudget THEN "gateway" ELSE "result"
          /\ version' = version
      BY <2>3, <1>s DEF InvokeRead, Clocks, Hosts
    <3>7. RequestTimeout(host.kind)' = RequestTimeout(host.kind)
      BY <3>6 DEF RequestTimeout
    <3>8. CASE HasNestedCallBudget
      <4>1. RequestTimeout(host.kind) - clock.req >= CallTime + ReserveTime + TerminalTime
        BY <3>8 DEF HasNestedCallBudget
      <4>2. RequestTimeout(host.kind) - clock'.req + clock'.op >= CallTime + ReserveTime + TerminalTime
            /\ clock'.op <= CallTime
        BY <4>1, <3>6, <1>t
      <4> QED BY <3>5, <3>6, <3>7, <3>8, <4>2 DEF WindowInv
    <3>9. CASE ~HasNestedCallBudget
      BY <3>5, <3>6, <3>9 DEF WindowInv
    <3> QED BY <3>8, <3>9
  <2>4. CASE ReadFails
    BY <2>4, <1>f, FailCases
  <2> QED BY <1>2, <2>1, <2>2, <2>3, <2>4, ReadCases
<1>3. CASE GatewayEnds
  <2>1. /\ host.at = "gateway" /\ host'.at = "result" /\ host'.kind = host.kind /\ host'.id = host.id
        /\ clock'.op = 0 /\ clock'.req = clock.req /\ UNCHANGED <<version, calls>>
    BY <1>3, <1>s DEF GatewayEnds, Hosts, Clocks
  <2>2. RequestTimeout(host.kind)' = RequestTimeout(host.kind)
    BY <2>1 DEF RequestTimeout
  <2>3. clock.op <= CallTime
        /\ RequestTimeout(host.kind) - clock.req + clock.op >= CallTime + ReserveTime + TerminalTime
    BY <2>1, <1>s DEF WindowInv
  <2>4. RequestTimeout(host.kind) - clock'.req + clock'.op >= ReserveTime + TerminalTime
    BY <2>1, <2>3, <1>t
  <2> QED BY <2>1, <2>2, <2>4 DEF WindowInv
<1>4. CASE SendTelegramResult
  <2>1. /\ host.at = "result" /\ host'.at = "read" /\ host'.kind = host.kind /\ host'.id = host.id
        /\ clock'.op = clock.op /\ clock'.req = clock.req /\ UNCHANGED <<version, calls>>
    BY <1>4, <1>s DEF SendTelegramResult, Hosts, Clocks
  <2>2. RequestTimeout(host.kind)' = RequestTimeout(host.kind)
    BY <2>1 DEF RequestTimeout
  <2> QED BY <2>1, <2>2, <1>s DEF WindowInv
<1>5. CASE Send
  <2>1. host'.at \in {"reap", "read"} /\ clock'.res # 0
    BY <1>5, <1>s, <1>r DEF Send, Hosts
  <2> QED BY <2>1 DEF WindowInv
<1>6. CASE Reap \/ Start \/ GracefulShutdown \/ Drop \/ \E kind \in Kinds : Ask(kind)
  <2>1. host'.at \notin {"gateway", "result", "read"} \/ UNCHANGED <<version, host, clock, calls>>
    BY <1>6 DEF Reap, Start, GracefulShutdown, Drop, Ask, Idle
  <2> QED BY <2>1, <1>u DEF WindowInv
<1>7. CASE SendFails \/ ReadDeadline \/ ReadEof \/ ShutdownDeadline
  BY <1>7, <1>f, FailCases
<1>8. CASE ModuleSteps \/ Stopped
  BY <1>8, <1>u, ModuleKeepsHost DEF Stopped, legacyVars
<1> QED BY <1>1, <1>2, <1>3, <1>4, <1>5, <1>6, <1>7, <1>8 DEF LegacyNext, ModuleSteps

-----------------------------------------------------------------------------
(* A module that keeps to the protocol, in time, is never declared crashed.   *)

\* What the pipes are when a line is taken or written.
LEMMA TailFacts ==
  ASSUME NEW q \in Seq(Lines), q # <<>>
  PROVE  /\ Len(q) \in Nat /\ Len(q) >= 1 /\ Len(Tail(q)) = Len(q) - 1 /\ Head(q) = q[1]
         /\ \A i \in 1 .. Len(q) - 1 : Tail(q)[i] = q[i + 1]
         /\ Len(q) = 1 => Tail(q) = <<>>
         /\ Len(q) # 1 => Tail(q) # <<>> /\ 1 \in 1 .. Len(q) - 1
<1>1. /\ Len(q) \in Nat /\ Len(Tail(q)) = Len(q) - 1 /\ Head(q) = q[1] /\ Tail(q) \in Seq(Lines)
      /\ \A i \in 1 .. Len(q) - 1 : Tail(q)[i] = q[i + 1]
  OBVIOUS
<1>2. Len(q) # 0
  OBVIOUS
<1>3. Len(Tail(q)) = 0 <=> Tail(q) = <<>>
  BY <1>1
<1>4. \A n \in Nat : n # 0 => /\ n >= 1 /\ (n = 1 => n - 1 = 0)
                             /\ (n # 1 => n - 1 # 0 /\ 1 \in 1 .. n - 1)
  OBVIOUS
<1> QED BY <1>1, <1>2, <1>3, <1>4

LEMMA AppendFacts ==
  ASSUME NEW q \in Seq(Lines), NEW m \in Lines
  PROVE  /\ Len(q) \in Nat /\ Len(Append(q, m)) = Len(q) + 1 /\ Append(q, m) # <<>>
         /\ Append(q, m)[Len(q) + 1] = m
         /\ \A i \in 1 .. Len(q) : Append(q, m)[i] = q[i]
OBVIOUS

\* A well-behaved module is served by one conversation.
Conforms == LegacyStrong /\ excuse = {} /\ status \in {"none", "starting", "running"}

LEMMA ConformsConversation ==
  ASSUME Conforms
  PROVE  Conversation /\ (child = "exited" => host.at = "reap")
BY DEF Conforms, LegacyStrong, ConformInv

\* The line such a module has written is one the reader accepts.
LEMMA ConformingRead ==
  ASSUME Conforms, Read
  PROVE  \/ ReadLog /\ Head(stdout) = Frame("log", host.id) /\ (Len(stdout) = 1 => Working)
         \/ Len(stdout) = 1 /\ Invoking /\ InvokeRead
         \/ Len(stdout) = 1 /\ ReplyGiven /\ (HandshakeDone \/ ReplyRead)
<1>1. /\ host.at = "read" /\ stdout # <<>> /\ stdout' = Tail(stdout) /\ stdout \in Seq(Lines)
      /\ ReadHandshake(Head(stdout)) \/ ReadLine(Head(stdout))
  BY DEF Read, ReadHandshake, ReadLine, Conforms, LegacyStrong, Shape
<1>2. Working \/ Invoking \/ ReplyGiven
  BY <1>1, ConformsConversation DEF Conversation, Asked, Resulted
<1>3. /\ Len(stdout) \in Nat /\ Len(stdout) >= 1 /\ Head(stdout) = stdout[1]
  BY <1>1, TailFacts
<1>4. Serves /\ inflight = host.id /\ host.id # None
  <2>1. Serves /\ inflight = host.id
    BY <1>1 DEF Conforms, LegacyStrong, HolderInv, Busy
  <2> QED BY <2>1, LegacyAssumption DEF Serves, None, InitId, StopId
<1>5. \A t : Frame(t, host.id).t = t /\ Frame(t, host.id).id = host.id
  BY DEF Frame
<1>6. CASE Head(stdout) = Frame("log", host.id)
  <2>1. Head(stdout).t = "log" /\ Head(stdout).id = host.id
    BY <1>5, <1>6
  <2>2. ReadLog
    <3>1. CASE ReadHandshake(Head(stdout))
      BY <2>1, <3>1 DEF ReadHandshake, ReadLog, Correlated
    <3>2. CASE ReadLine(Head(stdout))
      BY <2>1, <3>2 DEF ReadLine, ReadLog, Correlated, ReplyTypes
    <3> QED BY <1>1, <3>1, <3>2
  <2>3. Len(stdout) = 1 => Working
    <3>1. ASSUME Len(stdout) = 1, Invoking \/ ReplyGiven PROVE FALSE
      <4>1. PICK t \in {"invoke"} \cup ReplyTo(host.kind) : stdout[1] = Frame(t, host.id)
        BY <3>1 DEF Invoking, ReplyGiven, LastLine
      <4>2. t # "log"
        BY DEF ReplyTo
      <4> QED BY <4>1, <4>2, <1>3, <1>5, <2>1
    <3> QED BY <3>1, <1>2
  <2> QED BY <2>2, <2>3, <1>6
<1>7. CASE Head(stdout) # Frame("log", host.id)
  <2>1. ~Working
    BY <1>3, <1>7 DEF Working, LogsUpTo
  <2>2. Len(stdout) = 1
    <3>1. Len(stdout) # 1 => 1 \in 1 .. Len(stdout) - 1
      BY <1>1, TailFacts
    <3> QED BY <1>2, <1>3, <1>7, <2>1, <3>1 DEF Invoking, ReplyGiven, LastLine, LogsUpTo
  <2>3. CASE Invoking
    <3>1. Head(stdout).t = "invoke" /\ Head(stdout).id = host.id
      BY <2>2, <2>3, <1>3, <1>5 DEF Invoking, LastLine
    <3>2. AllowsTelegramInvoke(Head(stdout).id) /\ host.kind # "initialize"
      BY <2>3, <3>1, <1>4 DEF Invoking, AllowsTelegramInvoke
    <3>3. ~abandoned
      BY DEF Conforms, LegacyStrong, AbandonedInv
    <3>4. InvokeRead
      BY <1>1, <3>1, <3>2, <3>3 DEF ReadHandshake, ReadLine, InvokeRead, ReplyTypes
    <3> QED BY <2>2, <2>3, <3>4
  <2>4. CASE ReplyGiven
    <3>1. PICK t \in ReplyTo(host.kind) : Head(stdout) = Frame(t, host.id)
      BY <2>2, <2>4, <1>3 DEF ReplyGiven, LastLine
    <3>2. Head(stdout).t = t /\ Head(stdout).id = host.id
      BY <3>1, <1>5
    <3>3. CASE host.kind = "initialize"
      <4>1. t = "initialized"
        BY <3>3 DEF ReplyTo, Kinds
      <4>2. HandshakeDone
        BY <1>1, <3>2, <3>3, <4>1 DEF ReadHandshake, ReadLine, HandshakeDone, Correlated, ClearRequestState
      <4> QED BY <2>2, <2>4, <4>2
    <3>4. CASE host.kind # "initialize"
      <4>1. t \in ReplyTypes \ {"initialized"} /\ Outcome(host.kind, Head(stdout)) \in {"ok", "module_error"}
        <5>1. host.kind \in Kinds
          BY <3>4, <1>1, <1>4 DEF Serves
        <5> QED BY <5>1, <3>2 DEF Kinds, ReplyTo, ReplyTypes, Outcome
      <4>2. ReplyRead
        BY <1>1, <3>2, <3>4, <4>1 DEF ReadHandshake, ReadLine, ReplyRead, Correlated, Complete,
           ClearRequestState, ReplyTypes
      <4> QED BY <2>2, <2>4, <4>2
    <3> QED BY <3>3, <3>4
  <2> QED BY <1>2, <2>1, <2>3, <2>4
<1> QED BY <1>6, <1>7

\* Reading keeps the conversation going, or ends it in quiet.
LEMMA ConversationRead ==
  ASSUME Conforms, Read
  PROVE  Conversation' /\ status' # "crashed" /\ UNCHANGED child
<1>1. /\ host.at = "read" /\ stdout # <<>> /\ stdout' = Tail(stdout) /\ stdout \in Seq(Lines) /\ host \in Hosts
      /\ Working \/ Invoking \/ ReplyGiven
  <2>1. host.at = "read" /\ stdout # <<>> /\ stdout' = Tail(stdout) /\ stdout \in Seq(Lines) /\ host \in Hosts
    BY ReadCases DEF Conforms, LegacyStrong, Shape
  <2> QED BY <2>1, ConformsConversation DEF Conversation, Asked, Resulted
<1>2. /\ Len(stdout) \in Nat /\ Len(stdout) >= 1 /\ Len(stdout') = Len(stdout) - 1
      /\ \A i \in 1 .. Len(stdout) - 1 : stdout'[i] = stdout[i + 1]
      /\ Len(stdout) = 1 => stdout' = <<>>
      /\ Len(stdout) # 1 => stdout' # <<>>
  BY <1>1, TailFacts
<1>3. CASE ReadLog /\ Head(stdout) = Frame("log", host.id) /\ (Len(stdout) = 1 => Working)
  <2>1. UNCHANGED <<version, status, host, invoked, child, stdin, module>>
    BY <1>3 DEF ReadLog
  <2>2. ASSUME NEW n \in Nat, LogsUpTo(n), n <= Len(stdout) PROVE \A i \in 1 .. n - 1 : stdout'[i] = Frame("log", host.id)
    <3>1. \A i \in 1 .. n - 1 : i \in 1 .. Len(stdout) - 1 /\ i + 1 \in 1 .. n
      BY <2>2, <1>2
    <3> QED BY <2>2, <3>1, <1>2 DEF LogsUpTo
  <2>3. CASE Working
    <3>1. LogsUpTo(Len(stdout))'
      BY <2>1, <2>2, <2>3, <1>2 DEF Working, LogsUpTo
    <3>2. Working'
      BY <2>1, <2>3, <3>1 DEF Working, Serving
    <3> QED BY <1>1, <2>1, <3>2 DEF Conversation, Conforms
  <2>4. ASSUME NEW t, LastLine(t), Len(stdout) # 1 PROVE LastLine(t)'
    <3>1. stdout'[Len(stdout')] = stdout[Len(stdout)]
      <4>1. Len(stdout) - 1 \in 1 .. Len(stdout) - 1 /\ (Len(stdout) - 1) + 1 = Len(stdout)
        BY <2>4, <1>2
      <4> QED BY <4>1, <1>2
    <3>2. LogsUpTo(Len(stdout) - 1)'
      <4>1. Len(stdout) - 1 \in Nat /\ Len(stdout) - 1 <= Len(stdout)
        BY <1>2
      <4>2. \A i \in 1 .. Len(stdout) - 1 - 1 : stdout'[i] = Frame("log", host.id)
        BY <2>4, <2>2, <4>1 DEF LastLine
      <4> QED BY <4>2, <1>2, <2>1 DEF LogsUpTo
    <3> QED BY <2>4, <3>1, <3>2, <1>2, <2>1 DEF LastLine
  <2>5. CASE ~Working /\ Invoking
    BY <2>1, <2>4, <2>5, <1>1, <1>3 DEF Invoking, Serving, Conversation, Conforms
  <2>6. CASE ~Working /\ ReplyGiven
    <3>1. PICK t \in ReplyTo(host.kind) : LastLine(t)
      BY <2>6 DEF ReplyGiven
    <3>2. LastLine(t)'
      BY <2>4, <2>6, <3>1, <1>3
    <3>3. ReplyGiven'
      BY <2>1, <2>6, <3>2 DEF ReplyGiven
    <3> QED BY <2>1, <3>3, <1>1 DEF Conversation, Conforms
  <2> QED BY <1>1, <2>3, <2>5, <2>6
<1>4. CASE Len(stdout) = 1 /\ Invoking /\ InvokeRead
  <2>1. /\ host'.at \in {"gateway", "result"} /\ host'.kind = host.kind /\ host'.id = host.id
        /\ UNCHANGED <<status, child, stdin, module>> /\ stdout' = <<>>
    BY <1>1, <1>2, <1>4 DEF InvokeRead, Hosts
  <2>2. Called'
    BY <1>4, <2>1 DEF Invoking, Called, Serving
  <2> QED BY <2>1, <2>2 DEF Conversation, Conforms
<1>5. CASE Len(stdout) = 1 /\ ReplyGiven /\ (HandshakeDone \/ ReplyRead)
  <2>1. host' = Idle /\ invoked' = None /\ UNCHANGED <<child, stdin, module>> /\ stdout' = <<>>
        /\ (status' = status \/ status' = "running")
    BY <1>2, <1>5 DEF HandshakeDone, ReplyRead
  <2>2. Quiet'
    BY <1>5, <2>1 DEF ReplyGiven, Quiet
  <2> QED BY <2>1, <2>2 DEF Conversation, Conforms, Idle
<1> QED BY <1>3, <1>4, <1>5, ConformingRead

\* The module's own steps keep it too.
LEMMA ConversationModule ==
  ASSUME Conforms, ModuleReads \/ ModuleWrites
  PROVE  Conversation' /\ (child' = "exited" => host.at = "reap")
<1>1. /\ UNCHANGED <<version, status, host, clock, inflight, invoked, answers, calls>> /\ child = "alive"
      /\ stdin \in Seq(Lines) /\ stdout \in Seq(Lines) /\ host \in Hosts
  BY ModuleKeepsHost DEF ModuleSteps, Conforms, LegacyStrong, Shape
<1>2. Conversation
  BY ConformsConversation
<1>3. Busy => Serves /\ host.id # None
  <2>1. Busy => Serves
    BY DEF Conforms, LegacyStrong, HolderInv
  <2> QED BY <2>1, LegacyAssumption DEF Serves, None, InitId, StopId
<1>4. CASE host.at = "reap"
  BY <1>1, <1>4 DEF Conversation
<1>5. CASE host.at # "reap" /\ ModuleReads
  <2>1. stdin # <<>> /\ stdin' = Tail(stdin) /\ UNCHANGED stdout
    BY <1>5 DEF ModuleReads
  <2>2. host.at = "read" /\ (Asked \/ Resulted) /\ Serves /\ host.id # None
    <3>1. host.at \in {"idle", "send", "read", "gateway", "result"}
      BY <1>1, <1>5 DEF Hosts
    <3>2. host.at = "read" /\ (Asked \/ Resulted)
      BY <2>1, <3>1, <1>2 DEF Conversation, Quiet, Called, Working, Invoking, ReplyGiven
    <3> QED BY <3>2, <1>3 DEF Busy
  <2>3. CASE Asked
    <3>1. Head(stdin) = Frame(host.kind, host.id) /\ stdin' = <<>>
      BY <2>1, <2>3 DEF Asked
    <3>2. Head(stdin).t = host.kind /\ Head(stdin).id = host.id /\ host.kind # "shutdown"
      BY <3>1, <2>2 DEF Frame, Serves, Kinds
    <3>3. module' = [id |-> host.id, t |-> host.kind, call |-> "no"] /\ UNCHANGED child
      BY <1>5, <2>3, <3>2 DEF ModuleReads, Asked
    <3>4. Working'
      BY <2>1, <2>3, <3>1, <3>3, <1>1 DEF Asked, Working, Serving, LogsUpTo
    <3> QED BY <2>2, <3>3, <3>4, <1>1 DEF Conversation
  <2>4. CASE Resulted
    <3>1. stdin' = <<>>
      BY <2>1, <2>4 DEF Resulted
    <3>2. module' = [module EXCEPT !.call = "done"] /\ UNCHANGED child
      BY <1>5, <2>2, <2>4 DEF ModuleReads, Resulted, Serving
    <3>3. module'.id = module.id /\ module'.t = module.t /\ module'.call = "done"
      BY <3>2 DEF Conforms, LegacyStrong, Shape, Modules
    <3>4. Working'
      BY <2>1, <2>4, <3>1, <3>3, <1>1 DEF Resulted, Working, Serving, LogsUpTo
    <3> QED BY <2>2, <3>2, <3>4, <1>1 DEF Conversation
  <2> QED BY <2>2, <2>3, <2>4
<1>6. CASE host.at # "reap" /\ ModuleWrites
  <2>1. module.id # None /\ module.call # "waits" /\ UNCHANGED <<child, stdin>>
    BY <1>6 DEF ModuleWrites
  <2>2. host.at = "read" /\ Working
    <3>1. host.at \in {"idle", "send", "read", "gateway", "result"}
      BY <1>1, <1>6 DEF Hosts
    <3> QED BY <2>1, <3>1, <1>2 DEF Conversation, Quiet, Called, Asked, Invoking, ReplyGiven, Resulted
  <2>3. module.id = host.id /\ module.t = host.kind /\ host.id \in OpenId /\ module \in Modules
    BY <2>2 DEF Working, Serving, Conforms, LegacyStrong, Shape, Hosts
  <2>4. ASSUME NEW t, Writes(Frame(t, module.id)), t \in LineTypes
        PROVE  /\ stdout' # <<>> /\ Len(stdout') = Len(stdout) + 1 /\ Len(stdout) \in Nat
               /\ stdout'[Len(stdout')] = Frame(t, host.id)
               /\ \A i \in 1 .. Len(stdout) : stdout'[i] = Frame("log", host.id)
    <3>1. Frame(t, host.id) \in Lines
      BY <2>3, <2>4 DEF Frame, Lines
    <3>2. stdout' = Append(stdout, Frame(t, host.id))
      BY <2>3, <2>4 DEF Writes
    <3>3. \A i \in 1 .. Len(stdout) : stdout[i] = Frame("log", host.id)
      BY <2>2 DEF Working, LogsUpTo
    <3>4. /\ Len(stdout) \in Nat /\ Len(stdout') = Len(stdout) + 1 /\ stdout' # <<>>
          /\ stdout'[Len(stdout) + 1] = Frame(t, host.id)
          /\ \A i \in 1 .. Len(stdout) : stdout'[i] = stdout[i]
      BY <3>1, <3>2, <1>1, AppendFacts
    <3> QED BY <3>3, <3>4
  <2>5. ASSUME NEW t, Writes(Frame(t, module.id)), t \in LineTypes PROVE LastLine(t)'
    <3>1. Len(stdout') - 1 = Len(stdout)
      BY <2>5, <2>4
    <3> QED BY <2>5, <2>4, <3>1, <1>1 DEF LastLine, LogsUpTo
  <2>6. CASE Writes(Frame("log", module.id)) /\ UNCHANGED module
    <3>1. "log" \in LineTypes
      BY DEF LineTypes
    <3>2. \A i \in 1 .. Len(stdout') : stdout'[i] = Frame("log", host.id)
      <4>1. /\ Len(stdout') = Len(stdout) + 1 /\ Len(stdout) \in Nat
            /\ stdout'[Len(stdout')] = Frame("log", host.id)
            /\ \A i \in 1 .. Len(stdout) : stdout'[i] = Frame("log", host.id)
        BY <2>4, <2>6, <3>1
      <4>2. \A i \in 1 .. Len(stdout') : i \in 1 .. Len(stdout) \/ i = Len(stdout')
        BY <4>1
      <4> QED BY <4>1, <4>2
    <3>3. Working'
      BY <2>1, <2>2, <2>6, <3>2, <1>1 DEF Working, Serving, LogsUpTo
    <3> QED BY <2>1, <2>2, <3>3, <1>1 DEF Conversation
  <2>7. CASE /\ version = 5 /\ module.t \in {"execute", "event", "edited"} /\ module.call = "no"
             /\ Writes(Frame("invoke", module.id)) /\ module' = [module EXCEPT !.call = "waits"]
    <3>1. LastLine("invoke")'
      BY <2>5, <2>7 DEF LineTypes
    <3>2. module'.id = host.id /\ module'.t = host.kind /\ module'.call = "waits"
      BY <2>3, <2>7 DEF Modules
    <3>3. Invoking'
      BY <2>1, <2>2, <2>3, <2>7, <3>1, <3>2, <1>1 DEF Working, Invoking, Serving
    <3> QED BY <2>1, <2>2, <3>3, <1>1 DEF Conversation
  <2>8. CASE \E t \in ReplyTo(module.t) : Writes(Frame(t, module.id)) /\ module' = [module EXCEPT !.id = None]
    <3>1. PICK t \in ReplyTo(host.kind) : Writes(Frame(t, module.id)) /\ module' = [module EXCEPT !.id = None]
      BY <2>3, <2>8
    <3>2. t \in LineTypes
      BY DEF ReplyTo, LineTypes, ReplyTypes
    <3>3. LastLine(t)'
      BY <2>5, <3>1, <3>2
    <3>4. module'.id = None /\ module'.call = module.call
      BY <2>3, <3>1 DEF Modules
    <3>5. ReplyGiven'
      BY <2>1, <2>2, <3>3, <3>4, <1>1 DEF Working, ReplyGiven
    <3> QED BY <2>1, <2>2, <3>5, <1>1 DEF Conversation
  <2> QED BY <1>6, <2>6, <2>7, <2>8 DEF ModuleWrites
<1> QED BY <1>4, <1>5, <1>6

\* Excuses are kept.
LEMMA ExcusesStay ==
  ASSUME LegacyNext
  PROVE  excuse \subseteq excuse'
<1>1. Read => excuse' = excuse
  BY ReadCases DEF ReadLog, HandshakeDone, InvokeRead, ReplyRead, ReadFails
<1> QED BY <1>1 DEF LegacyNext, Tick, Reap, Start, GracefulShutdown, Send, SendFails, ReadDeadline, ReadEof,
           GatewayEnds, SendTelegramResult, ShutdownDeadline, Drop, Ask, ModuleReads, ModuleWrites,
           ModuleFaults, Stopped, legacyVars

LEMMA AbandonedKeeps ==
  ASSUME LegacyStrong, LegacyNext
  PROVE  AbandonedInv'
<1>1. AbandonedInv /\ excuse \subseteq excuse'
  BY ExcusesStay DEF LegacyStrong
<1>2. ASSUME abandoned' = abandoned \/ abandoned' = FALSE
      PROVE  AbandonedInv'
  <2>1. CASE abandoned' = FALSE
    BY <2>1, Zenon DEF AbandonedInv
  <2>2. CASE abandoned' = abandoned
    <3>1. abandoned' \in BOOLEAN
      BY <1>1, <2>2, Zenon DEF AbandonedInv
    <3>2. abandoned' => abandoned
      BY <2>2, Zenon
    <3>3. abandoned' => "drop" \in excuse'
      BY <1>1, <3>2 DEF AbandonedInv
    <3> QED BY <3>1, <3>3 DEF AbandonedInv
  <2> QED BY <1>2, <2>1, <2>2
<1>3. CASE Drop
  <2>1. abandoned' = (abandoned \/ host.at = "gateway") /\ "drop" \in excuse'
    BY <1>3 DEF Drop
  <2>2. abandoned' \in BOOLEAN
    BY <2>1
  <2> QED BY <2>1, <2>2 DEF AbandonedInv
<1>4. CASE SendFails \/ ReadDeadline \/ ReadEof \/ ShutdownDeadline
  BY <1>2, <1>4, FailCases DEF Fails, Fail, ClearRequestState
<1>5. CASE Read
  BY <1>2, <1>5 DEF Read, ReadHandshake, ReadLine, Fail, Complete, ClearRequestState
<1>6. CASE Tick \/ Reap \/ Start \/ GracefulShutdown \/ Send \/ GatewayEnds \/ SendTelegramResult
           \/ (\E kind \in Kinds : Ask(kind)) \/ ModuleReads \/ ModuleWrites \/ ModuleFaults \/ Stopped
  BY <1>2, <1>6 DEF Tick, Reap, Start, GracefulShutdown, Send, GatewayEnds, SendTelegramResult, Ask, ModuleReads,
     ModuleWrites, ModuleFaults, ModuleUnchanged, Stopped, legacyVars, ClearRequestState
<1> QED BY <1>3, <1>4, <1>5, <1>6 DEF LegacyNext

LEMMA ConformKeeps ==
  ASSUME LegacyStrong, LegacyNext
  PROVE  ConformInv'
<1> SUFFICES ASSUME excuse' = {}
             PROVE  /\ status' # "crashed" /\ (child' = "exited" => host'.at = "reap")
                    /\ status' \in {"none", "starting", "running"} => Conversation'
  BY DEF ConformInv
<1>1. excuse = {} /\ HolderInv /\ Shape /\ host \in Hosts
  BY ExcusesStay DEF LegacyStrong, Shape
<1>2. status # "crashed" /\ (child = "exited" => host.at = "reap")
      /\ (status \in {"none", "starting", "running"} => Conversation /\ Conforms)
  BY <1>1 DEF LegacyStrong, ConformInv, Conforms
<1>3. Busy => status \in {"starting", "running"} /\ Serves
  BY <1>1 DEF HolderInv, Serves
<1>4. CASE Tick \/ Stopped
  BY <1>2, <1>4 DEF Tick, Stopped, legacyVars, Conversation, Quiet, Asked, Working, Invoking, Called, Resulted,
     ReplyGiven, Serving, LastLine, LogsUpTo
<1>5. CASE Reap
  <2>1. host.kind = "shutdown"
    BY <1>1, <1>2, <1>5 DEF Reap, HolderInv
  <2> QED BY <1>5, <2>1 DEF Reap
<1>6. CASE Start
  <2>1. Quiet /\ host.at = "idle"
    BY <1>1, <1>2, <1>3, <1>6 DEF Start, Conversation, HolderInv, Busy, Hosts
  <2>2. Quiet'
    BY <2>1, <1>6 DEF Start, Quiet
  <2> QED BY <1>2, <1>6, <2>1, <2>2 DEF Start, Conversation
<1>7. CASE GracefulShutdown \/ \E kind \in Kinds : Ask(kind)
  <2>1. /\ host.at = "idle" /\ status = "running" /\ host'.at = "send"
        /\ UNCHANGED <<status, child, stdin, stdout, module, invoked>>
    BY <1>7 DEF GracefulShutdown, Ask
  <2>2. Quiet
    BY <2>1, <1>2 DEF Conversation
  <2>3. Quiet'
    BY <2>1, <2>2 DEF Quiet
  <2> QED BY <1>2, <2>1, <2>3 DEF Conversation
<1>8. CASE Send
  <2>1. Quiet /\ Serves /\ status \in {"starting", "running"}
    BY <1>2, <1>3, <1>8 DEF Send, Busy, Conversation
  <2>2. /\ host'.kind = host.kind /\ host'.id = host.id /\ host'.at \in {"reap", "read"}
        /\ UNCHANGED <<status, child, stdout, module, invoked>> /\ child = "alive"
        /\ stdin' = Append(stdin, Frame(host.kind, host.id))
    BY <1>1, <1>8 DEF Send, Hosts
  <2>3. Asked'
    BY <2>1, <2>2 DEF Quiet, Asked
  <2> QED BY <1>2, <2>2, <2>3 DEF Conversation
<1>9. CASE Read
  <2>1. Conforms
    BY <1>2, <1>3, <1>9, ReadCases DEF Busy
  <2>2. Conversation' /\ status' # "crashed" /\ child' = child /\ child # "exited"
    BY <1>2, <1>9, <2>1, ConversationRead, ReadCases
  <2> QED BY <2>2
<1>10. CASE SendFails \/ ReadDeadline \/ ReadEof \/ ShutdownDeadline
  BY <1>2, <1>10 DEF SendFails, ReadEof, ReadDeadline, ReadExpired, ShutdownDeadline
<1>11. CASE GatewayEnds \/ SendTelegramResult
  <2>1. Called /\ host.at \in {"gateway", "result"} /\ child # "exited" /\ status # "crashed"
    BY <1>2, <1>3, <1>11 DEF GatewayEnds, SendTelegramResult, Busy, Conversation
  <2>2. /\ host'.kind = host.kind /\ host'.id = host.id /\ UNCHANGED <<status, child, stdout, module>>
        /\ \/ host'.at = "result" /\ UNCHANGED stdin
           \/ host'.at = "read" /\ stdin' = Append(stdin, Frame("telegram.result", host.id))
    BY <1>1, <1>11 DEF GatewayEnds, SendTelegramResult, Hosts
  <2>3. Called' \/ (host'.at = "read" /\ Resulted')
    BY <2>1, <2>2 DEF Called, Resulted, Serving
  <2>4. host'.at = "result" => Called'
    BY <2>1, <2>2 DEF Called, Serving
  <2>5. host'.at = "read" => Resulted'
    BY <2>1, <2>2 DEF Called, Resulted, Serving
  <2> QED BY <2>1, <2>2, <2>4, <2>5 DEF Conversation
<1>12. CASE Drop \/ ModuleFaults
  BY <1>12 DEF Drop, ModuleFaults
<1>13. CASE ModuleReads \/ ModuleWrites
  <2>1. UNCHANGED <<status, host>> /\ child = "alive"
    BY <1>13, ModuleKeepsHost DEF ModuleSteps
  <2>2. CASE status \in {"none", "starting", "running"}
    BY <1>2, <1>13, <2>1, <2>2, ConversationModule
  <2>3. CASE status \notin {"none", "starting", "running"}
    <3>1. host.at = "idle" /\ status \in {"terminated", "dropped"}
      BY <1>1, <1>2, <1>3, <2>3 DEF HolderInv, Busy, Hosts, Shape
    <3> QED BY <1>2, <2>1, <2>3, <3>1, <1>1 DEF HolderInv
  <2> QED BY <2>2, <2>3
<1> QED BY <1>4, <1>5, <1>6, <1>7, <1>8, <1>9, <1>10, <1>11, <1>12, <1>13 DEF LegacyNext

-----------------------------------------------------------------------------
(* The invariant.                                                            *)

LEMMA LegacyInitially ==
  ASSUME LegacyInit
  PROVE  LegacyStrong
<1>1. Shape
  BY LegacyAssumption DEF LegacyInit, Shape, Hosts, Clocks, Modules, Ends, OpenId, Ids, InitId, StopId, None,
     Idle, Reset, Got
<1>2. HolderInv /\ WindowInv
  BY DEF LegacyInit, HolderInv, Busy, Idle, WindowInv
<1>3. NumberInv
  <2>1. 0 \in 0 .. MaxRequest /\ \A r \in 1 .. MaxRequest : ~(r <= 0) /\ answers[r].how = "none"
    BY LegacyAssumption DEF LegacyInit, Got
  <2> QED BY <2>1 DEF NumberInv, LegacyInit, Busy, Idle
<1>4. NestedInv /\ ResultMatchesRequest
  BY DEF LegacyInit, NestedInv, ResultMatchesRequest, Got
<1>5. ConformInv
  BY DEF LegacyInit, ConformInv, Conversation, Quiet, Idle
<1>6. AbandonedInv
  BY DEF LegacyInit, AbandonedInv
<1> QED BY <1>1, <1>2, <1>3, <1>4, <1>5, <1>6 DEF LegacyStrong

LEMMA LegacyStep ==
  ASSUME LegacyStrong, [LegacyNext]_legacyVars
  PROVE  LegacyStrong'
<1>1. CASE LegacyNext
  BY <1>1, ShapeKeeps, HolderKeeps, NumberKeeps, NestedKeeps, WindowKeeps, ResultKeeps, ConformKeeps,
     AbandonedKeeps DEF LegacyStrong
<1>2. CASE UNCHANGED legacyVars
  BY <1>2 DEF legacyVars, LegacyStrong, Shape, HolderInv, Busy, Serves, NumberInv, NestedInv, WindowInv,
     RequestTimeout, ResultMatchesRequest, ConformInv, Conversation, Quiet, Asked, Working, Invoking, Called,
     Resulted, ReplyGiven, Serving, LastLine, LogsUpTo, AbandonedInv
<1> QED BY <1>1, <1>2

LEMMA LegacyImplied ==
  ASSUME LegacyStrong
  PROVE  LegacyInv
<1>s. Shape /\ HolderInv
  BY DEF LegacyStrong
<1>1. LegacyTypeOK
  <2>1. abandoned \in BOOLEAN
    BY DEF LegacyStrong, AbandonedInv
  <2> QED BY <1>s, <2>1 DEF Shape, LegacyTypeOK, Hosts, OpenId
<1>2. ResultMatchesRequest /\ CrashHasCause /\ OneNestedCall
  BY DEF LegacyStrong, ConformInv, CrashHasCause, NestedInv, OneNestedCall
<1>3. CrashedIsReaped
  BY <1>s DEF HolderInv, CrashedIsReaped
<1>4. FullReplyWindow
  <2> SUFFICES ASSUME host.at = "read", clock.res = 0, calls[host.id] = 1, clock.op <= ReserveTime
               PROVE  RequestTimeout(host.kind) - clock.req >= TerminalTime
    BY DEF FullReplyWindow
  <2>1. RequestTimeout(host.kind) - clock.req + clock.op >= ReserveTime + TerminalTime
    BY DEF LegacyStrong, WindowInv
  <2>2. /\ RequestTimeout(host.kind) \in Nat /\ ReserveTime \in Nat /\ TerminalTime \in Nat
        /\ clock.req \in Nat /\ clock.op \in Nat
    BY <1>s, LegacyAssumption DEF RequestTimeout, Shape, Clocks
  <2> QED BY <2>1, <2>2
<1> QED BY <1>1, <1>2, <1>3, <1>4 DEF LegacyInv

\* Every caller of a v2-v5 process receives the reply to its own request, a crash has
\* a cause and a reaped child, and the one nested call of a request leaves the module
\* its whole reply window: for any number of requests, deadlines and pipe size,
\* whatever the module writes and whichever callers are dropped (process.rs).
THEOREM LegacyCallsAreSound == LegacySpec => []LegacyInv
<1>1. LegacyInit => LegacyStrong
  BY LegacyInitially
<1>2. LegacyStrong /\ [LegacyNext]_legacyVars => LegacyStrong'
  BY LegacyStep
<1>3. LegacyStrong => LegacyInv
  BY LegacyImplied
<1> QED BY <1>1, <1>2, <1>3, PTL DEF LegacySpec

-----------------------------------------------------------------------------
(* The process implements SequentialService.  Most steps are invisible there: *)
(* the handshake, the lines, the nested call and its clock are the process's  *)
(* own.                                                                       *)

ServiceState == CASE status \in {"none", "starting"} -> "off" [] status = "running" -> "up" [] OTHER -> "down"
ServiceEnded == [r \in 1 .. MaxRequest |-> HowEnded(answers[r])]

LEMMA ServiceInitially ==
  ASSUME LegacyInit
  PROVE  Service!SvcInit
<1>1. ServedId = 0
  BY DEF LegacyInit, ServedId, Busy, Idle
<1>2. \A r \in 1 .. MaxRequest : HowEnded(answers[r]) = "none"
  BY DEF LegacyInit, HowEnded, Got
<1> QED BY <1>1, <1>2 DEF LegacyInit, Service!SvcInit

\* The request the service serves is the one the holder of the mutex made.
LEMMA ServedIdIs ==
  ASSUME LegacyStrong
  PROVE  /\ ServesRequest => ServedId = host.id /\ host.id \in 1 .. MaxRequest /\ ServiceState = "up"
         /\ ~ServesRequest => ServedId = 0
<1>1. InitId \notin 1 .. MaxRequest /\ StopId \notin 1 .. MaxRequest
  BY LegacyAssumption DEF InitId, StopId
<1>2. HolderInv
  BY DEF LegacyStrong
<1>3. ServesRequest => host.id \in 1 .. MaxRequest /\ status = "running"
  BY <1>2 DEF ServesRequest, HolderInv, Serves, Kinds
<1>4. Busy /\ host.id \in 1 .. MaxRequest => ServesRequest
  BY <1>1, <1>2 DEF ServesRequest, HolderInv, Serves
<1> QED BY <1>3, <1>4 DEF ServedId, ServesRequest, ServiceState

\* The same after a step.
LEMMA ServedIdIsNext ==
  ASSUME LegacyStrong'
  PROVE  /\ ServesRequest' => ServedId' = host'.id /\ ServiceState' = "up"
         /\ ~ServesRequest' => ServedId' = 0
<1>1. InitId \notin 1 .. MaxRequest /\ StopId \notin 1 .. MaxRequest
  BY LegacyAssumption DEF InitId, StopId
<1>2. HolderInv'
  BY DEF LegacyStrong
<1>3. ServesRequest' => host'.id \in 1 .. MaxRequest /\ status' = "running"
  BY <1>2 DEF ServesRequest, HolderInv, Serves, Kinds
<1>4. Busy' /\ host'.id \in 1 .. MaxRequest => ServesRequest'
  BY <1>1, <1>2 DEF ServesRequest, HolderInv, Serves, InitId, StopId
<1> QED BY <1>3, <1>4 DEF ServedId, ServesRequest, ServiceState

\* How the status may change.
LEMMA StatusStep ==
  ASSUME LegacyNext, LegacyStrong
  PROVE  \/ UNCHANGED status
         \/ status = "none" /\ status' = "starting"
         \/ status = "starting" /\ status' = "running"
         \/ status' \in {"crashed", "terminated", "dropped"}
<1>1. Fails => status' = "crashed"
  BY DEF Fails, Fail
<1>2. Read => UNCHANGED status \/ status' = "crashed" \/ (status = "starting" /\ status' = "running")
  <2>1. Read /\ HandshakeDone => status = "starting" /\ status' = "running"
    BY ReadCases DEF HandshakeDone, LegacyStrong, HolderInv, Busy, Serves, Kinds
  <2> QED BY <1>1, <2>1, ReadCases, FailCases DEF ReadLog, InvokeRead, ReplyRead
<1>3. ModuleSteps => UNCHANGED status
  BY ModuleKeepsHost
<1>4. SendFails \/ ReadDeadline \/ ReadEof \/ ShutdownDeadline => status' = "crashed"
  BY <1>1, FailCases
<1> QED BY <1>2, <1>3, <1>4 DEF LegacyNext, Tick, Reap, Start, GracefulShutdown, Send, GatewayEnds,
           SendTelegramResult, Drop, Ask, ModuleSteps, Stopped, legacyVars

\* A request that ends is a step of the service.
LEMMA EndIsServiceEnd ==
  ASSUME LegacyStrong, LegacyStrong', NEW a, EndsWith(a)
  PROVE  \E how \in {"answered", "failed", "dropped"} : Service!End(how)
<1>1. /\ ServesRequest /\ ~ServesRequest' /\ ServedId = host.id /\ host.id \in 1 .. MaxRequest
      /\ ServiceState = "up" /\ ServedId' = 0
  <2>1. ServesRequest /\ ~ServesRequest'
    BY DEF EndsWith, ServesRequest
  <2> QED BY <2>1, ServedIdIs, ServedIdIsNext
<1>2. answers \in [1 .. MaxRequest -> Ends] /\ status = "running"
  BY <1>1 DEF LegacyStrong, Shape, HolderInv, ServesRequest, Serves, Kinds
<1>3. \A r \in 1 .. MaxRequest : answers'[r] = IF r = host.id THEN a ELSE answers[r]
  BY <1>2 DEF EndsWith
<1>4. PICK how \in {"answered", "failed", "dropped"} :
        how = HowEnded(a) /\ (how = "failed" <=> status' = "crashed") /\ (how # "failed" => UNCHANGED status)
  BY <1>2 DEF EndsWith, HowEnded
<1>5. ServiceEnded' = [ServiceEnded EXCEPT ![host.id] = how]
  <2>1. \A r \in 1 .. MaxRequest : HowEnded(answers'[r]) = IF r = host.id THEN how ELSE HowEnded(answers[r])
    BY <1>3, <1>4
  <2>2. ServiceEnded' = [r \in 1 .. MaxRequest |-> HowEnded(answers'[r])]
    BY DEF ServiceEnded, HowEnded
  <2>3. [ServiceEnded EXCEPT ![host.id] = how] = [r \in 1 .. MaxRequest |-> IF r = host.id THEN how ELSE HowEnded(answers[r])]
    BY DEF ServiceEnded
  <2> QED BY <2>1, <2>2, <2>3
<1>6. ServiceState' = IF how = "failed" THEN "down" ELSE ServiceState
  BY <1>2, <1>4 DEF ServiceState
<1>7. ServedId # 0
  BY <1>1, LegacyAssumption
<1>8. Service!End(how)
  BY <1>1, <1>5, <1>6, <1>7 DEF Service!End, ServiceState, ServiceEnded
<1> QED BY <1>8

\* A request that is made is a step of the service.
LEMMA AskIsServiceBegin ==
  ASSUME LegacyStrong, NEW kind \in Kinds, Ask(kind)
  PROVE  \E r \in 1 .. MaxRequest : Service!Begin(r)
<1>1. PICK k \in 0 .. MaxRequest : \A r \in 1 .. MaxRequest : answers[r].how # "none" <=> r <= k
  BY DEF LegacyStrong, NumberInv
<1>2. NextRequest = k + 1 /\ NextRequest \in 1 .. MaxRequest
  <2>1. NextRequest = k + 1 /\ NextRequest <= MaxRequest
    BY <1>1, NextRequestIsNext DEF Ask
  <2> QED BY <2>1, LegacyAssumption
<1>3. /\ status = "running" /\ host.at = "idle" /\ UNCHANGED <<status, answers>>
      /\ host'.at = "send" /\ host'.id = NextRequest
  BY DEF Ask
<1>4. ServedId = 0 /\ ServedId' = NextRequest
  BY <1>2, <1>3 DEF ServedId, Busy
<1>5. answers \in [1 .. MaxRequest -> Ends]
  BY DEF LegacyStrong, Shape
<1>6. \A r \in 1 .. MaxRequest : HowEnded(answers[r]) = "none" <=> answers[r].how = "none"
  BY <1>5 DEF HowEnded, Ends
<1>7. /\ ServiceEnded[NextRequest] = "none"
      /\ \A q \in 1 .. MaxRequest : q < NextRequest => ServiceEnded[q] # "none"
  <2>1. ~(NextRequest <= k) /\ \A q \in 1 .. MaxRequest : q < NextRequest => q <= k
    BY <1>2
  <2> QED BY <1>1, <1>2, <1>6, <2>1 DEF ServiceEnded
<1>8. ServiceState = "up" /\ UNCHANGED <<ServiceState, ServiceEnded>>
  BY <1>3 DEF ServiceState, ServiceEnded
<1>9. Service!Begin(NextRequest)
  BY <1>4, <1>7, <1>8 DEF Service!Begin, ServiceState, ServiceEnded
<1> QED BY <1>2, <1>9

\* Every other step changes at most whether the service is up.
LEMMA OtherIsServiceStep ==
  ASSUME LegacyStrong, LegacyStrong', LegacyNext, Continues, ~(\E kind \in Kinds : Ask(kind))
  PROVE  Service!Up \/ Service!Down \/ UNCHANGED Service!svcVars
<1>1. UNCHANGED ServiceEnded
  BY DEF Continues, ServiceEnded
<1>s. (ServesRequest' <=> ServesRequest) /\ (ServesRequest => host'.id = host.id)
  BY DEF Continues
<1>2. ServedId' = ServedId
  BY <1>s, ServedIdIs, ServedIdIsNext
<1>3. ServiceState' # ServiceState => ServedId = 0
  BY <1>s, ServedIdIs, ServedIdIsNext
<1>4. \/ UNCHANGED ServiceState
      \/ ServiceState = "off" /\ ServiceState' = "up"
      \/ ServiceState # "down" /\ ServiceState' = "down"
  BY StatusStep DEF ServiceState
<1> QED BY <1>1, <1>2, <1>3, <1>4 DEF Service!Up, Service!Down, Service!svcVars, ServiceState, ServiceEnded

\* A v2-v5 process implements the sequential service: requests are served one at a time
\* in order, each ends exactly once, and after a failure or a stop none is accepted.
THEOREM LegacyImplementsService == LegacySpec => ImplementsService
<1>1. LegacyInit => LegacyStrong
  BY LegacyInitially
<1>2. LegacyStrong /\ [LegacyNext]_legacyVars => LegacyStrong'
  BY LegacyStep
<1>3. LegacyInit => Service!SvcInit
  BY ServiceInitially
<1>4. LegacyStrong /\ LegacyStrong' /\ [LegacyNext]_legacyVars => [Service!SvcNext]_(Service!svcVars)
  <2> SUFFICES ASSUME LegacyStrong, LegacyStrong', [LegacyNext]_legacyVars
               PROVE  Service!SvcNext \/ UNCHANGED Service!svcVars
    OBVIOUS
  <2>1. CASE UNCHANGED legacyVars
    BY <2>1 DEF legacyVars, Service!svcVars, ServedId, Busy
  <2>2. CASE LegacyNext
    <3>1. CASE \E kind \in Kinds : Ask(kind)
      BY <3>1, AskIsServiceBegin DEF Service!SvcNext
    <3>2. CASE \E a : EndsWith(a)
      BY <3>2, EndIsServiceEnd DEF Service!SvcNext
    <3>3. CASE Continues /\ ~(\E kind \in Kinds : Ask(kind))
      BY <2>2, <3>3, OtherIsServiceStep DEF Service!SvcNext
    <3> QED BY <2>2, <3>1, <3>2, <3>3, AnswersStep
  <2> QED BY <2>1, <2>2
<1> QED BY <1>1, <1>2, <1>3, <1>4, PTL DEF LegacySpec, ImplementsService, Service!SvcSpec

-----------------------------------------------------------------------------
(* The pure algorithms, for every input.                                     *)

\* A set of natural numbers that is not empty has a least member.
LEMMA LeastOf ==
  ASSUME NEW S \in SUBSET Nat, S # {}
  PROVE  Min(S) \in S /\ \A y \in S : Min(S) <= y
<1> DEFINE R == OpToRel(<, Nat)
<1>1. IsWellFoundedOn(R, Nat)
  BY NatLessThanWellFounded, Zenon
<1>2. PICK x \in S : \A y \in S : ~(<<y, x>> \in R)
  <2> HIDE DEF R
  <2> QED BY <1>1, WFMin
<1>3. \A y \in S : ~(y < x)
  BY <1>2 DEF OpToRel
<1>4. \A y \in S : x <= y
  BY <1>3
<1> QED BY <1>4 DEF Min

\* Induction up to a bound: a set that holds 0 and, with a number below the bound, the next one.
LEMMA UpTo ==
  ASSUME NEW n \in Nat, NEW S, 0 \in S, \A k \in Nat : k \in S /\ k < n => k + 1 \in S
  PROVE  0 .. n \subseteq S
<1> DEFINE Bad == {k \in 0 .. n : k \notin S}
           b == Min(Bad)
<1> SUFFICES ASSUME Bad # {} PROVE FALSE
  OBVIOUS
<1>1. b \in Bad /\ \A y \in Bad : b <= y
  <2>1. Bad \in SUBSET Nat
    OBVIOUS
  <2> HIDE DEF Bad
  <2> QED BY <2>1, LeastOf
<1> HIDE DEF b
<1>2. b \in Nat /\ b # 0 /\ b <= n /\ b \notin S
  BY <1>1
<1>3. b - 1 \in Nat /\ (b - 1) + 1 = b /\ b - 1 < n /\ b - 1 \notin Bad
  BY <1>1, <1>2
<1>4. b - 1 \in S
  BY <1>2, <1>3
<1>5. (b - 1) + 1 \in S
  BY <1>3, <1>4
<1> QED BY <1>2, <1>3, <1>5

\* A sequence of checks succeeds exactly when each of them does.
LEMMA FirstFailureOk ==
  ASSUME NEW checks, DOMAIN checks \in SUBSET Nat
  PROVE  FirstFailure(checks) = "ok" <=> \A i \in DOMAIN checks : checks[i] = "ok"
<1> DEFINE failed == {i \in DOMAIN checks : checks[i] # "ok"}
<1>1. CASE failed = {}
  BY <1>1 DEF FirstFailure
<1>2. CASE failed # {}
  <2>1. failed \in SUBSET Nat
    OBVIOUS
  <2>2. Min(failed) \in failed
    BY <1>2, <2>1, LeastOf
  <2>3. FirstFailure(checks) = checks[Min(failed)]
    BY <1>2 DEF FirstFailure
  <2> QED BY <2>2, <2>3
<1> QED BY <1>1, <1>2

(***************************************************************************)
(* Manifests.  Nothing is assumed of the text a manifest holds.            *)
(***************************************************************************)
ManifestsOver(X) ==
  [schema : Nat, revision : Nat, hasMethods : BOOLEAN, id : X, name : X, version : X, author : X,
   capabilities : Seq(X), methods : Seq(X), subscriptions : Seq(X), actions : Seq(X), default : X,
   commands : Seq(X)]

\* Acceptance is the success of every check.
LEMMA AcceptedChecks ==
  ASSUME NEW m, NEW files, NEW expected, ValidateManifestAt(m, files, expected).ok
  PROVE  /\ CheckSchema(m) = "ok" /\ CheckMethods(m) = "ok" /\ CheckEvents(m) = "ok"
         /\ CheckCommands(m) = "ok" /\ CheckCapabilities(m) = "ok"
         /\ ValidateModuleId(m.id) /\ expected \in {"any", m.id.text}
         /\ ValidateManifestAt(m, files, expected).value = [m EXCEPT !.revision = ContractRevision(m)]
<1> DEFINE checks == <<
        CheckManifestFile(files), CheckSchema(m),
        Check(ValidateModuleId(m.id), "InvalidModuleId"),
        Check(expected \in {"any", m.id.text}, "IdMismatch"),
        Check(ValidateDisplaySingleLine(m.name, 64) /\ ValidateDisplaySingleLine(m.version, 32)
              /\ ValidateDisplaySingleLine(m.author, 128), "InvalidMetadata"),
        CheckEntrypoint(files), CheckMethods(m), CheckEvents(m), CheckCommands(m), CheckCapabilities(m) >>
<1>1. FirstFailure(checks) = "ok"
      /\ ValidateManifestAt(m, files, expected).value = [m EXCEPT !.revision = ContractRevision(m)]
  BY DEF ValidateManifestAt, Accepted, Refused
<1>2. DOMAIN checks = 1 .. 10
  OBVIOUS
<1>3. \A i \in 1 .. 10 : checks[i] = "ok"
  <2> HIDE DEF checks
  <2>1. DOMAIN checks \in SUBSET Nat
    BY <1>2
  <2> QED BY <1>1, <1>2, <2>1, FirstFailureOk
<1>4. /\ checks[2] = "ok" /\ checks[3] = "ok" /\ checks[4] = "ok" /\ checks[7] = "ok" /\ checks[8] = "ok"
      /\ checks[9] = "ok" /\ checks[10] = "ok"
  BY <1>3
<1>5. /\ Check(ValidateModuleId(m.id), "InvalidModuleId") = "ok"
      /\ Check(expected \in {"any", m.id.text}, "IdMismatch") = "ok"
  BY <1>4
<1>6. ValidateModuleId(m.id) /\ expected \in {"any", m.id.text}
  BY <1>5 DEF Check
<1> QED BY <1>1, <1>4, <1>6

\* What the checks of methods and capabilities establish.
LEMMA MethodsChecked ==
  ASSUME NEW m, CheckMethods(m) = "ok"
  PROVE  /\ Range(m.capabilities) \subseteq Capabilities
         /\ "telegram.raw" \in Range(m.capabilities) => m.schema = 6
         /\ Range(m.methods) \subseteq V6Methods
         /\ \A x \in Range(m.methods) : RequiredCapability(x) \subseteq Range(m.capabilities)
<1> DEFINE
      checks == <<
        Check(Range(m.capabilities) \subseteq Capabilities /\ IsInjective(m.capabilities), "InvalidCapability"),
        Check("telegram.raw" \in Range(m.capabilities) <=> "raw.invoke" \in Range(m.methods), "InvalidCapability"),
        Check(Len(m.methods) <= Cardinality(V6Methods), "InvalidCapability"),
        Check("telegram.raw" \in Range(m.capabilities) => m.schema = 6, "InvalidCapability"),
        Check(Range(m.methods) \subseteq V6Methods /\ IsInjective(m.methods), "InvalidArgument"),
        Check(\A x \in Range(m.methods) : RequiredCapability(x) \subseteq Range(m.capabilities), "InvalidCapability") >>
<1>1. FirstFailure(checks) = "ok"
  BY DEF CheckMethods
<1>2. DOMAIN checks = 1 .. 6
  OBVIOUS
<1>3. \A i \in 1 .. 6 : checks[i] = "ok"
  <2> HIDE DEF checks
  <2>1. DOMAIN checks \in SUBSET Nat
    BY <1>2
  <2> QED BY <1>1, <1>2, <2>1, FirstFailureOk
<1>4. checks[1] = "ok" /\ checks[4] = "ok" /\ checks[5] = "ok" /\ checks[6] = "ok"
  <2> HIDE DEF checks
  <2> QED BY <1>3
<1>5. /\ Check(Range(m.capabilities) \subseteq Capabilities /\ IsInjective(m.capabilities), "InvalidCapability") = "ok"
      /\ Check("telegram.raw" \in Range(m.capabilities) => m.schema = 6, "InvalidCapability") = "ok"
      /\ Check(Range(m.methods) \subseteq V6Methods /\ IsInjective(m.methods), "InvalidArgument") = "ok"
      /\ Check(\A x \in Range(m.methods) : RequiredCapability(x) \subseteq Range(m.capabilities),
               "InvalidCapability") = "ok"
  BY <1>4
<1> QED BY <1>5 DEF Check

\* What the checks of the schema and of the capabilities establish.
LEMMA SchemaChecked ==
  ASSUME NEW m, CheckSchema(m) = "ok"
  PROVE  /\ m.schema \in 2 .. 6
         /\ m.schema <= 5 => m.revision = 0
         /\ m.schema = 6 => ValidateV6ContractRevision(ContractRevision(m))
<1> DEFINE
      checks == <<
        Check(m.schema <= 5 => ~m.hasMethods, "MalformedManifest"),
        Check(m.schema <= 5 => m.revision = 0, "MalformedManifest"),
        Check(m.schema = 6 => ValidateV6ContractRevision(ContractRevision(m)), "UnsupportedSchemaVersion"),
        Check(m.schema \in 2 .. 6, "UnsupportedSchemaVersion") >>
<1>1. FirstFailure(checks) = "ok"
  BY DEF CheckSchema
<1>2. DOMAIN checks = 1 .. 4
  OBVIOUS
<1>3. \A i \in 1 .. 4 : checks[i] = "ok"
  <2> HIDE DEF checks
  <2>1. DOMAIN checks \in SUBSET Nat
    BY <1>2
  <2> QED BY <1>1, <1>2, <2>1, FirstFailureOk
<1>4. checks[2] = "ok" /\ checks[3] = "ok" /\ checks[4] = "ok"
  BY <1>3
<1>5. /\ Check(m.schema <= 5 => m.revision = 0, "MalformedManifest") = "ok"
      /\ Check(m.schema = 6 => ValidateV6ContractRevision(ContractRevision(m)), "UnsupportedSchemaVersion") = "ok"
      /\ Check(m.schema \in 2 .. 6, "UnsupportedSchemaVersion") = "ok"
  BY <1>4
<1> QED BY <1>5 DEF Check

LEMMA CapabilitiesChecked ==
  ASSUME NEW m, CheckCapabilities(m) = "ok"
  PROVE  /\ Range(m.subscriptions) \cap {"message.created", "message.edited"} # {} => "message.read" \in Range(m.capabilities)
         /\ "telegram.account.status" \in Range(m.capabilities) => m.schema >= 5
         /\ "message.peer_id" \in Range(m.capabilities) => m.schema >= 4 /\ "message.read" \in Range(m.capabilities)
         /\ "message.edit" \in Range(m.capabilities) => m.schema = 6 /\ ContractRevision(m) >= V6_HOST_CONTRACT_REVISION
<1> DEFINE
      Has(capability) == capability \in Range(m.capabilities)
      read == Range(m.subscriptions) \cap {"message.created", "message.edited"} # {} => Has("message.read")
      account == Has("telegram.account.status") => m.schema >= 5
      peer == Has("message.peer_id") => m.schema >= 4 /\ Has("message.read")
      react == "message.react" \in Range(m.actions) => Has("message.react")
      edit == Has("message.edit") => m.schema = 6 /\ ContractRevision(m) >= V6_HOST_CONTRACT_REVISION
      checks == << Check(read, "InvalidCapability"), Check(account, "InvalidCapability"), Check(peer, "InvalidCapability"),
                   Check(react, "InvalidCapability"), Check(edit, "InvalidCapability") >>
<1>1. FirstFailure(checks) = "ok"
  BY DEF CheckCapabilities
<1> HIDE DEF read, account, peer, react, edit
<1>2. DOMAIN checks = 1 .. 5
  OBVIOUS
<1>3. \A i \in 1 .. 5 : checks[i] = "ok"
  <2> HIDE DEF checks
  <2>1. DOMAIN checks \in SUBSET Nat
    BY <1>2
  <2> QED BY <1>1, <1>2, <2>1, FirstFailureOk
<1>4. checks[1] = "ok" /\ checks[2] = "ok" /\ checks[3] = "ok" /\ checks[5] = "ok"
  BY <1>3
<1>5. /\ Check(read, "InvalidCapability") = "ok" /\ Check(account, "InvalidCapability") = "ok"
      /\ Check(peer, "InvalidCapability") = "ok" /\ Check(edit, "InvalidCapability") = "ok"
  BY <1>4
<1>6. read /\ account /\ peer /\ edit
  BY <1>5 DEF Check
<1> QED BY <1>6 DEF read, account, peer, edit

\* What the checks of the commands establish.
LEMMA CommandsChecked ==
  ASSUME NEW m, CheckCommands(m) = "ok", DOMAIN m.commands \in SUBSET Nat
  PROVE  /\ Len(m.commands) \in 1 .. MAX_COMMANDS
         /\ \A i \in DOMAIN m.commands : ValidateCommandName(m.commands[i].name)
         /\ \A i, j \in DOMAIN m.commands : m.commands[i].name.text = m.commands[j].name.text => i = j
<1> DEFINE
      each == [i \in DOMAIN m.commands |-> CheckCommand(m.commands[i])]
      names == [i \in DOMAIN m.commands |-> m.commands[i].name.text]
      few == Len(m.commands) \in 1 .. MAX_COMMANDS
      default == m.default = "none" \/ \E c \in Range(m.commands) : c.name.text = m.default
      checks == << Check(few, "InvalidCommandCount"), FirstFailure(each),
                   Check(IsInjective(names), "DuplicateCommand"), Check(default, "InvalidArgument") >>
<1>1. FirstFailure(checks) = "ok"
  BY DEF CheckCommands
<1>2. DOMAIN each = DOMAIN m.commands /\ DOMAIN names = DOMAIN m.commands
  OBVIOUS
<1>3. \A i \in DOMAIN m.commands : each[i] = CheckCommand(m.commands[i]) /\ names[i] = m.commands[i].name.text
  OBVIOUS
<1> HIDE DEF each, names, few, default
<1>4. DOMAIN checks = 1 .. 4
  OBVIOUS
<1>5. \A i \in 1 .. 4 : checks[i] = "ok"
  <2> HIDE DEF checks
  <2>1. DOMAIN checks \in SUBSET Nat
    BY <1>4
  <2> QED BY <1>1, <1>4, <2>1, FirstFailureOk
<1>6. checks[1] = "ok" /\ checks[2] = "ok" /\ checks[3] = "ok"
  BY <1>5
<1>7. Check(few, "InvalidCommandCount") = "ok" /\ FirstFailure(each) = "ok" /\ Check(IsInjective(names), "DuplicateCommand") = "ok"
  BY <1>6
<1>8. few /\ IsInjective(names)
  BY <1>7 DEF Check
<1>9. ASSUME NEW i \in DOMAIN m.commands
      PROVE  ValidateCommandName(m.commands[i].name)
  <2> DEFINE
        c == m.commands[i]
        named == ValidateCommandName(c.name)
        shown == ValidateDisplaySingleLine(c.summary, 120) /\ ValidateDescription(c.description)
        used == ValidateDisplaySingleLine(c.usage, 256) /\ UsageIsArgumentSyntax(c.usage, c.name)
        some == Len(c.examples) <= MAX_EXAMPLE_COUNT
        lines == \A k \in DOMAIN c.examples : ValidateDisplaySingleLine(c.examples[k], 256)
        its == << Check(named, "InvalidCommandName"), Check(shown, "InvalidMetadata"), Check(used, "InvalidMetadata"),
                  Check(some, "InvalidMetadata"), Check(lines, "InvalidMetadata") >>
  <2>1. CheckCommand(c) = "ok"
    BY <1>2, <1>3, <1>7, FirstFailureOk
  <2>2. FirstFailure(its) = "ok"
    BY <2>1 DEF CheckCommand
  <2> HIDE DEF named, shown, used, some, lines
  <2>3. DOMAIN its = 1 .. 5
    OBVIOUS
  <2>4. \A k \in 1 .. 5 : its[k] = "ok"
    <3> HIDE DEF its
    <3>1. DOMAIN its \in SUBSET Nat
      BY <2>3
    <3> QED BY <2>2, <2>3, <3>1, FirstFailureOk
  <2>5. its[1] = "ok"
    BY <2>4
  <2>6. Check(named, "InvalidCommandName") = "ok"
    BY <2>5
  <2>7. named
    BY <2>6 DEF Check
  <2> QED BY <2>7 DEF named
<1>10. \A i, j \in DOMAIN m.commands : m.commands[i].name.text = m.commands[j].name.text => i = j
  BY <1>2, <1>3, <1>8 DEF IsInjective
<1> QED BY <1>8, <1>9, <1>10 DEF few

\* What the checks of the subscriptions establish of each of them.
LEMMA SubscriptionsChecked ==
  ASSUME NEW X, NEW m \in ManifestsOver(X), CheckEvents(m) = "ok", NEW s \in Range(m.subscriptions)
  PROVE  /\ m.schema # 2 /\ s \in Subscriptions
         /\ s = "message.edited" => m.schema >= 4
         /\ s = "bot.callback" => m.schema >= 6 /\ "message.send_bot" \in Range(m.capabilities)
<1> DEFINE
      each == [i \in DOMAIN m.subscriptions |-> CheckSubscription(m, m.subscriptions[i])]
      old == m.schema = 2 => m.default = "none" /\ m.subscriptions = <<>> /\ m.actions = <<>>
      checks == <<
        Check(old, "UnsupportedSchemaVersion"),
        FirstFailure(each),
        Check(IsInjective(m.subscriptions), "InvalidArgument"),
        Check(Range(m.actions) \subseteq {"message.react"} /\ IsInjective(m.actions), "InvalidArgument") >>
<1>1. FirstFailure(checks) = "ok"
  BY DEF CheckEvents
<1>2. DOMAIN checks = 1 .. 4
  OBVIOUS
<1>3. \A i \in 1 .. 4 : checks[i] = "ok"
  <2> HIDE DEF checks
  <2>1. DOMAIN checks \in SUBSET Nat
    BY <1>2
  <2> QED BY <1>1, <1>2, <2>1, FirstFailureOk
<1>4. checks[1] = "ok" /\ checks[2] = "ok"
  BY <1>3
<1>5. Check(old, "UnsupportedSchemaVersion") = "ok" /\ FirstFailure(each) = "ok"
  BY <1>4
<1>6. /\ m.subscriptions \in Seq(X) /\ DOMAIN m.subscriptions = 1 .. Len(m.subscriptions)
      /\ Len(m.subscriptions) \in Nat
  BY LenProperties DEF ManifestsOver
<1>7. PICK i \in DOMAIN m.subscriptions : s = m.subscriptions[i]
  BY DEF Range
<1>8. m.schema # 2
  <2>1. m.subscriptions # <<>>
    BY <1>6, <1>7, EmptySeq
  <2> QED BY <1>5, <2>1 DEF Check
<1>9. CheckSubscription(m, s) = "ok"
  <2>1. DOMAIN each = DOMAIN m.subscriptions /\ each[i] = CheckSubscription(m, s)
    BY <1>7
  <2> HIDE DEF each
  <2>2. DOMAIN each \in SUBSET Nat
    BY <1>6, <2>1
  <2> QED BY <1>5, <1>7, <2>1, <2>2, FirstFailureOk
<1> DEFINE
      its == <<
        Check(s \in Subscriptions, "InvalidArgument"),
        Check(s = "message.edited" => m.schema >= 4, "UnsupportedSchemaVersion"),
        Check(s = "bot.callback" => m.schema >= 6 /\ ContractRevision(m) >= V6_INLINE_SINCE, "UnsupportedSchemaVersion"),
        Check(s = "bot.callback" => "message.send_bot" \in Range(m.capabilities), "InvalidCapability") >>
<1>10. FirstFailure(its) = "ok"
  BY <1>9 DEF CheckSubscription
<1>11. DOMAIN its = 1 .. 4
  OBVIOUS
<1>12. \A k \in 1 .. 4 : its[k] = "ok"
  <2> HIDE DEF its
  <2>1. DOMAIN its \in SUBSET Nat
    BY <1>11
  <2> QED BY <1>10, <1>11, <2>1, FirstFailureOk
<1>13. its[1] = "ok" /\ its[2] = "ok" /\ its[3] = "ok" /\ its[4] = "ok"
  BY <1>12
<1>14. /\ Check(s \in Subscriptions, "InvalidArgument") = "ok"
       /\ Check(s = "message.edited" => m.schema >= 4, "UnsupportedSchemaVersion") = "ok"
       /\ Check(s = "bot.callback" => m.schema >= 6 /\ ContractRevision(m) >= V6_INLINE_SINCE,
                "UnsupportedSchemaVersion") = "ok"
       /\ Check(s = "bot.callback" => "message.send_bot" \in Range(m.capabilities), "InvalidCapability") = "ok"
  BY <1>13
<1> QED BY <1>8, <1>14 DEF Check

\* The first protocol that knows a capability: a module of an older one cannot be granted it.
KnownTo(c, d) ==
  /\ c = "message.peer_id" => d.schema >= 4
  /\ c = "telegram.account.status" => d.schema >= 5
  /\ c = "telegram.raw" => d.schema = 6
  /\ c = "message.edit" => d.schema = 6 /\ d.revision >= V6_HOST_CONTRACT_REVISION

\* A descriptor that asks for nothing outside its protocol and its limits.
WithinProtocol(d) ==
  /\ d.schema \in 2 .. 6
  /\ IF d.schema = 6 THEN ValidateV6ContractRevision(d.revision) ELSE d.revision = 0
  /\ \A c \in Range(d.capabilities) : c \in Capabilities /\ KnownTo(c, d)
  /\ Range(d.subscriptions) \subseteq Subscriptions
  /\ Len(d.commands) \in 1 .. MAX_COMMANDS
  /\ \A i \in DOMAIN d.commands : ValidateCommandName(d.commands[i].name)
  /\ \A i, j \in DOMAIN d.commands : d.commands[i].name.text = d.commands[j].name.text => i = j

\* Whatever manifest validate_manifest_at accepts keeps within its protocol, and the running host
\* honours it: validate_invoke lets every declared method through, and an event of every declared
\* subscription passes the dispatch gate and the codec of the module's protocol.
THEOREM AcceptedManifestsAreHonoured ==
  ASSUME NEW X, NEW m \in ManifestsOver(X), NEW files, NEW expected,
         ValidateManifestAt(m, files, expected).ok
  PROVE  LET d == ValidateManifestAt(m, files, expected).value IN WithinProtocol(d) /\ Honoured(d)
<1> DEFINE d == [m EXCEPT !.revision = ContractRevision(m)]
<1>1. ValidateManifestAt(m, files, expected).value = d
  BY AcceptedChecks
<1>2. /\ CheckSchema(m) = "ok" /\ CheckMethods(m) = "ok" /\ CheckEvents(m) = "ok" /\ CheckCommands(m) = "ok"
      /\ CheckCapabilities(m) = "ok"
  BY AcceptedChecks
<1>3. /\ d.schema = m.schema /\ d.methods = m.methods /\ d.capabilities = m.capabilities
      /\ d.subscriptions = m.subscriptions /\ d.commands = m.commands /\ d.revision = ContractRevision(m)
  BY DEF ManifestsOver
<1> HIDE DEF d
<1>4. ASSUME NEW x \in Range(d.methods) PROVE ValidateInvoke(d, x, TRUE) = "ok"
  <2>1. Range(m.methods) \subseteq V6Methods
        /\ \A y \in Range(m.methods) : RequiredCapability(y) \subseteq Range(m.capabilities)
    BY <1>2, MethodsChecked
  <2> QED BY <1>3, <1>4, <2>1 DEF ValidateInvoke
<1>5. ASSUME NEW s \in Range(d.subscriptions) PROVE Delivered(d, s)
  <2>1. s \in Range(m.subscriptions)
    BY <1>3
  <2>2. m.schema \in 2 .. 6
    BY <1>2, SchemaChecked
  <2>3. /\ m.schema # 2 /\ s \in Subscriptions
        /\ s = "message.edited" => m.schema >= 4
        /\ s = "bot.callback" => m.schema >= 6 /\ "message.send_bot" \in Range(m.capabilities)
    BY <1>2, <2>1, SubscriptionsChecked
  <2>4. s \in {"message.created", "message.edited"} => "message.read" \in Range(m.capabilities)
    BY <1>2, <2>1, CapabilitiesChecked
  <2>5. CASE s = "bot.callback"
    BY <1>3, <2>1, <2>2, <2>3, <2>5 DEF Delivered, BotCallbackGate
  <2>6. CASE s \in {"message.created", "message.edited"}
    <3>1. ModuleCanReceiveEvent(d, s)
      BY <1>3, <2>1, <2>2, <2>3, <2>4, <2>6 DEF ModuleCanReceiveEvent
    <3>2. s = "message.created" => SerializeFor(s, d.schema)
      BY <3>1 DEF ModuleCanReceiveEvent, SerializeFor
    <3>3. s = "message.edited" => SerializeFor(s, d.schema)
      BY <1>3, <2>2, <2>3 DEF SerializeFor
    <3> QED BY <2>6, <3>1, <3>2, <3>3 DEF Delivered
  <2> QED BY <2>3, <2>5, <2>6 DEF Subscriptions
<1>6. d.schema \in 2 .. 6 /\ (IF d.schema = 6 THEN ValidateV6ContractRevision(d.revision) ELSE d.revision = 0)
  BY <1>2, <1>3, SchemaChecked DEF ContractRevision
<1>7. /\ Len(d.commands) \in 1 .. MAX_COMMANDS
      /\ \A i \in DOMAIN d.commands : ValidateCommandName(d.commands[i].name)
      /\ \A i, j \in DOMAIN d.commands : d.commands[i].name.text = d.commands[j].name.text => i = j
  <2>1. m.commands \in Seq(X)
    BY DEF ManifestsOver
  <2>2. DOMAIN m.commands \in SUBSET Nat
    BY <2>1, LenProperties
  <2> QED BY <1>2, <1>3, <2>2, CommandsChecked
<1>8. ASSUME NEW c \in Range(d.capabilities) PROVE c \in Capabilities /\ KnownTo(c, d)
  <2>1. c \in Range(m.capabilities) /\ Range(m.capabilities) \subseteq Capabilities
    BY <1>2, <1>3, MethodsChecked
  <2>2. c = "telegram.raw" => d.schema = 6
    BY <1>2, <1>3, <2>1, MethodsChecked
  <2>3. /\ c = "telegram.account.status" => d.schema >= 5
        /\ c = "message.peer_id" => d.schema >= 4
        /\ c = "message.edit" => d.schema = 6 /\ d.revision >= V6_HOST_CONTRACT_REVISION
    BY <1>2, <1>3, <2>1, CapabilitiesChecked
  <2> QED BY <2>1, <2>2, <2>3 DEF KnownTo
<1>9. Range(d.subscriptions) \subseteq Subscriptions
  BY <1>2, <1>3, SubscriptionsChecked
<1>10. WithinProtocol(d)
  BY <1>6, <1>7, <1>8, <1>9 DEF WithinProtocol
<1> QED BY <1>1, <1>4, <1>5, <1>10 DEF Honoured

\* An enumeration of a finite set is a sequence of its members.
LEMMA SetToSeqType ==
  ASSUME NEW X, NEW S \in SUBSET X, IsFiniteSet(S)
  PROVE  SetToSeq(S) \in Seq(X)
<1>1. Cardinality(S) \in Nat /\ Bijection(1 .. Cardinality(S), S) # {}
  BY FS_CardinalityType DEF ExistsBijection
<1>2. PICK f \in Bijection(1 .. Cardinality(S), S) : TRUE
  BY <1>1
<1>3. f \in [1 .. Cardinality(S) -> S] /\ IsInjective(f)
  BY <1>2 DEF Bijection, Injection
<1>4. SetToSeq(S) \in [1 .. Cardinality(S) -> S]
  BY <1>3 DEF SetToSeq
<1>5. SetToSeq(S) \in Seq(S)
  BY <1>1, <1>4, SeqDef
<1>6. \A k \in 1 .. Cardinality(S) : SetToSeq(S)[k] \in X
  BY <1>4
<1>7. SetToSeq(S) \in [1 .. Cardinality(S) -> X]
  BY <1>4, <1>6
<1> QED BY <1>1, <1>7, SeqDef

\* The same module, installed under the name of its id, is found again exactly when it is accepted.
LEMMA AcceptedModulesAreFound ==
  ASSUME NEW m, NEW files, NEW name, name.text = m.id.text, ValidateModuleId(name) <=> ValidateModuleId(m.id)
  PROVE  LET e == [dir |-> TRUE, utf8 |-> TRUE, name |-> name, manifest |-> m, files |-> files] IN
         ValidateManifestAt(m, files, name.text).ok <=> DiscoverModules({e}) = Accepted({e})
<1> DEFINE e == [dir |-> TRUE, utf8 |-> TRUE, name |-> name, manifest |-> m, files |-> files]
           found == {x \in {e} : x.dir /\ ValidateModuleId(x.name)
                                 /\ ValidateManifestAt(x.manifest, x.files, x.name.text).ok}
<1>1. ~(\E x \in {e} : x.dir /\ ~x.utf8)
  OBVIOUS
<1>2. DiscoverModules({e}) = Accepted(found)
  BY <1>1 DEF DiscoverModules
<1>3. Accepted(found) = Accepted({e}) <=> found = {e}
  <2> HIDE DEF found, e
  <2>1. Accepted(found).value = found /\ Accepted({e}).value = {e}
    BY DEF Accepted
  <2> QED BY <2>1
<1>4. found = {e} <=> ValidateModuleId(name) /\ ValidateManifestAt(m, files, name.text).ok
  <2>1. e.dir /\ e.name = name /\ e.manifest = m /\ e.files = files
    OBVIOUS
  <2> HIDE DEF e
  <2>2. found = {e} <=> e \in found
    OBVIOUS
  <2> QED BY <2>1, <2>2
<1>5. ValidateManifestAt(m, files, name.text).ok => ValidateModuleId(m.id)
  BY AcceptedChecks
<1> QED BY <1>2, <1>3, <1>4, <1>5

\* Discovery judges each directory by itself: for every set of directories, whatever is wrong with
\* some of them, the others are found; and of the modules found every one is granted what its
\* manifest declares, within its protocol, and no two have one id, by which they are registered.
THEOREM DiscoveredModulesAreSound ==
  ASSUME NEW X, NEW entries,
         \A e \in entries : e.manifest \in ManifestsOver(X) /\ e.utf8 /\ e.name.text # "any",
         \A d, e \in entries : d.name.text = e.name.text => d = e
  PROVE  LET found == DiscoverModules(entries).value
             Loaded(e) == ValidateManifestAt(e.manifest, e.files, e.name.text) IN
         /\ DiscoverModules(entries).ok
         /\ \A e \in entries : e \in found <=> DiscoverModules({e}).value = {e}
         /\ \A e \in found : WithinProtocol(Loaded(e).value) /\ Honoured(Loaded(e).value)
         /\ \A d, e \in found : d.manifest.id.text = e.manifest.id.text => d = e
<1> DEFINE Loaded(e) == ValidateManifestAt(e.manifest, e.files, e.name.text)
           Keep(e) == e.dir /\ ValidateModuleId(e.name) /\ Loaded(e).ok
           found == {e \in entries : Keep(e)}
<1>1. DiscoverModules(entries) = Accepted(found)
  BY DEF DiscoverModules
<1>2. ASSUME NEW e \in entries PROVE DiscoverModules({e}).value = {x \in {e} : Keep(x)}
  <2> DEFINE alone == {x \in {e} : Keep(x)}
  <2>1. DiscoverModules({e}) = Accepted(alone)
    BY DEF DiscoverModules
  <2> HIDE DEF alone
  <2>2. DiscoverModules({e}).value = alone
    BY <2>1 DEF Accepted
  <2> QED BY <2>2 DEF alone
<1> HIDE DEF Keep
<1>3. DiscoverModules(entries).ok /\ DiscoverModules(entries).value = found
  <2> HIDE DEF found
  <2> QED BY <1>1 DEF Accepted
<1>4. ASSUME NEW e \in entries PROVE e \in found <=> DiscoverModules({e}).value = {e}
  <2>1. DiscoverModules({e}).value = {x \in {e} : Keep(x)}
    BY <1>2
  <2>2. {x \in {e} : Keep(x)} = {e} <=> Keep(e)
    OBVIOUS
  <2> QED BY <2>1, <2>2
<1>5. ASSUME NEW e \in found
      PROVE  /\ WithinProtocol(Loaded(e).value) /\ Honoured(Loaded(e).value)
             /\ e.manifest.id.text = e.name.text
  <2>1. e \in entries /\ Loaded(e).ok /\ e.manifest \in ManifestsOver(X)
    BY DEF Keep
  <2>2. WithinProtocol(Loaded(e).value) /\ Honoured(Loaded(e).value)
    BY <2>1, AcceptedManifestsAreHonoured
  <2>3. e.name.text \in {"any", e.manifest.id.text}
    BY <2>1, AcceptedChecks
  <2> QED BY <2>1, <2>2, <2>3
<1>6. ASSUME NEW d \in found, NEW e \in found, d.manifest.id.text = e.manifest.id.text PROVE d = e
  <2>1. d.name.text = e.name.text
    BY <1>5, <1>6
  <2> QED BY <2>1
<1> HIDE DEF found, Loaded
<1> QED BY <1>3, <1>4, <1>5, <1>6 DEF Loaded

(***************************************************************************)
(* The behaviours that evaluate one input.                                 *)
(***************************************************************************)
JobInv ==
  /\ job.kind = "manifest" => \E m \in Manifests : job = [kind |-> "manifest", manifest |-> m]
  /\ job.kind = "command" => \E m \in Sent, s \in Snapshots, a \in AliasSets :
       job = [kind |-> "command", message |-> m, snapshot |-> s, aliases |-> a]
  /\ job.kind = "entity" => \E t \in Written : \E i \in DOMAIN t : \E j \in i .. Len(t) :
       job = [kind |-> "entity", text |-> t, entity |-> EntityAt(t, i, j)]
  /\ job.kind = "acquire" => \E m \in Posted, d \in Documents : job = [kind |-> "acquire", message |-> m, document |-> d]
  /\ job.kind = "archive" => \E z \in Archives : job = [kind |-> "archive", zip |-> z]
  /\ job.kind = "plan" => \E p \in Plans : job = [kind |-> "plan", plan |-> p]

OutInv ==
  /\ out.kind = "manifest" => /\ job.kind = "manifest"
                              /\ out.result = ValidateManifestAt(job.manifest, GoodFiles, "mod")
  /\ out.kind = "command" => /\ job.kind = "command"
                             /\ out.result = RouteText(job.message, job.snapshot, job.aliases)
  /\ out.kind = "entity" => /\ job.kind = "entity"
                            /\ out.result = CommandArgumentEntities(job.text, {job.entity})
  /\ out.kind = "acquire" => job.kind = "acquire" /\ out.result = Acquire(job.message, job.document)
  /\ out.kind = "archive" => job.kind = "archive" /\ out.result = InspectInto(job.zip)
  /\ out.kind = "plan" => job.kind = "plan" /\ out.result = CanonicalFingerprint(job.plan)

EvaluationInv == JobInv /\ OutInv

LEMMA ProtocolsTyped == ProtocolsInit => EvaluationInv
<1> SUFFICES ASSUME ProtocolsInit PROVE EvaluationInv
  OBVIOUS
<1>1. out.kind = "pending"
  BY DEF ProtocolsInit, Init, Pending
<1>2. JobInv
  <2>1. CASE job = NoJob
    BY <2>1 DEF JobInv, NoJob
  <2>2. CASE Init
    <3>1. job.kind = "manifest" => \E m \in Manifests : job = [kind |-> "manifest", manifest |-> m]
      BY <2>2 DEF Init
    <3>2. job.kind = "command" => \E m \in Sent, s \in Snapshots, a \in AliasSets :
             job = [kind |-> "command", message |-> m, snapshot |-> s, aliases |-> a]
      BY <2>2 DEF Init
    <3>3. job.kind = "entity" => \E t \in Written : \E i \in DOMAIN t : \E j \in i .. Len(t) :
             job = [kind |-> "entity", text |-> t, entity |-> EntityAt(t, i, j)]
      BY <2>2 DEF Init
    <3>4. job.kind = "acquire" => \E m \in Posted, d \in Documents : job = [kind |-> "acquire", message |-> m, document |-> d]
      BY <2>2 DEF Init
    <3>5. job.kind = "archive" => \E z \in Archives : job = [kind |-> "archive", zip |-> z]
      BY <2>2 DEF Init
    <3>6. job.kind = "plan" => \E p \in Plans : job = [kind |-> "plan", plan |-> p]
      BY <2>2 DEF Init
    <3> QED BY <3>1, <3>2, <3>3, <3>4, <3>5, <3>6 DEF JobInv
  <2> QED BY <2>1, <2>2 DEF ProtocolsInit
<1> QED BY <1>1, <1>2 DEF EvaluationInv, OutInv

\* A step keeps the input; its result is that of the input's own algorithm.
LEMMA OneEvaluation ==
  ASSUME Next
  PROVE  /\ job' = job
         /\ out'.kind = "manifest" => \/ out' = out
                                      \/ /\ job.kind = "manifest"
                                         /\ out'.result = ValidateManifestAt(job.manifest, GoodFiles, "mod")
         /\ out'.kind = "command" => \/ out' = out
                                     \/ /\ job.kind = "command"
                                        /\ out'.result = RouteText(job.message, job.snapshot, job.aliases)
         /\ out'.kind = "entity" => \/ out' = out
                                    \/ /\ job.kind = "entity"
                                       /\ out'.result = CommandArgumentEntities(job.text, {job.entity})
         /\ out'.kind = "acquire" => out' = out \/ (job.kind = "acquire" /\ out'.result = Acquire(job.message, job.document))
         /\ out'.kind = "archive" => out' = out \/ (job.kind = "archive" /\ out'.result = InspectInto(job.zip))
         /\ out'.kind = "plan" => out' = out \/ (job.kind = "plan" /\ out'.result = CanonicalFingerprint(job.plan))
<1>1. ASSUME NEW k, NEW r, Finish(k, r)
      PROVE  job' = job /\ job.kind = k /\ out'.kind = k /\ out'.result = r
  BY <1>1 DEF Finish
<1>2. CASE Done
  BY <1>2 DEF Done, vars
<1>3. CASE EvalManifest
  BY <1>1, <1>3 DEF EvalManifest
<1>4. CASE EvalCommand
  BY <1>1, <1>4 DEF EvalCommand
<1>5. CASE EvalEntity
  BY <1>1, <1>5 DEF EvalEntity
<1>6. CASE EvalAcquire
  BY <1>1, <1>6 DEF EvalAcquire
<1>7. CASE EvalArchive
  BY <1>1, <1>7 DEF EvalArchive
<1>8. CASE EvalPlan
  BY <1>1, <1>8 DEF EvalPlan
<1>9. CASE \/ EvalCall \/ EvalEvent \/ EvalEncode \/ EvalDecode \/ EvalRaw \/ EvalRpc \/ EvalReact
           \/ EvalButton \/ EvalPeer \/ EvalReply \/ EvalPress \/ EvalBotFather
  <2>1. \E k \in {"call", "event", "encode", "decode", "raw", "rpc", "react",
                  "button", "peer", "reply", "press", "botfather"} : \E r : Finish(k, r)
    BY <1>9 DEF EvalCall, EvalEvent, EvalEncode, EvalDecode, EvalRaw, EvalRpc, EvalReact, EvalButton, EvalPeer, EvalReply, EvalPress, EvalBotFather
  <2> QED BY <1>1, <2>1
<1> QED BY <1>2, <1>3, <1>4, <1>5, <1>6, <1>7, <1>8, <1>9 DEF Next

LEMMA EvaluationAlways == ProtocolsSpec => []EvaluationInv
<1>1. ASSUME EvaluationInv, [ProtocolsNext]_<<which, vars, legacyVars>> PROVE EvaluationInv'
  <2>1. CASE which = "inputs" /\ Next
    BY <1>1, <2>1, OneEvaluation DEF EvaluationInv, JobInv, OutInv
  <2>2. CASE UNCHANGED vars
    BY <1>1, <2>2 DEF EvaluationInv, JobInv, OutInv, vars
  <2> QED BY <1>1, <2>1, <2>2 DEF ProtocolsNext
<1> QED BY <1>1, ProtocolsTyped, PTL DEF ProtocolsSpec

LEMMA SmallSetsFinite == \A a, b, c, d, e : IsFiniteSet({a, b, c, d, e})
<1> SUFFICES ASSUME NEW a, NEW b, NEW c, NEW d, NEW e PROVE IsFiniteSet({a, b, c, d, e})
  OBVIOUS
<1>1. IsFiniteSet({a}) /\ IsFiniteSet({b}) /\ IsFiniteSet({c}) /\ IsFiniteSet({d}) /\ IsFiniteSet({e})
  BY FS_Singleton
<1>2. IsFiniteSet({a} \cup {b})
  BY <1>1, FS_Union
<1>3. IsFiniteSet({a} \cup {b} \cup {c})
  BY <1>1, <1>2, FS_Union
<1>4. IsFiniteSet({a} \cup {b} \cup {c} \cup {d})
  BY <1>1, <1>3, FS_Union
<1>5. IsFiniteSet({a} \cup {b} \cup {c} \cup {d} \cup {e})
  BY <1>1, <1>4, FS_Union
<1>6. {a, b, c, d, e} = {a} \cup {b} \cup {c} \cup {d} \cup {e}
  OBVIOUS
<1> QED BY <1>5, <1>6

LEMMA ManifestsTyped == \E X : Manifests \subseteq ManifestsOver(X)
<1> DEFINE
      command == [name |-> Word("cmd"), summary |-> Word("s"), description |-> Word("d"),
                  usage |-> Word("u"), examples |-> <<>>]
      X == {Word("mod"), Word("Mod"), Word("1"), Word("me"), "none", command} \cup SomeCapabilities \cup SomeMethods \cup Subscriptions
<1>1. IsFiniteSet(SomeCapabilities) /\ IsFiniteSet(SomeMethods) /\ IsFiniteSet(Subscriptions)
  <2>1. IsFiniteSet(SomeCapabilities)
    BY SmallSetsFinite DEF SomeCapabilities
  <2>2. \A a, b, c : {a, b, c} = {a, b, c, c, c}
    OBVIOUS
  <2>3. \A a, b, c : IsFiniteSet({a, b, c})
    <3> SUFFICES ASSUME NEW a, NEW b, NEW c PROVE IsFiniteSet({a, b, c})
      OBVIOUS
    <3>1. {a, b, c} = {a, b, c, c, c} /\ IsFiniteSet({a, b, c, c, c})
      BY <2>2, SmallSetsFinite
    <3> QED BY <3>1
  <2> QED BY <2>1, <2>3 DEF SomeMethods, Subscriptions
<1>2. ASSUME NEW T \in {SomeCapabilities, SomeMethods, Subscriptions}, NEW c \in SUBSET T PROVE SetToSeq(c) \in Seq(X)
  <2>1. IsFiniteSet(c)
    BY <1>1, FS_Subset
  <2>2. c \in SUBSET X
    OBVIOUS
  <2> HIDE DEF X
  <2> QED BY <2>1, <2>2, SetToSeqType
<1>3. /\ Word("mod") \in X /\ Word("Mod") \in X /\ Word("1") \in X /\ Word("me") \in X /\ "none" \in X
      /\ command \in X
  OBVIOUS
<1> HIDE DEF X, command
<1>4. << >> \in Seq(X) /\ <<command>> \in Seq(X)
  BY <1>3
<1>5. ASSUME NEW n \in Manifests PROVE n \in ManifestsOver(X)
  <2>1. PICK s \in 2 .. 6, r \in {0, 2, 3, 5}, c \in SUBSET SomeCapabilities, k \in SUBSET SomeMethods, b \in SUBSET Subscriptions :
          n = ManifestOf(s, r, c, k, b)
    BY DEF Manifests
  <2>2. SetToSeq(c) \in Seq(X) /\ SetToSeq(k) \in Seq(X) /\ SetToSeq(b) \in Seq(X)
    BY <1>2
  <2> QED BY <1>3, <1>4, <2>1, <2>2 DEF ManifestsOver, ManifestOf, command
<1> QED BY <1>5

\* What the run checks of the manifests, in every state.
THEOREM GrantsAlwaysHonoured == ProtocolsSpec => []GrantsHonoured
<1>1. ASSUME EvaluationInv PROVE GrantsHonoured
  <2> SUFFICES ASSUME out.kind = "manifest"
               PROVE  /\ out.result.ok <=> DiscoverModules({Installed(job.manifest)}) = Accepted({Installed(job.manifest)})
                      /\ out.result.ok => Honoured(out.result.value)
    BY DEF GrantsHonoured
  <2>1. PICK m \in Manifests : job = [kind |-> "manifest", manifest |-> m]
    BY <1>1 DEF EvaluationInv, JobInv, OutInv
  <2>2. job.manifest = m /\ out.result = ValidateManifestAt(m, GoodFiles, "mod")
    BY <1>1, <2>1 DEF EvaluationInv, OutInv
  <2>3. m.id = Word("mod") /\ m.id.text = "mod"
    <3>1. \E s \in 2 .. 6, r \in {0, 2, 3, 5}, c \in SUBSET SomeCapabilities, k \in SUBSET SomeMethods, b \in SUBSET Subscriptions :
             m = ManifestOf(s, r, c, k, b)
      BY DEF Manifests
    <3>2. m.id = Word("mod")
      BY <3>1 DEF ManifestOf
    <3> QED BY <3>2 DEF Word
  <2>4. Installed(m) = [dir |-> TRUE, utf8 |-> TRUE, name |-> m.id, manifest |-> m, files |-> GoodFiles]
    BY DEF Installed
  <2>5. ValidateManifestAt(m, GoodFiles, m.id.text).ok <=> DiscoverModules({Installed(m)}) = Accepted({Installed(m)})
    <3> DEFINE name == m.id
    <3>1. name.text = m.id.text /\ (ValidateModuleId(name) <=> ValidateModuleId(m.id))
      OBVIOUS
    <3> HIDE DEF name
    <3>2. LET e == [dir |-> TRUE, utf8 |-> TRUE, name |-> name, manifest |-> m, files |-> GoodFiles] IN
          ValidateManifestAt(m, GoodFiles, name.text).ok <=> DiscoverModules({e}) = Accepted({e})
      BY <3>1, AcceptedModulesAreFound
    <3> QED BY <2>4, <3>2 DEF name
  <2>6. PICK X : m \in ManifestsOver(X)
    BY ManifestsTyped
  <2>7. out.result.ok => Honoured(out.result.value)
    BY <2>2, <2>6, AcceptedManifestsAreHonoured
  <2> QED BY <2>2, <2>3, <2>5, <2>7
<1> QED BY <1>1, EvaluationAlways, PTL

(***************************************************************************)
(* The authority of a command.                                             *)
(***************************************************************************)
\* A request is the one of its command, and no command but reboot reboots.
LEMMA RequestsNamed ==
  ASSUME NEW name, NEW args
  PROVE  Request(name, args) # "reboot"
<1>1. ParseStartRequest(args) # "reboot" /\ ParseLanguageRequest(args) # "reboot"
  BY DEF ParseStartRequest, ParseLanguageRequest
<1>2. ParseSetupRequest(args) # "reboot"
  BY DEF ParseSetupRequest
<1>3. ParseLmRequest(args) # "reboot"
  <2> DEFINE first == args[1]
             rest == Tail(args)
  <2> HIDE DEF first, rest
  <2>1. ParseLmRequest(args) \in {"Overview", "doctor", "Invalid", "list", "install", "confirm", "cancel",
                                  "info", "logs", "enable", "disable"}
    BY DEF ParseLmRequest
  <2> QED BY <2>1
<1>4. ParsePrefixRequest(args) # "reboot" /\ ParseAliasRequest(args) # "reboot"
  BY DEF ParsePrefixRequest, ParseAliasRequest
<1>5. ParseHelpRequest(args) # "reboot" /\ ParseModulesRequest(args) # "reboot"
  BY DEF ParseHelpRequest, ParseModulesRequest
<1> QED BY <1>1, <1>2, <1>3, <1>4, <1>5 DEF Request

\* Where the action of a message comes from: its own name, a module, or an alias of a harmless command.
LEMMA RouteSources ==
  ASSUME NEW m, NEW snapshot, NEW aliases, \A a \in aliases : AliasAccepted(a.name, a.target, a.args),
         RouteText(m, snapshot, aliases) # NoAction
  PROVE  LET action == RouteText(m, snapshot, aliases)
             own == DispatchCommand(m.words[1], Tail(m.words)) IN
         /\ IsSelfAuthored(m)
         /\ \/ own # NoAction /\ action = own
            \/ /\ own = NoAction
               /\ \/ action.kind = "external"
                  \/ \E args : \E t : AliasableCommand(t) /\ action = DispatchCommand(t, args)
<1> DEFINE name == m.words[1]
           args == Tail(m.words)
           own == DispatchCommand(name, args)
           second == ResolveExternal(snapshot, name)
           third == IF HasExternalModule(snapshot, name) THEN ResolveExternalDefault(snapshot, name)
                    ELSE ResolveAlias(aliases, name, args)
           candidates == <<own, second, third>>
           hits == {i \in DOMAIN candidates : candidates[i] # NoAction}
           first == CHOOSE i \in hits : \A j \in hits : i <= j
           action == RouteText(m, snapshot, aliases)
<1>1. IsSelfAuthored(m)
  BY DEF RouteText
<1>2. hits # {} /\ action = candidates[first]
  BY DEF RouteText
<1>3. DOMAIN candidates = 1 .. 3 /\ candidates[1] = own /\ candidates[2] = second /\ candidates[3] = third
  <2> HIDE DEF own, second, third
  <2> QED OBVIOUS
<1> HIDE DEF own, second, third, candidates, action
<1>4. first \in hits /\ \A j \in hits : first <= j
  <2>1. hits \in SUBSET Nat
    BY <1>3
  <2> HIDE DEF hits
  <2>2. Min(hits) \in hits /\ \A j \in hits : Min(hits) <= j
    BY <1>2, <2>1, LeastOf
  <2> QED BY <2>2
<1> HIDE DEF first
<1>5. own # NoAction => action = own
  <2> SUFFICES ASSUME own # NoAction PROVE first = 1
    BY <1>2, <1>3
  <2>1. 1 \in hits
    BY <1>3
  <2> QED BY <1>3, <1>4, <2>1
<1>6. first \in 1 .. 3 /\ action # NoAction /\ action \in {own, second, third}
  BY <1>2, <1>3, <1>4
<1>7. second # NoAction => second.kind = "external"
  BY DEF second, ResolveExternal
<1>8. third # NoAction => \/ third.kind = "external"
                          \/ \E u : \E t : AliasableCommand(t) /\ third = DispatchCommand(t, u)
  <2>1. CASE HasExternalModule(snapshot, name)
    BY <2>1 DEF third, ResolveExternalDefault
  <2>2. CASE ~HasExternalModule(snapshot, name) /\ third # NoAction
    <3> DEFINE i == Invocation(aliases, name, args)
               a == CHOOSE x \in aliases : x.name = name
    <3>1. i # NoAction /\ third = DispatchCommand(i.target, i.args)
      BY <2>2 DEF third, ResolveAlias
    <3>2. (\E x \in aliases : x.name = name) /\ i = [target |-> a.target, args |-> a.args \o args]
      BY <3>1 DEF Invocation
    <3>3. a \in aliases
      BY <3>2
    <3>4. AliasableCommand(a.target)
      BY <3>3 DEF AliasAccepted
    <3> HIDE DEF a
    <3>5. i.target = a.target
      BY <3>2
    <3> QED BY <3>1, <3>4, <3>5
  <2> QED BY <2>1, <2>2
<1> QED BY <1>1, <1>5, <1>6, <1>7, <1>8 DEF own, action

\* A command runs with the authority of its message, whatever the message, the modules installed and
\* the aliases the owner was allowed to define: only a fresh message of the owner changes modules (in
\* Saved Messages alone) or reboots, nothing that changes anything is reached through an alias, and
\* no module or alias takes the place of a built-in command.
THEOREM CommandsAreAuthorised ==
  ASSUME NEW m, NEW snapshot, NEW aliases, \A a \in aliases : AliasAccepted(a.name, a.target, a.args)
  PROVE  Authorised(m, RouteText(m, snapshot, aliases))
<1> DEFINE action == RouteText(m, snapshot, aliases)
           name == m.words[1]
           own == DispatchCommand(name, Tail(m.words))
           effect == ExecuteAction(m, action)
<1>1. CASE action = NoAction
  BY <1>1 DEF Authorised, NoAction, ExecuteAction
<1>2. CASE action # NoAction
  <2>1. /\ IsSelfAuthored(m)
        /\ \/ own # NoAction /\ action = own
           \/ /\ own = NoAction
              /\ \/ action.kind = "external"
                 \/ \E u : \E t : AliasableCommand(t) /\ action = DispatchCommand(t, u)
    BY <1>2, RouteSources
  <2> HIDE DEF action, own
  <2>2. \A n, u : DispatchCommand(n, u) # NoAction =>
          DispatchCommand(n, u) = [kind |-> "builtin", name |-> n, request |-> Request(n, u)]
    BY DEF DispatchCommand
  <2>3. action.kind = "external" \/ \E n : \E u : /\ action = [kind |-> "builtin", name |-> n, request |-> Request(n, u)]
                                                  /\ n = name \/ AliasableCommand(n)
    BY <1>2, <2>1, <2>2 DEF own
  <2>4. action.kind = "builtin" /\ action.name = "lm" /\ LmRequestMutates(effect) => Fresh(m) /\ m.peer = "saved"
    <3> SUFFICES ASSUME action.kind = "builtin", action.name = "lm", LmRequestMutates(effect)
                 PROVE  Fresh(m) /\ m.peer = "saved"
      OBVIOUS
    <3>1. effect = ExecuteLm(m, action.request)
      BY DEF ExecuteAction
    <3>2. AuthorizeSensitiveMessage("ModuleMutation", m)
      BY <3>1 DEF ExecuteLm, LmRequestMutates
    <3> QED BY <3>2 DEF AuthorizeSensitiveMessage, IsSelfAuthored, Fresh
  <2>5. effect = "reboot" => Fresh(m)
    <3> SUFFICES ASSUME effect = "reboot" PROVE AuthorizeSensitiveMessage("Reboot", m)
      BY DEF AuthorizeSensitiveMessage, IsSelfAuthored, Fresh
    <3>1. PICK n, u : action = [kind |-> "builtin", name |-> n, request |-> Request(n, u)]
      BY <2>3 DEF ExecuteAction
    <3>2. action.request # "reboot"
      BY <3>1, RequestsNamed
    <3>3. action.name = "reboot"
      BY <3>1, <3>2 DEF ExecuteAction, ExecuteLm, ExecuteSetup
    <3>4. effect = ExecuteReboot(m)
      BY <3>1, <3>3 DEF ExecuteAction
    <3> QED BY <3>4 DEF ExecuteReboot
  <2>6. action.kind = "builtin" /\ Risk[action.name] \notin Harmless => name = action.name
    <3>1. \A n : AliasableCommand(n) => Risk[n] \in Harmless
      BY DEF AliasableCommand, Risk, Harmless
    <3> QED BY <2>3, <3>1
  <2>7. own # NoAction => action.kind = "builtin" /\ action.name = name
    <3> SUFFICES ASSUME own # NoAction PROVE action.kind = "builtin" /\ action.name = name
      OBVIOUS
    <3>1. own = [kind |-> "builtin", name |-> name, request |-> Request(name, Tail(m.words))]
      BY <2>2 DEF own
    <3> QED BY <2>1, <3>1
  <2> QED BY <2>4, <2>5, <2>6, <2>7 DEF Authorised, action, own
<1> QED BY <1>1, <1>2

\* A finite set of natural numbers that is not empty has a greatest member.
LEMMA GreatestOf ==
  ASSUME NEW n \in Nat, NEW S \in SUBSET (1 .. n), S # {}
  PROVE  Max(S) \in S /\ \A y \in S : Max(S) >= y
<1> DEFINE B == {k \in Nat : \A y \in S : k >= y}
<1>1. n \in B /\ B \in SUBSET Nat
  OBVIOUS
<1>2. Min(B) \in B /\ \A k \in B : Min(B) <= k
  <2> HIDE DEF B
  <2> QED BY <1>1, LeastOf
<1> DEFINE b == Min(B)
<1>3. b \in Nat /\ (\A y \in S : b >= y) /\ \A k \in Nat : (\A y \in S : k >= y) => b <= k
  BY <1>2
<1> HIDE DEF b, B
<1>4. b \in S
  <2> SUFFICES ASSUME b \notin S PROVE FALSE
    OBVIOUS
  <2>1. \A y \in S : b - 1 >= y /\ y >= 1
    BY <1>3
  <2>2. b - 1 \in Nat
    <3>1. PICK y \in S : y \in 1 .. n
      OBVIOUS
    <3> QED BY <1>3, <2>1, <3>1
  <2> QED BY <1>3, <2>1, <2>2
<1> QED BY <1>3, <1>4 DEF Max

\* A set of positions without its last one is smaller.
LEMMA WithoutLast ==
  ASSUME NEW n \in Nat, NEW s \in SUBSET (1 .. n)
  PROVE  /\ IsFiniteSet(s) /\ Cardinality(s) \in Nat
         /\ Cardinality(s) = 0 <=> s = {}
         /\ s # {} => /\ Max(s) \in s /\ s \ {Max(s)} \in SUBSET (1 .. n)
                      /\ Cardinality(s \ {Max(s)}) = Cardinality(s) - 1
<1>1. IsFiniteSet(1 .. n)
  BY FS_Interval
<1>2. IsFiniteSet(s) /\ Cardinality(s) \in Nat
  BY <1>1, FS_Subset, FS_CardinalityType
<1>3. s # {} => Max(s) \in s
  BY GreatestOf
<1>4. s # {} => Cardinality(s \ {Max(s)}) = Cardinality(s) - 1
  BY <1>2, <1>3, FS_RemoveElement
<1> QED BY <1>2, <1>3, <1>4, FS_EmptySet

(***************************************************************************)
(* The entities of a command's argument.                                   *)
(***************************************************************************)
\* The UTF-16 units of a character, and of the characters at a set of positions.
Width16(ch) == IF ch = "e" THEN 2 ELSE 1
Units(text, P) == Cardinality(P) + Cardinality({i \in P : text[i] = "e"})

\* The last position counts its units.
LEMMA UnitsStep ==
  ASSUME NEW text, NEW P, IsFiniteSet(P), NEW x \in P
  PROVE  /\ Units(text, P) \in Nat /\ Units(text, P \ {x}) \in Nat
         /\ Units(text, P) = Units(text, P \ {x}) + Width16(text[x])
<1> DEFINE E(Q) == {i \in Q : text[i] = "e"}
<1>1. /\ IsFiniteSet(P \ {x}) /\ Cardinality(P \ {x}) = Cardinality(P) - 1
      /\ Cardinality(P) \in Nat /\ Cardinality(P \ {x}) \in Nat
  BY FS_RemoveElement, FS_CardinalityType
<1>2. IsFiniteSet(E(P)) /\ IsFiniteSet(E(P \ {x}))
  BY <1>1, FS_Subset
<1>3. Cardinality(E(P)) \in Nat /\ Cardinality(E(P \ {x})) \in Nat
  BY <1>2, FS_CardinalityType
<1>4. /\ Units(text, P) = Cardinality(P) + Cardinality(E(P))
      /\ Units(text, P \ {x}) = Cardinality(P \ {x}) + Cardinality(E(P \ {x}))
  BY DEF Units
<1>5. CASE text[x] = "e"
  <2>1. E(P \ {x}) = E(P) \ {x} /\ x \in E(P)
    BY <1>5
  <2>2. Cardinality(E(P) \ {x}) = Cardinality(E(P)) - 1
    BY <1>2, <2>1, FS_RemoveElement
  <2>3. Cardinality(E(P \ {x})) = Cardinality(E(P)) - 1
    BY <2>1, <2>2
  <2>4. Width16(text[x]) = 2
    BY <1>5 DEF Width16
  <2> HIDE DEF E
  <2> QED BY <1>1, <1>3, <1>4, <2>3, <2>4
<1>6. CASE text[x] # "e"
  <2>1. E(P \ {x}) = E(P)
    BY <1>6
  <2> HIDE DEF E
  <2> QED BY <1>1, <1>3, <1>6, <1>4, <2>1 DEF Width16
<1> QED BY <1>5, <1>6

\* Max of the first k positions.
LEMMA LastOfPrefix ==
  ASSUME NEW k \in Nat
  PROVE  Max(1 .. (k + 1)) = k + 1 /\ (1 .. (k + 1)) \ {Max(1 .. (k + 1))} = 1 .. k /\ 1 .. (k + 1) # {}
<1>1. k + 1 \in Nat /\ 1 .. (k + 1) \in SUBSET (1 .. (k + 1)) /\ k + 1 \in 1 .. (k + 1)
  OBVIOUS
<1>2. Max(1 .. (k + 1)) \in 1 .. (k + 1) /\ Max(1 .. (k + 1)) >= k + 1
  BY <1>1, GreatestOf
<1>3. Max(1 .. (k + 1)) = k + 1
  <2> DEFINE b == Max(1 .. (k + 1))
  <2>1. b \in 1 .. (k + 1) /\ b >= k + 1
    BY <1>2
  <2> HIDE DEF b
  <2>2. b = k + 1
    BY <2>1
  <2> QED BY <2>2 DEF b
<1> QED BY <1>1, <1>3

\* Utf16 counts the units of the characters, one and one more for each wide one.
LEMMA Utf16Counts ==
  ASSUME NEW X, NEW text \in Seq(X)
  PROVE  Utf16(text) = Units(text, 1 .. Len(text))
<1> DEFINE n == Len(text)
           D == DOMAIN text
           Body(f) == [s \in SUBSET D |-> IF s = {} THEN 0 ELSE f[s \ {Max(s)}] + Width16(text[Max(s)])]
           iter == CHOOSE f : f = Body(f)
           units == [s \in SUBSET D |-> Units(text, s)]
<1>1. Utf16(text) = iter[D]
  BY DEF Utf16, FoldLeft, MapThenFoldSet, Width16
<1>2. D = 1 .. n /\ n \in Nat
  BY LenProperties
<1>3. units = Body(units)
  <2> HIDE DEF D, n
  <2>1. ASSUME NEW s \in SUBSET D, s # {}
        PROVE  Units(text, s) = Units(text, s \ {Max(s)}) + Width16(text[Max(s)]) /\ s \ {Max(s)} \in SUBSET D
    <3>1. IsFiniteSet(s) /\ Max(s) \in s
      BY <1>2, <2>1, WithoutLast
    <3> QED BY <3>1, UnitsStep
  <2>2. Units(text, {}) = 0
    <3>1. {i \in {} : text[i] = "e"} = {}
      OBVIOUS
    <3> QED BY <3>1, FS_EmptySet DEF Units
  <2>3. \A s \in SUBSET D : units[s] = Body(units)[s]
    BY <2>1, <2>2
  <2> QED BY <2>3
<1>4. iter = Body(iter)
  <2> HIDE DEF Body, units
  <2> QED BY <1>3
<1> HIDE DEF iter, D, n
<1>5. iter[{}] = 0
  BY <1>4
<1>6. ASSUME NEW k \in Nat, k + 1 <= n
      PROVE  iter[1 .. (k + 1)] = iter[1 .. k] + Width16(text[k + 1])
  <2>1. 1 .. (k + 1) \in SUBSET D
    BY <1>2, <1>6
  <2> DEFINE s == 1 .. (k + 1)
  <2>2. Max(s) = k + 1 /\ s \ {Max(s)} = 1 .. k /\ s # {}
    BY LastOfPrefix
  <2> HIDE DEF s
  <2>3. iter[s] = iter[s \ {Max(s)}] + Width16(text[Max(s)])
    BY <1>4, <2>1, <2>2 DEF s
  <2> QED BY <2>2, <2>3 DEF s
<1> DEFINE S == {k \in Nat : iter[1 .. k] = Units(text, 1 .. k)}
<1>7. 0 \in S
  <2>1. {i \in {} : text[i] = "e"} = {} /\ 1 .. 0 = {}
    OBVIOUS
  <2>2. Units(text, {}) = 0
    BY <2>1, FS_EmptySet DEF Units
  <2> QED BY <1>5, <2>1, <2>2
<1>8. ASSUME NEW k \in Nat, k \in S, k < n PROVE k + 1 \in S
  <2>1. Units(text, 1 .. (k + 1)) = Units(text, 1 .. k) + Width16(text[k + 1])
    <3>1. IsFiniteSet(1 .. (k + 1))
      BY FS_Interval
    <3>2. k + 1 \in 1 .. (k + 1) /\ (1 .. (k + 1)) \ {k + 1} = 1 .. k
      OBVIOUS
    <3> QED BY <3>1, <3>2, UnitsStep
  <2>2. k + 1 <= n
    BY <1>2, <1>8
  <2> QED BY <1>6, <1>8, <2>1, <2>2
<1>9. iter[1 .. n] = Units(text, 1 .. n)
  <2>1. n \in 0 .. n
    BY <1>2
  <2> HIDE DEF S
  <2>2. n \in S
    BY <1>2, <1>7, <1>8, <2>1, UpTo
  <2> QED BY <2>2 DEF S
<1> QED BY <1>1, <1>2, <1>9 DEF n

\* The characters before a position, counted in UTF-16 units.
LEMMA BeforeCounts ==
  ASSUME NEW X, NEW text \in Seq(X), NEW i \in 1 .. (Len(text) + 1)
  PROVE  Before(text, i) = Units(text, 1 .. (i - 1)) /\ Before(text, i) \in Nat
<1> DEFINE head == SubSeq(text, 1, i - 1)
           E(t) == {k \in 1 .. (i - 1) : t[k] = "e"}
<1>1. Len(text) \in Nat /\ DOMAIN text = 1 .. Len(text)
  BY LenProperties
<1>2. head \in Seq(X) /\ Len(head) = i - 1 /\ \A k \in 1 .. (i - 1) : head[k] = text[k]
  BY <1>1, SubSeqProperties
<1> HIDE DEF head
<1>3. E(head) = E(text)
  BY <1>2
<1>4. Units(head, 1 .. (i - 1)) = Units(text, 1 .. (i - 1))
  BY <1>3 DEF Units
<1>5. Units(text, 1 .. (i - 1)) \in Nat
  <2>1. IsFiniteSet(1 .. (i - 1)) /\ Cardinality(1 .. (i - 1)) \in Nat
    <3> DEFINE k == i - 1
    <3>1. k \in Int /\ 1 \in Int
      BY <1>1
    <3> HIDE DEF k
    <3>2. IsFiniteSet(1 .. k)
      BY <3>1, FS_Interval
    <3>3. Cardinality(1 .. k) \in Nat
      BY <3>2, FS_CardinalityType
    <3> QED BY <3>2, <3>3 DEF k
  <2>2. IsFiniteSet(E(text)) /\ Cardinality(E(text)) \in Nat
    BY <2>1, FS_Subset, FS_CardinalityType
  <2>3. Units(text, 1 .. (i - 1)) = Cardinality(1 .. (i - 1)) + Cardinality(E(text))
    BY DEF Units
  <2> QED BY <2>1, <2>2, <2>3
<1> QED BY <1>2, <1>4, <1>5, Utf16Counts DEF Before, head

LEMMA BeforeStep ==
  ASSUME NEW X, NEW text \in Seq(X)
  PROVE  /\ Before(text, 1) = 0
         /\ \A i \in 1 .. Len(text) : /\ Before(text, i) \in Nat /\ Before(text, i + 1) \in Nat
                                      /\ Before(text, i + 1) = Before(text, i) + Width16(text[i])
<1>1. Len(text) \in Nat
  BY LenProperties
<1>2. Before(text, 1) = 0
  <2>1. 1 \in 1 .. (Len(text) + 1) /\ 1 .. (1 - 1) = {} /\ {k \in {} : text[k] = "e"} = {}
    BY <1>1
  <2>2. Units(text, {}) = 0
    BY <2>1, FS_EmptySet DEF Units
  <2> QED BY <2>1, <2>2, BeforeCounts
<1>3. ASSUME NEW i \in 1 .. Len(text)
      PROVE  /\ Before(text, i) \in Nat /\ Before(text, i + 1) \in Nat
             /\ Before(text, i + 1) = Before(text, i) + Width16(text[i])
  <2>1. i \in 1 .. (Len(text) + 1) /\ i + 1 \in 1 .. (Len(text) + 1)
    BY <1>1
  <2>2. /\ Before(text, i) = Units(text, 1 .. (i - 1)) /\ Before(text, i) \in Nat
        /\ Before(text, i + 1) = Units(text, 1 .. ((i + 1) - 1)) /\ Before(text, i + 1) \in Nat
    BY <2>1, BeforeCounts
  <2>3. (i + 1) - 1 = i
    OBVIOUS
  <2>4. IsFiniteSet(1 .. i) /\ i \in 1 .. i /\ (1 .. i) \ {i} = 1 .. (i - 1)
    <3>1. i \in Int /\ i >= 1 /\ 1 \in Int
      BY <1>1
    <3>2. IsFiniteSet(1 .. i)
      BY <3>1, FS_Interval
    <3> QED BY <3>1, <3>2
  <2>5. Units(text, 1 .. i) = Units(text, 1 .. (i - 1)) + Width16(text[i])
    BY <2>4, UnitsStep
  <2> QED BY <2>2, <2>3, <2>5
<1> QED BY <1>2, <1>3

\* Later characters start at later units.
LEMMA BeforeIncreases ==
  ASSUME NEW X, NEW text \in Seq(X), NEW i \in 1 .. (Len(text) + 1)
  PROVE  \A j \in 1 .. (Len(text) + 1) : /\ Before(text, i) \in Nat /\ Before(text, j) \in Nat
                                         /\ i <= j <=> Before(text, i) <= Before(text, j)
<1> DEFINE n == Len(text)
           B(k) == Before(text, k)
<1>1. n \in Nat
  BY LenProperties
<1>2. \A k \in 1 .. (n + 1) : B(k) \in Nat
  BY BeforeCounts
<1>3. \A k \in 1 .. n : B(k + 1) > B(k)
  <2>1. \A k \in 1 .. n : B(k) \in Nat /\ B(k + 1) = B(k) + Width16(text[k])
    BY BeforeStep
  <2>2. \A ch : Width16(ch) \in {1, 2}
    BY DEF Width16
  <2> HIDE DEF B, n
  <2> QED BY <2>1, <2>2
<1> HIDE DEF B, n
<1>4. ASSUME NEW a \in 1 .. (n + 1) PROVE \A k \in 0 .. (n + 1 - a) : B(a + k) >= B(a) + k
  <2> DEFINE S == {k \in Nat : a + k <= n + 1 => B(a + k) >= B(a) + k}
  <2>1. 0 \in S
    BY <1>2
  <2>2. ASSUME NEW k \in Nat, k \in S PROVE k + 1 \in S
    <3> SUFFICES ASSUME a + (k + 1) <= n + 1 PROVE B(a + (k + 1)) >= B(a) + (k + 1)
      OBVIOUS
    <3>1. a + k \in 1 .. n /\ (a + k) + 1 = a + (k + 1) /\ B(a + k) >= B(a) + k
      BY <1>1, <2>2
    <3>2. B((a + k) + 1) > B(a + k)
      BY <1>3, <3>1
    <3>3. B((a + k) + 1) \in Nat /\ B(a + k) \in Nat /\ B(a) \in Nat
      BY <1>1, <1>2, <3>1
    <3> QED BY <3>1, <3>2, <3>3
  <2>3. 0 .. (n + 1 - a) \subseteq S
    <3>1. n + 1 - a \in Nat
      BY <1>1
    <3> HIDE DEF S
    <3> QED BY <2>1, <2>2, <3>1, UpTo
  <2> QED BY <1>1, <2>3
<1>5. ASSUME NEW a \in 1 .. (n + 1), NEW b \in 1 .. (n + 1), a <= b PROVE B(b) >= B(a) + (b - a)
  <2>1. b - a \in 0 .. (n + 1 - a) /\ a + (b - a) = b
    BY <1>1, <1>5
  <2>2. B(a + (b - a)) >= B(a) + (b - a)
    BY <1>4, <2>1
  <2> QED BY <2>1, <2>2
<1>6. ASSUME NEW j \in 1 .. (n + 1) PROVE i <= j <=> B(i) <= B(j)
  <2>0. i \in 1 .. (n + 1) /\ B(i) \in Nat /\ B(j) \in Nat
    BY <1>2 DEF n
  <2>1. CASE i <= j
    <3>1. B(j) >= B(i) + (j - i)
      BY <1>5, <2>0, <2>1
    <3> QED BY <2>0, <2>1, <3>1
  <2>2. CASE ~(i <= j)
    <3>1. B(i) >= B(j) + (i - j)
      BY <1>5, <2>0, <2>2
    <3> QED BY <2>0, <2>2, <3>1
  <2> QED BY <2>1, <2>2
<1>7. \A j \in 1 .. (n + 1) : B(j) \in Nat
  BY <1>2
<1> QED BY <1>6, <1>7 DEF B, n

\* The characters of a part of a text.
LEMMA BeforeWithin ==
  ASSUME NEW X, NEW text \in Seq(X), NEW a \in 1 .. Len(text), NEW b \in a .. Len(text)
  PROVE  LET part == SubSeq(text, a, b) IN
         /\ part \in Seq(X) /\ Len(part) = b - a + 1
         /\ \A k \in 1 .. (b - a + 2) : Before(part, k) = Before(text, a + k - 1) - Before(text, a)
         /\ Utf16(part) = Before(text, b + 1) - Before(text, a)
<1> DEFINE part == SubSeq(text, a, b)
           n == Len(text)
           P(k) == Before(part, k)
           B(k) == Before(text, k)
<1>1. n \in Nat /\ part \in Seq(X) /\ Len(part) = b - a + 1 /\ \A k \in 1 .. (b - a + 1) : part[k] = text[a + k - 1]
  BY LenProperties, SubSeqProperties
<1>2. P(1) = 0 /\ \A k \in 1 .. (b - a + 1) : P(k) \in Nat /\ P(k + 1) \in Nat /\ P(k + 1) = P(k) + Width16(part[k])
  BY <1>1, BeforeStep
<1>3. \A k \in 1 .. n : B(k) \in Nat /\ B(k + 1) \in Nat /\ B(k + 1) = B(k) + Width16(text[k])
  BY BeforeStep
<1>4. Utf16(part) = P(b - a + 2)
  <2>1. SubSeq(part, 1, Len(part)) = part
    BY <1>1
  <2>2. (b - a + 2) - 1 = Len(part)
    BY <1>1
  <2> QED BY <2>1, <2>2 DEF Before
<1> HIDE DEF part, P, B, n
<1>5. \A k \in 0 .. (b - a + 1) : P(k + 1) = B(a + k) - B(a)
  <2> DEFINE S == {k \in Nat : k <= b - a + 1 => P(k + 1) = B(a + k) - B(a)}
  <2>1. 0 \in S
    BY <1>1, <1>2, <1>3 DEF n
  <2>2. ASSUME NEW k \in Nat, k \in S PROVE k + 1 \in S
    <3> SUFFICES ASSUME k + 1 <= b - a + 1 PROVE P((k + 1) + 1) = B(a + (k + 1)) - B(a)
      OBVIOUS
    <3>1. k + 1 \in 1 .. (b - a + 1) /\ a + k \in 1 .. n /\ a \in 1 .. n /\ a + (k + 1) - 1 = a + k
          /\ (a + k) + 1 = a + (k + 1) /\ P(k + 1) = B(a + k) - B(a)
      BY <1>1, <2>2 DEF n
    <3>2. P((k + 1) + 1) = P(k + 1) + Width16(part[k + 1]) /\ part[k + 1] = text[a + k]
      BY <1>1, <1>2, <3>1
    <3>3. B(a + (k + 1)) = B(a + k) + Width16(text[a + k]) /\ B(a + k) \in Nat /\ B(a) \in Nat
      BY <1>3, <3>1
    <3>4. Width16(text[a + k]) \in Nat
      BY DEF Width16
    <3> QED BY <3>1, <3>2, <3>3, <3>4
  <2>3. 0 .. (b - a + 1) \subseteq S
    <3>1. b - a + 1 \in Nat
      BY <1>1 DEF n
    <3> HIDE DEF S
    <3> QED BY <2>1, <2>2, <3>1, UpTo
  <2> QED BY <2>3
<1>6. \A k \in 1 .. (b - a + 2) : P(k) = B(a + k - 1) - B(a)
  <2> SUFFICES ASSUME NEW k \in 1 .. (b - a + 2) PROVE P(k) = B(a + k - 1) - B(a)
    OBVIOUS
  <2>1. k - 1 \in 0 .. (b - a + 1) /\ (k - 1) + 1 = k /\ a + (k - 1) = a + k - 1
    BY <1>1 DEF n
  <2> QED BY <1>5, <2>1
<1>7. b - a + 2 \in 1 .. (b - a + 2) /\ a + (b - a + 2) - 1 = b + 1
  BY <1>1 DEF n
<1> QED BY <1>1, <1>4, <1>6, <1>7 DEF part, P, B

\* The argument is a part of the text.
LEMMA FirstOfFound ==
  ASSUME NEW X, NEW text \in Seq(X), NEW from \in Nat, NEW space, FirstOf(text, from, space) # 0
  PROVE  /\ FirstOf(text, from, space) \in from .. Len(text)
         /\ (text[FirstOf(text, from, space)] = "s") = space
<1> DEFINE at == {i \in from .. Len(text) : (text[i] = "s") = space}
<1>1. Len(text) \in Nat
  BY LenProperties
<1>2. at # {} /\ FirstOf(text, from, space) = Min(at)
  BY DEF FirstOf, Min
<1>3. at \in SUBSET Nat
  BY <1>1
<1>4. Min(at) \in at
  <2> HIDE DEF at
  <2> QED BY <1>2, <1>3, LeastOf
<1> QED BY <1>2, <1>4

LEMMA SpanWithin ==
  ASSUME NEW X, NEW text \in Seq(X), ArgumentSpan(text)[1] # 0
  PROVE  LET s == ArgumentSpan(text) IN s[1] \in 1 .. Len(text) /\ s[2] \in s[1] .. Len(text)
<1> DEFINE name == FirstOf(text, 2, FALSE)
           gap == IF name = 0 THEN 0 ELSE FirstOf(text, name, TRUE)
           first == IF gap = 0 THEN 0 ELSE FirstOf(text, gap, FALSE)
           at == {i \in DOMAIN text : text[i] # "s"}
<1>1. Len(text) \in Nat /\ DOMAIN text = 1 .. Len(text)
  BY LenProperties
<1>2. ArgumentSpan(text)[1] = first /\ (first # 0 => ArgumentSpan(text)[2] = LastWord(text))
  BY DEF ArgumentSpan
<1>3. first # 0 /\ gap # 0 /\ name # 0
  BY <1>2
<1>4. name \in 2 .. Len(text)
  BY <1>3, FirstOfFound
<1>5. gap \in name .. Len(text)
  <2>1. gap = FirstOf(text, name, TRUE)
    BY <1>3
  <2> HIDE DEF name, gap
  <2>2. name \in Nat
    BY <1>4
  <2> QED BY <1>3, <2>1, <2>2, FirstOfFound
<1>6. first \in gap .. Len(text) /\ text[first] # "s"
  <2>1. first = FirstOf(text, gap, FALSE)
    BY <1>3
  <2> HIDE DEF name, gap, first
  <2>2. gap \in Nat
    BY <1>4, <1>5
  <2>3. first \in gap .. Len(text) /\ (text[first] = "s") = FALSE
    BY <1>3, <2>1, <2>2, FirstOfFound
  <2> QED BY <2>3
<1> HIDE DEF name, gap, first
<1>7. first \in 1 .. Len(text)
  BY <1>1, <1>4, <1>5, <1>6
<1>8. first \in at /\ at \in SUBSET (1 .. Len(text))
  BY <1>1, <1>6, <1>7
<1>9. LastWord(text) = Max(at)
  BY DEF LastWord, Max
<1>10. Max(at) \in at /\ Max(at) >= first
  <2> HIDE DEF at
  <2> QED BY <1>1, <1>8, GreatestOf
<1>11. LastWord(text) \in first .. Len(text)
  <2> DEFINE m == Max(at)
  <2>1. m \in 1 .. Len(text) /\ m >= first
    <3> HIDE DEF at
    <3> QED BY <1>8, <1>10
  <2>2. LastWord(text) = m
    BY <1>9
  <2> HIDE DEF m
  <2> QED BY <1>1, <1>7, <2>1, <2>2
<1> QED BY <1>2, <1>3, <1>7, <1>11

\* In every text, a custom emoji of a module command's argument is reported at the same characters of
\* the argument, whatever precedes it takes one or two UTF-16 units, and any other is left out.
THEOREM EntitiesStayOnTheirCharacters ==
  ASSUME NEW X, NEW text \in Seq(X), NEW i \in 1 .. Len(text), NEW j \in i .. Len(text)
  PROVE  Aligned(text, EntityAt(text, i, j), CommandArgumentEntities(text, {EntityAt(text, i, j)}))
<1> DEFINE n == Len(text)
           B(k) == Before(text, k)
           e == EntityAt(text, i, j)
           s == ArgumentSpan(text)
           reported == CommandArgumentEntities(text, {e})
<1>1. n \in Nat /\ DOMAIN text = 1 .. n /\ i \in 1 .. (n + 1) /\ j + 1 \in 1 .. (n + 1) /\ j \in 1 .. n /\ i <= j
  BY LenProperties
<1>2. \A k \in 1 .. (n + 1) : B(k) \in Nat
  BY BeforeCounts
<1>3. \A k, l \in 1 .. (n + 1) : k <= l <=> B(k) <= B(l)
  BY BeforeIncreases
<1>4. e = [offset |-> B(i), length |-> B(j + 1) - B(i)]
  BY DEF EntityAt
<1>5. e.offset = B(i) /\ e.length = B(j + 1) - B(i) /\ e.offset + e.length = B(j + 1) /\ e.length > 0
  <2>1. B(i) \in Nat /\ B(j + 1) \in Nat /\ ~(B(j + 1) <= B(i))
    BY <1>1, <1>2, <1>3
  <2> HIDE DEF B, e
  <2> QED BY <1>4, <2>1
<1>6. Covered(text, e) = i .. j
  <2>1. Covered(text, e) = {k \in 1 .. n : B(k) >= B(i) /\ B(k + 1) <= B(j + 1)}
    BY <1>1, <1>5 DEF Covered
  <2>2. \A k \in 1 .. n : (B(k) >= B(i) <=> i <= k) /\ (B(k + 1) <= B(j + 1) <=> k <= j)
    <3> HIDE DEF B, n
    <3> SUFFICES ASSUME NEW k \in 1 .. n PROVE (B(k) >= B(i) <=> i <= k) /\ (B(k + 1) <= B(j + 1) <=> k <= j)
      OBVIOUS
    <3>1. k \in 1 .. (n + 1) /\ k + 1 \in 1 .. (n + 1) /\ (k + 1 <= j + 1 <=> k <= j)
      BY <1>1
    <3>2. B(k) \in Nat /\ B(i) \in Nat /\ (i <= k <=> B(i) <= B(k)) /\ (k + 1 <= j + 1 <=> B(k + 1) <= B(j + 1))
      BY <1>1, <1>2, <1>3, <3>1
    <3> QED BY <3>1, <3>2
  <2> HIDE DEF B, n, e
  <2> QED BY <1>1, <2>1, <2>2
<1>7. CASE s[1] = 0
  <2>1. reported = {}
    BY <1>7 DEF CommandArgumentEntities
  <2> QED BY <1>7, <2>1 DEF Aligned
<1>8. CASE s[1] # 0
  <2> DEFINE a == s[1]
             b == s[2]
             arg == SubSeq(text, a, b)
             P(k) == Before(arg, k)
  <2>1. a \in 1 .. n /\ b \in a .. n
    BY <1>8, SpanWithin
  <2>2. ArgumentText(text) = arg
    BY <1>8 DEF ArgumentText
  <2>3. /\ arg \in Seq(X) /\ Len(arg) = b - a + 1
        /\ \A k \in 1 .. (b - a + 2) : P(k) = B(a + k - 1) - B(a)
        /\ Utf16(arg) = B(b + 1) - B(a)
    <3> DEFINE a0 == a
               b0 == b
    <3> HIDE DEF a0, b0
    <3>1. a0 \in 1 .. Len(text) /\ b0 \in a0 .. Len(text)
      BY <2>1 DEF a0, b0
    <3>2. LET part == SubSeq(text, a0, b0) IN
          /\ part \in Seq(X) /\ Len(part) = b0 - a0 + 1
          /\ \A k \in 1 .. (b0 - a0 + 2) : Before(part, k) = Before(text, a0 + k - 1) - Before(text, a0)
          /\ Utf16(part) = Before(text, b0 + 1) - Before(text, a0)
      BY <3>1, BeforeWithin
    <3> QED BY <3>2 DEF a0, b0
  <2> DEFINE f == [offset |-> B(i) - B(a), length |-> B(j + 1) - B(i)]
  <2>4. /\ a \in 1 .. (n + 1) /\ b + 1 \in 1 .. (n + 1) /\ a <= b
        /\ B(a) \in Nat /\ B(b + 1) \in Nat /\ B(a) + (B(b + 1) - B(a)) = B(b + 1)
    <3> HIDE DEF a, b, B, n
    <3>1. a \in 1 .. (n + 1) /\ b + 1 \in 1 .. (n + 1) /\ a <= b
      BY <1>1, <2>1
    <3>2. B(a) \in Nat /\ B(b + 1) \in Nat
      BY <1>2, <3>1
    <3> QED BY <3>1, <3>2
  <2>5. reported = ProjectCustomEmojiEntities({e}, B(a), B(b + 1))
    <3>1. Utf16(SubSeq(text, 1, s[1] - 1)) = B(a)
      BY DEF Before
    <3>2. Utf16(ArgumentText(text)) = B(b + 1) - B(a)
      BY <2>2, <2>3
    <3>3. reported = ProjectCustomEmojiEntities({e}, B(a), B(a) + Utf16(ArgumentText(text)))
      BY <1>8, <3>1 DEF CommandArgumentEntities
    <3> HIDE DEF reported, a, b, B, s, e
    <3> QED BY <2>4, <3>2, <3>3
  <2>6. reported = IF a <= i /\ j <= b THEN {f} ELSE {}
    <3>1. (B(i) >= B(a) <=> a <= i) /\ (B(j + 1) <= B(b + 1) <=> j <= b)
      <4> HIDE DEF B, a, b, n
      <4>1. (a <= i <=> B(a) <= B(i)) /\ (j + 1 <= b + 1 <=> B(j + 1) <= B(b + 1)) /\ B(i) \in Nat
        BY <1>1, <1>2, <1>3, <2>4
      <4>2. j + 1 <= b + 1 <=> j <= b
        BY <1>1, <2>1
      <4> QED BY <2>4, <4>1, <4>2
    <3> DEFINE kept == {x \in {e} : x.offset >= B(a) /\ x.offset + x.length <= B(b + 1) /\ x.length > 0}
    <3>2. reported = {[offset |-> x.offset - B(a), length |-> x.length] : x \in kept}
      BY <2>5 DEF ProjectCustomEmojiEntities
    <3>3. kept = IF a <= i /\ j <= b THEN {e} ELSE {}
      <4> HIDE DEF B, a, b, e
      <4> QED BY <1>5, <3>1
    <3> HIDE DEF kept, reported, B, a, b, e
    <3>4. [offset |-> e.offset - B(a), length |-> e.length] = f
      BY <1>5
    <3> QED BY <3>2, <3>3, <3>4
  <2>7. Covered(text, e) \subseteq a .. b <=> a <= i /\ j <= b
    <3> HIDE DEF a, b, e, n
    <3>1. i \in i .. j /\ j \in i .. j /\ a \in Int /\ b \in Int
      BY <1>1, <2>1
    <3> QED BY <1>1, <1>6, <3>1
  <2>8. ASSUME a <= i, j <= b
        PROVE  Covered(ArgumentText(text), f) = {k - a + 1 : k \in Covered(text, e)}
    <3>1. DOMAIN arg = 1 .. (b - a + 1)
      BY <2>3, LenProperties
    <3>2. f.offset = B(i) - B(a) /\ f.length = B(j + 1) - B(i) /\ f.offset + f.length = B(j + 1) - B(a)
      <4>1. B(i) \in Nat /\ B(j + 1) \in Nat
        BY <1>1, <1>2
      <4> HIDE DEF B, a
      <4> QED BY <2>4, <4>1
    <3>3. Covered(arg, f) = {k \in 1 .. (b - a + 1) : P(k) >= B(i) - B(a) /\ P(k + 1) <= B(j + 1) - B(a)}
      <4>1. Covered(arg, f) = {k \in DOMAIN arg : P(k) >= f.offset /\ P(k + 1) <= f.offset + f.length}
        BY DEF Covered
      <4> HIDE DEF f, P, B, arg, a, b
      <4> QED BY <3>1, <3>2, <4>1
    <3> HIDE DEF f, P, B, arg, a, b, n, e
    <3>4. ASSUME NEW k \in 1 .. (b - a + 1)
          PROVE  P(k) >= B(i) - B(a) /\ P(k + 1) <= B(j + 1) - B(a) <=> k \in (i - a + 1) .. (j - a + 1)
      <4>1. /\ k \in 1 .. (b - a + 2) /\ k + 1 \in 1 .. (b - a + 2) /\ a + (k + 1) - 1 = a + k
            /\ a + k - 1 \in 1 .. (n + 1) /\ a + k \in 1 .. (n + 1)
        BY <1>1, <2>1
      <4>2. P(k) = B(a + k - 1) - B(a) /\ P(k + 1) = B(a + k) - B(a)
        BY <2>3, <4>1
      <4>3. /\ B(a + k - 1) \in Nat /\ B(a + k) \in Nat /\ B(i) \in Nat /\ B(j + 1) \in Nat
            /\ i <= a + k - 1 <=> B(i) <= B(a + k - 1)
            /\ a + k <= j + 1 <=> B(a + k) <= B(j + 1)
        BY <1>1, <1>2, <1>3, <4>1
      <4>4. P(k) >= B(i) - B(a) <=> i <= a + k - 1
        BY <2>4, <4>2, <4>3
      <4>5. P(k + 1) <= B(j + 1) - B(a) <=> a + k <= j + 1
        BY <2>4, <4>2, <4>3
      <4>6. k \in (i - a + 1) .. (j - a + 1) <=> i <= a + k - 1 /\ a + k <= j + 1
        BY <1>1, <2>1
      <4> QED BY <4>4, <4>5, <4>6
    <3>5. (i - a + 1) .. (j - a + 1) \subseteq 1 .. (b - a + 1)
      BY <1>1, <2>1, <2>8
    <3>6. Covered(arg, f) = (i - a + 1) .. (j - a + 1)
      BY <3>3, <3>4, <3>5
    <3>7. (i - a + 1) .. (j - a + 1) = {k - a + 1 : k \in i .. j}
      <4>1. ASSUME NEW q \in (i - a + 1) .. (j - a + 1) PROVE \E k \in i .. j : q = k - a + 1
        <5>1. q + a - 1 \in i .. j /\ q = (q + a - 1) - a + 1
          BY <1>1, <2>1
        <5> QED BY <5>1
      <4>2. ASSUME NEW k \in i .. j PROVE k - a + 1 \in (i - a + 1) .. (j - a + 1)
        BY <1>1, <2>1
      <4> QED BY <4>1, <4>2
    <3> QED BY <1>6, <2>2, <3>6, <3>7
  <2> HIDE DEF f, e, reported
  <2>9. CASE a <= i /\ j <= b
    <3>1. reported = {f} /\ Covered(ArgumentText(text), f) = {k - s[1] + 1 : k \in Covered(text, e)}
      BY <2>6, <2>8, <2>9
    <3>2. s[1] # 0 /\ Covered(text, e) \subseteq s[1] .. s[2]
      BY <1>8, <2>7, <2>9
    <3>3. Aligned(text, e, reported)
      BY <3>1, <3>2 DEF Aligned
    <3> QED BY <3>3 DEF reported, e
  <2>10. CASE ~(a <= i /\ j <= b)
    <3>1. reported = {} /\ ~(Covered(text, e) \subseteq s[1] .. s[2])
      BY <2>6, <2>7, <2>10
    <3>2. Aligned(text, e, reported)
      BY <3>1 DEF Aligned
    <3> QED BY <3>2 DEF reported, e
  <2> QED BY <2>9, <2>10
<1> QED BY <1>7, <1>8

\* What the run checks of commands and of their entities, in every state.
THEOREM RoutingAlwaysSound == ProtocolsSpec => []RoutingInv
<1>1. ASSUME EvaluationInv PROVE AuthorityKept
  <2> SUFFICES ASSUME out.kind = "command" PROVE Authorised(job.message, out.result)
    BY DEF AuthorityKept
  <2>1. PICK m \in Sent, s \in Snapshots, a \in AliasSets :
          job = [kind |-> "command", message |-> m, snapshot |-> s, aliases |-> a]
    BY <1>1 DEF EvaluationInv, JobInv, OutInv
  <2>2. job.message = m /\ out.result = RouteText(m, s, a)
    BY <1>1, <2>1 DEF EvaluationInv, OutInv
  <2>3. \A x \in a : AliasAccepted(x.name, x.target, x.args)
    BY DEF AliasSets
  <2> QED BY <2>2, <2>3, CommandsAreAuthorised
<1>2. ASSUME EvaluationInv PROVE EntitiesAligned
  <2> SUFFICES ASSUME out.kind = "entity" PROVE Aligned(job.text, job.entity, out.result)
    BY DEF EntitiesAligned
  <2>1. PICK t \in Written : \E i \in DOMAIN t : \E j \in i .. Len(t) :
          job = [kind |-> "entity", text |-> t, entity |-> EntityAt(t, i, j)]
    BY <1>2 DEF EvaluationInv, JobInv, OutInv
  <2>2. PICK i \in DOMAIN t : \E j \in i .. Len(t) :
          job = [kind |-> "entity", text |-> t, entity |-> EntityAt(t, i, j)]
    BY <2>1
  <2>3. PICK j \in i .. Len(t) : job = [kind |-> "entity", text |-> t, entity |-> EntityAt(t, i, j)]
    BY <2>2
  <2>4. t \in Seq({"p", "s", "c", "e"})
    <3>1. PICK n \in 1 .. 6 : \E x \in [1 .. n -> {"s", "c", "e"}] : t = <<"p">> \o x
      BY DEF Written
    <3>2. PICK x \in [1 .. n -> {"s", "c", "e"}] : t = <<"p">> \o x
      BY <3>1
    <3>3. \A k \in 1 .. n : x[k] \in {"p", "s", "c", "e"}
      BY <3>2
    <3>4. x \in [1 .. n -> {"p", "s", "c", "e"}] /\ n \in Nat
      BY <3>2, <3>3
    <3>5. x \in Seq({"p", "s", "c", "e"}) /\ <<"p">> \in Seq({"p", "s", "c", "e"})
      BY <3>4, SeqDef
    <3> QED BY <3>2, <3>5, ConcatProperties
  <2>5. DOMAIN t = 1 .. Len(t)
    BY <2>4, LenProperties
  <2>6. job.text = t /\ job.entity = EntityAt(t, i, j) /\ out.result = CommandArgumentEntities(t, {EntityAt(t, i, j)})
    BY <1>2, <2>3 DEF EvaluationInv, OutInv
  <2> QED BY <2>4, <2>5, <2>6, EntitiesStayOnTheirCharacters
<1> QED BY <1>1, <1>2, EvaluationAlways, PTL DEF RoutingInv

(***************************************************************************)
(* Folds.  FoldLeft is a recursive function on the sets of positions that  *)
(* takes the last position off; that such a function exists is proved by   *)
(* the size of the sets, for a step given as a function G.                 *)
(***************************************************************************)
FoldsWith(f, D, base, G) ==
  \A s \in SUBSET D : f[s] = IF s = {} THEN base ELSE G[Max(s)][f[s \ {Max(s)}]]

LEMMA FoldExists ==
  ASSUME NEW n \in Nat, NEW V, NEW base \in V, NEW G \in [1 .. n -> [V -> V]]
  PROVE  \E f \in [SUBSET (1 .. n) -> V] : FoldsWith(f, 1 .. n, base, G)
<1> DEFINE D == 1 .. n
           Up(k) == {s \in SUBSET D : Cardinality(s) <= k}
           Good(f, k) == \A s \in Up(k) : f[s] = IF s = {} THEN base ELSE G[Max(s)][f[s \ {Max(s)}]]
           Defined == {k \in Nat : \E f \in [Up(k) -> V] : Good(f, k)}
<1>1. \A s \in SUBSET D : /\ Cardinality(s) \in Nat
                          /\ Cardinality(s) = 0 <=> s = {}
                          /\ s # {} => /\ Max(s) \in D /\ s \ {Max(s)} \in SUBSET D
                                       /\ Cardinality(s \ {Max(s)}) = Cardinality(s) - 1
  BY WithoutLast
<1> HIDE DEF D
<1>2. 0 \in Defined
  <2> DEFINE f == [s \in Up(0) |-> base]
  <2>1. ASSUME NEW s \in Up(0) PROVE s = {}
    <3>1. s \in SUBSET D /\ Cardinality(s) <= 0
      OBVIOUS
    <3>2. Cardinality(s) \in Nat /\ (Cardinality(s) = 0 <=> s = {})
      BY <1>1, <3>1
    <3>3. Cardinality(s) = 0
      BY <3>1, <3>2
    <3> QED BY <3>2, <3>3
  <2>2. f \in [Up(0) -> V] /\ Good(f, 0)
    BY <2>1
  <2> QED BY <2>2
<1>3. ASSUME NEW k \in Nat, k \in Defined PROVE k + 1 \in Defined
  <2>1. PICK f \in [Up(k) -> V] : Good(f, k)
    BY <1>3
  <2> DEFINE g == [s \in Up(k + 1) |->
                     IF s = {} THEN base
                     ELSE G[Max(s)][f[s \ {Max(s)}]]]
  <2>2. ASSUME NEW s \in Up(k + 1), s # {}
        PROVE  s \ {Max(s)} \in Up(k) /\ Max(s) \in D /\ s \ {Max(s)} \in Up(k + 1)
    <3>1. s \in SUBSET D /\ Cardinality(s) <= k + 1
      OBVIOUS
    <3>2. /\ Cardinality(s) \in Nat /\ Cardinality(s \ {Max(s)}) = Cardinality(s) - 1
          /\ Max(s) \in D /\ s \ {Max(s)} \in SUBSET D
      BY <1>1, <2>2, <3>1
    <3>3. Cardinality(s \ {Max(s)}) <= k /\ Cardinality(s \ {Max(s)}) <= k + 1
      BY <3>1, <3>2
    <3> QED BY <3>2, <3>3
  <2>3. g \in [Up(k + 1) -> V]
    <3>1. ASSUME NEW s \in Up(k + 1), s # {} PROVE G[Max(s)][f[s \ {Max(s)}]] \in V
      <4>1. s \ {Max(s)} \in Up(k) /\ Max(s) \in D
        BY <2>2, <3>1
      <4>2. f[s \ {Max(s)}] \in V
        <5> HIDE DEF Up
        <5> QED BY <2>1, <4>1
      <4>3. G \in [D -> [V -> V]]
        BY DEF D
      <4> HIDE DEF Up
      <4> QED BY <4>1, <4>2, <4>3
    <3> HIDE DEF Up
    <3> QED BY <3>1
  <2>4. ASSUME NEW s \in Up(k) PROVE g[s] = f[s]
    <3>1. s \in Up(k + 1)
      <4>1. s \in SUBSET D /\ Cardinality(s) <= k
        OBVIOUS
      <4>2. Cardinality(s) \in Nat
        BY <1>1, <4>1
      <4>3. Cardinality(s) <= k + 1
        BY <4>1, <4>2
      <4> QED BY <4>1, <4>3
    <3>2. f[s] = IF s = {} THEN base ELSE G[Max(s)][f[s \ {Max(s)}]]
      BY <2>1
    <3> HIDE DEF Up
    <3> QED BY <3>1, <3>2
  <2>5. ASSUME NEW s \in Up(k + 1)
        PROVE  g[s] = IF s = {} THEN base ELSE G[Max(s)][g[s \ {Max(s)}]]
    <3>1. s # {} => g[s \ {Max(s)}] = f[s \ {Max(s)}]
      BY <2>2, <2>4
    <3> HIDE DEF Up
    <3> QED BY <3>1
  <2> HIDE DEF g, Up
  <2>6. Good(g, k + 1)
    BY <2>5
  <2>7. \E h \in [Up(k + 1) -> V] : Good(h, k + 1)
    <3> HIDE DEF Good
    <3> QED BY <2>3, <2>6
  <2> HIDE DEF Good
  <2>8. k + 1 \in Nat
    OBVIOUS
  <2> QED BY <2>7, <2>8
<1>4. n \in Defined
  <2> HIDE DEF Defined
  <2>1. 0 .. n \subseteq Defined
    BY <1>2, <1>3, UpTo
  <2> QED BY <2>1
<1>5. Up(n) = SUBSET D
  <2>1. IsFiniteSet(D) /\ Cardinality(D) = n
    BY FS_Interval DEF D
  <2>2. ASSUME NEW s \in SUBSET D PROVE Cardinality(s) <= n
    BY <2>1, FS_Subset
  <2> QED BY <2>2
<1>6. PICK f \in [Up(n) -> V] : Good(f, n)
  <2> HIDE DEF Up
  <2> QED BY <1>4
<1> QED BY <1>5, <1>6 DEF FoldsWith, D

\* What the recursion does as long as its values are in V; and its values on the prefixes.
StepsIn(it, n, V, base, G) ==
  /\ it[{}] = base
  /\ \A s \in SUBSET (1 .. n) :
       s # {} /\ it[s \ {Max(s)}] \in V => it[s] = G[Max(s)][it[s \ {Max(s)}]]
PrefixesOf(t, n, base, G, result) ==
  t[0] = base /\ t[n] = result /\ \A k \in 1 .. n : t[k] = G[k][t[k - 1]]

\* A fold, prefix by prefix: its values stay in V and each is a step from the one before.
LEMMA FoldPrefixes ==
  ASSUME NEW n \in Nat, NEW V, NEW base \in V, NEW G \in [1 .. n -> [V -> V]], NEW it, StepsIn(it, n, V, base, G)
  PROVE  \E t \in [0 .. n -> V] : PrefixesOf(t, n, base, G, it[1 .. n])
<1>0. /\ it[{}] = base
      /\ \A s \in SUBSET (1 .. n) :
           s # {} /\ it[s \ {Max(s)}] \in V => it[s] = G[Max(s)][it[s \ {Max(s)}]]
  BY DEF StepsIn
<1> DEFINE S == {k \in Nat : it[1 .. k] \in V}
<1>1. 1 .. 0 = {}
  OBVIOUS
<1>2. ASSUME NEW k \in Nat, k < n, it[1 .. k] \in V
      PROVE  it[1 .. (k + 1)] = G[k + 1][it[1 .. k]] /\ it[1 .. (k + 1)] \in V
  <2>1. 1 .. (k + 1) \in SUBSET (1 .. n) /\ k + 1 \in 1 .. n
    BY <1>2
  <2>2. Max(1 .. (k + 1)) = k + 1 /\ (1 .. (k + 1)) \ {Max(1 .. (k + 1))} = 1 .. k /\ 1 .. (k + 1) # {}
    BY LastOfPrefix
  <2> DEFINE s == 1 .. (k + 1)
  <2> HIDE DEF s
  <2>3. it[s] = G[Max(s)][it[s \ {Max(s)}]]
    BY <1>0, <1>2, <2>1, <2>2 DEF s
  <2>4. it[s] = G[k + 1][it[1 .. k]]
    BY <2>2, <2>3 DEF s
  <2>5. G[k + 1] \in [V -> V]
    BY <2>1
  <2>6. it[s] \in V
    BY <1>2, <2>4, <2>5
  <2> QED BY <2>4, <2>6 DEF s
<1>3. 0 \in S
  BY <1>0, <1>1
<1>4. ASSUME NEW k \in Nat, k \in S, k < n PROVE k + 1 \in S
  <2>1. it[1 .. k] \in V
    BY <1>4
  <2>2. it[1 .. (k + 1)] \in V
    BY <1>2, <1>4, <2>1
  <2>3. k + 1 \in Nat
    OBVIOUS
  <2> QED BY <2>2, <2>3
<1>5. 0 .. n \subseteq S
  <2> HIDE DEF S
  <2> QED BY <1>3, <1>4, UpTo
<1> DEFINE t == [k \in 0 .. n |-> it[1 .. k]]
<1>6. t \in [0 .. n -> V]
  BY <1>5
<1>7. t[0] = base /\ t[n] = it[1 .. n]
  BY <1>0, <1>1
<1>8. ASSUME NEW k \in 1 .. n PROVE t[k] = G[k][t[k - 1]]
  <2>1. k - 1 \in Nat /\ k - 1 < n /\ k - 1 \in 0 .. n /\ k \in 0 .. n /\ (k - 1) + 1 = k
    OBVIOUS
  <2>2. it[1 .. (k - 1)] \in V
    BY <1>5, <2>1
  <2> DEFINE j == k - 1
  <2>3. it[1 .. (j + 1)] = G[j + 1][it[1 .. j]]
    <3> HIDE DEF j
    <3> QED BY <1>2, <2>1, <2>2 DEF j
  <2> QED BY <2>1, <2>3
<1> HIDE DEF t
<1> QED BY <1>6, <1>7, <1>8 DEF PrefixesOf

\* The sum of a sequence, prefix by prefix.
LEMMA TotalPrefixes ==
  ASSUME NEW chunks \in Seq(Int)
  PROVE  \E t \in [0 .. Len(chunks) -> Int] :
           t[0] = 0 /\ t[Len(chunks)] = Total(chunks) /\ \A k \in 1 .. Len(chunks) : t[k] = t[k - 1] + chunks[k]
<1> DEFINE n == Len(chunks)
           D == DOMAIN chunks
           Body(f) == [s \in SUBSET D |-> IF s = {} THEN 0 ELSE f[s \ {Max(s)}] + chunks[Max(s)]]
           iter == CHOOSE f : f = Body(f)
           G == [k \in 1 .. n |-> [v \in Int |-> v + chunks[k]]]
<1>1. Total(chunks) = iter[D]
  BY DEF Total, FoldLeft, MapThenFoldSet
<1>2. D = 1 .. n /\ n \in Nat /\ \A k \in 1 .. n : chunks[k] \in Int
  BY LenProperties, ElementOfSeq
<1>3. G \in [1 .. n -> [Int -> Int]]
  BY <1>2
<1> HIDE DEF n, D
<1>4. PICK f \in [SUBSET (1 .. n) -> Int] : FoldsWith(f, 1 .. n, 0, G)
  <2>1. 0 \in Int
    OBVIOUS
  <2> HIDE DEF G
  <2> QED BY <1>2, <1>3, <2>1, FoldExists
<1>5. ASSUME NEW s \in SUBSET (1 .. n), s # {} PROVE Max(s) \in 1 .. n /\ s \ {Max(s)} \in SUBSET (1 .. n)
  BY <1>2, <1>5, WithoutLast
<1>6. f = Body(f)
  <2>1. ASSUME NEW s \in SUBSET D PROVE f[s] = Body(f)[s]
    <3>1. f[s] = IF s = {} THEN 0 ELSE G[Max(s)][f[s \ {Max(s)}]]
      BY <1>2, <1>4 DEF FoldsWith
    <3>2. s # {} => Max(s) \in 1 .. n /\ f[s \ {Max(s)}] \in Int
      BY <1>2, <1>5
    <3> QED BY <3>1, <3>2
  <2> QED BY <1>2, <2>1
<1>7. iter = Body(iter)
  <2> HIDE DEF Body
  <2> QED BY <1>6
<1> HIDE DEF iter
<1>8. iter[{}] = 0
  BY <1>7
<1>9. ASSUME NEW s \in SUBSET (1 .. n), s # {}, iter[s \ {Max(s)}] \in Int
      PROVE  iter[s] = G[Max(s)][iter[s \ {Max(s)}]]
  BY <1>2, <1>5, <1>7, <1>9
<1>10. StepsIn(iter, n, Int, 0, G)
  BY <1>8, <1>9 DEF StepsIn
<1>11. PICK t \in [0 .. n -> Int] : PrefixesOf(t, n, 0, G, iter[1 .. n])
  <2>1. 0 \in Int
    OBVIOUS
  <2> HIDE DEF G
  <2> QED BY <1>2, <1>3, <1>10, <2>1, FoldPrefixes
<1>12. ASSUME NEW k \in 1 .. n PROVE t[k] = t[k - 1] + chunks[k]
  <2>1. k - 1 \in 0 .. n
    BY <1>2
  <2> QED BY <1>11, <2>1 DEF PrefixesOf
<1>13. t[0] = 0 /\ t[n] = iter[1 .. n]
  BY <1>11 DEF PrefixesOf
<1> QED BY <1>1, <1>2, <1>12, <1>13 DEF n

(***************************************************************************)
(* The document of an archive.                                             *)
(***************************************************************************)
Pushed == {Accepted(size) : size \in Nat} \cup {Refused("Download"), Refused("SizeExceeded")}

LEMMA PushChunkIn ==
  ASSUME NEW acc \in Pushed, NEW size \in Nat \cup {Broken}
  PROVE  /\ PushChunk(acc, size) \in Pushed
         /\ acc.ok \in BOOLEAN
         /\ acc.ok => acc.value \in Nat
         /\ PushChunk(acc, size).ok <=> acc.ok /\ size # Broken /\ acc.value + size <= Limits.archive
         /\ PushChunk(acc, size).ok => PushChunk(acc, size).value = acc.value + size
<1>1. Limits.archive \in Nat
  BY DEF Limits
<1>2. CASE acc = Refused("Download") \/ acc = Refused("SizeExceeded")
  <2>1. acc.ok = FALSE
    BY <1>2 DEF Refused
  <2>2. PushChunk(acc, size) = acc
    BY <2>1 DEF PushChunk
  <2> QED BY <2>1, <2>2
<1>3. ASSUME NEW n \in Nat, acc = Accepted(n)
      PROVE  /\ PushChunk(acc, size) \in Pushed
             /\ acc.ok \in BOOLEAN
             /\ acc.ok => acc.value \in Nat
             /\ PushChunk(acc, size).ok <=> acc.ok /\ size # Broken /\ acc.value + size <= Limits.archive
             /\ PushChunk(acc, size).ok => PushChunk(acc, size).value = acc.value + size
  <2>1. acc.ok = TRUE /\ acc.value = n
    BY <1>3 DEF Accepted
  <2>2. CASE size = Broken
    <3>1. PushChunk(acc, size) = Refused("Download")
      BY <2>1, <2>2 DEF PushChunk
    <3>2. PushChunk(acc, size).ok = FALSE
      BY <3>1 DEF Refused
    <3> QED BY <2>1, <2>2, <3>1, <3>2 DEF Pushed
  <2>3. CASE size # Broken
    <3>1. size \in Nat
      BY <2>3
    <3>2. CASE n + size > Limits.archive
      <4>1. PushChunk(acc, size) = Refused("SizeExceeded")
        BY <2>1, <2>3, <3>2 DEF PushChunk
      <4>2. PushChunk(acc, size).ok = FALSE
        BY <4>1 DEF Refused
      <4>3. ~(acc.value + size <= Limits.archive)
        BY <1>1, <2>1, <3>1, <3>2
      <4> QED BY <2>1, <4>1, <4>2, <4>3 DEF Pushed
    <3>3. CASE ~(n + size > Limits.archive)
      <4>1. PushChunk(acc, size) = Accepted(n + size)
        BY <2>1, <2>3, <3>3 DEF PushChunk
      <4>2. PushChunk(acc, size).ok = TRUE /\ PushChunk(acc, size).value = n + size
        BY <4>1 DEF Accepted
      <4>3. acc.value + size <= Limits.archive
        BY <1>1, <2>1, <3>1, <3>3
      <4>4. n + size \in Nat
        BY <3>1
      <4> QED BY <2>1, <2>3, <4>1, <4>2, <4>3, <4>4 DEF Pushed
    <3> QED BY <3>2, <3>3
  <2> QED BY <2>2, <2>3
<1> QED BY <1>2, <1>3 DEF Pushed

LEMMA PushedPrefixes ==
  ASSUME NEW chunks \in Seq(Nat \cup {Broken})
  PROVE  \E t \in [0 .. Len(chunks) -> Pushed] :
           /\ t[0] = Accepted(0) /\ t[Len(chunks)] = FoldLeft(PushChunk, Accepted(0), chunks)
           /\ \A k \in 1 .. Len(chunks) : t[k] = PushChunk(t[k - 1], chunks[k])
<1> DEFINE n == Len(chunks)
           D == DOMAIN chunks
           Body(f) == [s \in SUBSET D |-> IF s = {} THEN Accepted(0) ELSE PushChunk(f[s \ {Max(s)}], chunks[Max(s)])]
           iter == CHOOSE f : f = Body(f)
           G == [k \in 1 .. n |-> [v \in Pushed |-> PushChunk(v, chunks[k])]]
<1>1. FoldLeft(PushChunk, Accepted(0), chunks) = iter[D]
  BY DEF FoldLeft, MapThenFoldSet
<1>2. D = 1 .. n /\ n \in Nat /\ \A k \in 1 .. n : chunks[k] \in Nat \cup {Broken}
  BY LenProperties, ElementOfSeq
<1>3. G \in [1 .. n -> [Pushed -> Pushed]]
  BY <1>2, PushChunkIn
<1> HIDE DEF n, D
<1>4. Accepted(0) \in Pushed
  BY DEF Pushed
<1>5. PICK f \in [SUBSET (1 .. n) -> Pushed] : FoldsWith(f, 1 .. n, Accepted(0), G)
  <2> HIDE DEF G
  <2> QED BY <1>2, <1>3, <1>4, FoldExists
<1>6. ASSUME NEW s \in SUBSET (1 .. n), s # {} PROVE Max(s) \in 1 .. n /\ s \ {Max(s)} \in SUBSET (1 .. n)
  BY <1>2, <1>6, WithoutLast
<1>7. f = Body(f)
  <2>1. ASSUME NEW s \in SUBSET D PROVE f[s] = Body(f)[s]
    <3>1. f[s] = IF s = {} THEN Accepted(0) ELSE G[Max(s)][f[s \ {Max(s)}]]
      BY <1>2, <1>5 DEF FoldsWith
    <3>2. s # {} => Max(s) \in 1 .. n /\ f[s \ {Max(s)}] \in Pushed
      BY <1>2, <1>6
    <3> QED BY <3>1, <3>2
  <2> QED BY <1>2, <2>1
<1>8. iter = Body(iter)
  <2> HIDE DEF Body
  <2> QED BY <1>7
<1> HIDE DEF iter
<1>9. iter[{}] = Accepted(0)
  BY <1>8
<1>10. ASSUME NEW s \in SUBSET (1 .. n), s # {}, iter[s \ {Max(s)}] \in Pushed
       PROVE  iter[s] = G[Max(s)][iter[s \ {Max(s)}]]
  BY <1>2, <1>6, <1>8, <1>10
<1>11. StepsIn(iter, n, Pushed, Accepted(0), G)
  BY <1>9, <1>10 DEF StepsIn
<1>12. PICK t \in [0 .. n -> Pushed] : PrefixesOf(t, n, Accepted(0), G, iter[1 .. n])
  <2> HIDE DEF G
  <2> QED BY <1>2, <1>3, <1>4, <1>11, FoldPrefixes
<1>13. ASSUME NEW k \in 1 .. n PROVE t[k] = PushChunk(t[k - 1], chunks[k])
  <2>1. k - 1 \in 0 .. n
    BY <1>2
  <2> QED BY <1>12, <2>1 DEF PrefixesOf
<1>14. t[0] = Accepted(0) /\ t[n] = iter[1 .. n]
  BY <1>12 DEF PrefixesOf
<1> QED BY <1>1, <1>2, <1>13, <1>14 DEF n

\* What aggregate_document_chunks takes is every byte of the document, and it takes exactly the
\* documents that arrive whole and within the limit, whatever size was declared below it.
LEMMA ChunksTakenWhole ==
  ASSUME NEW chunks \in Seq(Nat \cup {Broken})
  PROVE  LET all == FoldLeft(PushChunk, Accepted(0), chunks) IN
         /\ all.ok <=> Broken \notin Range(chunks) /\ Total(chunks) <= Limits.archive
         /\ all.ok => all.value = Total(chunks) /\ all.value \in Nat
<1> DEFINE n == Len(chunks)
<1>1. n \in Nat /\ DOMAIN chunks = 1 .. n /\ \A k \in 1 .. n : chunks[k] \in Nat \cup {Broken}
  BY LenProperties, ElementOfSeq
<1>2. chunks \in Seq(Int)
  <2>1. Broken \in Int
    BY DEF Broken
  <2> QED BY <1>1, <2>1, SeqDef
<1>3. PICK u \in [0 .. n -> Int] : u[0] = 0 /\ u[n] = Total(chunks) /\ \A k \in 1 .. n : u[k] = u[k - 1] + chunks[k]
  BY <1>2, TotalPrefixes
<1>4. PICK t \in [0 .. n -> Pushed] :
        /\ t[0] = Accepted(0) /\ t[n] = FoldLeft(PushChunk, Accepted(0), chunks)
        /\ \A k \in 1 .. n : t[k] = PushChunk(t[k - 1], chunks[k])
  BY PushedPrefixes
<1> DEFINE Whole(k) == \A j \in 1 .. k : chunks[j] # Broken
           S == {k \in Nat : /\ t[k].ok => t[k].value = u[k] /\ t[k].value \in Nat
                             /\ t[k].ok <=> Whole(k) /\ u[k] <= Limits.archive}
<1>5. Limits.archive \in Nat
  BY DEF Limits
<1> HIDE DEF n
<1>6. 0 \in S
  <2>1. t[0].ok = TRUE /\ t[0].value = 0
    BY <1>4 DEF Accepted
  <2> QED BY <1>3, <1>5, <2>1
<1>7. ASSUME NEW k \in Nat, k \in S, k < n PROVE k + 1 \in S
  <2>1. k + 1 \in 1 .. n /\ k \in 0 .. n /\ (k + 1) - 1 = k
    BY <1>1, <1>7
  <2>2. t[k + 1] = PushChunk(t[k], chunks[k + 1]) /\ u[k + 1] = u[k] + chunks[k + 1]
    BY <1>3, <1>4, <2>1
  <2>3. t[k] \in Pushed /\ u[k] \in Int /\ chunks[k + 1] \in Nat \cup {Broken}
    BY <1>1, <2>1
  <2>4. /\ t[k].ok \in BOOLEAN
        /\ t[k].ok => t[k].value \in Nat
        /\ t[k + 1].ok <=> t[k].ok /\ chunks[k + 1] # Broken /\ t[k].value + chunks[k + 1] <= Limits.archive
        /\ t[k + 1].ok => t[k + 1].value = t[k].value + chunks[k + 1]
    <3> DEFINE acc == t[k]
               size == chunks[k + 1]
    <3>1. acc \in Pushed /\ size \in Nat \cup {Broken} /\ t[k + 1] = PushChunk(acc, size)
      BY <2>2, <2>3
    <3> HIDE DEF acc, size
    <3>2. /\ acc.ok \in BOOLEAN /\ (acc.ok => acc.value \in Nat)
          /\ PushChunk(acc, size).ok <=> acc.ok /\ size # Broken /\ acc.value + size <= Limits.archive
          /\ PushChunk(acc, size).ok => PushChunk(acc, size).value = acc.value + size
      BY <3>1, PushChunkIn
    <3> QED BY <3>1, <3>2 DEF acc, size
  <2>5. t[k].ok => t[k].value = u[k] /\ t[k].value \in Nat
    BY <1>7
  <2>6. t[k].ok <=> Whole(k) /\ u[k] <= Limits.archive
    BY <1>7
  <2>7. Whole(k + 1) <=> Whole(k) /\ chunks[k + 1] # Broken
    <3>1. 1 .. (k + 1) = (1 .. k) \cup {k + 1}
      OBVIOUS
    <3> QED BY <3>1
  <2> HIDE DEF Whole
  <2>8. t[k + 1].ok => /\ t[k + 1].value = u[k + 1] /\ t[k + 1].value \in Nat
                       /\ Whole(k + 1) /\ u[k + 1] <= Limits.archive
    <3>1. ASSUME t[k + 1].ok PROVE t[k].ok /\ chunks[k + 1] \in Nat
      BY <2>3, <2>4, <3>1
    <3> QED BY <2>2, <2>4, <2>5, <2>6, <2>7, <3>1
  <2>9. ASSUME Whole(k + 1), u[k + 1] <= Limits.archive PROVE t[k + 1].ok
    <3>1. chunks[k + 1] \in Nat /\ Whole(k)
      BY <2>3, <2>7, <2>9
    <3>2. u[k] <= Limits.archive
      BY <1>5, <2>2, <2>3, <2>9, <3>1
    <3>3. t[k].ok /\ t[k].value = u[k]
      BY <2>5, <2>6, <3>1, <3>2
    <3> QED BY <2>2, <2>4, <2>9, <2>7, <3>3
  <2>10. k + 1 \in Nat
    OBVIOUS
  <2> QED BY <2>8, <2>9, <2>10
<1>8. n \in S
  <2> HIDE DEF S
  <2>1. 0 .. n \subseteq S
    BY <1>1, <1>6, <1>7, UpTo
  <2> QED BY <1>1, <2>1
<1>9. Whole(n) <=> Broken \notin Range(chunks)
  BY <1>1 DEF Range
<1> HIDE DEF Whole
<1> QED BY <1>3, <1>4, <1>8, <1>9 DEF n

\* Whatever message and document: what the runtime's policy lets through is never refused as a
\* stranger's, what is acquired is every byte of the document, and inspect_pending never refuses it for
\* its size.
THEOREM DocumentsAcquiredWhole ==
  ASSUME NEW A, NEW m \in [sender : A, outgoing : BOOLEAN, edited : BOOLEAN, peer : A, id : Int],
         NEW document, document.chunks \in Seq(Nat \cup {Broken})
  PROVE  AcquiredAs(m, document, Acquire(m, document))
<1> DEFINE chunks == document.chunks
           all == FoldLeft(PushChunk, Accepted(0), chunks)
           result == Acquire(m, document)
           fresh == IsFreshSelfAuthoredSavedMessage(m)
<1>1. /\ all.ok <=> Broken \notin Range(chunks) /\ Total(chunks) <= Limits.archive
      /\ all.ok => all.value = Total(chunks) /\ all.value \in Nat
  BY ChunksTakenWhole
<1>2. all \in Pushed
  <2> DEFINE n == Len(chunks)
  <2>1. PICK t \in [0 .. n -> Pushed] : t[n] = all
    BY PushedPrefixes
  <2>2. n \in 0 .. n
    BY LenProperties
  <2> HIDE DEF all, n
  <2> QED BY <2>1, <2>2
<1>3. AuthorizeSensitiveMessage("ModuleMutation", m) => fresh
  BY DEF AuthorizeSensitiveMessage, IsSelfAuthored, IsFreshSelfAuthoredSavedMessage
<1>4. fresh => AuthorizeSensitiveMessage("ModuleMutation", [m EXCEPT !.edited = FALSE])
  BY DEF AuthorizeSensitiveMessage, IsSelfAuthored, IsFreshSelfAuthoredSavedMessage
<1> HIDE DEF all, chunks
<1>5. \/ ~fresh /\ result = Refused("NotSavedMessage")
      \/ fresh /\ result \in {Refused("NotLmodDocument"), Refused("DeclaredSizeExceeded"), all}
  BY DEF Acquire, AggregateDocumentChunks, all, chunks
<1>6. fresh => result.ok \/ result.error # "NotSavedMessage"
  BY <1>2, <1>5 DEF Pushed, Refused, Accepted
<1>7. result.ok => fresh /\ result = all /\ all.ok
  BY <1>5 DEF Refused
<1> HIDE DEF result, fresh
<1>8. ASSUME NEW zip, result.ok
      PROVE  InspectPending(zip, result.value, TRUE, TRUE, TRUE) = InspectPending(zip, 0, TRUE, TRUE, TRUE)
  <2>1. Limits.archive \in Nat
    BY DEF Limits
  <2>2. ~(result.value > Limits.archive) /\ ~(0 > Limits.archive)
    BY <1>1, <1>7, <1>8, <2>1
  <2> DEFINE tree == InspectInto(zip)
  <2>3. CreateStage(TRUE, TRUE) # "none"
    BY DEF CreateStage
  <2>4. ASSUME NEW v, ~(v > Limits.archive)
        PROVE  InspectPending(zip, v, TRUE, TRUE, TRUE) =
                 IF ~tree.ok THEN [stage |-> "none", error |-> tree.error] ELSE [stage |-> "owned", error |-> "ok"]
    <3> HIDE DEF tree
    <3> QED BY <2>3, <2>4 DEF InspectPending, tree
  <2> HIDE DEF tree
  <2> DEFINE verdict == IF ~tree.ok THEN [stage |-> "none", error |-> tree.error] ELSE [stage |-> "owned", error |-> "ok"]
             size == result.value
             none == 0
  <2>5. ~(size > Limits.archive) /\ ~(none > Limits.archive)
    BY <2>2
  <2> HIDE DEF verdict, size, none
  <2>6. InspectPending(zip, size, TRUE, TRUE, TRUE) = verdict /\ InspectPending(zip, none, TRUE, TRUE, TRUE) = verdict
    BY <2>4, <2>5 DEF verdict
  <2> QED BY <2>6 DEF size, none
<1> QED BY <1>1, <1>3, <1>4, <1>6, <1>7, <1>8 DEF AcquiredAs, result, chunks

(***************************************************************************)
(* The fingerprint of a plan.                                              *)
(***************************************************************************)
\* Names and lists of names as bytes; the operators below keep the concatenations readable.
Text == Seq(Nat)
Cat(a, b) == a \o b
Item(n) == <<n>>
Starts(a, w) == \E r \in Text : w = Cat(a, r)

\* Two parts of one length that begin the same bytes are the same.
LEMMA SameLengthSame ==
  ASSUME NEW S, NEW s \in Seq(S), NEW t \in Seq(S), NEW x \in Seq(S), NEW y \in Seq(S),
         Len(s) = Len(t), s \o x = t \o y
  PROVE  s = t /\ x = y
<1>1. /\ Len(s) \in Nat /\ Len(x) \in Nat /\ Len(y) \in Nat
      /\ Len(s \o x) = Len(s) + Len(x) /\ Len(t \o y) = Len(t) + Len(y)
  BY ConcatProperties, LenProperties
<1>2. ASSUME NEW i \in 1 .. Len(s) PROVE s[i] = t[i]
  <2>1. i \in 1 .. Len(s) + Len(x) /\ i \in 1 .. Len(t) + Len(y) /\ i <= Len(s) /\ i <= Len(t)
    BY <1>1
  <2>2. (s \o x)[i] = s[i]
    BY <2>1, ConcatProperties
  <2>3. (t \o y)[i] = t[i]
    BY <2>1, ConcatProperties
  <2> QED BY <2>2, <2>3
<1>3. s = t
  BY <1>2, SeqEqual
<1>4. x = y
  <2>1. Len(x) = Len(y)
    BY <1>1, <1>3
  <2>2. ASSUME NEW i \in 1 .. Len(x) PROVE x[i] = y[i]
    <3> DEFINE j == Len(s) + i
    <3>1. /\ j \in 1 .. Len(s) + Len(x) /\ ~(j <= Len(s)) /\ j - Len(s) = i
          /\ j \in 1 .. Len(t) + Len(y) /\ ~(j <= Len(t)) /\ j - Len(t) = i
      BY <1>1, <2>1
    <3> HIDE DEF j
    <3>2. (s \o x)[j] = x[j - Len(s)]
      BY <3>1, ConcatProperties
    <3>3. (t \o y)[j] = y[j - Len(t)]
      BY <3>1, ConcatProperties
    <3> QED BY <3>1, <3>2, <3>3
  <2> QED BY <2>1, <2>2, SeqEqual
<1> QED BY <1>3, <1>4

LEMMA CatText == ASSUME NEW a \in Text, NEW b \in Text PROVE Cat(a, b) \in Text
BY ConcatProperties DEF Text, Cat

LEMMA CatAssoc == ASSUME NEW a \in Text, NEW b \in Text, NEW c \in Text PROVE Cat(Cat(a, b), c) = Cat(a, Cat(b, c))
BY ConcatAssociative DEF Text, Cat

LEMMA CatSame == ASSUME NEW a \in Text, NEW b \in Text, NEW c \in Text, Cat(a, b) = Cat(a, c) PROVE b = c
BY SameLengthSame DEF Text, Cat

LEMMA ItemText == ASSUME NEW i \in Nat PROVE Item(i) \in Text
BY DEF Text, Item

LEMMA PartBegins ==
  ASSUME NEW a \in Text, NEW b \in Text, NEW w, Starts(Cat(a, b), w)
  PROVE  Starts(a, w)
<1>1. PICK r \in Text : w = Cat(Cat(a, b), r)
  BY DEF Starts
<1>2. w = Cat(a, Cat(b, r)) /\ Cat(b, r) \in Text
  BY <1>1, CatText, CatAssoc
<1> QED BY <1>2 DEF Starts

\* After the same bytes comes the same part.
LEMMA SamePart ==
  ASSUME NEW a \in Text, NEW b \in Text, NEW c \in Text, NEW w, Starts(Cat(a, b), w), Starts(Cat(a, c), w)
  PROVE  \E x, y \in Text : Cat(b, x) = Cat(c, y)
<1>1. PICK x \in Text : w = Cat(Cat(a, b), x)
  BY DEF Starts
<1>2. PICK y \in Text : w = Cat(Cat(a, c), y)
  BY DEF Starts
<1>3. Cat(b, x) \in Text /\ Cat(c, y) \in Text
  BY CatText
<1>4. w = Cat(a, Cat(b, x))
  BY <1>1, CatAssoc
<1>5. w = Cat(a, Cat(c, y))
  BY <1>2, CatAssoc
<1>6. Cat(b, x) = Cat(c, y)
  BY <1>3, <1>4, <1>5, CatSame
<1> QED BY <1>6

LEMMA SameItem ==
  ASSUME NEW i \in Nat, NEW k \in Nat, NEW x \in Text, NEW y \in Text, Cat(Item(i), x) = Cat(Item(k), y)
  PROVE  i = k /\ x = y
<1>1. Item(i) \in Seq(Nat) /\ Item(k) \in Seq(Nat) /\ Len(Item(i)) = 1 /\ Len(Item(k)) = 1
  BY DEF Item
<1>2. Item(i) = Item(k) /\ x = y
  BY <1>1, SameLengthSame DEF Text, Cat
<1> QED BY <1>2 DEF Item

LEMMA StringTyped ==
  ASSUME NEW s \in Text
  PROVE  /\ CanonicalString(s) = Cat(Item(Len(s)), s) /\ CanonicalString(s) \in Text
         /\ Item(Len(s)) \in Text /\ Len(s) \in Nat
<1>1. Len(s) \in Nat
  BY LenProperties DEF Text
<1>2. CanonicalString(s) = Cat(Item(Len(s)), s)
  BY DEF CanonicalString, Cat, Item
<1> QED BY <1>1, <1>2, ItemText, CatText

LEMMA SameString ==
  ASSUME NEW s \in Text, NEW t \in Text, NEW x \in Text, NEW y \in Text,
         Cat(CanonicalString(s), x) = Cat(CanonicalString(t), y)
  PROVE  s = t /\ x = y
<1>1. Cat(s, x) \in Text /\ Cat(t, y) \in Text
  BY CatText
<1>2. Cat(Item(Len(s)), Cat(s, x)) = Cat(Item(Len(t)), Cat(t, y))
  BY StringTyped, CatAssoc
<1>3. Len(s) = Len(t) /\ Cat(s, x) = Cat(t, y)
  BY <1>1, <1>2, StringTyped, SameItem
<1> QED BY <1>3, SameLengthSame DEF Text, Cat

\* Any number of steps can be taken one after the other.
LEMMA PrefixesExist ==
  ASSUME NEW n \in Nat, NEW V, NEW base \in V, NEW G \in [1 .. n -> [V -> V]]
  PROVE  \E t \in [0 .. n -> V] : PrefixesOf(t, n, base, G, t[n])
<1>1. PICK f \in [SUBSET (1 .. n) -> V] : FoldsWith(f, 1 .. n, base, G)
  BY FoldExists
<1>2. StepsIn(f, n, V, base, G)
  <2>1. {} \in SUBSET (1 .. n)
    OBVIOUS
  <2> QED BY <1>1, <2>1 DEF FoldsWith, StepsIn
<1>3. PICK t \in [0 .. n -> V] : PrefixesOf(t, n, base, G, f[1 .. n])
  BY <1>2, FoldPrefixes
<1> QED BY <1>3 DEF PrefixesOf

\* A concatenation of many, part by part.
LEMMA FlatPrefixes ==
  ASSUME NEW parts \in Seq(Text)
  PROVE  \E t \in [0 .. Len(parts) -> Text] :
           /\ t[0] = <<>> /\ t[Len(parts)] = FlattenSeq(parts)
           /\ \A k \in 1 .. Len(parts) : t[k] = Cat(t[k - 1], parts[k])
<1> DEFINE n == Len(parts)
           G == [k \in 1 .. n |-> [v \in Text |-> Cat(v, parts[k])]]
           Body(f) == [i \in 1 .. n |-> IF i = 1 THEN parts[i] ELSE f[i - 1] \o parts[i]]
           flat == CHOOSE f : f = Body(f)
<1>1. n \in Nat /\ \A k \in 1 .. n : parts[k] \in Text
  BY LenProperties, ElementOfSeq
<1>2. G \in [1 .. n -> [Text -> Text]]
  BY <1>1, CatText
<1>3. <<>> \in Text
  BY DEF Text
<1>4. FlattenSeq(parts) = IF n = 0 THEN parts ELSE flat[n]
  BY DEF FlattenSeq
<1>5. n = 0 => parts = <<>>
  BY EmptySeq
<1> HIDE DEF n
<1>6. PICK t \in [0 .. n -> Text] : PrefixesOf(t, n, <<>>, G, t[n])
  <2> HIDE DEF G
  <2> QED BY <1>1, <1>2, <1>3, PrefixesExist
<1>7. ASSUME NEW k \in 1 .. n PROVE t[k] = Cat(t[k - 1], parts[k])
  <2>1. k - 1 \in 0 .. n
    BY <1>1
  <2> QED BY <1>6, <2>1 DEF PrefixesOf
<1>8. t[0] = <<>>
  BY <1>6 DEF PrefixesOf
<1>9. ASSUME n # 0 PROVE t[1] = parts[1]
  <2>1. 1 \in 1 .. n /\ 1 - 1 = 0
    BY <1>1, <1>9
  <2>2. t[1] = <<>> \o parts[1]
    BY <1>7, <1>8, <2>1 DEF Cat
  <2>3. parts[1] \in Seq(Nat)
    BY <1>1, <2>1 DEF Text
  <2> QED BY <2>2, <2>3, ConcatEmptySeq
<1> DEFINE g == [i \in 1 .. n |-> t[i]]
<1>10. ASSUME NEW i \in 1 .. n, i # 1 PROVE t[i] = g[i - 1] \o parts[i]
  <2>1. i - 1 \in 1 .. n
    BY <1>1, <1>10
  <2>2. t[i] = t[i - 1] \o parts[i]
    BY <1>7 DEF Cat
  <2> QED BY <2>1, <2>2
<1>11. g = Body(g)
  <2>1. ASSUME NEW i \in 1 .. n PROVE g[i] = Body(g)[i]
    <3>1. n # 0
      BY <1>1
    <3>2. g[i] = t[i]
      OBVIOUS
    <3> HIDE DEF g
    <3>3. Body(g)[i] = IF i = 1 THEN parts[i] ELSE g[i - 1] \o parts[i]
      OBVIOUS
    <3> QED BY <1>9, <1>10, <3>1, <3>2, <3>3 DEF g
  <2> QED BY <2>1
<1> HIDE DEF g
<1>12. flat = Body(flat)
  <2> HIDE DEF Body
  <2> QED BY <1>11
<1> HIDE DEF flat
<1> DEFINE S == {k \in Nat : k = 0 \/ flat[k] = t[k]}
<1>13. 0 \in S
  OBVIOUS
<1>14. ASSUME NEW k \in Nat, k \in S, k < n PROVE k + 1 \in S
  <2>1. k + 1 \in 1 .. n /\ k + 1 \in Nat /\ n # 0 /\ (k + 1) - 1 = k
    BY <1>1, <1>14
  <2>2. flat[k + 1] = IF k + 1 = 1 THEN parts[k + 1] ELSE flat[(k + 1) - 1] \o parts[k + 1]
    BY <1>12, <2>1
  <2>3. CASE k = 0
    BY <1>9, <2>1, <2>2, <2>3
  <2>4. CASE k # 0
    <3>0. ~(k + 1 = 1)
      BY <2>4
    <3>1. flat[k + 1] = flat[k] \o parts[k + 1]
      <4>1. flat[k + 1] = flat[(k + 1) - 1] \o parts[k + 1]
        BY <2>2, <3>0
      <4> QED BY <2>1, <4>1
    <3>2. t[k + 1] = t[k] \o parts[k + 1]
      BY <1>7, <2>1 DEF Cat
    <3>3. flat[k] = t[k]
      BY <1>14, <2>4
    <3> QED BY <2>1, <3>1, <3>2, <3>3
  <2> QED BY <2>3, <2>4
<1>15. n \in S
  <2> HIDE DEF S
  <2>1. 0 .. n \subseteq S
    BY <1>1, <1>13, <1>14, UpTo
  <2> QED BY <1>1, <2>1
<1>16. t[n] = FlattenSeq(parts)
  <2>1. CASE n = 0
    BY <1>4, <1>5, <1>8, <2>1
  <2>2. CASE n # 0
    BY <1>4, <1>15, <2>2
  <2> QED BY <2>1, <2>2
<1> QED BY <1>7, <1>8, <1>16 DEF n

Strings(l) == [i \in DOMAIN l |-> CanonicalString(l[i])]

LEMMA StringsTyped ==
  ASSUME NEW l \in Seq(Text)
  PROVE  /\ Len(l) \in Nat /\ Strings(l) \in Seq(Text) /\ Len(Strings(l)) = Len(l)
         /\ \A k \in 1 .. Len(l) : Strings(l)[k] = CanonicalString(l[k]) /\ l[k] \in Text
         /\ CanonicalList(l) = Cat(Item(Len(l)), FlattenSeq(Strings(l)))
         /\ FlattenSeq(Strings(l)) \in Text /\ CanonicalList(l) \in Text
<1> DEFINE n == Len(l)
<1>1. n \in Nat /\ DOMAIN l = 1 .. n /\ \A k \in 1 .. n : l[k] \in Text
  BY LenProperties, ElementOfSeq
<1> HIDE DEF n
<1>2. \A k \in 1 .. n : Strings(l)[k] = CanonicalString(l[k]) /\ CanonicalString(l[k]) \in Text
  BY <1>1, StringTyped DEF Strings
<1>3. Strings(l) \in [1 .. n -> Text]
  BY <1>1, <1>2 DEF Strings
<1>4. Strings(l) \in Seq(Text) /\ Len(Strings(l)) = n
  <2>1. Strings(l) \in Seq(Text)
    BY <1>1, <1>3, SeqDef
  <2>2. DOMAIN Strings(l) = 1 .. n
    BY <1>3
  <2> QED BY <1>1, <2>1, <2>2, LenProperties
<1>5. CanonicalList(l) = Cat(Item(n), FlattenSeq(Strings(l)))
  BY DEF CanonicalList, Cat, Item, Strings, n
<1>6. FlattenSeq(Strings(l)) \in Text
  <2>1. PICK t \in [0 .. n -> Text] : t[n] = FlattenSeq(Strings(l))
    BY <1>4, FlatPrefixes
  <2>2. n \in 0 .. n
    BY <1>1
  <2> QED BY <2>1, <2>2
<1>7. Item(n) \in Text
  BY <1>1, ItemText
<1> QED BY <1>1, <1>2, <1>4, <1>5, <1>6, <1>7, CatText DEF n

\* A list is encoded name by name.
LEMMA ListPrefixes ==
  ASSUME NEW l \in Seq(Text)
  PROVE  \E t \in [0 .. Len(l) -> Text] :
           /\ t[0] = <<>> /\ t[Len(l)] = FlattenSeq(Strings(l))
           /\ \A k \in 1 .. Len(l) : t[k] = Cat(t[k - 1], CanonicalString(l[k]))
<1> DEFINE parts == Strings(l)
<1>1. /\ parts \in Seq(Text) /\ Len(parts) = Len(l)
      /\ \A k \in 1 .. Len(l) : parts[k] = CanonicalString(l[k])
  BY StringsTyped
<1> HIDE DEF parts
<1>2. PICK t \in [0 .. Len(parts) -> Text] :
           /\ t[0] = <<>> /\ t[Len(parts)] = FlattenSeq(parts)
           /\ \A k \in 1 .. Len(parts) : t[k] = Cat(t[k - 1], parts[k])
  BY <1>1, FlatPrefixes
<1> QED BY <1>1, <1>2 DEF parts

\* A list is read back whole: its length comes first and every name brings its own.
LEMMA SameList ==
  ASSUME NEW l \in Seq(Text), NEW m \in Seq(Text), NEW x \in Text, NEW y \in Text,
         Cat(CanonicalList(l), x) = Cat(CanonicalList(m), y)
  PROVE  l = m /\ x = y
<1> DEFINE n == Len(l)
           F == FlattenSeq(Strings(l))
           H == FlattenSeq(Strings(m))
           w == Cat(F, x)
<1>1. n \in Nat /\ Len(m) \in Nat /\ F \in Text /\ H \in Text /\ Item(n) \in Text /\ Item(Len(m)) \in Text
  BY StringsTyped, ItemText
<1>2. Len(m) = n /\ w = Cat(H, y)
  <2>1. Cat(CanonicalList(l), x) = Cat(Item(n), Cat(F, x))
    BY <1>1, StringsTyped, CatAssoc
  <2>2. Cat(CanonicalList(m), y) = Cat(Item(Len(m)), Cat(H, y))
    BY <1>1, StringsTyped, CatAssoc
  <2>3. Cat(F, x) \in Text /\ Cat(H, y) \in Text
    BY <1>1, CatText
  <2> DEFINE i == Len(l)
             k == Len(m)
             v == Cat(F, x)
             z == Cat(H, y)
  <2>4. i \in Nat /\ k \in Nat /\ v \in Text /\ z \in Text /\ Cat(Item(i), v) = Cat(Item(k), z)
    BY <1>1, <2>1, <2>2, <2>3
  <2> HIDE DEF i, k, v, z
  <2>5. i = k /\ v = z
    BY <2>4, SameItem
  <2> QED BY <2>5 DEF i, k, v, z
<1>3. PICK t \in [0 .. n -> Text] : t[0] = <<>> /\ t[n] = F /\ \A k \in 1 .. n : t[k] = Cat(t[k - 1], CanonicalString(l[k]))
  BY ListPrefixes
<1>4. PICK u \in [0 .. n -> Text] : u[0] = <<>> /\ u[n] = H /\ \A k \in 1 .. n : u[k] = Cat(u[k - 1], CanonicalString(m[k]))
  <2>1. PICK u \in [0 .. Len(m) -> Text] :
          u[0] = <<>> /\ u[Len(m)] = H /\ \A k \in 1 .. Len(m) : u[k] = Cat(u[k - 1], CanonicalString(m[k]))
    BY ListPrefixes
  <2> QED BY <1>2, <2>1
<1>5. \A k \in 1 .. n : /\ l[k] \in Text /\ m[k] \in Text
                        /\ CanonicalString(l[k]) \in Text /\ CanonicalString(m[k]) \in Text
  BY <1>2, StringsTyped, StringTyped
<1>6. Starts(t[n], w) /\ Starts(u[n], w)
  BY <1>2, <1>3, <1>4 DEF Starts
<1> HIDE DEF n, F, H, w
<1> DEFINE B == {j \in Nat : j <= n => Starts(t[n - j], w) /\ Starts(u[n - j], w)}
<1>7. 0 \in B
  BY <1>1, <1>6
<1>8. ASSUME NEW j \in Nat, j \in B, j < n PROVE j + 1 \in B
  <2> DEFINE k == n - j
  <2>1. k \in 1 .. n /\ k - 1 \in 0 .. n /\ k - 1 = n - (j + 1) /\ j + 1 \in Nat /\ j <= n
    BY <1>1, <1>8
  <2>2. Starts(t[k], w) /\ Starts(u[k], w)
    BY <1>8, <2>1
  <2> HIDE DEF k
  <2>3. t[k] = Cat(t[k - 1], CanonicalString(l[k])) /\ u[k] = Cat(u[k - 1], CanonicalString(m[k]))
    BY <1>3, <1>4, <2>1
  <2>4. t[k - 1] \in Text /\ u[k - 1] \in Text
    BY <2>1
  <2>5. Starts(t[k - 1], w)
    BY <1>5, <2>1, <2>2, <2>3, <2>4, PartBegins
  <2>6. Starts(u[k - 1], w)
    BY <1>5, <2>1, <2>2, <2>3, <2>4, PartBegins
  <2> QED BY <2>1, <2>5, <2>6
<1>9. ASSUME NEW k \in 0 .. n PROVE Starts(t[k], w) /\ Starts(u[k], w)
  <2> DEFINE j == n - k
  <2>1. j \in 0 .. n /\ n - j = k /\ j <= n
    BY <1>1
  <2> HIDE DEF j, B
  <2>2. j \in B
    BY <1>1, <1>7, <1>8, <2>1, UpTo
  <2> QED BY <2>1, <2>2 DEF B
<1> DEFINE S == {k \in Nat : k <= n => t[k] = u[k] /\ \A i \in 1 .. k : l[i] = m[i]}
<1>10. 0 \in S
  BY <1>3, <1>4
<1>11. ASSUME NEW j \in Nat, j \in S, j < n PROVE j + 1 \in S
  <2> DEFINE k == j + 1
  <2>1. k \in 1 .. n /\ k \in 0 .. n /\ j \in 0 .. n /\ k - 1 = j /\ k \in Nat /\ j <= n
    BY <1>1, <1>11
  <2>2. t[j] = u[j] /\ \A i \in 1 .. j : l[i] = m[i]
    BY <1>11, <2>1
  <2>3. 1 .. k = (1 .. j) \cup {k}
    OBVIOUS
  <2> HIDE DEF k
  <2>4. t[k] = Cat(t[j], CanonicalString(l[k])) /\ u[k] = Cat(t[j], CanonicalString(m[k]))
    BY <1>3, <1>4, <2>1, <2>2
  <2> DEFINE a == t[j]
             b == CanonicalString(l[k])
             c == CanonicalString(m[k])
  <2>5. a \in Text /\ b \in Text /\ c \in Text /\ Starts(Cat(a, b), w) /\ Starts(Cat(a, c), w)
    BY <1>5, <1>9, <2>1, <2>4
  <2> HIDE DEF a, b, c
  <2>6. PICK r, s \in Text : Cat(b, r) = Cat(c, s)
    BY <2>5, SamePart
  <2>7. l[k] = m[k]
    <3>1. Cat(CanonicalString(l[k]), r) = Cat(CanonicalString(m[k]), s)
      BY <2>6 DEF b, c
    <3> DEFINE p == l[k]
               q == m[k]
    <3>2. p \in Text /\ q \in Text /\ Cat(CanonicalString(p), r) = Cat(CanonicalString(q), s)
      BY <1>5, <2>1, <3>1
    <3> HIDE DEF p, q
    <3>3. p = q
      BY <3>2, SameString
    <3> QED BY <3>3 DEF p, q
  <2>8. t[k] = u[k]
    BY <2>4, <2>7
  <2> QED BY <2>1, <2>2, <2>3, <2>7, <2>8 DEF k
<1>12. n \in S
  <2> HIDE DEF S
  <2>1. 0 .. n \subseteq S
    BY <1>1, <1>10, <1>11, UpTo
  <2> QED BY <1>1, <2>1
<1>13. F = H /\ \A i \in 1 .. n : l[i] = m[i]
  BY <1>1, <1>3, <1>4, <1>12
<1>14. l = m
  BY <1>2, <1>13, SeqEqual DEF n
<1>15. x = y
  BY <1>1, <1>2, <1>13, CatSame DEF w
<1> QED BY <1>14, <1>15

Options == {<<>>} \cup {<<s>> : s \in Text}
Identities == {<<>>} \cup {<<a, b>> : a \in Text, b \in Text}
CanonicalIdentity(i) ==
  IF i = <<>> THEN Cat(CanonicalString(<<0>>), CanonicalString(<<>>))
  ELSE Cat(Cat(CanonicalString(<<1>>), CanonicalString(i[1])), CanonicalString(i[2]))

LEMMA EmptyText == <<>> \in Text /\ \A x \in Text : Cat(<<>>, x) = x
<1>1. <<>> \in Text
  BY DEF Text
<1>2. ASSUME NEW x \in Text PROVE Cat(<<>>, x) = x
  BY ConcatEmptySeq DEF Text, Cat
<1> QED BY <1>1, <1>2

LEMMA SameOption ==
  ASSUME NEW o \in Options, NEW q \in Options, NEW x \in Text, NEW y \in Text,
         Cat(CanonicalOption(o), x) = Cat(CanonicalOption(q), y)
  PROVE  o = q /\ x = y
<1> DEFINE zero == 0
           one == 1
<1>1. ASSUME NEW s \in Text, NEW z \in Text
      PROVE  /\ Cat(CanonicalOption(<<s>>), z) = Cat(Item(one), Cat(CanonicalString(s), z))
             /\ Cat(CanonicalString(s), z) \in Text
  <2>1. CanonicalOption(<<s>>) = Cat(Item(one), CanonicalString(s))
    <3>1. <<s>> # <<>> /\ <<s>>[1] = s
      OBVIOUS
    <3> QED BY <3>1 DEF CanonicalOption, Cat, Item
  <2>2. Item(one) \in Text /\ CanonicalString(s) \in Text
    BY StringTyped, ItemText
  <2> HIDE DEF one
  <2> QED BY <2>1, <2>2, CatAssoc, CatText
<1>2. CanonicalOption(<<>>) = Item(zero)
  BY DEF CanonicalOption, Item
<1>3. zero \in Nat /\ one \in Nat /\ zero # one
  OBVIOUS
<1> HIDE DEF zero, one
<1>4. CASE o = <<>> /\ q = <<>>
  <2>1. x = y
    BY <1>2, <1>3, <1>4, SameItem
  <2> QED BY <1>4, <2>1
<1>5. ASSUME NEW s \in Text, NEW z \in Text, NEW v \in Text
      PROVE  Cat(CanonicalOption(<<s>>), z) # Cat(Item(zero), v)
  <2>1. ASSUME Cat(CanonicalOption(<<s>>), z) = Cat(Item(zero), v) PROVE FALSE
    <3> DEFINE w == Cat(CanonicalString(s), z)
    <3>1. w \in Text /\ Cat(Item(one), w) = Cat(Item(zero), v)
      BY <1>1, <2>1
    <3> HIDE DEF w
    <3> QED BY <1>3, <3>1, SameItem
  <2> QED BY <2>1
<1>6. CASE \E s \in Text : o = <<s>> /\ q = <<>>
  BY <1>2, <1>5, <1>6
<1>7. CASE \E s \in Text : q = <<s>> /\ o = <<>>
  BY <1>2, <1>5, <1>7
<1>8. ASSUME NEW s \in Text, NEW t \in Text, o = <<s>>, q = <<t>> PROVE o = q /\ x = y
  <2> DEFINE v == Cat(CanonicalString(s), x)
             w == Cat(CanonicalString(t), y)
  <2>1. v \in Text /\ w \in Text /\ Cat(Item(one), v) = Cat(Item(one), w)
    BY <1>1, <1>8
  <2> HIDE DEF v, w
  <2>2. v = w
    BY <1>3, <2>1, SameItem
  <2>3. s = t /\ x = y
    BY <2>2, SameString DEF v, w
  <2> QED BY <1>8, <2>3
<1> QED BY <1>4, <1>6, <1>7, <1>8 DEF Options

LEMMA SameIdentity ==
  ASSUME NEW o \in Identities, NEW q \in Identities, NEW x \in Text, NEW y \in Text,
         Cat(CanonicalIdentity(o), x) = Cat(CanonicalIdentity(q), y)
  PROVE  o = q /\ x = y
<1> DEFINE no == <<0>>
           yes == <<1>>
           none == <<>>
<1>1. no \in Text /\ yes \in Text /\ none \in Text /\ no # yes
  BY DEF Text
<1>2. /\ CanonicalIdentity(<<>>) = Cat(CanonicalString(no), CanonicalString(none))
      /\ \A a, b \in Text : CanonicalIdentity(<<a, b>>) = Cat(Cat(CanonicalString(yes), CanonicalString(a)), CanonicalString(b))
  <2>1. ASSUME NEW a \in Text, NEW b \in Text PROVE <<a, b>> # <<>> /\ <<a, b>>[1] = a /\ <<a, b>>[2] = b
    OBVIOUS
  <2> QED BY <2>1 DEF CanonicalIdentity
<1> HIDE DEF no, yes, none
<1>3. ASSUME NEW z \in Text
      PROVE  /\ Cat(CanonicalIdentity(<<>>), z) = Cat(CanonicalString(no), Cat(CanonicalString(none), z))
             /\ Cat(CanonicalString(none), z) \in Text
  <2> DEFINE c == CanonicalString(no)
             d == CanonicalString(none)
  <2>1. c \in Text /\ d \in Text /\ CanonicalIdentity(<<>>) = Cat(c, d)
    BY <1>1, <1>2, StringTyped
  <2> HIDE DEF c, d
  <2>2. Cat(Cat(c, d), z) = Cat(c, Cat(d, z)) /\ Cat(d, z) \in Text
    BY <2>1, CatAssoc, CatText
  <2> QED BY <2>1, <2>2 DEF c, d
<1>4. ASSUME NEW a \in Text, NEW b \in Text, NEW z \in Text
      PROVE  /\ Cat(CanonicalIdentity(<<a, b>>), z) = Cat(CanonicalString(yes), Cat(CanonicalString(a), Cat(CanonicalString(b), z)))
             /\ Cat(CanonicalString(b), z) \in Text
             /\ Cat(CanonicalString(a), Cat(CanonicalString(b), z)) \in Text
  <2> DEFINE c == CanonicalString(yes)
             d == CanonicalString(a)
             e == CanonicalString(b)
  <2>1. c \in Text /\ d \in Text /\ e \in Text /\ CanonicalIdentity(<<a, b>>) = Cat(Cat(c, d), e)
    BY <1>1, <1>2, StringTyped
  <2> HIDE DEF c, d, e
  <2>2. Cat(c, d) \in Text /\ Cat(e, z) \in Text /\ Cat(d, Cat(e, z)) \in Text
    BY <2>1, CatText
  <2>3. Cat(Cat(Cat(c, d), e), z) = Cat(Cat(c, d), Cat(e, z))
    BY <2>1, <2>2, CatAssoc
  <2>4. Cat(Cat(c, d), Cat(e, z)) = Cat(c, Cat(d, Cat(e, z)))
    BY <2>1, <2>2, CatAssoc
  <2> QED BY <2>1, <2>2, <2>3, <2>4 DEF c, d, e
<1>5. CASE o = <<>> /\ q = <<>>
  <2> DEFINE v == Cat(CanonicalString(none), x)
             w == Cat(CanonicalString(none), y)
  <2>1. v \in Text /\ w \in Text /\ Cat(CanonicalString(no), v) = Cat(CanonicalString(no), w)
    BY <1>3, <1>5
  <2> HIDE DEF v, w
  <2>2. v = w
    BY <1>1, <2>1, SameString
  <2>3. x = y
    BY <1>1, <2>2, SameString DEF v, w
  <2> QED BY <1>5, <2>3
<1>6. ASSUME NEW a \in Text, NEW b \in Text, NEW z \in Text, NEW r \in Text
      PROVE  Cat(CanonicalIdentity(<<a, b>>), z) # Cat(CanonicalIdentity(<<>>), r)
  <2>1. ASSUME Cat(CanonicalIdentity(<<a, b>>), z) = Cat(CanonicalIdentity(<<>>), r) PROVE FALSE
    <3> DEFINE v == Cat(CanonicalString(a), Cat(CanonicalString(b), z))
               w == Cat(CanonicalString(none), r)
    <3>1. v \in Text /\ w \in Text /\ Cat(CanonicalString(yes), v) = Cat(CanonicalString(no), w)
      BY <1>3, <1>4, <2>1
    <3> HIDE DEF v, w
    <3> QED BY <1>1, <3>1, SameString
  <2> QED BY <2>1
<1>7. CASE \E a, b \in Text : o = <<a, b>> /\ q = <<>>
  BY <1>6, <1>7
<1>8. CASE \E a, b \in Text : q = <<a, b>> /\ o = <<>>
  BY <1>6, <1>8
<1>9. ASSUME NEW a \in Text, NEW b \in Text, NEW c \in Text, NEW d \in Text, o = <<a, b>>, q = <<c, d>>
      PROVE  o = q /\ x = y
  <2> DEFINE v == Cat(CanonicalString(b), x)
             w == Cat(CanonicalString(d), y)
             r == Cat(CanonicalString(a), v)
             s == Cat(CanonicalString(c), w)
  <2>1. v \in Text /\ w \in Text /\ r \in Text /\ s \in Text /\ Cat(CanonicalString(yes), r) = Cat(CanonicalString(yes), s)
    BY <1>4, <1>9
  <2> HIDE DEF r, s
  <2>2. r = s
    BY <1>1, <2>1, SameString
  <2> HIDE DEF v, w
  <2>3. a = c /\ v = w
    BY <2>1, <2>2, SameString DEF r, s
  <2>4. b = d /\ x = y
    BY <2>3, SameString DEF v, w
  <2> QED BY <1>9, <2>3, <2>4
<1> QED BY <1>5, <1>7, <1>8, <1>9 DEF Identities

\* Every plan that can be read from a descriptor: only schema 6 has methods and a revision.
AnyPlans ==
  {p \in [protocol : Nat, revision : Nat, identity : Identities, id : Text, version : Text, entrypoint : Text,
          default : Options, digest : Nat, files : Nat, expanded : Nat, capabilities : Seq(Text),
          subscriptions : Seq(Text), methods : Seq(Text), actions : Seq(Text)] :
     p.protocol # 6 => p.revision = 0 /\ p.methods = <<>>}

\* The canonical bytes from a part on.
FromActions(p) == CanonicalList(p.actions)
FromMethods(p) == Cat(IF p.protocol = 6 THEN CanonicalList(p.methods) ELSE <<>>, FromActions(p))
FromSubscriptions(p) == Cat(CanonicalList(p.subscriptions), FromMethods(p))
FromCapabilities(p) == Cat(CanonicalList(p.capabilities), FromSubscriptions(p))
FromStats(p) == Cat(<<p.digest, p.files, p.expanded>>, FromCapabilities(p))
FromDefault(p) == Cat(CanonicalOption(p.default), FromStats(p))
FromEntrypoint(p) == Cat(CanonicalString(p.entrypoint), FromDefault(p))
FromRevision(p) == Cat(IF p.protocol = 6 THEN Item(p.revision) ELSE <<>>, FromEntrypoint(p))
FromProtocol(p) == Cat(Item(p.protocol), FromRevision(p))
FromVersion(p) == Cat(CanonicalString(p.version), FromProtocol(p))
FromId(p) == Cat(CanonicalString(p.id), FromVersion(p))
FromIdentity(p) == Cat(CanonicalIdentity(p.identity), FromId(p))
FromLayout(p) == Cat(CanonicalString(IF p.protocol = 6 THEN <<2>> ELSE <<1>>), FromIdentity(p))

LEMMA PartsTyped ==
  ASSUME NEW p \in AnyPlans
  PROVE  /\ CanonicalString(IF p.protocol = 6 THEN <<2>> ELSE <<1>>) \in Text
         /\ CanonicalIdentity(p.identity) \in Text
         /\ CanonicalString(p.id) \in Text
         /\ CanonicalString(p.version) \in Text
         /\ Item(p.protocol) \in Text
         /\ (IF p.protocol = 6 THEN Item(p.revision) ELSE <<>>) \in Text
         /\ CanonicalString(p.entrypoint) \in Text
         /\ CanonicalOption(p.default) \in Text
         /\ <<p.digest, p.files, p.expanded>> \in Text
         /\ CanonicalList(p.capabilities) \in Text
         /\ CanonicalList(p.subscriptions) \in Text
         /\ (IF p.protocol = 6 THEN CanonicalList(p.methods) ELSE <<>>) \in Text
         /\ CanonicalList(p.actions) \in Text
<1>1. <<1>> \in Text /\ <<2>> \in Text /\ <<0>> \in Text /\ <<>> \in Text
  BY DEF Text
<1>2. /\ p.protocol \in Nat /\ p.revision \in Nat /\ p.identity \in Identities /\ p.id \in Text /\ p.version \in Text
      /\ p.entrypoint \in Text /\ p.default \in Options /\ p.digest \in Nat /\ p.files \in Nat /\ p.expanded \in Nat
      /\ p.capabilities \in Seq(Text) /\ p.subscriptions \in Seq(Text) /\ p.methods \in Seq(Text) /\ p.actions \in Seq(Text)
  BY DEF AnyPlans
<1>3. CanonicalIdentity(p.identity) \in Text
  <2>1. CASE p.identity = <<>>
    BY <1>1, <2>1, StringTyped, CatText DEF CanonicalIdentity
  <2>2. ASSUME NEW a \in Text, NEW b \in Text, p.identity = <<a, b>> PROVE CanonicalIdentity(p.identity) \in Text
    <3>1. p.identity # <<>> /\ p.identity[1] = a /\ p.identity[2] = b
      BY <2>2
    <3> QED BY <1>1, <3>1, StringTyped, CatText DEF CanonicalIdentity
  <2> QED BY <1>2, <2>1, <2>2 DEF Identities
<1>4. CanonicalOption(p.default) \in Text
  <2>1. CASE p.default = <<>>
    BY <1>1, <2>1 DEF CanonicalOption
  <2>2. ASSUME NEW s \in Text, p.default = <<s>> PROVE CanonicalOption(p.default) \in Text
    <3>1. p.default # <<>> /\ p.default[1] = s
      BY <2>2
    <3>2. CanonicalOption(p.default) = Cat(<<1>>, CanonicalString(s))
      BY <3>1 DEF CanonicalOption, Cat
    <3> QED BY <1>1, <3>2, StringTyped, CatText
  <2> QED BY <1>2, <2>1, <2>2 DEF Options
<1>5. <<p.digest, p.files, p.expanded>> \in Text
  BY <1>2 DEF Text
<1>6. Item(p.protocol) \in Text /\ Item(p.revision) \in Text
  BY <1>2, ItemText
<1>7. /\ CanonicalList(p.capabilities) \in Text /\ CanonicalList(p.subscriptions) \in Text
      /\ CanonicalList(p.methods) \in Text /\ CanonicalList(p.actions) \in Text
  BY <1>2, StringsTyped
<1>8. CanonicalString(IF p.protocol = 6 THEN <<2>> ELSE <<1>>) \in Text
  BY <1>1, StringTyped
<1>9. CanonicalString(p.id) \in Text /\ CanonicalString(p.version) \in Text /\ CanonicalString(p.entrypoint) \in Text
  BY <1>2, StringTyped
<1> QED BY <1>1, <1>3, <1>4, <1>5, <1>6, <1>7, <1>8, <1>9

\* The canonical bytes of a plan, from the front.
LEMMA FingerprintParts ==
  ASSUME NEW p \in AnyPlans
  PROVE  /\ CanonicalFingerprint(p) = FromLayout(p)
         /\ FromLayout(p) \in Text /\ FromIdentity(p) \in Text /\ FromId(p) \in Text /\ FromVersion(p) \in Text /\ FromProtocol(p) \in Text
         /\ FromRevision(p) \in Text /\ FromEntrypoint(p) \in Text /\ FromDefault(p) \in Text /\ FromStats(p) \in Text
         /\ FromCapabilities(p) \in Text /\ FromSubscriptions(p) \in Text /\ FromMethods(p) \in Text /\ FromActions(p) \in Text
<1> DEFINE a1 == CanonicalString(IF p.protocol = 6 THEN <<2>> ELSE <<1>>)
           a2 == CanonicalIdentity(p.identity)
           a3 == CanonicalString(p.id)
           a4 == CanonicalString(p.version)
           a5 == Item(p.protocol)
           a6 == (IF p.protocol = 6 THEN Item(p.revision) ELSE <<>>)
           a7 == CanonicalString(p.entrypoint)
           a8 == CanonicalOption(p.default)
           a9 == <<p.digest, p.files, p.expanded>>
           a10 == CanonicalList(p.capabilities)
           a11 == CanonicalList(p.subscriptions)
           a12 == (IF p.protocol = 6 THEN CanonicalList(p.methods) ELSE <<>>)
           a13 == CanonicalList(p.actions)
           b1 == a1
           b2 == Cat(b1, a2)
           b3 == Cat(b2, a3)
           b4 == Cat(b3, a4)
           b5 == Cat(b4, a5)
           b6 == Cat(b5, a6)
           b7 == Cat(b6, a7)
           b8 == Cat(b7, a8)
           b9 == Cat(b8, a9)
           b10 == Cat(b9, a10)
           b11 == Cat(b10, a11)
           b12 == Cat(b11, a12)
           b13 == Cat(b12, a13)
           c13 == a13
           c12 == Cat(a12, c13)
           c11 == Cat(a11, c12)
           c10 == Cat(a10, c11)
           c9 == Cat(a9, c10)
           c8 == Cat(a8, c9)
           c7 == Cat(a7, c8)
           c6 == Cat(a6, c7)
           c5 == Cat(a5, c6)
           c4 == Cat(a4, c5)
           c3 == Cat(a3, c4)
           c2 == Cat(a2, c3)
           c1 == Cat(a1, c2)
<1>1. a1 \in Text /\ a2 \in Text /\ a3 \in Text /\ a4 \in Text /\ a5 \in Text /\ a6 \in Text /\ a7 \in Text /\ a8 \in Text /\ a9 \in Text /\ a10 \in Text /\ a11 \in Text /\ a12 \in Text /\ a13 \in Text
  BY PartsTyped
<1>2. CanonicalFingerprint(p) = b13
  BY DEF CanonicalFingerprint, CanonicalIdentity, Cat, Item
<1>3. FromLayout(p) = c1 /\ FromIdentity(p) = c2 /\ FromId(p) = c3 /\ FromVersion(p) = c4 /\ FromProtocol(p) = c5 /\ FromRevision(p) = c6 /\ FromEntrypoint(p) = c7 /\ FromDefault(p) = c8 /\ FromStats(p) = c9 /\ FromCapabilities(p) = c10 /\ FromSubscriptions(p) = c11 /\ FromMethods(p) = c12 /\ FromActions(p) = c13
  BY DEF FromLayout, FromIdentity, FromId, FromVersion, FromProtocol, FromRevision, FromEntrypoint, FromDefault, FromStats, FromCapabilities, FromSubscriptions, FromMethods, FromActions
<1> HIDE DEF a1, a2, a3, a4, a5, a6, a7, a8, a9, a10, a11, a12, a13
<1>4. b1 \in Text /\ b2 \in Text /\ b3 \in Text /\ b4 \in Text /\ b5 \in Text /\ b6 \in Text /\ b7 \in Text /\ b8 \in Text /\ b9 \in Text /\ b10 \in Text /\ b11 \in Text /\ b12 \in Text /\ b13 \in Text
  <2>1. b1 \in Text
    BY <1>1
  <2>2. b2 \in Text
    <3> HIDE DEF b1
    <3> QED BY <1>1, <2>1, CatText
  <2>3. b3 \in Text
    <3> HIDE DEF b2
    <3> QED BY <1>1, <2>2, CatText
  <2>4. b4 \in Text
    <3> HIDE DEF b3
    <3> QED BY <1>1, <2>3, CatText
  <2>5. b5 \in Text
    <3> HIDE DEF b4
    <3> QED BY <1>1, <2>4, CatText
  <2>6. b6 \in Text
    <3> HIDE DEF b5
    <3> QED BY <1>1, <2>5, CatText
  <2>7. b7 \in Text
    <3> HIDE DEF b6
    <3> QED BY <1>1, <2>6, CatText
  <2>8. b8 \in Text
    <3> HIDE DEF b7
    <3> QED BY <1>1, <2>7, CatText
  <2>9. b9 \in Text
    <3> HIDE DEF b8
    <3> QED BY <1>1, <2>8, CatText
  <2>10. b10 \in Text
    <3> HIDE DEF b9
    <3> QED BY <1>1, <2>9, CatText
  <2>11. b11 \in Text
    <3> HIDE DEF b10
    <3> QED BY <1>1, <2>10, CatText
  <2>12. b12 \in Text
    <3> HIDE DEF b11
    <3> QED BY <1>1, <2>11, CatText
  <2>13. b13 \in Text
    <3> HIDE DEF b12
    <3> QED BY <1>1, <2>12, CatText
  <2> HIDE DEF b1, b2, b3, b4, b5, b6, b7, b8, b9, b10, b11, b12, b13
  <2> QED BY <2>1, <2>2, <2>3, <2>4, <2>5, <2>6, <2>7, <2>8, <2>9, <2>10, <2>11, <2>12, <2>13
<1>5. c1 \in Text /\ c2 \in Text /\ c3 \in Text /\ c4 \in Text /\ c5 \in Text /\ c6 \in Text /\ c7 \in Text /\ c8 \in Text /\ c9 \in Text /\ c10 \in Text /\ c11 \in Text /\ c12 \in Text /\ c13 \in Text
  <2>13. c13 \in Text
    BY <1>1
  <2>12. c12 \in Text
    <3> HIDE DEF c13
    <3> QED BY <1>1, <2>13, CatText
  <2>11. c11 \in Text
    <3> HIDE DEF c12
    <3> QED BY <1>1, <2>12, CatText
  <2>10. c10 \in Text
    <3> HIDE DEF c11
    <3> QED BY <1>1, <2>11, CatText
  <2>9. c9 \in Text
    <3> HIDE DEF c10
    <3> QED BY <1>1, <2>10, CatText
  <2>8. c8 \in Text
    <3> HIDE DEF c9
    <3> QED BY <1>1, <2>9, CatText
  <2>7. c7 \in Text
    <3> HIDE DEF c8
    <3> QED BY <1>1, <2>8, CatText
  <2>6. c6 \in Text
    <3> HIDE DEF c7
    <3> QED BY <1>1, <2>7, CatText
  <2>5. c5 \in Text
    <3> HIDE DEF c6
    <3> QED BY <1>1, <2>6, CatText
  <2>4. c4 \in Text
    <3> HIDE DEF c5
    <3> QED BY <1>1, <2>5, CatText
  <2>3. c3 \in Text
    <3> HIDE DEF c4
    <3> QED BY <1>1, <2>4, CatText
  <2>2. c2 \in Text
    <3> HIDE DEF c3
    <3> QED BY <1>1, <2>3, CatText
  <2>1. c1 \in Text
    <3> HIDE DEF c2
    <3> QED BY <1>1, <2>2, CatText
  <2> HIDE DEF c1, c2, c3, c4, c5, c6, c7, c8, c9, c10, c11, c12, c13
  <2> QED BY <2>1, <2>2, <2>3, <2>4, <2>5, <2>6, <2>7, <2>8, <2>9, <2>10, <2>11, <2>12, <2>13
<1>6. b13 = c1
  <2>13. b13 = Cat(b12, c13)
    OBVIOUS
  <2>12. Cat(b12, c13) = Cat(b11, c12)
    <3> HIDE DEF b11, c13
    <3> QED BY <1>1, <1>4, <1>5, CatAssoc DEF b12, c12
  <2>11. Cat(b11, c12) = Cat(b10, c11)
    <3> HIDE DEF b10, c12
    <3> QED BY <1>1, <1>4, <1>5, CatAssoc DEF b11, c11
  <2>10. Cat(b10, c11) = Cat(b9, c10)
    <3> HIDE DEF b9, c11
    <3> QED BY <1>1, <1>4, <1>5, CatAssoc DEF b10, c10
  <2>9. Cat(b9, c10) = Cat(b8, c9)
    <3> HIDE DEF b8, c10
    <3> QED BY <1>1, <1>4, <1>5, CatAssoc DEF b9, c9
  <2>8. Cat(b8, c9) = Cat(b7, c8)
    <3> HIDE DEF b7, c9
    <3> QED BY <1>1, <1>4, <1>5, CatAssoc DEF b8, c8
  <2>7. Cat(b7, c8) = Cat(b6, c7)
    <3> HIDE DEF b6, c8
    <3> QED BY <1>1, <1>4, <1>5, CatAssoc DEF b7, c7
  <2>6. Cat(b6, c7) = Cat(b5, c6)
    <3> HIDE DEF b5, c7
    <3> QED BY <1>1, <1>4, <1>5, CatAssoc DEF b6, c6
  <2>5. Cat(b5, c6) = Cat(b4, c5)
    <3> HIDE DEF b4, c6
    <3> QED BY <1>1, <1>4, <1>5, CatAssoc DEF b5, c5
  <2>4. Cat(b4, c5) = Cat(b3, c4)
    <3> HIDE DEF b3, c5
    <3> QED BY <1>1, <1>4, <1>5, CatAssoc DEF b4, c4
  <2>3. Cat(b3, c4) = Cat(b2, c3)
    <3> HIDE DEF b2, c4
    <3> QED BY <1>1, <1>4, <1>5, CatAssoc DEF b3, c3
  <2>2. Cat(b2, c3) = Cat(b1, c2)
    <3> HIDE DEF b1, c3
    <3> QED BY <1>1, <1>4, <1>5, CatAssoc DEF b2, c2
  <2> HIDE DEF b2, b3, b4, b5, b6, b7, b8, b9, b10, b11, b12, b13, c2, c3, c4, c5, c6, c7, c8, c9, c10, c11, c12, c13
  <2> QED BY <2>2, <2>3, <2>4, <2>5, <2>6, <2>7, <2>8, <2>9, <2>10, <2>11, <2>12, <2>13
<1> HIDE DEF b1, c1, b2, c2, b3, c3, b4, c4, b5, c5, b6, c6, b7, c7, b8, c8, b9, c9, b10, c10, b11, c11, b12, c12, b13, c13
<1> QED BY <1>2, <1>3, <1>5, <1>6

\* After three numbers.
LEMMA SameTriple ==
  ASSUME NEW a \in Nat, NEW b \in Nat, NEW c \in Nat, NEW d \in Nat, NEW e \in Nat, NEW f \in Nat,
         NEW x \in Text, NEW y \in Text, Cat(<<a, b, c>>, x) = Cat(<<d, e, f>>, y)
  PROVE  a = d /\ b = e /\ c = f /\ x = y
<1> DEFINE s == <<a, b, c>>
           t == <<d, e, f>>
<1>1. s \in Seq(Nat) /\ t \in Seq(Nat) /\ Len(s) = Len(t)
  OBVIOUS
<1> HIDE DEF s, t
<1>2. s \o x = t \o y
  BY DEF Cat, s, t
<1>3. s = t /\ x = y
  BY <1>1, <1>2, SameLengthSame DEF Text
<1> QED BY <1>3 DEF s, t

\* Whatever the owner reviews is in the canonical bytes: two plans with the same bytes, and so with the
\* same fingerprint, are the same plan.
THEOREM FingerprintsDiffer ==
  ASSUME NEW p \in AnyPlans, NEW q \in AnyPlans, CanonicalFingerprint(p) = CanonicalFingerprint(q)
  PROVE  p = q
<1>1. FromLayout(p) = FromLayout(q)
  BY FingerprintParts
<1>2. \A r \in AnyPlans :
      /\ r.protocol \in Nat /\ r.revision \in Nat /\ r.identity \in Identities /\ r.id \in Text /\ r.version \in Text
      /\ r.entrypoint \in Text /\ r.default \in Options /\ r.digest \in Nat /\ r.files \in Nat /\ r.expanded \in Nat
      /\ r.capabilities \in Seq(Text) /\ r.subscriptions \in Seq(Text) /\ r.methods \in Seq(Text) /\ r.actions \in Seq(Text)
      /\ r.protocol # 6 => r.revision = 0 /\ r.methods = <<>>
  BY DEF AnyPlans
<1>3. FromIdentity(p) = FromIdentity(q)
  <2> DEFINE a == IF p.protocol = 6 THEN <<2>> ELSE <<1>>
             b == IF q.protocol = 6 THEN <<2>> ELSE <<1>>
             v == FromIdentity(p)
             w == FromIdentity(q)
  <2>1. a \in Text /\ b \in Text
    BY DEF Text
  <2>2. v \in Text /\ w \in Text /\ Cat(CanonicalString(a), v) = Cat(CanonicalString(b), w)
    BY <1>1, FingerprintParts DEF FromLayout
  <2> HIDE DEF a, b, v, w
  <2>3. v = w
    BY <2>1, <2>2, SameString
  <2> QED BY <2>3 DEF v, w
<1>4. p.identity = q.identity /\ FromId(p) = FromId(q)
  <2> DEFINE a == p.identity
             b == q.identity
             v == FromId(p)
             w == FromId(q)
  <2>1. a \in Identities /\ b \in Identities /\ v \in Text /\ w \in Text /\ Cat(CanonicalIdentity(a), v) = Cat(CanonicalIdentity(b), w)
    BY <1>2, <1>3, FingerprintParts DEF FromIdentity
  <2> HIDE DEF a, b, v, w
  <2>2. a = b /\ v = w
    BY <2>1, SameIdentity
  <2> QED BY <2>2 DEF a, b, v, w
<1>5. p.id = q.id /\ FromVersion(p) = FromVersion(q)
  <2> DEFINE a == p.id
             b == q.id
             v == FromVersion(p)
             w == FromVersion(q)
  <2>1. a \in Text /\ b \in Text /\ v \in Text /\ w \in Text /\ Cat(CanonicalString(a), v) = Cat(CanonicalString(b), w)
    BY <1>2, <1>4, FingerprintParts DEF FromId
  <2> HIDE DEF a, b, v, w
  <2>2. a = b /\ v = w
    BY <2>1, SameString
  <2> QED BY <2>2 DEF a, b, v, w
<1>6. p.version = q.version /\ FromProtocol(p) = FromProtocol(q)
  <2> DEFINE a == p.version
             b == q.version
             v == FromProtocol(p)
             w == FromProtocol(q)
  <2>1. a \in Text /\ b \in Text /\ v \in Text /\ w \in Text /\ Cat(CanonicalString(a), v) = Cat(CanonicalString(b), w)
    BY <1>2, <1>5, FingerprintParts DEF FromVersion
  <2> HIDE DEF a, b, v, w
  <2>2. a = b /\ v = w
    BY <2>1, SameString
  <2> QED BY <2>2 DEF a, b, v, w
<1>7. p.protocol = q.protocol /\ FromRevision(p) = FromRevision(q)
  <2> DEFINE a == p.protocol
             b == q.protocol
             v == FromRevision(p)
             w == FromRevision(q)
  <2>1. a \in Nat /\ b \in Nat /\ v \in Text /\ w \in Text /\ Cat(Item(a), v) = Cat(Item(b), w)
    BY <1>2, <1>6, FingerprintParts DEF FromProtocol
  <2> HIDE DEF a, b, v, w
  <2>2. a = b /\ v = w
    BY <2>1, SameItem
  <2> QED BY <2>2 DEF a, b, v, w
<1>8. p.revision = q.revision /\ FromEntrypoint(p) = FromEntrypoint(q)
  <2> DEFINE a == p.revision
             b == q.revision
             v == FromEntrypoint(p)
             w == FromEntrypoint(q)
  <2>1. a \in Nat /\ b \in Nat /\ v \in Text /\ w \in Text
    BY <1>2, FingerprintParts
  <2>2. CASE p.protocol = 6
    <3>1. q.protocol = 6
      BY <1>7, <2>2
    <3>2. Cat(Item(a), v) = Cat(Item(b), w)
      BY <1>7, <2>2, <3>1 DEF FromRevision
    <3> HIDE DEF a, b, v, w
    <3>3. a = b /\ v = w
      BY <2>1, <3>2, SameItem
    <3> QED BY <3>3 DEF a, b, v, w
  <2>3. CASE p.protocol # 6
    <3>1. q.protocol # 6
      BY <1>7, <2>3
    <3>2. Cat(<<>>, v) = Cat(<<>>, w)
      BY <1>7, <2>3, <3>1 DEF FromRevision
    <3>3. v = w
      <4> HIDE DEF v, w
      <4> QED BY <2>1, <3>2, EmptyText
    <3> QED BY <1>2, <2>3, <3>1, <3>3
  <2> QED BY <2>2, <2>3
<1>9. p.entrypoint = q.entrypoint /\ FromDefault(p) = FromDefault(q)
  <2> DEFINE a == p.entrypoint
             b == q.entrypoint
             v == FromDefault(p)
             w == FromDefault(q)
  <2>1. a \in Text /\ b \in Text /\ v \in Text /\ w \in Text /\ Cat(CanonicalString(a), v) = Cat(CanonicalString(b), w)
    BY <1>2, <1>8, FingerprintParts DEF FromEntrypoint
  <2> HIDE DEF a, b, v, w
  <2>2. a = b /\ v = w
    BY <2>1, SameString
  <2> QED BY <2>2 DEF a, b, v, w
<1>10. p.default = q.default /\ FromStats(p) = FromStats(q)
  <2> DEFINE a == p.default
             b == q.default
             v == FromStats(p)
             w == FromStats(q)
  <2>1. a \in Options /\ b \in Options /\ v \in Text /\ w \in Text /\ Cat(CanonicalOption(a), v) = Cat(CanonicalOption(b), w)
    BY <1>2, <1>9, FingerprintParts DEF FromDefault
  <2> HIDE DEF a, b, v, w
  <2>2. a = b /\ v = w
    BY <2>1, SameOption
  <2> QED BY <2>2 DEF a, b, v, w
<1>11. p.digest = q.digest /\ p.files = q.files /\ p.expanded = q.expanded /\ FromCapabilities(p) = FromCapabilities(q)
  <2> DEFINE v == FromCapabilities(p)
             w == FromCapabilities(q)
  <2>1. v \in Text /\ w \in Text
    BY FingerprintParts
  <2>2. Cat(<<p.digest, p.files, p.expanded>>, v) = Cat(<<q.digest, q.files, q.expanded>>, w)
    BY <1>10 DEF FromStats
  <2> HIDE DEF v, w
  <2>3. p.digest = q.digest /\ p.files = q.files /\ p.expanded = q.expanded /\ v = w
    <3> DEFINE a == p.digest
               b == p.files
               c == p.expanded
               d == q.digest
               e == q.files
               f == q.expanded
    <3>1. /\ a \in Nat /\ b \in Nat /\ c \in Nat /\ d \in Nat /\ e \in Nat /\ f \in Nat
          /\ Cat(<<a, b, c>>, v) = Cat(<<d, e, f>>, w)
      BY <1>2, <2>2
    <3> HIDE DEF a, b, c, d, e, f
    <3>2. a = d /\ b = e /\ c = f /\ v = w
      BY <2>1, <3>1, SameTriple
    <3> QED BY <3>2 DEF a, b, c, d, e, f
  <2> QED BY <2>3 DEF v, w
<1>12. p.capabilities = q.capabilities /\ FromSubscriptions(p) = FromSubscriptions(q)
  <2> DEFINE a == p.capabilities
             b == q.capabilities
             v == FromSubscriptions(p)
             w == FromSubscriptions(q)
  <2>1. a \in Seq(Text) /\ b \in Seq(Text) /\ v \in Text /\ w \in Text /\ Cat(CanonicalList(a), v) = Cat(CanonicalList(b), w)
    BY <1>2, <1>11, FingerprintParts DEF FromCapabilities
  <2> HIDE DEF a, b, v, w
  <2>2. a = b /\ v = w
    BY <2>1, SameList
  <2> QED BY <2>2 DEF a, b, v, w
<1>13. p.subscriptions = q.subscriptions /\ FromMethods(p) = FromMethods(q)
  <2> DEFINE a == p.subscriptions
             b == q.subscriptions
             v == FromMethods(p)
             w == FromMethods(q)
  <2>1. a \in Seq(Text) /\ b \in Seq(Text) /\ v \in Text /\ w \in Text /\ Cat(CanonicalList(a), v) = Cat(CanonicalList(b), w)
    BY <1>2, <1>12, FingerprintParts DEF FromSubscriptions
  <2> HIDE DEF a, b, v, w
  <2>2. a = b /\ v = w
    BY <2>1, SameList
  <2> QED BY <2>2 DEF a, b, v, w
<1>14. p.methods = q.methods /\ FromActions(p) = FromActions(q)
  <2> DEFINE a == p.methods
             b == q.methods
             v == FromActions(p)
             w == FromActions(q)
  <2>1. a \in Seq(Text) /\ b \in Seq(Text) /\ v \in Text /\ w \in Text
    BY <1>2, FingerprintParts
  <2>2. CASE p.protocol = 6
    <3>1. q.protocol = 6
      BY <1>7, <2>2
    <3>2. Cat(CanonicalList(a), v) = Cat(CanonicalList(b), w)
      BY <1>13, <2>2, <3>1 DEF FromMethods
    <3> HIDE DEF a, b, v, w
    <3>3. a = b /\ v = w
      BY <2>1, <3>2, SameList
    <3> QED BY <3>3 DEF a, b, v, w
  <2>3. CASE p.protocol # 6
    <3>1. q.protocol # 6
      BY <1>7, <2>3
    <3>2. Cat(<<>>, v) = Cat(<<>>, w)
      BY <1>13, <2>3, <3>1 DEF FromMethods
    <3>3. v = w
      <4> HIDE DEF v, w
      <4> QED BY <2>1, <3>2, EmptyText
    <3> QED BY <1>2, <2>3, <3>1, <3>3
  <2> QED BY <2>2, <2>3
<1>15. p.actions = q.actions
  <2> DEFINE a == p.actions
             b == q.actions
             none == <<>>
  <2>1. a \in Seq(Text) /\ b \in Seq(Text) /\ none \in Text
    BY <1>2, EmptyText
  <2>2. CanonicalList(a) = CanonicalList(b)
    BY <1>14 DEF FromActions
  <2> HIDE DEF a, b, none
  <2>3. Cat(CanonicalList(a), none) = Cat(CanonicalList(b), none)
    BY <2>2
  <2>4. a = b
    BY <2>1, <2>3, SameList
  <2> QED BY <2>4 DEF a, b
<1>16. \A r \in AnyPlans :
         r = [protocol |-> r.protocol, revision |-> r.revision, identity |-> r.identity, id |-> r.id,
              version |-> r.version, entrypoint |-> r.entrypoint, default |-> r.default, digest |-> r.digest,
              files |-> r.files, expanded |-> r.expanded, capabilities |-> r.capabilities,
              subscriptions |-> r.subscriptions, methods |-> r.methods, actions |-> r.actions]
  BY DEF AnyPlans
<1> QED BY <1>4, <1>5, <1>6, <1>7, <1>8, <1>9, <1>10, <1>11, <1>12, <1>13, <1>14, <1>15, <1>16

(***************************************************************************)
(* The staged tree.                                                        *)
(***************************************************************************)
HostPaths(X) == Seq(X)
EntryTyped(X, e) == e.path \in HostPaths(X) /\ e.dir \in BOOLEAN /\ e.expanded \in Nat

Codes == {"ok", "EncryptedArchive", "UnsupportedCompression", "UnsafeEntryType", "UnsafePath", "LimitExceeded",
          "RootManifest", "Staging", "MalformedArchive"}

\* The components of a spelling that does not begin with a slash are some.
LEMMA ComponentsOf ==
  ASSUME NEW X, NEW path \in HostPaths(X)
  PROVE  /\ Components(path) \in HostPaths(X)
         /\ path # <<>> /\ path[1] # NoName => Components(path) # <<>>
         /\ Len(path) = 1 /\ path[1] # NoName => Components(path) = <<path[1]>>
<1> DEFINE n == Len(path)
           D == DOMAIN path
           Step(v, c) == IF c = NoName THEN v ELSE Append(v, c)
           Body(f) == [s \in SUBSET D |-> IF s = {} THEN <<>> ELSE Step(f[s \ {Max(s)}], path[Max(s)])]
           iter == CHOOSE f : f = Body(f)
           G == [k \in 1 .. n |-> [v \in HostPaths(X) |-> Step(v, path[k])]]
<1>1. Components(path) = iter[D]
  BY DEF Components, FoldLeft, MapThenFoldSet
<1>2. D = 1 .. n /\ n \in Nat /\ \A k \in 1 .. n : path[k] \in X
  BY LenProperties, ElementOfSeq DEF HostPaths
<1>3. ASSUME NEW v \in HostPaths(X), NEW c \in X PROVE Step(v, c) \in HostPaths(X)
  BY AppendProperties DEF HostPaths
<1> HIDE DEF n, D, Step
<1>4. G \in [1 .. n -> [HostPaths(X) -> HostPaths(X)]]
  BY <1>2, <1>3
<1> DEFINE none == <<>>
<1>5. none \in HostPaths(X)
  BY DEF HostPaths
<1>6. PICK f \in [SUBSET (1 .. n) -> HostPaths(X)] : FoldsWith(f, 1 .. n, none, G)
  <2> HIDE DEF G, none
  <2> QED BY <1>2, <1>4, <1>5, FoldExists
<1>7. ASSUME NEW s \in SUBSET (1 .. n), s # {} PROVE Max(s) \in 1 .. n /\ s \ {Max(s)} \in SUBSET (1 .. n)
  BY <1>2, <1>7, WithoutLast
<1>8. f = Body(f)
  <2>1. ASSUME NEW s \in SUBSET D PROVE f[s] = Body(f)[s]
    <3>1. f[s] = IF s = {} THEN none ELSE G[Max(s)][f[s \ {Max(s)}]]
      BY <1>2, <1>6 DEF FoldsWith
    <3>2. s # {} => Max(s) \in 1 .. n /\ f[s \ {Max(s)}] \in HostPaths(X)
      BY <1>2, <1>7
    <3> QED BY <3>1, <3>2
  <2> QED BY <1>2, <2>1
<1>9. iter = Body(iter)
  <2> HIDE DEF Body
  <2> QED BY <1>8
<1> HIDE DEF iter
<1>10. iter[{}] = none
  BY <1>9
<1>11. ASSUME NEW s \in SUBSET (1 .. n), s # {}, iter[s \ {Max(s)}] \in HostPaths(X)
       PROVE  iter[s] = G[Max(s)][iter[s \ {Max(s)}]]
  BY <1>2, <1>7, <1>9, <1>11
<1>12. StepsIn(iter, n, HostPaths(X), none, G)
  BY <1>10, <1>11 DEF StepsIn
<1>13. PICK t \in [0 .. n -> HostPaths(X)] : PrefixesOf(t, n, none, G, iter[1 .. n])
  <2> HIDE DEF G, none
  <2> QED BY <1>2, <1>4, <1>5, <1>12, FoldPrefixes
<1>14. ASSUME NEW k \in 1 .. n PROVE t[k] = Step(t[k - 1], path[k])
  <2>1. k - 1 \in 0 .. n
    BY <1>2
  <2> QED BY <1>13, <2>1 DEF PrefixesOf
<1>15. t[0] = none /\ t[n] = Components(path)
  BY <1>1, <1>2, <1>13 DEF PrefixesOf
<1>16. n \in 0 .. n
  BY <1>2
<1>17. Components(path) \in HostPaths(X)
  BY <1>15, <1>16
<1>18. ASSUME n # 0, path[1] # NoName PROVE t[1] = <<path[1]>> /\ t[1] # <<>>
  <2>1. 1 \in 1 .. n /\ 1 - 1 = 0
    BY <1>2, <1>18
  <2>2. t[1] = Append(<<>>, path[1])
    BY <1>14, <1>15, <1>18, <2>1 DEF Step
  <2> QED BY <2>2
<1>19. ASSUME n # 0, path[1] # NoName PROVE Components(path) # <<>>
  <2> DEFINE S == {k \in Nat : k = 0 \/ t[k] # <<>>}
  <2>1. 0 \in S
    OBVIOUS
  <2>2. ASSUME NEW k \in Nat, k \in S, k < n PROVE k + 1 \in S
    <3>1. k + 1 \in 1 .. n /\ k \in 0 .. n /\ (k + 1) - 1 = k /\ k + 1 \in Nat
      BY <1>2, <2>2
    <3>2. CASE k = 0
      BY <1>18, <1>19, <3>1, <3>2
    <3>3. CASE k # 0
      <4>1. t[k] # <<>> /\ t[k] \in Seq(X) /\ path[k + 1] \in X
        BY <1>2, <2>2, <3>1, <3>3 DEF HostPaths
      <4>2. Append(t[k], path[k + 1]) # <<>>
        BY <4>1, AppendProperties
      <4>3. t[k + 1] = Step(t[k], path[k + 1])
        BY <1>14, <3>1
      <4> QED BY <3>1, <4>1, <4>2, <4>3 DEF Step
    <3> QED BY <3>2, <3>3
  <2>3. n \in S
    <3> HIDE DEF S
    <3>1. 0 .. n \subseteq S
      BY <1>2, <2>1, <2>2, UpTo
    <3> QED BY <1>16, <3>1
  <2> QED BY <1>15, <1>19, <2>3
<1>20. path # <<>> => n # 0
  BY EmptySeq DEF HostPaths, n
<1>21. n = 1 /\ path[1] # NoName => Components(path) = <<path[1]>>
  BY <1>15, <1>18
<1> QED BY <1>17, <1>19, <1>20, <1>21 DEF n

\* A sequence of checks that are codes fails with one of them.
LEMMA FirstFailureCode ==
  ASSUME NEW checks, DOMAIN checks \in SUBSET Nat, \A i \in DOMAIN checks : checks[i] \in Codes
  PROVE  FirstFailure(checks) \in Codes
<1> DEFINE failed == {i \in DOMAIN checks : checks[i] # "ok"}
<1>1. CASE failed = {}
  BY <1>1 DEF FirstFailure, Codes
<1>2. CASE failed # {}
  <2>1. failed \in SUBSET Nat
    OBVIOUS
  <2>2. Min(failed) \in failed
    BY <1>2, <2>1, LeastOf
  <2>3. FirstFailure(checks) = checks[Min(failed)]
    BY <1>2 DEF FirstFailure
  <2> QED BY <2>2, <2>3
<1> QED BY <1>1, <1>2

\* An entry that passes has a path that does not begin with a slash.
LEMMA ValidatedEntry ==
  ASSUME NEW names, NEW e
  PROVE  /\ ValidateEntry(names, e) \in Codes
         /\ ValidateEntry(names, e) = "ok" => e.path # <<>> /\ e.path[1] # NoName
<1> DEFINE c1 == Check(~e.encrypted, "EncryptedArchive")
           c2 == Check(e.stored, "UnsupportedCompression")
           c3 == Kind(e)
           c4 == Check(PathSafe(e), "UnsafePath")
           c5 == Check(Len(Components(e.path)) <= Limits.depth, "LimitExceeded")
           c6 == Check(SizeOk(e), "LimitExceeded")
           c7 == Check(e.dir => e.compressed = 0 /\ e.expanded = 0, "UnsafeEntryType")
           c8 == Check(NameFree(names, e), "UnsafeEntryType")
           checks == <<c1, c2, c3, c4, c5, c6, c7, c8>>
<1>1. ValidateEntry(names, e) = FirstFailure(checks)
  BY DEF ValidateEntry
<1>2. c1 \in Codes /\ c2 \in Codes /\ c4 \in Codes /\ c5 \in Codes /\ c6 \in Codes /\ c7 \in Codes /\ c8 \in Codes
  BY DEF Check, Codes
<1>3. c3 \in Codes
  BY DEF Kind, Codes
<1>4. c4 = "ok" => e.path # <<>> /\ e.path[1] # NoName
  BY DEF Check, PathSafe
<1> HIDE DEF c1, c2, c3, c4, c5, c6, c7, c8
<1>5. DOMAIN checks = 1 .. 8 /\ checks[4] = c4
  OBVIOUS
<1>6. \A i \in 1 .. 8 : checks[i] \in Codes
  BY <1>2, <1>3
<1>7. DOMAIN checks \in SUBSET Nat /\ 4 \in DOMAIN checks
  BY <1>5
<1>8. FirstFailure(checks) \in Codes
  <2> HIDE DEF checks
  <2> QED BY <1>5, <1>6, <1>7, FirstFailureCode
<1>9. FirstFailure(checks) = "ok" => checks[4] = "ok"
  <2> HIDE DEF checks
  <2> QED BY <1>7, FirstFailureOk
<1> HIDE DEF checks
<1> QED BY <1>1, <1>4, <1>5, <1>8, <1>9

NameMaps(X) == UNION {[D -> BOOLEAN] : D \in SUBSET HostPaths(X)}
Judgements(X) == [names : NameMaps(X), expanded : Nat, files : Nat, manifests : Nat, error : Codes]

LEMMA InsertName ==
  ASSUME NEW X, NEW names \in NameMaps(X), NEW path \in HostPaths(X), NEW dir \in BOOLEAN
  PROVE  Insert(names, path, dir) \in NameMaps(X)
<1> DEFINE D == DOMAIN names \cup {path}
<1>1. PICK C \in SUBSET HostPaths(X) : names \in [C -> BOOLEAN]
  BY DEF NameMaps
<1>2. D \in SUBSET HostPaths(X)
  BY <1>1
<1>3. Insert(names, path, dir) \in [D -> BOOLEAN]
  BY <1>1 DEF Insert
<1> HIDE DEF D
<1> QED BY <1>2, <1>3 DEF NameMaps

\* Judging stops at the first entry that fails and counts the files up to it.
LEMMA JudgeIn ==
  ASSUME NEW X, NEW acc \in Judgements(X), NEW e, EntryTyped(X, e)
  PROVE  /\ Judge(acc, e) \in Judgements(X)
         /\ Judge(acc, e).error = "ok" =>
              /\ acc.error = "ok" /\ e.path # <<>> /\ e.path[1] # NoName /\ ~NestedManifest(e)
              /\ Judge(acc, e).files = acc.files + (IF e.dir THEN 0 ELSE 1)
<1> DEFINE verdict == ValidateEntry(acc.names, e)
           total == acc.expanded + e.expanded
           next == [names |-> Insert(acc.names, e.path, e.dir), expanded |-> total,
                    files |-> acc.files + (IF e.dir THEN 0 ELSE 1),
                    manifests |-> acc.manifests + (IF RootManifest(e) THEN 1 ELSE 0), error |-> "ok"]
<1>1. verdict \in Codes /\ (verdict = "ok" => e.path # <<>> /\ e.path[1] # NoName)
  BY ValidatedEntry
<1>2. e.path \in HostPaths(X) /\ e.dir \in BOOLEAN /\ e.expanded \in Nat
  BY DEF EntryTyped
<1>3. /\ acc.names \in NameMaps(X) /\ acc.expanded \in Nat /\ acc.files \in Nat /\ acc.manifests \in Nat
      /\ acc.error \in Codes
  BY DEF Judgements
<1>4. Insert(acc.names, e.path, e.dir) \in NameMaps(X)
  BY <1>2, <1>3, InsertName
<1>5. total \in Nat
  BY <1>2, <1>3
<1>6. Judge(acc, e) = IF acc.error # "ok" THEN acc
                      ELSE IF verdict # "ok" THEN [acc EXCEPT !.error = verdict]
                      ELSE IF total > Limits.expanded THEN [acc EXCEPT !.error = "LimitExceeded"]
                      ELSE IF NestedManifest(e) THEN [acc EXCEPT !.error = "RootManifest"]
                      ELSE next
  BY DEF Judge
<1> HIDE DEF verdict, total
<1>7. next \in Judgements(X) /\ next.error = "ok" /\ next.files = acc.files + (IF e.dir THEN 0 ELSE 1)
  <2> DEFINE files == acc.files + (IF e.dir THEN 0 ELSE 1)
             manifests == acc.manifests + (IF RootManifest(e) THEN 1 ELSE 0)
  <2>1. files \in Nat /\ manifests \in Nat /\ "ok" \in Codes
    BY <1>3 DEF Codes
  <2> HIDE DEF files, manifests
  <2> DEFINE names == Insert(acc.names, e.path, e.dir)
  <2>2. names \in NameMaps(X)
    BY <1>4
  <2> HIDE DEF names
  <2>3. next = [names |-> names, expanded |-> total, files |-> files, manifests |-> manifests, error |-> "ok"]
    BY DEF names, files, manifests
  <2> HIDE DEF next
  <2>4. next \in Judgements(X) /\ next.error = "ok" /\ next.files = files
    BY <1>5, <2>1, <2>2, <2>3 DEF Judgements
  <2> QED BY <2>4 DEF files
<1> HIDE DEF next
<1>8. ASSUME NEW s \in Codes PROVE [acc EXCEPT !.error = s] \in Judgements(X) /\ [acc EXCEPT !.error = s].error = s
  BY DEF Judgements
<1>9. CASE acc.error # "ok"
  BY <1>6, <1>9
<1>10. CASE acc.error = "ok" /\ verdict # "ok"
  BY <1>1, <1>6, <1>8, <1>10
<1>11. CASE acc.error = "ok" /\ verdict = "ok" /\ total > Limits.expanded
  <2>1. Judge(acc, e) = [acc EXCEPT !.error = "LimitExceeded"]
    BY <1>6, <1>11
  <2> QED BY <1>8, <2>1 DEF Codes
<1>12. CASE acc.error = "ok" /\ verdict = "ok" /\ ~(total > Limits.expanded) /\ NestedManifest(e)
  <2>1. Judge(acc, e) = [acc EXCEPT !.error = "RootManifest"]
    BY <1>6, <1>12
  <2> QED BY <1>8, <2>1 DEF Codes
<1>13. CASE acc.error = "ok" /\ verdict = "ok" /\ ~(total > Limits.expanded) /\ ~NestedManifest(e)
  <2>1. Judge(acc, e) = next
    BY <1>6, <1>13
  <2> QED BY <1>1, <1>7, <1>13, <2>1
<1> QED BY <1>9, <1>10, <1>11, <1>12, <1>13

FirstJudgement == [names |-> [p \in {} |-> FALSE], expanded |-> 0, files |-> 0, manifests |-> 0, error |-> "ok"]

LEMMA JudgedPrefixes ==
  ASSUME NEW X, NEW E, NEW entries \in Seq(E), \A e \in E : EntryTyped(X, e)
  PROVE  \E t \in [0 .. Len(entries) -> Judgements(X)] :
           /\ t[0] = FirstJudgement /\ t[Len(entries)] = FoldLeft(Judge, FirstJudgement, entries)
           /\ \A k \in 1 .. Len(entries) : t[k] = Judge(t[k - 1], entries[k])
<1> DEFINE n == Len(entries)
           D == DOMAIN entries
           first == FirstJudgement
           J == Judgements(X)
           Body(f) == [s \in SUBSET D |-> IF s = {} THEN first ELSE Judge(f[s \ {Max(s)}], entries[Max(s)])]
           iter == CHOOSE f : f = Body(f)
           G == [k \in 1 .. n |-> [v \in J |-> Judge(v, entries[k])]]
<1>1. FoldLeft(Judge, first, entries) = iter[D]
  BY DEF FoldLeft, MapThenFoldSet
<1>2. D = 1 .. n /\ n \in Nat /\ \A k \in 1 .. n : EntryTyped(X, entries[k])
  BY LenProperties, ElementOfSeq
<1>3. G \in [1 .. n -> [J -> J]]
  BY <1>2, JudgeIn
<1>4. first \in J
  <2> DEFINE none == [p \in {} |-> FALSE]
  <2>1. none \in [{} -> BOOLEAN] /\ {} \in SUBSET HostPaths(X)
    OBVIOUS
  <2>2. none \in NameMaps(X)
    BY <2>1 DEF NameMaps
  <2> HIDE DEF none
  <2>3. [names |-> none, expanded |-> 0, files |-> 0, manifests |-> 0, error |-> "ok"] \in Judgements(X)
    BY <2>2 DEF Judgements, Codes
  <2> QED BY <2>3 DEF FirstJudgement, none
<1> HIDE DEF n, D, first, J
<1>5. PICK f \in [SUBSET (1 .. n) -> J] : FoldsWith(f, 1 .. n, first, G)
  <2> HIDE DEF G
  <2> QED BY <1>2, <1>3, <1>4, FoldExists
<1>6. ASSUME NEW s \in SUBSET (1 .. n), s # {} PROVE Max(s) \in 1 .. n /\ s \ {Max(s)} \in SUBSET (1 .. n)
  BY <1>2, <1>6, WithoutLast
<1>7. f = Body(f)
  <2>1. ASSUME NEW s \in SUBSET D PROVE f[s] = Body(f)[s]
    <3>1. f[s] = IF s = {} THEN first ELSE G[Max(s)][f[s \ {Max(s)}]]
      BY <1>2, <1>5 DEF FoldsWith
    <3>2. s # {} => Max(s) \in 1 .. n /\ f[s \ {Max(s)}] \in J
      BY <1>2, <1>6
    <3> QED BY <3>1, <3>2
  <2> QED BY <1>2, <2>1
<1>8. iter = Body(iter)
  <2> HIDE DEF Body
  <2> QED BY <1>7
<1> HIDE DEF iter
<1>9. iter[{}] = first
  BY <1>8
<1>10. ASSUME NEW s \in SUBSET (1 .. n), s # {}, iter[s \ {Max(s)}] \in J
       PROVE  iter[s] = G[Max(s)][iter[s \ {Max(s)}]]
  BY <1>2, <1>6, <1>8, <1>10
<1>11. StepsIn(iter, n, J, first, G)
  BY <1>9, <1>10 DEF StepsIn
<1>12. PICK t \in [0 .. n -> J] : PrefixesOf(t, n, first, G, iter[1 .. n])
  <2> HIDE DEF G
  <2> QED BY <1>2, <1>3, <1>4, <1>11, FoldPrefixes
<1>13. ASSUME NEW k \in 1 .. n PROVE t[k] = Judge(t[k - 1], entries[k])
  <2>1. k - 1 \in 0 .. n
    BY <1>2
  <2> QED BY <1>12, <2>1 DEF PrefixesOf
<1>14. t[0] = first /\ t[n] = iter[1 .. n]
  BY <1>12 DEF PrefixesOf
<1> QED BY <1>1, <1>2, <1>13, <1>14 DEF n, J, first

FilesUpTo(entries, k) == {i \in 1 .. k : ~entries[i].dir}

\* An archive that is judged well: every entry was, and its files are counted.
LEMMA JudgedWhole ==
  ASSUME NEW X, NEW E, NEW entries \in Seq(E), \A e \in E : EntryTyped(X, e),
         FoldLeft(Judge, FirstJudgement, entries).error = "ok"
  PROVE  /\ \A i \in 1 .. Len(entries) :
              entries[i].path # <<>> /\ entries[i].path[1] # NoName /\ ~NestedManifest(entries[i])
         /\ FoldLeft(Judge, FirstJudgement, entries).files = Cardinality(FilesUpTo(entries, Len(entries)))
<1> DEFINE n == Len(entries)
<1>1. n \in Nat /\ \A k \in 1 .. n : EntryTyped(X, entries[k])
  BY LenProperties, ElementOfSeq
<1>2. PICK t \in [0 .. n -> Judgements(X)] :
        /\ t[0] = FirstJudgement /\ t[n] = FoldLeft(Judge, FirstJudgement, entries)
        /\ \A k \in 1 .. n : t[k] = Judge(t[k - 1], entries[k])
  BY JudgedPrefixes
<1> HIDE DEF n
<1>3. ASSUME NEW k \in 1 .. n, t[k].error = "ok"
      PROVE  /\ t[k - 1].error = "ok" /\ entries[k].path # <<>> /\ entries[k].path[1] # NoName
             /\ ~NestedManifest(entries[k]) /\ t[k].files = t[k - 1].files + (IF entries[k].dir THEN 0 ELSE 1)
  <2> DEFINE acc == t[k - 1]
             e == entries[k]
  <2>1. k - 1 \in 0 .. n
    BY <1>1
  <2>2. acc \in Judgements(X) /\ EntryTyped(X, e) /\ t[k] = Judge(acc, e)
    BY <1>1, <1>2, <2>1
  <2> HIDE DEF acc, e
  <2>3. acc.error = "ok" /\ e.path # <<>> /\ e.path[1] # NoName /\ ~NestedManifest(e)
        /\ Judge(acc, e).files = acc.files + (IF e.dir THEN 0 ELSE 1)
    BY <1>3, <2>2, JudgeIn
  <2> QED BY <2>2, <2>3 DEF acc, e
<1> DEFINE B == {j \in Nat : j <= n => t[n - j].error = "ok"}
<1>4. 0 \in B
  <2>1. n - 0 = n
    BY <1>1
  <2> QED BY <1>2, <2>1 DEF n
<1>5. ASSUME NEW j \in Nat, j \in B, j < n PROVE j + 1 \in B
  <2> DEFINE k == n - j
  <2>1. k \in 1 .. n /\ k - 1 = n - (j + 1) /\ j + 1 \in Nat /\ j <= n
    BY <1>1, <1>5
  <2>2. t[k].error = "ok"
    BY <1>5, <2>1
  <2> HIDE DEF k
  <2>3. t[k - 1].error = "ok"
    BY <1>3, <2>1, <2>2
  <2> QED BY <2>1, <2>3
<1>6. ASSUME NEW k \in 0 .. n PROVE t[k].error = "ok"
  <2> DEFINE j == n - k
  <2>1. j \in 0 .. n /\ n - j = k /\ j <= n
    BY <1>1
  <2> HIDE DEF j, B
  <2>2. j \in B
    BY <1>1, <1>4, <1>5, <2>1, UpTo
  <2> QED BY <2>1, <2>2 DEF B
<1>7. \A i \in 1 .. n : entries[i].path # <<>> /\ entries[i].path[1] # NoName /\ ~NestedManifest(entries[i])
  <2>1. ASSUME NEW i \in 1 .. n PROVE i \in 0 .. n
    BY <1>1
  <2> QED BY <1>3, <1>6, <2>1
<1> DEFINE S == {k \in Nat : k <= n => t[k].files = Cardinality(FilesUpTo(entries, k))}
<1>8. 0 \in S
  <2>1. FilesUpTo(entries, 0) = {}
    BY DEF FilesUpTo
  <2>2. t[0].files = 0
    BY <1>2 DEF FirstJudgement
  <2> QED BY <2>1, <2>2, FS_EmptySet
<1>9. ASSUME NEW k \in Nat, k \in S, k < n PROVE k + 1 \in S
  <2> DEFINE m == k + 1
  <2>1. m \in 1 .. n /\ m \in 0 .. n /\ m - 1 = k /\ m \in Nat /\ k <= n
    BY <1>1, <1>9
  <2>2. t[k].files = Cardinality(FilesUpTo(entries, k))
    BY <1>9, <2>1
  <2>3. m \notin FilesUpTo(entries, k) /\ FilesUpTo(entries, k) \in SUBSET (1 .. k)
    BY DEF FilesUpTo
  <2>4. FilesUpTo(entries, m) = IF entries[m].dir THEN FilesUpTo(entries, k) ELSE FilesUpTo(entries, k) \cup {m}
    <3>1. 1 .. m = (1 .. k) \cup {m}
      OBVIOUS
    <3>2. entries[m].dir \in BOOLEAN
      BY <1>1, <2>1 DEF EntryTyped
    <3> HIDE DEF m
    <3> QED BY <3>1, <3>2 DEF FilesUpTo
  <2> HIDE DEF m
  <2>5. IsFiniteSet(FilesUpTo(entries, k))
    <3>1. IsFiniteSet(1 .. k)
      BY FS_Interval
    <3> QED BY <2>3, <3>1, FS_Subset
  <2>6. Cardinality(FilesUpTo(entries, k) \cup {m}) = Cardinality(FilesUpTo(entries, k)) + 1
    BY <2>3, <2>5, FS_AddElement
  <2>7. t[m].files = t[m - 1].files + (IF entries[m].dir THEN 0 ELSE 1)
    BY <1>3, <1>6, <2>1
  <2>8. t[m].files = Cardinality(FilesUpTo(entries, m))
    <3>1. t[k].files \in Nat
      <4>1. k \in 0 .. n
        BY <1>1, <1>9
      <4>2. t[k] \in Judgements(X)
        BY <4>1
      <4> QED BY <4>2 DEF Judgements
    <3>2. CASE entries[m].dir
      BY <2>1, <2>2, <2>4, <2>7, <3>1, <3>2
    <3>3. CASE ~entries[m].dir
      BY <2>1, <2>2, <2>4, <2>6, <2>7, <3>3
    <3> QED BY <3>2, <3>3
  <2> QED BY <2>1, <2>8 DEF m
<1>10. n \in S
  <2> HIDE DEF S
  <2>1. 0 .. n \subseteq S
    BY <1>1, <1>8, <1>9, UpTo
  <2> QED BY <1>1, <2>1
<1>11. t[n].files = Cardinality(FilesUpTo(entries, n))
  BY <1>1, <1>10
<1> QED BY <1>2, <1>7, <1>11 DEF n

(***************************************************************************)
(* What stands at the host paths.                                          *)
(***************************************************************************)
Trees(X) == UNION {[D -> [entry : Nat]] : D \in SUBSET HostPaths(X)}
Staged(X) == {Accepted(tree) : tree \in Trees(X)}
             \cup {Refused("Staging"), Refused("UnsafeEntryType"), Refused("MalformedArchive")}

\* Only directories above a path, and no path that is empty.
TreeSound(tree) ==
  \A p \in DOMAIN tree :
    p # <<>> /\ \A n \in 1 .. Len(p) - 1 : SubSeq(p, 1, n) \in DOMAIN tree /\ tree[SubSeq(p, 1, n)] = Directory
\* Nothing is taken away or replaced.
Kept(tree, new) == \A p \in DOMAIN tree : p \in DOMAIN new /\ new[p] = tree[p]
DirectoriesAdded(tree, new) == Kept(tree, new) /\ \A p \in DOMAIN new : p \in DOMAIN tree \/ new[p] = Directory

LEMMA AcceptedValue == ASSUME NEW v PROVE Accepted(v).ok = TRUE /\ Accepted(v).value = v
BY DEF Accepted

LEMMA RefusedNot == ASSUME NEW r PROVE Refused(r).ok = FALSE
BY DEF Refused

LEMMA StagedCases ==
  ASSUME NEW X, NEW acc \in Staged(X)
  PROVE  /\ acc.ok \in BOOLEAN
         /\ acc.ok => acc.value \in Trees(X) /\ acc = Accepted(acc.value)
<1>1. CASE \E tree \in Trees(X) : acc = Accepted(tree)
  BY <1>1, AcceptedValue
<1>2. CASE acc = Refused("Staging") \/ acc = Refused("UnsafeEntryType") \/ acc = Refused("MalformedArchive")
  BY <1>2, RefusedNot
<1> QED BY <1>1, <1>2 DEF Staged

LEMMA InsertTree ==
  ASSUME NEW X, NEW tree \in Trees(X), NEW path \in HostPaths(X), NEW node \in [entry : Nat]
  PROVE  /\ Insert(tree, path, node) \in Trees(X)
         /\ DOMAIN Insert(tree, path, node) = DOMAIN tree \cup {path}
         /\ Kept(tree, Insert(tree, path, node))
         /\ path \notin DOMAIN tree => Insert(tree, path, node)[path] = node
<1> DEFINE D == DOMAIN tree \cup {path}
           new == Insert(tree, path, node)
<1>1. PICK C \in SUBSET HostPaths(X) : tree \in [C -> [entry : Nat]]
  BY DEF Trees
<1>2. D \in SUBSET HostPaths(X)
  BY <1>1
<1>3. new = [q \in D |-> IF q \in DOMAIN tree THEN tree[q] ELSE node]
  BY DEF Insert
<1>4. new \in [D -> [entry : Nat]]
  BY <1>1, <1>3
<1>5. Kept(tree, new) /\ (path \notin DOMAIN tree => new[path] = node)
  BY <1>3 DEF Kept
<1> HIDE DEF D
<1>6. new \in Trees(X)
  BY <1>2, <1>4 DEF Trees
<1>7. DOMAIN new = D
  BY <1>3
<1> QED BY <1>5, <1>6, <1>7 DEF D

\* The prefixes of a prefix.
LEMMA PrefixOf ==
  ASSUME NEW X, NEW path \in HostPaths(X), NEW m \in Nat, m <= Len(path)
  PROVE  /\ SubSeq(path, 1, m) \in HostPaths(X) /\ Len(SubSeq(path, 1, m)) = m
         /\ m # 0 => SubSeq(path, 1, m) # <<>>
         /\ \A n \in 1 .. m : SubSeq(SubSeq(path, 1, m), 1, n) = SubSeq(path, 1, n)
<1>1. Len(path) \in Nat /\ \A i \in 1 .. Len(path) : path[i] \in X
  BY LenProperties, ElementOfSeq DEF HostPaths
<1>2. ASSUME NEW k \in Nat, k <= Len(path)
      PROVE  /\ SubSeq(path, 1, k) \in Seq(X) /\ Len(SubSeq(path, 1, k)) = k
             /\ \A i \in 1 .. k : SubSeq(path, 1, k)[i] = path[i]
  <2> DEFINE one == 1
  <2>1. one \in Int /\ k \in Int /\ \A i \in one .. k : path[i] \in X
    BY <1>1, <1>2
  <2>2. k - one + 1 = k /\ (one <= k \/ k = 0) /\ \A i \in 1 .. k : one + i - 1 = i
    OBVIOUS
  <2> HIDE DEF one
  <2>3. /\ SubSeq(path, one, k) \in Seq(X)
        /\ Len(SubSeq(path, one, k)) = IF one <= k THEN k - one + 1 ELSE 0
        /\ \A i \in 1 .. k - one + 1 : SubSeq(path, one, k)[i] = path[one + i - 1]
    BY <2>1, SubSeqProperties
  <2>4. ASSUME NEW i \in 1 .. k PROVE SubSeq(path, one, k)[i] = path[i]
    <3>1. i \in 1 .. k - one + 1 /\ one + i - 1 = i
      BY <2>2
    <3> QED BY <2>3, <3>1
  <2>5. Len(SubSeq(path, one, k)) = k
    BY <2>2, <2>3 DEF one
  <2> QED BY <2>3, <2>4, <2>5 DEF one
<1> DEFINE s == SubSeq(path, 1, m)
<1>3. s \in Seq(X) /\ Len(s) = m /\ \A i \in 1 .. m : s[i] = path[i]
  BY <1>2
<1>4. s \in HostPaths(X)
  BY <1>3 DEF HostPaths
<1>5. m # 0 => s # <<>>
  BY <1>3
<1> HIDE DEF s
<1>6. ASSUME NEW n \in 1 .. m PROVE SubSeq(s, 1, n) = SubSeq(path, 1, n)
  <2>1. n \in Nat /\ n <= Len(path) /\ n <= m
    BY <1>1
  <2>2. SubSeq(path, 1, n) \in Seq(X) /\ Len(SubSeq(path, 1, n)) = n /\ \A i \in 1 .. n : SubSeq(path, 1, n)[i] = path[i]
    BY <1>2, <2>1
  <2> DEFINE one == 1
  <2>3. one \in Int /\ n \in Int /\ \A i \in one .. n : s[i] \in X
    <3>1. ASSUME NEW i \in 1 .. n PROVE s[i] \in X
      <4>1. i \in 1 .. m /\ i \in 1 .. Len(path)
        BY <1>1, <2>1
      <4> QED BY <1>1, <1>3, <4>1
    <3> QED BY <2>1, <3>1
  <2>4. n - one + 1 = n /\ one <= n /\ \A i \in 1 .. n : one + i - 1 = i /\ i \in 1 .. m
    BY <2>1
  <2> HIDE DEF one
  <2>5. /\ SubSeq(s, one, n) \in Seq(X)
        /\ Len(SubSeq(s, one, n)) = IF one <= n THEN n - one + 1 ELSE 0
        /\ \A i \in 1 .. n - one + 1 : SubSeq(s, one, n)[i] = s[one + i - 1]
    BY <2>3, SubSeqProperties
  <2>6. Len(SubSeq(s, one, n)) = n
    BY <2>4, <2>5
  <2>7. ASSUME NEW i \in 1 .. n PROVE SubSeq(s, one, n)[i] = SubSeq(path, 1, n)[i]
    <3>1. i \in 1 .. n - one + 1 /\ one + i - 1 = i /\ i \in 1 .. m
      BY <2>4
    <3>2. SubSeq(s, one, n)[i] = s[i]
      BY <2>5, <3>1
    <3> QED BY <1>3, <2>2, <3>1, <3>2
  <2> DEFINE a == SubSeq(s, one, n)
             b == SubSeq(path, 1, n)
  <2>8. a \in Seq(X) /\ b \in Seq(X) /\ Len(a) = Len(b) /\ \A i \in 1 .. Len(a) : a[i] = b[i]
    BY <2>2, <2>5, <2>6, <2>7
  <2> HIDE DEF a, b
  <2>9. a = b
    BY <2>8, SeqEqual
  <2> QED BY <2>9 DEF a, b, one
<1> QED BY <1>3, <1>4, <1>5, <1>6 DEF s

\* create_private_dir adds the directory or keeps the tree, below directories only.
LEMMA DirStaged ==
  ASSUME NEW X, NEW tree \in Trees(X), NEW path \in HostPaths(X)
  PROVE  /\ CreatePrivateDir(tree, path) \in Staged(X)
         /\ CreatePrivateDir(tree, path).ok /\ TreeSound(tree) /\ path # <<>> =>
              LET new == CreatePrivateDir(tree, path).value IN
              /\ TreeSound(new) /\ DirectoriesAdded(tree, new)
              /\ path \in DOMAIN new /\ new[path] = Directory
<1> DEFINE made == Insert(tree, path, Directory)
           result == CreatePrivateDir(tree, path)
           placed == Len(path) = 1 \/ (Front(path) \in DOMAIN tree /\ tree[Front(path)] = Directory)
<1>1. Directory \in [entry : Nat]
  BY DEF Directory
<1>2. /\ made \in Trees(X) /\ DOMAIN made = DOMAIN tree \cup {path} /\ Kept(tree, made)
      /\ path \notin DOMAIN tree => made[path] = Directory
  <2> DEFINE node == Directory
  <2>1. node \in [entry : Nat] /\ made = Insert(tree, path, node)
    BY <1>1
  <2> HIDE DEF node, made
  <2>2. /\ made \in Trees(X) /\ DOMAIN made = DOMAIN tree \cup {path} /\ Kept(tree, made)
        /\ path \notin DOMAIN tree => made[path] = node
    BY <2>1, InsertTree
  <2> QED BY <2>2 DEF node
<1>3. result = IF path \in DOMAIN tree THEN (IF tree[path] = Directory THEN Accepted(tree) ELSE Refused("UnsafeEntryType"))
               ELSE IF placed THEN Accepted(made) ELSE Refused("Staging")
  BY DEF CreatePrivateDir
<1> HIDE DEF made, result, placed
<1>4. CASE path \in DOMAIN tree /\ tree[path] = Directory
  <2>1. result = Accepted(tree)
    BY <1>3, <1>4
  <2>2. result.value = tree
    BY <2>1, AcceptedValue
  <2>3. DirectoriesAdded(tree, tree)
    BY DEF DirectoriesAdded, Kept
  <2>4. result \in Staged(X)
    BY <2>1 DEF Staged
  <2> QED BY <1>4, <2>2, <2>3, <2>4 DEF result
<1>5. CASE path \notin DOMAIN tree /\ placed
  <2>1. result = Accepted(made)
    BY <1>3, <1>5
  <2>2. result.value = made
    BY <2>1, AcceptedValue
  <2>3. result \in Staged(X)
    BY <1>2, <2>1 DEF Staged
  <2>4. DirectoriesAdded(tree, made) /\ path \in DOMAIN made /\ made[path] = Directory
    BY <1>2, <1>5 DEF DirectoriesAdded
  <2>5. ASSUME TreeSound(tree), path # <<>> PROVE TreeSound(made)
    <3>1. Len(path) \in Nat /\ Len(path) # 0
      BY <2>5, LenProperties, EmptySeq DEF HostPaths
    <3>2. ASSUME NEW n \in 1 .. Len(path) - 1
          PROVE  SubSeq(path, 1, n) \in DOMAIN tree /\ tree[SubSeq(path, 1, n)] = Directory
      <4> DEFINE m == Len(path) - 1
                 above == SubSeq(path, 1, m)
      <4>1. m \in Nat /\ m <= Len(path) /\ n \in 1 .. m /\ Len(path) # 1
        <5> DEFINE l == Len(path)
        <5>1. l \in Nat /\ l # 0 /\ n \in 1 .. l - 1 /\ m = l - 1
          BY <3>1
        <5> HIDE DEF l, m
        <5>2. m \in Nat /\ m <= l /\ n \in 1 .. m /\ l # 1
          BY <5>1
        <5> QED BY <5>2 DEF l
      <4>2. above \in DOMAIN tree /\ tree[above] = Directory
        BY <1>5, <4>1 DEF placed, Front
      <4> HIDE DEF m
      <4>3. Len(above) = m /\ SubSeq(above, 1, n) = SubSeq(path, 1, n)
        BY <4>1, PrefixOf
      <4> HIDE DEF above
      <4>4. CASE n = m
        <5>1. above = SubSeq(path, 1, n)
          BY <4>4 DEF above
        <5> QED BY <4>2, <5>1
      <4>5. CASE n # m
        <5>1. n \in 1 .. Len(above) - 1
          BY <4>1, <4>3, <4>5
        <5>2. SubSeq(above, 1, n) \in DOMAIN tree /\ tree[SubSeq(above, 1, n)] = Directory
          BY <2>5, <4>2, <5>1 DEF TreeSound
        <5> QED BY <4>3, <5>2
      <4> QED BY <4>4, <4>5
    <3>3. ASSUME NEW p \in DOMAIN made
          PROVE  p # <<>> /\ \A n \in 1 .. Len(p) - 1 : SubSeq(p, 1, n) \in DOMAIN tree /\ tree[SubSeq(p, 1, n)] = Directory
      <4>1. CASE p = path
        BY <2>5, <3>2, <4>1
      <4>2. CASE p \in DOMAIN tree
        BY <2>5, <4>2 DEF TreeSound
      <4> QED BY <1>2, <4>1, <4>2
    <3> QED BY <1>2, <3>3 DEF TreeSound, Kept
  <2> QED BY <2>2, <2>3, <2>4, <2>5 DEF result
<1>6. CASE ~(path \in DOMAIN tree /\ tree[path] = Directory) /\ ~(path \notin DOMAIN tree /\ placed)
  <2>1. result = Refused("UnsafeEntryType") \/ result = Refused("Staging")
    BY <1>3, <1>6
  <2>2. result \in Staged(X) /\ result.ok = FALSE
    BY <2>1, RefusedNot DEF Staged
  <2> QED BY <2>2 DEF result
<1> QED BY <1>4, <1>5, <1>6

\* create_private_parents: the directories above a path, one after the other.
LEMMA ParentsStaged ==
  ASSUME NEW X, NEW tree \in Trees(X), NEW path \in HostPaths(X)
  PROVE  /\ CreatePrivateParents(tree, path) \in Staged(X)
         /\ CreatePrivateParents(tree, path).ok /\ TreeSound(tree) =>
              LET new == CreatePrivateParents(tree, path).value IN
              /\ TreeSound(new) /\ DirectoriesAdded(tree, new)
              /\ \A k \in 1 .. Len(path) - 1 : SubSeq(path, 1, k) \in DOMAIN new /\ new[SubSeq(path, 1, k)] = Directory
<1> DEFINE n == IF Len(path) = 0 THEN 0 ELSE Len(path) - 1
           l == Len(path) - 1
           D == 1 .. l
           V == Staged(X)
           first == Accepted(tree)
           prefix == [k \in 1 .. n |-> SubSeq(path, 1, k)]
           Step(v, k) == IF v.ok THEN CreatePrivateDir(v.value, SubSeq(path, 1, k)) ELSE v
           numbers == [k \in D |-> k]
           Body(f) == [s \in SUBSET DOMAIN numbers |-> IF s = {} THEN first ELSE Step(f[s \ {Max(s)}], numbers[Max(s)])]
           iter == CHOOSE f : f = Body(f)
           G == [k \in 1 .. n |-> [v \in V |-> Step(v, k)]]
           result == CreatePrivateParents(tree, path)
<1>1. result = iter[DOMAIN numbers]
  BY DEF CreatePrivateParents, FoldLeft, MapThenFoldSet
<1>2. DOMAIN numbers = D /\ \A k \in D : numbers[k] = k
  OBVIOUS
<1>3. n \in Nat /\ D = 1 .. n /\ \A k \in 1 .. n : k \in Nat /\ k # 0 /\ k <= Len(path)
  <2> DEFINE len == Len(path)
  <2>1. len \in Nat
    BY LenProperties DEF HostPaths
  <2>2. n = IF len = 0 THEN 0 ELSE len - 1
    OBVIOUS
  <2>3. D = 1 .. (len - 1)
    OBVIOUS
  <2> HIDE DEF len, n, D
  <2>4. n \in Nat /\ 1 .. (len - 1) = 1 .. n /\ \A k \in 1 .. n : k \in Nat /\ k # 0 /\ k <= len
    BY <2>1, <2>2
  <2> QED BY <2>3, <2>4 DEF len
<1> HIDE DEF n, l, D, numbers, result
<1>4. ASSUME NEW k \in 1 .. n PROVE SubSeq(path, 1, k) \in HostPaths(X) /\ SubSeq(path, 1, k) # <<>>
  BY <1>3, PrefixOf
<1>5. ASSUME NEW v \in V, NEW k \in 1 .. n
      PROVE  /\ Step(v, k) \in V
             /\ Step(v, k).ok =>
                  /\ v.ok
                  /\ TreeSound(v.value) =>
                       /\ TreeSound(Step(v, k).value) /\ DirectoriesAdded(v.value, Step(v, k).value)
                       /\ SubSeq(path, 1, k) \in DOMAIN Step(v, k).value
                       /\ Step(v, k).value[SubSeq(path, 1, k)] = Directory
  <2> DEFINE p == SubSeq(path, 1, k)
  <2>1. p \in HostPaths(X) /\ p # <<>>
    BY <1>4
  <2>2. v.ok \in BOOLEAN /\ (v.ok => v.value \in Trees(X))
    BY StagedCases
  <2>3. Step(v, k) = IF v.ok THEN CreatePrivateDir(v.value, p) ELSE v
    OBVIOUS
  <2> DEFINE w == Step(v, k)
             old == v.value
  <2> HIDE DEF p, w, Step
  <2>4. CASE v.ok
    <3>1. w = CreatePrivateDir(old, p) /\ old \in Trees(X)
      BY <2>2, <2>3, <2>4 DEF w
    <3> HIDE DEF old
    <3>2. /\ CreatePrivateDir(old, p) \in Staged(X)
          /\ CreatePrivateDir(old, p).ok /\ TreeSound(old) =>
               LET new == CreatePrivateDir(old, p).value IN
               TreeSound(new) /\ DirectoriesAdded(old, new) /\ p \in DOMAIN new /\ new[p] = Directory
      BY <2>1, <3>1, DirStaged
    <3>3. w \in Staged(X) /\ (w.ok /\ TreeSound(old) => TreeSound(w.value) /\ DirectoriesAdded(old, w.value)
                                                        /\ p \in DOMAIN w.value /\ w.value[p] = Directory)
      BY <3>1, <3>2
    <3> QED BY <2>4, <3>3 DEF w, p, old
  <2>5. CASE ~v.ok
    BY <2>2, <2>3, <2>5 DEF w
  <2> QED BY <2>2, <2>4, <2>5
<1>6. first \in V
  BY DEF Staged
<1> HIDE DEF V, Step, first
<1>7. G \in [1 .. n -> [V -> V]]
  BY <1>5
<1>8. PICK f \in [SUBSET (1 .. n) -> V] : FoldsWith(f, 1 .. n, first, G)
  <2> HIDE DEF G
  <2> QED BY <1>3, <1>6, <1>7, FoldExists
<1>9. ASSUME NEW s \in SUBSET (1 .. n), s # {} PROVE Max(s) \in 1 .. n /\ s \ {Max(s)} \in SUBSET (1 .. n)
  BY <1>3, <1>9, WithoutLast
<1>10. f = Body(f)
  <2>1. ASSUME NEW s \in SUBSET DOMAIN numbers PROVE f[s] = Body(f)[s]
    <3>1. f[s] = IF s = {} THEN first ELSE G[Max(s)][f[s \ {Max(s)}]]
      BY <1>2, <1>3, <1>8 DEF FoldsWith
    <3>2. s # {} => Max(s) \in 1 .. n /\ f[s \ {Max(s)}] \in V /\ numbers[Max(s)] = Max(s)
      BY <1>2, <1>3, <1>9
    <3> QED BY <3>1, <3>2
  <2> QED BY <1>2, <1>3, <2>1
<1>11. iter = Body(iter)
  <2> HIDE DEF Body
  <2> QED BY <1>10
<1> HIDE DEF iter
<1>12. iter[{}] = first
  BY <1>11
<1>13. ASSUME NEW s \in SUBSET (1 .. n), s # {}, iter[s \ {Max(s)}] \in V
       PROVE  iter[s] = G[Max(s)][iter[s \ {Max(s)}]]
  <2>1. Max(s) \in 1 .. n /\ s \in SUBSET DOMAIN numbers /\ numbers[Max(s)] = Max(s)
    BY <1>2, <1>3, <1>9, <1>13
  <2> QED BY <1>11, <1>13, <2>1
<1>14. StepsIn(iter, n, V, first, G)
  BY <1>12, <1>13 DEF StepsIn
<1>15. PICK t \in [0 .. n -> V] : PrefixesOf(t, n, first, G, iter[1 .. n])
  <2> HIDE DEF G
  <2> QED BY <1>3, <1>6, <1>7, <1>14, FoldPrefixes
<1>16. ASSUME NEW k \in 1 .. n PROVE t[k] = Step(t[k - 1], k) /\ t[k - 1] \in V
  <2>1. k - 1 \in 0 .. n
    BY <1>3
  <2> QED BY <1>15, <2>1 DEF PrefixesOf
<1>17. t[0] = first /\ t[n] = result /\ n \in 0 .. n
  BY <1>1, <1>2, <1>3, <1>15 DEF PrefixesOf
<1>18. result \in V
  BY <1>17
<1> DEFINE Up(k) == /\ TreeSound(t[k].value) /\ DirectoriesAdded(tree, t[k].value)
                    /\ \A j \in 1 .. k : /\ SubSeq(path, 1, j) \in DOMAIN t[k].value
                                         /\ t[k].value[SubSeq(path, 1, j)] = Directory
           S == {k \in Nat : k <= n => (t[k].ok /\ TreeSound(tree) => Up(k))}
<1>19. 0 \in S
  <2>1. t[0].value = tree
    BY <1>17, AcceptedValue DEF first
  <2>2. DirectoriesAdded(tree, tree)
    BY DEF DirectoriesAdded, Kept
  <2> QED BY <2>1, <2>2
<1>20. ASSUME NEW k \in Nat, k \in S, k < n PROVE k + 1 \in S
  <2> DEFINE m == k + 1
             v == t[k]
             w == t[m]
  <2>1. m \in 1 .. n /\ m - 1 = k /\ m \in Nat /\ k <= n /\ 1 .. m = (1 .. k) \cup {m}
    BY <1>3, <1>20
  <2> HIDE DEF m
  <2>2. w = Step(v, m) /\ v \in V
    BY <1>16, <2>1
  <2>3. ASSUME w.ok, TreeSound(tree) PROVE Up(m)
    <3>0. v \in V /\ Step(v, m).ok
      BY <2>2, <2>3
    <3>1. /\ v.ok
          /\ TreeSound(v.value) =>
               /\ TreeSound(w.value) /\ DirectoriesAdded(v.value, w.value)
               /\ SubSeq(path, 1, m) \in DOMAIN w.value /\ w.value[SubSeq(path, 1, m)] = Directory
      <4> HIDE DEF v, w
      <4> QED BY <1>5, <2>1, <2>2, <3>0
    <3>2. Up(k)
      BY <1>20, <2>1, <2>3, <3>1
    <3>3. DirectoriesAdded(tree, w.value)
      BY <3>1, <3>2 DEF DirectoriesAdded, Kept
    <3>4. ASSUME NEW j \in 1 .. m PROVE SubSeq(path, 1, j) \in DOMAIN w.value /\ w.value[SubSeq(path, 1, j)] = Directory
      <4>1. CASE j = m
        BY <3>1, <3>2, <4>1
      <4>2. CASE j \in 1 .. k
        BY <3>1, <3>2, <4>2 DEF DirectoriesAdded, Kept
      <4> QED BY <2>1, <4>1, <4>2
    <3> QED BY <3>1, <3>2, <3>3, <3>4
  <2> HIDE DEF Up
  <2> QED BY <2>1, <2>3 DEF m
<1>21. result.ok /\ TreeSound(tree) => Up(n)
  <2> HIDE DEF S, Up
  <2>1. n \in S
    BY <1>3, <1>17, <1>19, <1>20, UpTo
  <2>2. n <= n
    BY <1>3
  <2> QED BY <1>17, <2>1, <2>2 DEF S
<1>22. 1 .. Len(path) - 1 = 1 .. n
  BY <1>3 DEF D, l
<1> QED BY <1>17, <1>18, <1>21, <1>22 DEF result, V

\* A file is written once, below its directories.
LEMMA FileStaged ==
  ASSUME NEW X, NEW tree \in Trees(X), NEW path \in HostPaths(X), NEW i \in Nat
  PROVE  /\ WriteFile(tree, path, i) \in Staged(X)
         /\ WriteFile(tree, path, i).ok =>
              LET new == WriteFile(tree, path, i).value IN
              /\ path \notin DOMAIN tree /\ DOMAIN new = DOMAIN tree \cup {path} /\ Kept(tree, new)
              /\ new[path] = [entry |-> i]
<1> DEFINE node == [entry |-> i]
           made == Insert(tree, path, node)
           result == WriteFile(tree, path, i)
<1>1. node \in [entry : Nat]
  OBVIOUS
<1>2. result = IF path \in DOMAIN tree THEN Refused("Staging") ELSE Accepted(made)
  BY DEF WriteFile
<1> HIDE DEF node
<1>3. /\ made \in Trees(X) /\ DOMAIN made = DOMAIN tree \cup {path} /\ Kept(tree, made)
      /\ path \notin DOMAIN tree => made[path] = node
  BY <1>1, InsertTree
<1> HIDE DEF made, result
<1>4. CASE path \in DOMAIN tree
  <2>1. result \in Staged(X) /\ result.ok = FALSE
    BY <1>2, <1>4, RefusedNot DEF Staged
  <2> QED BY <2>1 DEF result
<1>5. CASE path \notin DOMAIN tree
  <2>1. result \in Staged(X) /\ result.value = made
    BY <1>2, <1>3, <1>5, AcceptedValue DEF Staged
  <2> QED BY <1>3, <1>5, <2>1 DEF result, node
<1> QED BY <1>4, <1>5

EntryPlaced(old, new, e, i) ==
  LET path == Components(e.path) IN
  /\ TreeSound(new) /\ Kept(old, new)
  /\ ~e.dir => path \in DOMAIN new /\ new[path] = [entry |-> i]
  /\ \A p \in DOMAIN new : p \in DOMAIN old \/ new[p] = Directory \/ (~e.dir /\ p = path)

\* extract_entry adds the entry's directories and, for a file, the file.
LEMMA EntryStaged ==
  ASSUME NEW X, NEW acc \in Staged(X), NEW e, EntryTyped(X, e), NEW i \in Nat
  PROVE  /\ ExtractEntry(acc, e, i) \in Staged(X)
         /\ ExtractEntry(acc, e, i).ok =>
              /\ acc.ok
              /\ TreeSound(acc.value) /\ Components(e.path) # <<>> =>
                   EntryPlaced(acc.value, ExtractEntry(acc, e, i).value, e, i)
<1> DEFINE path == Components(e.path)
           old == acc.value
           parents == CreatePrivateParents(old, path)
           mid == parents.value
           made == CreatePrivateDir(old, path)
           written == WriteFile(mid, path, i)
           result == ExtractEntry(acc, e, i)
<1>1. path \in HostPaths(X) /\ e.dir \in BOOLEAN
  BY ComponentsOf DEF EntryTyped
<1>2. acc.ok \in BOOLEAN /\ (acc.ok => old \in Trees(X))
  BY StagedCases
<1>3. result = IF ~acc.ok THEN acc
               ELSE IF e.dir THEN made
               ELSE IF ~parents.ok THEN parents
               ELSE IF EntryData(e) # "ok" THEN Refused(EntryData(e))
               ELSE written
  BY DEF ExtractEntry
<1>4. EntryData(e) = "ok" \/ EntryData(e) = "MalformedArchive"
  BY DEF EntryData
<1> HIDE DEF path, old, result
<1>5. CASE ~acc.ok
  BY <1>3, <1>5 DEF result
<1>6. CASE acc.ok /\ e.dir
  <2>1. result = made /\ old \in Trees(X)
    BY <1>2, <1>3, <1>6
  <2>2. /\ made \in Staged(X)
        /\ made.ok /\ TreeSound(old) /\ path # <<>> =>
             TreeSound(made.value) /\ DirectoriesAdded(old, made.value)
    BY <1>1, <2>1, DirStaged
  <2> HIDE DEF made
  <2>3. ASSUME made.ok, TreeSound(old), path # <<>> PROVE EntryPlaced(old, made.value, e, i)
    <3> DEFINE new == made.value
    <3>1. TreeSound(new) /\ DirectoriesAdded(old, new)
      BY <2>2, <2>3
    <3> HIDE DEF new
    <3>2. EntryPlaced(old, new, e, i)
      BY <1>6, <3>1 DEF EntryPlaced, DirectoriesAdded
    <3> QED BY <3>2 DEF new
  <2> QED BY <1>6, <2>1, <2>2, <2>3 DEF result, old, path
<1>7. CASE acc.ok /\ ~e.dir
  <2>1. old \in Trees(X)
    BY <1>2, <1>7
  <2>2. /\ parents \in Staged(X)
        /\ parents.ok /\ TreeSound(old) =>
             /\ TreeSound(mid) /\ DirectoriesAdded(old, mid)
             /\ \A k \in 1 .. Len(path) - 1 : SubSeq(path, 1, k) \in DOMAIN mid /\ mid[SubSeq(path, 1, k)] = Directory
    BY <1>1, <2>1, ParentsStaged
  <2> HIDE DEF parents
  <2>3. parents.ok \in BOOLEAN /\ (parents.ok => mid \in Trees(X))
    BY <2>2, StagedCases
  <2> HIDE DEF mid
  <2>4. CASE ~parents.ok
    <3>1. result = parents
      BY <1>3, <1>7, <2>4
    <3> QED BY <2>2, <2>4, <3>1 DEF result
  <2>5. CASE parents.ok /\ EntryData(e) # "ok"
    <3>1. result = Refused("MalformedArchive")
      BY <1>3, <1>4, <1>7, <2>5
    <3>2. result \in Staged(X) /\ result.ok = FALSE
      BY <3>1, RefusedNot DEF Staged
    <3> QED BY <3>2 DEF result
  <2>6. CASE parents.ok /\ EntryData(e) = "ok"
    <3>1. result = written
      BY <1>3, <1>7, <2>6
    <3>2. mid \in Trees(X)
      BY <2>3, <2>6
    <3>3. /\ written \in Staged(X)
          /\ written.ok =>
               /\ path \notin DOMAIN mid /\ DOMAIN written.value = DOMAIN mid \cup {path} /\ Kept(mid, written.value)
               /\ written.value[path] = [entry |-> i]
      BY <1>1, <3>2, FileStaged
    <3> HIDE DEF written
    <3>4. ASSUME written.ok, TreeSound(old), path # <<>> PROVE EntryPlaced(old, written.value, e, i)
      <4> DEFINE new == written.value
      <4>1. DOMAIN new = DOMAIN mid \cup {path} /\ Kept(mid, new) /\ new[path] = [entry |-> i]
        BY <3>3, <3>4
      <4>2. /\ TreeSound(mid) /\ DirectoriesAdded(old, mid)
            /\ \A k \in 1 .. Len(path) - 1 : SubSeq(path, 1, k) \in DOMAIN mid /\ mid[SubSeq(path, 1, k)] = Directory
        BY <2>2, <2>6, <3>4
      <4> HIDE DEF new
      <4>3. TreeSound(new)
        <5>1. ASSUME NEW p \in DOMAIN new
              PROVE  p # <<>> /\ \A k \in 1 .. Len(p) - 1 : SubSeq(p, 1, k) \in DOMAIN mid /\ mid[SubSeq(p, 1, k)] = Directory
          <6>1. CASE p = path
            BY <3>4, <4>2, <6>1
          <6>2. CASE p \in DOMAIN mid
            BY <4>2, <6>2 DEF TreeSound
          <6> QED BY <4>1, <6>1, <6>2
        <5> QED BY <4>1, <5>1 DEF TreeSound, Kept
      <4>4. Kept(old, new)
        BY <4>1, <4>2 DEF DirectoriesAdded, Kept
      <4>5. \A p \in DOMAIN new : p \in DOMAIN old \/ new[p] = Directory \/ (~e.dir /\ p = path)
        BY <1>7, <4>1, <4>2 DEF DirectoriesAdded, Kept
      <4>6. path \in DOMAIN new
        BY <4>1
      <4>7. EntryPlaced(old, new, e, i)
        BY <4>1, <4>3, <4>4, <4>5, <4>6 DEF EntryPlaced, path
      <4> QED BY <4>7 DEF new
    <3> QED BY <1>7, <3>1, <3>3, <3>4 DEF result, old, path
  <2> QED BY <2>3, <2>4, <2>5, <2>6
<1> QED BY <1>1, <1>2, <1>5, <1>6, <1>7

NoTree == [p \in {} |-> Directory]
Extracted(entries) ==
  FoldLeft(LAMBDA acc, i : ExtractEntry(acc, entries[i], i), Accepted(NoTree), [i \in DOMAIN entries |-> i])

LEMMA ExtractedPrefixes ==
  ASSUME NEW X, NEW E, NEW entries \in Seq(E), \A e \in E : EntryTyped(X, e)
  PROVE  \E t \in [0 .. Len(entries) -> Staged(X)] :
           /\ t[0] = Accepted(NoTree) /\ t[Len(entries)] = Extracted(entries)
           /\ \A k \in 1 .. Len(entries) : t[k] = ExtractEntry(t[k - 1], entries[k], k)
<1> DEFINE n == Len(entries)
           D == DOMAIN entries
           first == Accepted(NoTree)
           V == Staged(X)
           numbers == [k \in D |-> k]
           Body(f) == [s \in SUBSET DOMAIN numbers |->
                         IF s = {} THEN first
                         ELSE ExtractEntry(f[s \ {Max(s)}], entries[numbers[Max(s)]], numbers[Max(s)])]
           iter == CHOOSE f : f = Body(f)
           G == [k \in 1 .. n |-> [v \in V |-> ExtractEntry(v, entries[k], k)]]
<1>1. Extracted(entries) = iter[DOMAIN numbers]
  BY DEF Extracted, FoldLeft, MapThenFoldSet
<1>2. D = 1 .. n /\ n \in Nat /\ \A k \in 1 .. n : EntryTyped(X, entries[k])
  BY LenProperties, ElementOfSeq
<1>3. DOMAIN numbers = D /\ \A k \in D : numbers[k] = k
  OBVIOUS
<1> HIDE DEF n, D, numbers
<1>4. G \in [1 .. n -> [V -> V]]
  <2>1. ASSUME NEW k \in 1 .. n, NEW v \in V PROVE ExtractEntry(v, entries[k], k) \in V
    <3> DEFINE e == entries[k]
    <3>1. EntryTyped(X, e) /\ k \in Nat
      BY <1>2
    <3> HIDE DEF e
    <3>2. ExtractEntry(v, e, k) \in Staged(X)
      BY <3>1, EntryStaged
    <3> QED BY <3>2 DEF e
  <2> HIDE DEF V
  <2> QED BY <2>1
<1>5. first \in V
  <2>1. NoTree \in [{} -> [entry : Nat]] /\ {} \in SUBSET HostPaths(X)
    BY DEF NoTree
  <2>2. NoTree \in Trees(X)
    BY <2>1 DEF Trees
  <2> QED BY <2>2 DEF Staged
<1> HIDE DEF V, first
<1>6. PICK f \in [SUBSET (1 .. n) -> V] : FoldsWith(f, 1 .. n, first, G)
  <2> HIDE DEF G
  <2> QED BY <1>2, <1>4, <1>5, FoldExists
<1>7. ASSUME NEW s \in SUBSET (1 .. n), s # {} PROVE Max(s) \in 1 .. n /\ s \ {Max(s)} \in SUBSET (1 .. n)
  BY <1>2, <1>7, WithoutLast
<1>8. f = Body(f)
  <2>1. ASSUME NEW s \in SUBSET DOMAIN numbers PROVE f[s] = Body(f)[s]
    <3>1. f[s] = IF s = {} THEN first ELSE G[Max(s)][f[s \ {Max(s)}]]
      BY <1>2, <1>3, <1>6 DEF FoldsWith
    <3>2. s # {} => Max(s) \in 1 .. n /\ f[s \ {Max(s)}] \in V /\ numbers[Max(s)] = Max(s)
      BY <1>2, <1>3, <1>7
    <3> QED BY <3>1, <3>2
  <2> QED BY <1>2, <1>3, <2>1
<1>9. iter = Body(iter)
  <2> HIDE DEF Body
  <2> QED BY <1>8
<1> HIDE DEF iter
<1>10. iter[{}] = first
  BY <1>9
<1>11. ASSUME NEW s \in SUBSET (1 .. n), s # {}, iter[s \ {Max(s)}] \in V
       PROVE  iter[s] = G[Max(s)][iter[s \ {Max(s)}]]
  <2>1. Max(s) \in 1 .. n /\ s \in SUBSET DOMAIN numbers /\ numbers[Max(s)] = Max(s)
    BY <1>2, <1>3, <1>7, <1>11
  <2> QED BY <1>9, <1>11, <2>1
<1>12. StepsIn(iter, n, V, first, G)
  BY <1>10, <1>11 DEF StepsIn
<1>13. PICK t \in [0 .. n -> V] : PrefixesOf(t, n, first, G, iter[1 .. n])
  <2> HIDE DEF G
  <2> QED BY <1>2, <1>4, <1>5, <1>12, FoldPrefixes
<1>14. ASSUME NEW k \in 1 .. n PROVE t[k] = ExtractEntry(t[k - 1], entries[k], k)
  <2>1. k - 1 \in 0 .. n
    BY <1>2
  <2> QED BY <1>13, <2>1 DEF PrefixesOf
<1>15. t[0] = first /\ t[n] = iter[1 .. n]
  BY <1>13 DEF PrefixesOf
<1> QED BY <1>1, <1>2, <1>3, <1>14, <1>15 DEF n, V, first

\* Every file up to the k-th entry stands at its path, and nothing else does but directories.
PlacedUpTo(entries, tree, k) ==
  /\ TreeSound(tree)
  /\ \A i \in FilesUpTo(entries, k) :
       Components(entries[i].path) \in DOMAIN tree /\ tree[Components(entries[i].path)] = [entry |-> i]
  /\ \A p \in DOMAIN tree : tree[p] = Directory \/ \E i \in FilesUpTo(entries, k) : p = Components(entries[i].path)

LEMMA ExtractedWhole ==
  ASSUME NEW X, NEW E, NEW entries \in Seq(E), \A e \in E : EntryTyped(X, e),
         \A i \in 1 .. Len(entries) : Components(entries[i].path) # <<>>,
         Extracted(entries).ok
  PROVE  PlacedUpTo(entries, Extracted(entries).value, Len(entries))
<1> DEFINE n == Len(entries)
<1>1. n \in Nat /\ \A k \in 1 .. n : EntryTyped(X, entries[k]) /\ Components(entries[k].path) # <<>>
  BY LenProperties, ElementOfSeq
<1>2. PICK t \in [0 .. n -> Staged(X)] :
        /\ t[0] = Accepted(NoTree) /\ t[n] = Extracted(entries)
        /\ \A k \in 1 .. n : t[k] = ExtractEntry(t[k - 1], entries[k], k)
  BY ExtractedPrefixes
<1> HIDE DEF n
<1> DEFINE S == {k \in Nat : k <= n => (t[k].ok => PlacedUpTo(entries, t[k].value, k))}
<1>3. 0 \in S
  <2>1. t[0].value = NoTree
    BY <1>2, AcceptedValue
  <2>2. FilesUpTo(entries, 0) = {} /\ DOMAIN NoTree = {}
    BY DEF FilesUpTo, NoTree
  <2>3. PlacedUpTo(entries, NoTree, 0)
    BY <2>2 DEF PlacedUpTo, TreeSound
  <2> QED BY <2>1, <2>3
<1>4. ASSUME NEW k \in Nat, k \in S, k < n PROVE k + 1 \in S
  <2> DEFINE m == k + 1
             acc == t[k]
             e == entries[m]
             old == acc.value
             new == t[m].value
             path == Components(e.path)
  <2>1. m \in 1 .. n /\ m - 1 = k /\ m \in Nat /\ m # 0 /\ k <= n /\ k \in 0 .. n /\ 1 .. m = (1 .. k) \cup {m}
    BY <1>1, <1>4
  <2> HIDE DEF m
  <2>2. acc \in Staged(X) /\ EntryTyped(X, e) /\ path # <<>> /\ t[m] = ExtractEntry(acc, e, m)
    BY <1>1, <1>2, <2>1
  <2>3. ASSUME t[m].ok PROVE PlacedUpTo(entries, new, m)
    <3>1. acc.ok /\ (TreeSound(old) => EntryPlaced(old, new, e, m))
      <4> HIDE DEF acc, e
      <4> QED BY <2>1, <2>2, <2>3, EntryStaged
    <3>2. PlacedUpTo(entries, old, k)
      BY <1>4, <2>1, <3>1
    <3>3. EntryPlaced(old, new, e, m)
      BY <3>1, <3>2 DEF PlacedUpTo
    <3>4. e.dir \in BOOLEAN
      BY <2>2 DEF EntryTyped
    <3>5. FilesUpTo(entries, m) = IF e.dir THEN FilesUpTo(entries, k) ELSE FilesUpTo(entries, k) \cup {m}
      BY <2>1, <3>4 DEF FilesUpTo
    <3> HIDE DEF old, new
    <3>6. /\ TreeSound(new) /\ Kept(old, new)
          /\ ~e.dir => path \in DOMAIN new /\ new[path] = [entry |-> m]
          /\ \A p \in DOMAIN new : p \in DOMAIN old \/ new[p] = Directory \/ (~e.dir /\ p = path)
      BY <3>3 DEF EntryPlaced
    <3>7. ASSUME NEW i \in FilesUpTo(entries, m)
          PROVE  Components(entries[i].path) \in DOMAIN new /\ new[Components(entries[i].path)] = [entry |-> i]
      <4>1. CASE i \in FilesUpTo(entries, k)
        BY <3>2, <3>6, <4>1 DEF PlacedUpTo, Kept
      <4>2. CASE ~e.dir /\ i = m
        BY <3>6, <4>2
      <4> QED BY <3>4, <3>5, <4>1, <4>2
    <3>8. ASSUME NEW p \in DOMAIN new, new[p] # Directory
          PROVE  \E i \in FilesUpTo(entries, m) : p = Components(entries[i].path)
      <4>1. CASE p \in DOMAIN old
        <5>1. old[p] # Directory
          BY <3>6, <3>8, <4>1 DEF Kept
        <5>2. PICK i \in FilesUpTo(entries, k) : p = Components(entries[i].path)
          BY <3>2, <4>1, <5>1 DEF PlacedUpTo
        <5>3. i \in FilesUpTo(entries, m)
          BY <3>4, <3>5
        <5> QED BY <5>2, <5>3
      <4>2. CASE ~e.dir /\ p = path
        <5>1. m \in FilesUpTo(entries, m)
          BY <3>5, <4>2
        <5> QED BY <4>2, <5>1
      <4> QED BY <3>6, <3>8, <4>1, <4>2
    <3> QED BY <3>6, <3>7, <3>8 DEF PlacedUpTo
  <2> QED BY <2>1, <2>3 DEF m
<1>5. n \in S
  <2> HIDE DEF S
  <2>1. 0 .. n \subseteq S
    BY <1>1, <1>3, <1>4, UpTo
  <2>2. n \in 0 .. n
    BY <1>1
  <2> QED BY <2>1, <2>2
<1>6. n <= n
  BY <1>1
<1> QED BY <1>2, <1>5, <1>6 DEF n

\* Each file stands at a path of its own, so there are as many as files.
LEMMA PlacedCount ==
  ASSUME NEW entries, NEW tree, NEW n \in Nat, PlacedUpTo(entries, tree, n)
  PROVE  Cardinality({p \in DOMAIN tree : tree[p] # Directory}) = Cardinality(FilesUpTo(entries, n))
<1> DEFINE A == FilesUpTo(entries, n)
           B == {p \in DOMAIN tree : tree[p] # Directory}
           at == [i \in A |-> Components(entries[i].path)]
<1>1. A \in SUBSET (1 .. n) /\ \A i \in A : i \in Nat /\ i # 0
  BY DEF FilesUpTo
<1>2. IsFiniteSet(A)
  <2>1. IsFiniteSet(1 .. n)
    BY FS_Interval
  <2> HIDE DEF A
  <2> QED BY <1>1, <2>1, FS_Subset
<1>3. \A i \in A : at[i] \in DOMAIN tree /\ tree[at[i]] = [entry |-> i]
  BY DEF PlacedUpTo
<1>4. \A p \in B : \E i \in A : at[i] = p
  BY DEF PlacedUpTo
<1> HIDE DEF at
<1>5. ASSUME NEW i \in A PROVE tree[at[i]] # Directory
  <2>1. tree[at[i]] = [entry |-> i] /\ i # 0
    BY <1>1, <1>3
  <2>2. [entry |-> i].entry = i /\ Directory.entry = 0
    BY DEF Directory
  <2> QED BY <2>1, <2>2
<1> HIDE DEF A
<1>6. at \in [A -> B]
  BY <1>3, <1>5 DEF at
<1>7. ASSUME NEW i \in A, NEW j \in A, at[i] = at[j] PROVE i = j
  <2>1. [entry |-> i] = [entry |-> j]
    BY <1>3, <1>7
  <2>2. [entry |-> i].entry = i /\ [entry |-> j].entry = j
    OBVIOUS
  <2> QED BY <2>1, <2>2
<1> HIDE DEF B
<1>8. at \in Bijection(A, B)
  BY <1>4, <1>6, <1>7 DEF Bijection, Injection, Surjection, IsInjective
<1>9. ExistsBijection(A, B)
  BY <1>8 DEF ExistsBijection
<1>10. Cardinality(B) = Cardinality(A)
  BY <1>2, <1>9, FS_Bijection
<1> QED BY <1>10 DEF A, B

\* Whatever the names in it: an archive that inspect_into accepts is staged exactly, and every other
\* leaves no stage.
THEOREM ArchivesStagedExactly ==
  ASSUME NEW X, NEW E, \A e \in E : EntryTyped(X, e), NEW zip, zip.entries \in Seq(E)
  PROVE  StagedAs(zip, InspectInto(zip))
<1> DEFINE entries == zip.entries
           n == Len(entries)
           judged == FoldLeft(Judge, FirstJudgement, entries)
           ex == Extracted(entries)
           listed == ZipEntries(zip)
           result == InspectInto(zip)
           done == [tree |-> ex.value, files |-> judged.files, expanded |-> judged.expanded]
<1>1. n \in Nat /\ DOMAIN entries = 1 .. n /\ \A k \in 1 .. n : EntryTyped(X, entries[k])
  BY LenProperties, ElementOfSeq
<1>2. result = IF ~listed.ok THEN listed
               ELSE IF n > Limits.files THEN Refused("LimitExceeded")
               ELSE IF judged.error # "ok" THEN Refused(judged.error)
               ELSE IF judged.manifests # 1 THEN Refused("RootManifest")
               ELSE IF ~ex.ok THEN ex
               ELSE Accepted(done)
  BY DEF InspectInto, FirstJudgement, Extracted, NoTree
<1>b. result.ok \in BOOLEAN
  <2>1. listed.ok \in BOOLEAN
    BY AcceptedValue, RefusedNot DEF ZipEntries
  <2>2. ex.ok \in BOOLEAN
    <3>1. PICK t \in [0 .. n -> Staged(X)] : t[n] = ex
      BY ExtractedPrefixes
    <3>2. n \in 0 .. n
      BY <1>1
    <3>3. ex \in Staged(X)
      <4> HIDE DEF ex, n
      <4> QED BY <3>1, <3>2
    <3> HIDE DEF ex
    <3> QED BY <3>3, StagedCases
  <2> HIDE DEF judged, ex, listed, result, done
  <2>3. \A r : Refused(r).ok \in BOOLEAN
    BY RefusedNot
  <2>4. Accepted(done).ok \in BOOLEAN
    BY AcceptedValue
  <2> QED BY <1>2, <2>1, <2>2, <2>3, <2>4
<1>3. result.ok <=> InspectPending(zip, 100, TRUE, TRUE, TRUE).stage = "owned"
  <2>1. ~(100 > Limits.archive) /\ CreateStage(TRUE, TRUE) = "owned" /\ "owned" # "none"
    BY DEF Limits, CreateStage
  <2> HIDE DEF result
  <2>2. InspectPending(zip, 100, TRUE, TRUE, TRUE) = IF ~result.ok THEN [stage |-> "none", error |-> result.error]
                                                     ELSE [stage |-> "owned", error |-> "ok"]
    BY <2>1 DEF InspectPending, result
  <2> DEFINE pending == InspectPending(zip, 100, TRUE, TRUE, TRUE)
             error == result.error
  <2>3. pending = IF ~result.ok THEN [stage |-> "none", error |-> error] ELSE [stage |-> "owned", error |-> "ok"]
    BY <2>2
  <2> HIDE DEF pending, error
  <2>4. CASE result.ok
    <3>1. pending.stage = "owned"
      BY <2>3, <2>4
    <3> QED BY <2>4, <3>1 DEF pending
  <2>5. CASE ~result.ok
    <3>1. pending.stage = "none"
      BY <2>3, <2>5
    <3>2. ~(pending.stage = "owned")
      BY <3>1
    <3> QED BY <2>5, <3>2 DEF pending
  <2> QED BY <1>b, <2>4, <2>5
<1> HIDE DEF judged, ex, listed, result, done
<1>4. ASSUME result.ok
      PROVE  judged.error = "ok" /\ ex.ok /\ result.value = done
  <2>1. \A r : Refused(r).ok = FALSE
    BY RefusedNot
  <2>2. ~(~listed.ok) /\ ~(n > Limits.files) /\ ~(judged.error # "ok") /\ ~(judged.manifests # 1) /\ ~(~ex.ok)
    BY <1>2, <1>4, <2>1
  <2>3. result = Accepted(done)
    BY <1>2, <2>2
  <2> QED BY <2>2, <2>3, AcceptedValue
<1>5. ASSUME result.ok
      PROVE  /\ \A i \in 1 .. n : entries[i].path # <<>> /\ entries[i].path[1] # NoName /\ ~NestedManifest(entries[i])
             /\ judged.files = Cardinality(FilesUpTo(entries, n))
  BY <1>4, <1>5, JudgedWhole DEF judged
<1>6. ASSUME result.ok, NEW i \in 1 .. n
      PROVE  Components(entries[i].path) # <<>> /\ Components(entries[i].path) \in HostPaths(X)
  <2> DEFINE path == entries[i].path
  <2>1. path \in HostPaths(X) /\ path # <<>> /\ path[1] # NoName
    BY <1>1, <1>5, <1>6 DEF EntryTyped
  <2> HIDE DEF path
  <2>2. Components(path) # <<>> /\ Components(path) \in HostPaths(X)
    BY <2>1, ComponentsOf
  <2> QED BY <2>2 DEF path
<1> DEFINE tree == ex.value
<1>7. ASSUME result.ok PROVE PlacedUpTo(entries, tree, n)
  <2>1. \A i \in 1 .. n : Components(entries[i].path) # <<>>
    BY <1>6, <1>7
  <2> QED BY <1>4, <1>7, <2>1, ExtractedWhole DEF ex
<1> HIDE DEF tree
<1>8. ASSUME result.ok
      PROVE  /\ result.value.tree = tree /\ result.value.files = Cardinality(FilesUpTo(entries, n))
             /\ Cardinality({p \in DOMAIN tree : tree[p] # Directory}) = Cardinality(FilesUpTo(entries, n))
  <2>1. done.tree = tree /\ done.files = judged.files
    BY DEF done, tree
  <2>2. Cardinality({p \in DOMAIN tree : tree[p] # Directory}) = Cardinality(FilesUpTo(entries, n))
    BY <1>1, <1>7, <1>8, PlacedCount
  <2> QED BY <1>4, <1>5, <1>8, <2>1, <2>2
<1>9. ASSUME result.ok, NEW p \in DOMAIN tree, Last(p) = "module.json", tree[p] # Directory
      PROVE  p = <<"module.json">>
  <2>1. PICK i \in FilesUpTo(entries, n) : p = Components(entries[i].path)
    BY <1>7, <1>9 DEF PlacedUpTo
  <2>2. i \in 1 .. n
    BY <2>1 DEF FilesUpTo
  <2>3. ~NestedManifest(entries[i]) /\ Components(entries[i].path) # <<>>
    BY <1>5, <1>6, <1>9, <2>2
  <2>4. RootManifest(entries[i])
    BY <1>9, <2>1, <2>3 DEF NestedManifest
  <2> DEFINE path == entries[i].path
  <2>5. path = <<"module.json">> /\ path \in HostPaths(X) /\ path[1] # NoName
    BY <1>1, <1>5, <1>9, <2>2, <2>4 DEF RootManifest, EntryTyped
  <2>6. Len(path) = 1 /\ path[1] = "module.json"
    BY <2>5
  <2> HIDE DEF path
  <2>7. Components(path) = <<path[1]>>
    BY <2>5, <2>6, ComponentsOf
  <2> QED BY <2>1, <2>6, <2>7 DEF path
<1>10. ASSUME result.ok
       PROVE  /\ \A i \in {j \in DOMAIN entries : ~entries[j].dir} : tree[Components(entries[i].path)] = [entry |-> i]
              /\ \A p \in DOMAIN tree : \A k \in 1 .. Len(p) - 1 : tree[SubSeq(p, 1, k)] = Directory
  BY <1>1, <1>7, <1>10 DEF PlacedUpTo, TreeSound, FilesUpTo
<1>11. ASSUME result.ok
       PROVE  LET staged == result.value.tree
                  files == {i \in DOMAIN entries : ~entries[i].dir} IN
              /\ \A i \in files : staged[Components(entries[i].path)] = [entry |-> i]
              /\ Cardinality({p \in DOMAIN staged : staged[p] # Directory}) = result.value.files
              /\ \A p \in DOMAIN staged : \A k \in 1 .. Len(p) - 1 : staged[SubSeq(p, 1, k)] = Directory
              /\ \A p \in DOMAIN staged : Last(p) = "module.json" /\ staged[p] # Directory => p = <<"module.json">>
  <2> HIDE DEF entries, n
  <2>1. result.value.tree = tree
    BY <1>8, <1>11
  <2>2. Cardinality({p \in DOMAIN tree : tree[p] # Directory}) = result.value.files
    BY <1>8, <1>11
  <2>3. \A p \in DOMAIN tree : Last(p) = "module.json" /\ tree[p] # Directory => p = <<"module.json">>
    BY <1>9, <1>11
  <2> QED BY <1>10, <1>11, <2>1, <2>2, <2>3
<1> HIDE DEF result
<1>12. StagedAs(zip, result)
  BY <1>3, <1>11 DEF StagedAs, entries
<1> QED BY <1>12 DEF result

\* The inputs of the run are among those of the theorems above.
LEMMA PostedTyped ==
  \E A : Posted \subseteq [sender : A, outgoing : BOOLEAN, edited : BOOLEAN, peer : A, id : Int]
<1> DEFINE A == {"self", "owner", "other", "unknown", "saved", "chat"}
<1>1. ASSUME NEW m \in Posted PROVE m \in [sender : A, outgoing : BOOLEAN, edited : BOOLEAN, peer : A, id : Int]
  BY <1>1 DEF Posted
<1> QED BY <1>1

LEMMA DocumentsTyped ==
  ASSUME NEW d \in Documents
  PROVE  d.chunks \in Seq(Nat \cup {Broken})
<1> DEFINE C == Halves \cup {0, Broken}
           T == Nat \cup {Broken}
<1>1. PICK n \in 0 .. 3 : d.chunks \in [1 .. n -> C]
  BY DEF Documents
<1>2. C \subseteq T
  BY DEF Halves, Limits
<1> HIDE DEF C, T
<1>3. d.chunks \in [1 .. n -> T]
  BY <1>1, <1>2
<1>4. n \in Nat
  OBVIOUS
<1>5. d.chunks \in Seq(T)
  BY <1>3, <1>4, SeqDef
<1> QED BY <1>5 DEF T

LEMMA ArchivesTyped ==
  ASSUME NEW zip \in Archives
  PROVE  \E X, E : (\A e \in E : EntryTyped(X, e)) /\ zip.entries \in Seq(E)
<1> DEFINE X == {"a", "module.json", NoName}
           root == <<"module.json">>
<1>1. PICK p \in Spellings, q \in Spellings, dp \in BOOLEAN, dq \in BOOLEAN : zip = ArchiveOf(p, dp, q, dq)
  BY DEF Archives
<1>2. root \in HostPaths(X)
  BY DEF HostPaths
<1>3. ASSUME NEW s \in Spellings PROVE s \in HostPaths(X)
  <2>1. PICK n \in 1 .. 3 : s \in [1 .. n -> X]
    BY DEF Spellings
  <2> HIDE DEF X
  <2> QED BY <2>1, SeqDef DEF HostPaths
<1> HIDE DEF X, root
<1>4. ASSUME NEW s \in HostPaths(X), NEW b \in BOOLEAN PROVE EntryTyped(X, Entry(s, b))
  BY DEF EntryTyped, Entry
<1> DEFINE first == Entry(root, FALSE)
           second == Entry(p, dp)
           third == Entry(q, dq)
           E == {first, second, third}
<1>5. EntryTyped(X, first) /\ EntryTyped(X, second) /\ EntryTyped(X, third)
  <2>1. p \in HostPaths(X) /\ q \in HostPaths(X)
    BY <1>3
  <2> QED BY <1>2, <1>4, <2>1
<1>6. zip.entries = <<first, second, third>>
  BY <1>1 DEF ArchiveOf, root
<1> HIDE DEF first, second, third
<1>7. zip.entries \in Seq(E)
  BY <1>6
<1>8. \A e \in E : EntryTyped(X, e)
  BY <1>5
<1> HIDE DEF E
<1> QED BY <1>7, <1>8

LEMMA PlansTyped == Plans \subseteq AnyPlans
<1> DEFINE one == <<1>>
           two == <<1, 1>>
           ids == << <<1>>, <<1>> >>
<1>1. <<>> \in Text /\ one \in Text /\ two \in Text /\ <<2>> \in Text
  BY DEF Text
<1>2. Names \subseteq Text
  BY <1>1 DEF Names
<1>3. ASSUME NEW p \in Plans PROVE p \in AnyPlans
  <2>1. PICK v \in {5, 6}, i \in Lists \ {<< <<1>> >>}, w \in Names, e \in Names \ {<<>>},
             d \in Lists \ {<< <<1>>, <<1>> >>}, c \in Lists, s \in Lists \ {<< <<1>>, <<1>> >>} :
          p = PlanOf(v, i, w, e, d, c, s)
    BY DEF Plans
  <2>2. w \in Text /\ e \in Text /\ <<2>> \in Text
    BY <1>1, <1>2
  <2>3. i \in Identities
    BY <1>1 DEF Identities, Lists
  <2>4. d \in Options
    BY <1>1 DEF Options, Lists
  <2>5. c \in Seq(Text) /\ s \in Seq(Text) /\ <<>> \in Seq(Text)
    <3> HIDE DEF one
    <3>1. <<>> \in Seq(Text) /\ <<one>> \in Seq(Text) /\ <<one, one>> \in Seq(Text)
      BY <1>1
    <3> QED BY <3>1 DEF one, Lists
  <2>6. v \in Nat /\ (IF v = 6 THEN 5 ELSE 0) \in Nat
    OBVIOUS
  <2> DEFINE rev == IF v = 6 THEN 5 ELSE 0
             id == <<2>>
             no == <<>>
  <2>7. p = [protocol |-> v, revision |-> rev, identity |-> i, id |-> id,
             version |-> w, entrypoint |-> e, default |-> d, digest |-> 7,
             files |-> 1, expanded |-> 4, capabilities |-> c,
             subscriptions |-> s, methods |-> no, actions |-> no]
    BY <2>1 DEF PlanOf, FromDescriptor
  <2>8. rev \in Nat /\ id \in Text /\ no \in Seq(Text) /\ (v # 6 => rev = 0)
    BY <2>2, <2>5
  <2> HIDE DEF rev, id, no
  <2>9. p \in [protocol : Nat, revision : Nat, identity : Identities, id : Text, version : Text, entrypoint : Text,
          default : Options, digest : Nat, files : Nat, expanded : Nat, capabilities : Seq(Text),
          subscriptions : Seq(Text), methods : Seq(Text), actions : Seq(Text)]
    BY <2>2, <2>3, <2>4, <2>5, <2>7, <2>8
  <2>10. p.protocol # 6 => p.revision = 0 /\ p.methods = <<>>
    BY <2>7, <2>8 DEF no
  <2> QED BY <2>9, <2>10 DEF AnyPlans
<1> QED BY <1>3

\* What the run checks of the module sources, in every state: an acquired document is whole, an
\* accepted archive is staged exactly, and two plans have two fingerprints.
THEOREM SourceAlwaysExact == ProtocolsSpec => []SourceInv
<1>1. ASSUME EvaluationInv PROVE AcquiredWhole
  <2> SUFFICES ASSUME out.kind = "acquire" PROVE AcquiredAs(job.message, job.document, out.result)
    BY DEF AcquiredWhole
  <2>1. PICK m \in Posted, d \in Documents : job = [kind |-> "acquire", message |-> m, document |-> d]
    BY <1>1 DEF EvaluationInv, JobInv, OutInv
  <2>2. job.message = m /\ job.document = d /\ out.result = Acquire(m, d)
    BY <1>1, <2>1 DEF EvaluationInv, OutInv
  <2>3. PICK A : Posted \subseteq [sender : A, outgoing : BOOLEAN, edited : BOOLEAN, peer : A, id : Int]
    BY PostedTyped
  <2>4. m \in [sender : A, outgoing : BOOLEAN, edited : BOOLEAN, peer : A, id : Int]
    BY <2>3
  <2>5. d.chunks \in Seq(Nat \cup {Broken})
    BY DocumentsTyped
  <2>6. AcquiredAs(m, d, Acquire(m, d))
    BY <2>4, <2>5, DocumentsAcquiredWhole
  <2> QED BY <2>2, <2>6
<1>2. ASSUME EvaluationInv PROVE StagedTreeExact
  <2> SUFFICES ASSUME out.kind = "archive" PROVE StagedAs(job.zip, out.result)
    BY DEF StagedTreeExact
  <2>1. PICK z \in Archives : job = [kind |-> "archive", zip |-> z]
    BY <1>2 DEF EvaluationInv, JobInv, OutInv
  <2>2. job.zip = z /\ out.result = InspectInto(z)
    BY <1>2, <2>1 DEF EvaluationInv, OutInv
  <2>3. PICK X, E : (\A e \in E : EntryTyped(X, e)) /\ z.entries \in Seq(E)
    BY ArchivesTyped
  <2>4. StagedAs(z, InspectInto(z))
    BY <2>3, ArchivesStagedExactly
  <2> QED BY <2>2, <2>4
<1>3. ASSUME EvaluationInv PROVE FingerprintInjective
  <2> SUFFICES ASSUME out.kind = "plan", NEW p \in Plans, p # job.plan PROVE CanonicalFingerprint(p) # out.result
    BY DEF FingerprintInjective
  <2>1. PICK r \in Plans : job = [kind |-> "plan", plan |-> r]
    BY <1>3 DEF EvaluationInv, JobInv, OutInv
  <2>2. job.plan = r /\ out.result = CanonicalFingerprint(r)
    BY <1>3, <2>1 DEF EvaluationInv, OutInv
  <2>3. p \in AnyPlans /\ r \in AnyPlans
    BY PlansTyped
  <2> QED BY <2>2, <2>3, FingerprintsDiffer
<1> QED BY <1>1, <1>2, <1>3, EvaluationAlways, PTL DEF SourceInv
=============================================================================
