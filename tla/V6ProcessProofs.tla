-------------------------- MODULE V6ProcessProofs --------------------------
(***************************************************************************)
(* Proofs about V6Process, for every value of its constants: the types of  *)
(* its variables and the shutdown barrier; what travels between the        *)
(* supervisor, its writer and its call workers (lifecycle frames and their *)
(* flushes, calls, completions and results); then what stopping a module   *)
(* means, and what a module that keeps the contract of V6Conformance can   *)
(* rely on.                                                                *)
(*                                                                         *)
(* Every step is first shown to be one of a few kinds of step on the       *)
(* channels (StepKinds); each later invariant is then proved once per kind.*)
(***************************************************************************)
EXTENDS V6Process, V6Conformance, QueueCounting, SequenceTheorems, TLAPS

-----------------------------------------------------------------------------
(* Facts about the operators the supervisor is built from.                  *)

\* A queue read at its head gives one of its messages and leaves a queue.
LEMMA HeadTailType ==
  ASSUME NEW S, NEW q \in Seq(S), q # <<>>
  PROVE  Head(q) \in S /\ Tail(q) \in Seq(S)
  BY HeadTailProperties

\* A queue that a message of its type is sent to stays a queue of that type.
LEMMA AppendType ==
  ASSUME NEW S, NEW q \in Seq(S), NEW e \in S
  PROVE  Append(q, e) \in Seq(S)
  BY AppendProperties

\* The error categories are replies, and the categories the arms use exist.
LEMMA Reasons ==
  /\ FatalReason \subseteq ReplyState
  /\ {"idle", "sent", "abandoned", "ok"} \subseteq ReplyState
  /\ {"unavailable", "protocol_decode", "line_too_large", "wrong_request_id",
      "wrong_module_id", "execution_timeout", "shutdown_timeout", "backpressure",
      "writer_unavailable"} \subseteq FatalReason
  BY DEF FatalReason, ReplyState

\* Resolving oneshots yields replies.
LEMMA AnswerType ==
  ASSUME NEW rep \in [Requests -> ReplyState], NEW rs, NEW v \in ReplyState
  PROVE  Answer(rep, rs, v) \in [Requests -> ReplyState]
  BY DEF Answer

\* A failed try_send has an error category.
LEMMA QueueFailureType == QueueFailure \in FatalReason
  BY Reasons DEF QueueFailure

\* What a break, a dispatch or a queued result changes besides the queues.
LifecycleTypes ==
  /\ reply \in [Requests -> ReplyState]
  /\ inFlight \in Requests \cup {NoId} /\ waiting \in Seq(Requests)
  /\ phase \in {"run", "teardown", "killed", "done"}
  /\ status \in {"Running", "Crashed", "Terminated"}
  /\ fatal \in FatalReason \cup {NoId}

\* The typed part that the arms share follows from TypeOK.
LEMMA LifecycleTypesHold == TypeOK => LifecycleTypes
  BY DEF TypeOK, TypeCallers, TypeLife, TypeEnd, LifecycleTypes

\* A break with a fatal reason leaves it well-formed ...
LEMMA FatalTypes ==
  ASSUME NEW rep \in [Requests -> ReplyState], NEW rs, NEW reason \in FatalReason,
         Fatal(rep, rs, reason)
  PROVE  LifecycleTypes' /\ deadline' \in BOOLEAN
<1>1. reply' \in [Requests -> ReplyState]
  BY AnswerType, Reasons DEF Fatal, FailLifecycle
<1>2. inFlight' \in Requests \cup {NoId} /\ waiting' \in Seq(Requests)
  BY DEF Fatal, FailLifecycle
<1>3. deadline' \in BOOLEAN
  BY DEF Fatal, FailLifecycle
<1>4. /\ phase' \in {"run", "teardown", "killed", "done"}
      /\ status' \in {"Running", "Crashed", "Terminated"}
      /\ fatal' \in FatalReason \cup {NoId}
  BY DEF Fatal
<1> QED
  BY <1>1, <1>2, <1>3, <1>4 DEF LifecycleTypes

\* ... so does one that fails the requests as they are ...
LEMMA FatalHereTypes ==
  ASSUME TypeOK, NEW reason \in FatalReason, FatalHere(reason)
  PROVE  LifecycleTypes' /\ deadline' \in BOOLEAN
<1>1. reply \in [Requests -> ReplyState]
  BY DEF TypeOK, TypeCallers
<1> QED
  BY <1>1, FatalTypes DEF FatalHere

\* ... a break without a reason ...
LEMMA CleanBreakTypes ==
  ASSUME TypeOK, CleanBreak
  PROVE  LifecycleTypes' /\ deadline' \in BOOLEAN
<1>1. reply' \in [Requests -> ReplyState]
  BY AnswerType, Reasons DEF CleanBreak, FailLifecycle, TypeOK, TypeCallers
<1>2. inFlight' \in Requests \cup {NoId} /\ waiting' \in Seq(Requests)
  BY DEF CleanBreak, FailLifecycle
<1>3. deadline' \in BOOLEAN
  BY DEF CleanBreak, FailLifecycle
<1>4. /\ phase' \in {"run", "teardown", "killed", "done"}
      /\ status' \in {"Running", "Crashed", "Terminated"}
      /\ fatal' \in FatalReason \cup {NoId}
  BY DEF CleanBreak, TypeOK, TypeEnd
<1> QED
  BY <1>1, <1>2, <1>3, <1>4 DEF LifecycleTypes

\* ... and an arm that leaves it alone.
LEMMA UnchangedTypes ==
  ASSUME TypeOK, UNCHANGED lifecycleAndEnd
  PROVE  LifecycleTypes' /\ deadline' \in BOOLEAN
<1>1. LifecycleTypes'
  BY LifecycleTypesHold DEF LifecycleTypes, lifecycleAndEnd
<1>2. deadline' \in BOOLEAN
  BY DEF TypeOK, TypeFlags, lifecycleAndEnd
<1> QED
  BY <1>1, <1>2

\* dispatch_lifecycle queues a lifecycle frame or breaks.
LEMMA DispatchTypes ==
  ASSUME TypeOK, NEW r \in Requests, NEW rep \in [Requests -> ReplyState],
         NEW rest \in Seq(Requests), DispatchLifecycle(r, rep, rest)
  PROVE  /\ LifecycleTypes' /\ deadline' \in BOOLEAN
         /\ awaitingFlush' \subseteq Ids /\ writerQ' \in Seq(WriterMsg)
<1>0. ReqId[r] \in Ids
  BY ConstantsAssumption DEF ConstantsAssumption
<1>1. CASE CanQueue
  <2>1. Msg("lifecycle", ReqId[r], "") \in WriterMsg
    BY <1>0 DEF Msg, WriterMsg
  <2>2. writerQ \in Seq(WriterMsg) /\ awaitingFlush \subseteq Ids
    BY DEF TypeOK, TypeWriter, TypeLife
  <2>3. writerQ' \in Seq(WriterMsg)
    BY <1>1, <2>1, <2>2, AppendType DEF DispatchLifecycle
  <2>4. awaitingFlush' \subseteq Ids
    BY <1>0, <1>1, <2>2 DEF DispatchLifecycle
  <2>5. LifecycleTypes'
    BY <1>1, LifecycleTypesHold DEF DispatchLifecycle, LifecycleTypes
  <2>6. deadline' \in BOOLEAN
    BY <1>1 DEF DispatchLifecycle, DispatchDeadline
  <2> QED
    BY <2>3, <2>4, <2>5, <2>6
<1>2. CASE ~CanQueue
  <2>1. Fatal(rep, {r} \cup Elements(rest), QueueFailure)
    BY <1>2 DEF DispatchLifecycle
  <2>2. awaitingFlush' \subseteq Ids /\ writerQ' \in Seq(WriterMsg)
    BY <1>2 DEF DispatchLifecycle, TypeOK, TypeWriter, TypeLife
  <2> QED
    BY <2>1, <2>2, FatalTypes, QueueFailureType
<1> QED
  BY <1>1, <1>2

\* start_shutdown fails the requests and queues the shutdown frame, or breaks.
LEMMA StartShutdownTypes ==
  ASSUME TypeOK, NEW s \in Stoppers \cup {NoId}, StartShutdown(s)
  PROVE  /\ LifecycleTypes' /\ deadline' \in BOOLEAN
         /\ closing' \in BOOLEAN /\ cancelled' \in Ids \cup {NoId}
         /\ writerQ' \in Seq(WriterMsg) /\ shutdownReply' \in Stoppers \cup {NoId}
         /\ stop' \in [Stoppers -> {"idle", "shutting", "failed", "forcing", "stopped"}]
<1>1. closing' \in BOOLEAN
  BY DEF StartShutdown
<1>2. cancelled' \in Ids \cup {NoId}
  BY ConstantsAssumption DEF ConstantsAssumption, StartShutdown, TypeOK, TypeLife
<1>3. CASE CanQueue
  <2>1. Msg("shutdown", NoId, "") \in WriterMsg
    BY DEF Msg, WriterMsg
  <2>2. writerQ' \in Seq(WriterMsg)
    BY <1>3, <2>1, AppendType DEF StartShutdown, TypeOK, TypeWriter
  <2>3. FailLifecycle(reply, Outstanding, "unavailable") /\ UNCHANGED <<phase, status, fatal>>
    BY <1>3 DEF StartShutdown
  <2>4. LifecycleTypes'
    <3>1. reply' \in [Requests -> ReplyState]
      BY <2>3, AnswerType, Reasons DEF FailLifecycle, TypeOK, TypeCallers
    <3> QED
      BY <2>3, <3>1 DEF FailLifecycle, LifecycleTypes, TypeOK, TypeEnd
  <2>5. deadline' \in BOOLEAN
    BY <1>3 DEF StartShutdown, FailLifecycle
  <2>6. /\ shutdownReply' \in Stoppers \cup {NoId}
        /\ stop' \in [Stoppers -> {"idle", "shutting", "failed", "forcing", "stopped"}]
    BY <1>3 DEF StartShutdown, TypeOK, TypeCallers
  <2> QED
    BY <1>1, <1>2, <2>2, <2>4, <2>5, <2>6
<1>4. CASE ~CanQueue
  <2>1. Answer(reply, Outstanding, "unavailable") \in [Requests -> ReplyState]
    BY AnswerType, Reasons DEF TypeOK, TypeCallers
  <2>2. LifecycleTypes' /\ deadline' \in BOOLEAN
    BY <1>4, <2>1, FatalTypes, QueueFailureType DEF StartShutdown
  <2>3. writerQ' \in Seq(WriterMsg) /\ shutdownReply' \in Stoppers \cup {NoId}
    BY <1>4 DEF StartShutdown, TypeOK, TypeWriter, TypeClose
  <2>4. stop' \in [Stoppers -> {"idle", "shutting", "failed", "forcing", "stopped"}]
    BY <1>4 DEF StartShutdown, TypeOK, TypeCallers
  <2> QED
    BY <1>1, <1>2, <2>2, <2>3, <2>4
<1> QED
  BY <1>3, <1>4

\* Queuing the result of a call, or breaking, keeps the types.
LEMMA QueueResultTypes ==
  ASSUME TypeOK, NEW frame \in WriterMsg, QueueResult(frame)
  PROVE  LifecycleTypes' /\ deadline' \in BOOLEAN /\ writerQ' \in Seq(WriterMsg)
<1>1. writerQ \in Seq(WriterMsg)
  BY DEF TypeOK, TypeWriter
<1>2. CASE CanQueue
  BY <1>1, <1>2, AppendType, UnchangedTypes DEF QueueResult
<1>3. CASE ~CanQueue
  BY <1>1, <1>3, FatalHereTypes, QueueFailureType DEF QueueResult
<1> QED
  BY <1>2, <1>3

\* Answering the stopper keeps the types.
LEMMA StopReplyTypes ==
  ASSUME TypeOK, NEW v \in {"failed", "stopped"}, StopReply(v)
  PROVE  /\ stop' \in [Stoppers -> {"idle", "shutting", "failed", "forcing", "stopped"}]
         /\ shutdownReply' \in Stoppers \cup {NoId}
  BY DEF StopReply, TypeOK, TypeCallers

\* Ending the loop after a shutdown keeps the types.
LEMMA FinishShutdownTypes ==
  ASSUME TypeOK, FinishShutdown
  PROVE  /\ LifecycleTypes' /\ deadline' \in BOOLEAN
         /\ stop' \in [Stoppers -> {"idle", "shutting", "failed", "forcing", "stopped"}]
         /\ shutdownReply' \in Stoppers \cup {NoId}
<1>1. CASE child = "exit_ok"
  BY <1>1, StopReplyTypes, CleanBreakTypes DEF FinishShutdown
<1>2. CASE child # "exit_ok"
  BY <1>2, StopReplyTypes, FatalHereTypes, Reasons DEF FinishShutdown
<1> QED
  BY <1>1, <1>2

-----------------------------------------------------------------------------
(* Type correctness.                                                        *)

\* A freshly started runtime is well-formed.
LEMMA InitTypeOK == Init => TypeOK
<1> SUFFICES ASSUME Init PROVE TypeOK
  OBVIOUS
<1>1. UsizeModulus \in Nat \ {0, 1}
  BY ConstantsAssumption DEF ConstantsAssumption
<1>2. TypeCallers /\ TypeLife
  BY Reasons DEF Init, TypeCallers, TypeLife
<1>3. TypeCalls
  BY <1>1 DEF Init, TypeCalls
<1>4. TypeClose /\ TypeWriter /\ TypeModule /\ TypeEnd
  BY DEF Init, TypeClose, TypeWriter, TypeModule, TypeEnd
<1>5. TypeFlags
  BY DEF Init, TypeFlags
<1> QED
  BY <1>2, <1>3, <1>4, <1>5 DEF TypeOK

\* The callers of the front end keep the types.
LEMMA CallerTypeOK == ASSUME TypeOK, CallerNext PROVE TypeOK'
<1> USE DEF callerVars, lifeVars, callVars, closeVars, openVars, writerVars, moduleVars,
            endVars, handleVars
<1>1. ASSUME NEW r \in Requests, Submit(r) PROVE TypeOK'
  <2>1. Msg("request", r, "") \in ControlMsg
    BY <1>1 DEF Msg, ControlMsg
  <2>5. TypeCallers'
    BY <1>1, <2>1, AppendType, Reasons DEF Submit, TypeOK, TypeCallers
  <2>6. TypeLife' /\ TypeCalls' /\ TypeClose'
    BY <1>1 DEF Submit, TypeOK, TypeLife, TypeCalls, TypeClose
  <2>8. TypeWriter' /\ TypeModule' /\ TypeEnd'
    BY <1>1 DEF Submit, TypeOK, TypeWriter, TypeModule, TypeEnd
  <2>7. TypeFlags'
    BY <1>1 DEF Submit, TypeOK, TypeFlags
  <2> QED
    BY <2>5, <2>6, <2>7, <2>8 DEF TypeOK
<1>2. ASSUME NEW r \in Requests, SubmitClosed(r) PROVE TypeOK'
  <2>5. TypeCallers'
    BY <1>2, Reasons DEF SubmitClosed, TypeOK, TypeCallers
  <2>6. TypeLife' /\ TypeCalls' /\ TypeClose'
    BY <1>2 DEF SubmitClosed, TypeOK, TypeLife, TypeCalls, TypeClose
  <2>8. TypeWriter' /\ TypeModule' /\ TypeEnd'
    BY <1>2 DEF SubmitClosed, TypeOK, TypeWriter, TypeModule, TypeEnd
  <2>7. TypeFlags'
    BY <1>2 DEF SubmitClosed, TypeOK, TypeFlags
  <2> QED
    BY <2>5, <2>6, <2>7, <2>8 DEF TypeOK
<1>3. ASSUME NEW r \in Requests, Abandon(r) PROVE TypeOK'
  <2>5. TypeCallers'
    BY <1>3, Reasons DEF Abandon, TypeOK, TypeCallers
  <2>6. TypeLife' /\ TypeCalls' /\ TypeClose'
    BY <1>3 DEF Abandon, TypeOK, TypeLife, TypeCalls, TypeClose
  <2>8. TypeWriter' /\ TypeModule' /\ TypeEnd'
    BY <1>3 DEF Abandon, TypeOK, TypeWriter, TypeModule, TypeEnd
  <2>7. TypeFlags'
    BY <1>3 DEF Abandon, TypeOK, TypeFlags
  <2> QED
    BY <2>5, <2>6, <2>7, <2>8 DEF TypeOK
<1>4. ASSUME NEW s \in Stoppers, StopBegin(s) PROVE TypeOK'
  <2>1. Msg("shutdown", s, "") \in ControlMsg
    BY <1>4 DEF Msg, ControlMsg
  <2>2. control' \in {control, Append(control, Msg("shutdown", s, ""))}
    BY <1>4 DEF StopBegin
  <2>3. control' \in Seq(ControlMsg)
    BY <2>1, <2>2, AppendType DEF TypeOK, TypeCallers
  <2>4. /\ reply' \in [Requests -> ReplyState]
        /\ stop' \in [Stoppers -> {"idle", "shutting", "failed", "forcing", "stopped"}]
    BY <1>4 DEF StopBegin, TypeOK, TypeCallers
  <2>5. TypeCallers'
    BY <2>3, <2>4 DEF TypeCallers
  <2>6. TypeLife' /\ TypeCalls' /\ TypeClose'
    BY <1>4 DEF StopBegin, TypeOK, TypeLife, TypeCalls, TypeClose
  <2>8. TypeWriter' /\ TypeModule' /\ TypeEnd'
    BY <1>4 DEF StopBegin, TypeOK, TypeWriter, TypeModule, TypeEnd
  <2>7. TypeFlags'
    BY <1>4 DEF StopBegin, TypeOK, TypeFlags
  <2> QED
    BY <2>5, <2>6, <2>7, <2>8 DEF TypeOK
<1>5. ASSUME NEW s \in Stoppers, StopForce(s) PROVE TypeOK'
  <2>1. Msg("force", s, "") \in ControlMsg
    BY <1>5 DEF Msg, ControlMsg
  <2>2. control' \in {control, Append(control, Msg("force", s, ""))}
    BY <1>5 DEF StopForce
  <2>3. control' \in Seq(ControlMsg)
    BY <2>1, <2>2, AppendType DEF TypeOK, TypeCallers
  <2>4. /\ reply' \in [Requests -> ReplyState]
        /\ stop' \in [Stoppers -> {"idle", "shutting", "failed", "forcing", "stopped"}]
    BY <1>5 DEF StopForce, TypeOK, TypeCallers
  <2>5. TypeCallers'
    BY <2>3, <2>4 DEF TypeCallers
  <2>6. TypeLife' /\ TypeCalls' /\ TypeClose'
    BY <1>5 DEF StopForce, TypeOK, TypeLife, TypeCalls, TypeClose
  <2>8. TypeWriter' /\ TypeModule' /\ TypeEnd'
    BY <1>5 DEF StopForce, TypeOK, TypeWriter, TypeModule, TypeEnd
  <2>7. TypeFlags'
    BY <1>5 DEF StopForce, TypeOK, TypeFlags
  <2> QED
    BY <2>5, <2>6, <2>7, <2>8 DEF TypeOK
<1>6. ASSUME DropSenders PROVE TypeOK'
  <2>5. TypeCallers'
    BY <1>6 DEF DropSenders, TypeOK, TypeCallers
  <2>6. TypeLife' /\ TypeCalls' /\ TypeClose'
    BY <1>6 DEF DropSenders, TypeOK, TypeLife, TypeCalls, TypeClose
  <2>8. TypeWriter' /\ TypeModule' /\ TypeEnd'
    BY <1>6 DEF DropSenders, TypeOK, TypeWriter, TypeModule, TypeEnd
  <2>7. TypeFlags'
    BY <1>6 DEF DropSenders, TypeOK, TypeFlags
  <2> QED
    BY <2>5, <2>6, <2>7, <2>8 DEF TypeOK
<1>7. ASSUME NEW h \in Handles, RegisterHandle(h) PROVE TypeOK'
  <2>5. TypeCallers'
    BY <1>7 DEF RegisterHandle, TypeOK, TypeCallers
  <2>6. TypeLife' /\ TypeCalls' /\ TypeClose'
    BY <1>7 DEF RegisterHandle, TypeOK, TypeLife, TypeCalls, TypeClose
  <2>8. TypeWriter' /\ TypeModule' /\ TypeEnd'
    BY <1>7 DEF RegisterHandle, TypeOK, TypeWriter, TypeModule, TypeEnd
  <2>7. TypeFlags'
    BY <1>7 DEF RegisterHandle, TypeOK, TypeFlags
  <2> QED
    BY <2>5, <2>6, <2>7, <2>8 DEF TypeOK
<1>8. ASSUME NEW h \in Handles, ReleaseLoad(h) PROVE TypeOK'
  <2>5. TypeCallers'
    BY <1>8 DEF ReleaseLoad, TypeOK, TypeCallers
  <2>6. TypeLife' /\ TypeCalls' /\ TypeClose'
    BY <1>8 DEF ReleaseLoad, TypeOK, TypeLife, TypeCalls, TypeClose
  <2>8. TypeWriter' /\ TypeModule' /\ TypeEnd'
    BY <1>8 DEF ReleaseLoad, TypeOK, TypeWriter, TypeModule, TypeEnd
  <2>7. TypeFlags'
    BY <1>8 DEF ReleaseLoad, TypeOK, TypeFlags
  <2> QED
    BY <2>5, <2>6, <2>7, <2>8 DEF TypeOK
<1>9. ASSUME NEW h \in Handles, ReleaseApply(h) PROVE TypeOK'
  <2>5. TypeCallers'
    BY <1>9 DEF ReleaseApply, TypeOK, TypeCallers
  <2>6. TypeLife' /\ TypeCalls' /\ TypeClose'
    BY <1>9 DEF ReleaseApply, TypeOK, TypeLife, TypeCalls, TypeClose
  <2>8. TypeWriter' /\ TypeModule' /\ TypeEnd'
    BY <1>9 DEF ReleaseApply, TypeOK, TypeWriter, TypeModule, TypeEnd
  <2>7. TypeFlags'
    BY <1>9 DEF ReleaseApply, TypeOK, TypeFlags
  <2> QED
    BY <2>5, <2>6, <2>7, <2>8 DEF TypeOK
<1> QED
  BY <1>1, <1>2, <1>3, <1>4, <1>5, <1>6, <1>7, <1>8, <1>9 DEF CallerNext

\* The control arm keeps the types.
LEMMA ControlTypeOK == ASSUME TypeOK, ControlArm PROVE TypeOK'
<1> USE DEF armFrame, callerVars, lifeVars, callVars, closeVars, openVars, writerVars,
            moduleVars, endVars, handleVars
<1>1. ASSUME HandleRequest PROVE TypeOK'
  <2>1. Head(control) \in ControlMsg /\ Tail(control) \in Seq(ControlMsg)
    BY <1>1, HeadTailType DEF HandleRequest, TypeOK, TypeCallers
  <2> DEFINE r == Head(control).x
  <2>2. r \in Requests /\ reply \in [Requests -> ReplyState] /\ waiting \in Seq(Requests)
    BY <1>1, <2>1 DEF HandleRequest, ControlMsg, TypeOK, TypeCallers, TypeLife
  <2>3. LifecycleTypes' /\ deadline' \in BOOLEAN
        /\ awaitingFlush' \subseteq Ids /\ writerQ' \in Seq(WriterMsg)
    <3>1. CASE /\ Refusal(r) # NoId
               /\ reply' = Answer(reply, {r}, Refusal(r))
               /\ UNCHANGED <<inFlight, deadline, waiting, awaitingFlush, writerQ, phase,
                              status, fatal>>
      <4>1. Refusal(r) \in ReplyState
        BY <3>1, Reasons DEF Refusal
      <4>2. reply' \in [Requests -> ReplyState]
        BY <2>2, <3>1, <4>1, AnswerType
      <4>3. LifecycleTypes'
        BY <3>1, <4>2, LifecycleTypesHold DEF LifecycleTypes
      <4>4. deadline' \in BOOLEAN
        BY <3>1 DEF TypeOK, TypeFlags
      <4> QED
        BY <3>1, <4>3, <4>4 DEF TypeOK, TypeLife, TypeWriter
    <3>2. CASE /\ waiting' = Append(waiting, r)
               /\ UNCHANGED <<reply, inFlight, deadline, awaitingFlush, writerQ, phase,
                              status, fatal>>
      <4>1. waiting' \in Seq(Requests)
        BY <2>2, <3>2, AppendType
      <4>2. LifecycleTypes'
        BY <3>2, <4>1, LifecycleTypesHold DEF LifecycleTypes
      <4>3. deadline' \in BOOLEAN
        BY <3>2 DEF TypeOK, TypeFlags
      <4> QED
        BY <3>2, <4>2, <4>3 DEF TypeOK, TypeLife, TypeWriter
    <3>3. CASE DispatchLifecycle(r, reply, waiting)
      BY <2>2, <3>3, DispatchTypes
    <3> QED
      BY <1>1, <3>1, <3>2, <3>3 DEF HandleRequest
  <2>4. /\ control' \in Seq(ControlMsg) /\ awaitingFlush' \subseteq Ids
        /\ cancelled' \in Ids \cup {NoId} /\ diagnostic' \in FatalReason \cup {NoId}
        /\ stop' \in [Stoppers -> {"idle", "shutting", "failed", "forcing", "stopped"}]
    BY <1>1, <2>1, <2>3 DEF HandleRequest, TypeOK, TypeCallers, TypeLife, TypeEnd
  <2>5. TypeCalls'
    BY <1>1 DEF HandleRequest, TypeOK, TypeCalls
  <2>6. TypeClose'
    BY <1>1 DEF HandleRequest, TypeOK, TypeClose
  <2>7. TypeFlags'
    BY <1>1, <2>3 DEF HandleRequest, TypeOK, TypeFlags
  <2>8. TypeWriter'
    BY <1>1, <2>3 DEF HandleRequest, TypeOK, TypeWriter
  <2>9. TypeModule'
    BY <1>1 DEF HandleRequest, TypeOK, TypeModule
  <2> QED
    BY <2>3, <2>4, <2>5, <2>6, <2>7, <2>8, <2>9
    DEF LifecycleTypes, TypeOK, TypeCallers, TypeLife, TypeEnd
<1>2. ASSUME HandleShutdown PROVE TypeOK'
  <2>1. Head(control) \in ControlMsg /\ Tail(control) \in Seq(ControlMsg)
    BY <1>2, HeadTailType DEF HandleShutdown, TypeOK, TypeCallers
  <2> DEFINE s == Head(control).x
  <2>2. s \in Stoppers
    BY <1>2, <2>1 DEF HandleShutdown, ControlMsg
  <2>3. LifecycleTypes' /\ deadline' \in BOOLEAN /\ closing' \in BOOLEAN
        /\ cancelled' \in Ids \cup {NoId}
        /\ writerQ' \in Seq(WriterMsg) /\ shutdownReply' \in Stoppers \cup {NoId}
        /\ stop' \in [Stoppers -> {"idle", "shutting", "failed", "forcing", "stopped"}]
    <3>1. CASE StartShutdown(s)
      BY <2>2, <3>1, StartShutdownTypes
    <3>2. CASE /\ stop' = [stop EXCEPT ![s] = SecondShutdownReply]
               /\ UNCHANGED <<reply, inFlight, deadline, waiting, cancelled, closing,
                              shutdownReply, writerQ, phase, status, fatal>>
      <4>1. LifecycleTypes'
        BY <3>2, LifecycleTypesHold DEF LifecycleTypes
      <4>2. deadline' \in BOOLEAN /\ closing' \in BOOLEAN
        BY <3>2 DEF TypeOK, TypeFlags
      <4>3. /\ cancelled' \in Ids \cup {NoId} /\ writerQ' \in Seq(WriterMsg)
            /\ shutdownReply' \in Stoppers \cup {NoId}
        BY <3>2 DEF TypeOK, TypeLife, TypeWriter, TypeClose
      <4>4. stop' \in [Stoppers -> {"idle", "shutting", "failed", "forcing", "stopped"}]
        BY <2>2, <3>2 DEF SecondShutdownReply, TypeOK, TypeCallers
      <4> QED
        BY <4>1, <4>2, <4>3, <4>4
    <3> QED
      BY <1>2, <3>1, <3>2 DEF HandleShutdown
  <2>4. /\ control' \in Seq(ControlMsg) /\ awaitingFlush' \subseteq Ids
        /\ cancelled' \in Ids \cup {NoId} /\ diagnostic' \in FatalReason \cup {NoId}
        /\ stop' \in [Stoppers -> {"idle", "shutting", "failed", "forcing", "stopped"}]
    BY <1>2, <2>1, <2>3 DEF HandleShutdown, TypeOK, TypeCallers, TypeLife, TypeEnd
  <2>5. TypeCalls'
    BY <1>2 DEF HandleShutdown, TypeOK, TypeCalls
  <2>6. TypeClose'
    BY <1>2, <2>3 DEF HandleShutdown, TypeOK, TypeClose
  <2>7. TypeFlags'
    BY <1>2, <2>3 DEF HandleShutdown, TypeOK, TypeFlags
  <2>8. TypeWriter'
    BY <1>2, <2>3 DEF HandleShutdown, TypeOK, TypeWriter
  <2>9. TypeModule'
    BY <1>2 DEF HandleShutdown, TypeOK, TypeModule
  <2> QED
    BY <2>3, <2>4, <2>5, <2>6, <2>7, <2>8, <2>9
    DEF LifecycleTypes, TypeOK, TypeCallers, TypeLife, TypeEnd
<1>3. ASSUME HandleForce PROVE TypeOK'
  <2>1. Head(control) \in ControlMsg /\ Tail(control) \in Seq(ControlMsg)
    BY <1>3, HeadTailType DEF HandleForce, TypeOK, TypeCallers
  <2>2. Head(control).x \in Stoppers
    BY <1>3, <2>1 DEF HandleForce, ControlMsg
  <2>3. LifecycleTypes' /\ deadline' \in BOOLEAN
    BY <1>3, CleanBreakTypes DEF HandleForce
  <2>4. /\ control' \in Seq(ControlMsg) /\ awaitingFlush' \subseteq Ids
        /\ cancelled' \in Ids \cup {NoId} /\ diagnostic' \in FatalReason \cup {NoId}
        /\ stop' \in [Stoppers -> {"idle", "shutting", "failed", "forcing", "stopped"}]
    BY <1>3, <2>1 DEF HandleForce, TypeOK, TypeCallers, TypeLife, TypeEnd
  <2>5. TypeCalls'
    BY <1>3 DEF HandleForce, TypeOK, TypeCalls
  <2>6. TypeClose'
    BY <1>3, <2>2 DEF HandleForce, TypeOK, TypeClose
  <2>7. TypeFlags'
    BY <1>3, <2>3 DEF HandleForce, TypeOK, TypeFlags
  <2>8. TypeWriter'
    BY <1>3 DEF HandleForce, TypeOK, TypeWriter
  <2>9. TypeModule'
    BY <1>3 DEF HandleForce, TypeOK, TypeModule
  <2> QED
    BY <2>3, <2>4, <2>5, <2>6, <2>7, <2>8, <2>9
    DEF LifecycleTypes, TypeOK, TypeCallers, TypeLife, TypeEnd
<1>4. ASSUME HandleControlClosed PROVE TypeOK'
  <2>3. LifecycleTypes' /\ deadline' \in BOOLEAN /\ closing' \in BOOLEAN
        /\ cancelled' \in Ids \cup {NoId}
        /\ writerQ' \in Seq(WriterMsg) /\ shutdownReply' \in Stoppers \cup {NoId}
        /\ stop' \in [Stoppers -> {"idle", "shutting", "failed", "forcing", "stopped"}]
    <3>1. CASE StartShutdown(NoId)
      BY <3>1, StartShutdownTypes
    <3>2. CASE UNCHANGED <<reply, inFlight, deadline, waiting, cancelled, closing, stop,
                           shutdownReply, writerQ, phase, status, fatal>>
      <4>1. LifecycleTypes'
        BY <3>2, LifecycleTypesHold DEF LifecycleTypes
      <4>2. deadline' \in BOOLEAN /\ closing' \in BOOLEAN
        BY <3>2 DEF TypeOK, TypeFlags
      <4>3. /\ cancelled' \in Ids \cup {NoId} /\ writerQ' \in Seq(WriterMsg)
            /\ shutdownReply' \in Stoppers \cup {NoId}
            /\ stop' \in [Stoppers -> {"idle", "shutting", "failed", "forcing", "stopped"}]
        BY <3>2 DEF TypeOK, TypeCallers, TypeLife, TypeWriter, TypeClose
      <4> QED
        BY <4>1, <4>2, <4>3
    <3> QED
      BY <1>4, <3>1, <3>2 DEF HandleControlClosed
  <2>4. /\ control' \in Seq(ControlMsg) /\ awaitingFlush' \subseteq Ids
        /\ cancelled' \in Ids \cup {NoId} /\ diagnostic' \in FatalReason \cup {NoId}
        /\ stop' \in [Stoppers -> {"idle", "shutting", "failed", "forcing", "stopped"}]
    BY <1>4, <2>3 DEF HandleControlClosed, TypeOK, TypeCallers, TypeLife, TypeEnd
  <2>5. TypeCalls'
    BY <1>4 DEF HandleControlClosed, TypeOK, TypeCalls
  <2>6. TypeClose'
    BY <1>4, <2>3 DEF HandleControlClosed, TypeOK, TypeClose
  <2>7. TypeFlags'
    BY <1>4, <2>3 DEF HandleControlClosed, TypeOK, TypeFlags
  <2>8. TypeWriter'
    BY <1>4, <2>3 DEF HandleControlClosed, TypeOK, TypeWriter
  <2>9. TypeModule'
    BY <1>4 DEF HandleControlClosed, TypeOK, TypeModule
  <2> QED
    BY <2>3, <2>4, <2>5, <2>6, <2>7, <2>8, <2>9
    DEF LifecycleTypes, TypeOK, TypeCallers, TypeLife, TypeEnd
<1> QED
  BY <1>1, <1>2, <1>3, <1>4 DEF ControlArm

\* The reader arm keeps the types.
LEMMA ReaderTypeOK == ASSUME TypeOK, ReaderArm PROVE TypeOK'
<1> USE DEF armFrame, callerVars, lifeVars, callVars, closeVars, openVars, writerVars,
            moduleVars, endVars, handleVars
<1>1. ASSUME HandleTelegramInvoke PROVE TypeOK'
  <2>1. Head(readerQ) \in ReaderMsg /\ Tail(readerQ) \in Seq(ReaderMsg)
    BY <1>1, HeadTailType DEF HandleTelegramInvoke, ReaderReady, TypeOK, TypeModule
  <2> DEFINE c == Head(readerQ).x
  <2>2. c \in Calls
    BY <1>1, <2>1 DEF HandleTelegramInvoke, ReaderReady, ReaderMsg
  <2>3. LifecycleTypes' /\ deadline' \in BOOLEAN /\ writerQ' \in Seq(WriterMsg)
    <3>1. \A m \in {"capacity", "denied"} : Msg("telegram_result", c, m) \in WriterMsg
      BY <2>2 DEF Msg, WriterMsg
    <3>2. CASE UNCHANGED <<lifecycleAndEnd, writerQ>>
      BY <3>2, UnchangedTypes DEF TypeOK, TypeWriter
    <3>3. CASE FatalHere("protocol_decode") /\ UNCHANGED writerQ
      BY <3>3, FatalHereTypes, Reasons DEF TypeOK, TypeWriter
    <3>4. CASE \E m \in {"capacity", "denied"} : QueueResult(Msg("telegram_result", c, m))
      BY <3>1, <3>4, QueueResultTypes
    <3> QED
      BY <1>1, <3>2, <3>3, <3>4 DEF HandleTelegramInvoke
  <2>4. /\ control' \in Seq(ControlMsg) /\ awaitingFlush' \subseteq Ids
        /\ cancelled' \in Ids \cup {NoId} /\ diagnostic' \in FatalReason \cup {NoId}
        /\ stop' \in [Stoppers -> {"idle", "shutting", "failed", "forcing", "stopped"}]
    BY <1>1 DEF HandleTelegramInvoke, TypeOK, TypeCallers, TypeLife, TypeEnd
  <2>5. TypeCalls'
    <3>1. UsizeModulus \in Nat \ {0, 1}
      BY ConstantsAssumption DEF ConstantsAssumption
    <3>2. hostActive' \in {hostActive, (hostActive + 1) % UsizeModulus}
      BY <1>1 DEF HandleTelegramInvoke
    <3>3. hostActive' \in 0 .. (UsizeModulus - 1)
      BY <3>1, <3>2 DEF TypeOK, TypeCalls
    <3>4. activeCalls' \subseteq Calls
      BY <1>1, <2>2 DEF HandleTelegramInvoke, TypeOK, TypeCalls
    <3>5. workers' \in [Calls -> {"none", "rpc", "host"}] /\ invoked' \in [Calls -> Nat]
      BY <1>1, <2>2 DEF HandleTelegramInvoke, TypeOK, TypeCalls
    <3> QED
      BY <1>1, <3>3, <3>4, <3>5 DEF HandleTelegramInvoke, TypeOK, TypeCalls
  <2>6. TypeClose'
    BY <1>1 DEF HandleTelegramInvoke, TypeOK, TypeClose
  <2>7. TypeFlags'
    BY <1>1, <2>3 DEF HandleTelegramInvoke, TypeOK, TypeFlags
  <2>8. TypeWriter'
    BY <1>1, <2>3 DEF HandleTelegramInvoke, TypeOK, TypeWriter
  <2>9. TypeModule'
    BY <1>1, <2>1 DEF HandleTelegramInvoke, ReaderReady, TypeOK, TypeModule
  <2> QED
    BY <2>3, <2>4, <2>5, <2>6, <2>7, <2>8, <2>9
    DEF LifecycleTypes, TypeOK, TypeCallers, TypeLife, TypeEnd
<1>2. ASSUME HandleHostInvoke PROVE TypeOK'
  <2>1. Head(readerQ) \in ReaderMsg /\ Tail(readerQ) \in Seq(ReaderMsg)
    BY <1>2, HeadTailType DEF HandleHostInvoke, ReaderReady, TypeOK, TypeModule
  <2>2. Head(readerQ).x \in Calls
    BY <1>2, <2>1 DEF HandleHostInvoke, ReaderReady, ReaderMsg
  <2>3. LifecycleTypes' /\ deadline' \in BOOLEAN
    <3>1. CASE UNCHANGED lifecycleAndEnd
      BY <3>1, UnchangedTypes
    <3>2. CASE FatalHere("protocol_decode") \/ FatalHere("backpressure")
      BY <3>2, FatalHereTypes, Reasons
    <3> QED
      BY <1>2, <3>1, <3>2 DEF HandleHostInvoke
  <2>4. /\ control' \in Seq(ControlMsg) /\ awaitingFlush' \subseteq Ids
        /\ cancelled' \in Ids \cup {NoId} /\ diagnostic' \in FatalReason \cup {NoId}
        /\ stop' \in [Stoppers -> {"idle", "shutting", "failed", "forcing", "stopped"}]
    BY <1>2 DEF HandleHostInvoke, TypeOK, TypeCallers, TypeLife, TypeEnd
  <2>5. TypeCalls'
    BY <1>2, <2>2 DEF HandleHostInvoke, TypeOK, TypeCalls
  <2>6. TypeClose'
    BY <1>2 DEF HandleHostInvoke, TypeOK, TypeClose
  <2>7. TypeFlags'
    BY <1>2, <2>3 DEF HandleHostInvoke, TypeOK, TypeFlags
  <2>8. TypeWriter'
    BY <1>2 DEF HandleHostInvoke, TypeOK, TypeWriter
  <2>9. TypeModule'
    BY <1>2, <2>1 DEF HandleHostInvoke, ReaderReady, TypeOK, TypeModule
  <2> QED
    BY <2>3, <2>4, <2>5, <2>6, <2>7, <2>8, <2>9
    DEF LifecycleTypes, TypeOK, TypeCallers, TypeLife, TypeEnd
<1>3. ASSUME HandleTerminal PROVE TypeOK'
  <2>1. Head(readerQ) \in ReaderMsg /\ Tail(readerQ) \in Seq(ReaderMsg)
    BY <1>3, HeadTailType DEF HandleTerminal, ReaderReady, TypeOK, TypeModule
  <2> DEFINE rep == Answer(reply, {inFlight}, "ok")
  <2>2. rep \in [Requests -> ReplyState]
    BY AnswerType, Reasons DEF TypeOK, TypeCallers
  <2>3. LifecycleTypes' /\ deadline' \in BOOLEAN
        /\ awaitingFlush' \subseteq Ids /\ writerQ' \in Seq(WriterMsg)
    <3>1. CASE UNCHANGED <<lifecycleAndEnd, awaitingFlush, writerQ>>
      BY <3>1, UnchangedTypes DEF TypeOK, TypeLife, TypeWriter
    <3>2. CASE /\ \E reason \in {"wrong_request_id", "wrong_module_id", "protocol_decode"} :
                    FatalHere(reason)
               /\ UNCHANGED <<awaitingFlush, writerQ>>
      BY <3>2, FatalHereTypes, Reasons DEF TypeOK, TypeLife, TypeWriter
    <3>3. CASE /\ reply' = rep /\ inFlight' = NoId /\ deadline' = FALSE
               /\ UNCHANGED <<waiting, awaitingFlush, writerQ, phase, status, fatal>>
      <4>1. LifecycleTypes'
        BY <2>2, <3>3, LifecycleTypesHold DEF LifecycleTypes
      <4>2. deadline' \in BOOLEAN
        BY <3>3
      <4> QED
        BY <3>3, <4>1, <4>2 DEF TypeOK, TypeLife, TypeWriter
    <3>4. CASE waiting # <<>> /\ DispatchLifecycle(Head(waiting), rep, Tail(waiting))
      <4>1. Head(waiting) \in Requests /\ Tail(waiting) \in Seq(Requests)
        BY <3>4, HeadTailType DEF TypeOK, TypeLife
      <4> QED
        BY <2>2, <3>4, <4>1, DispatchTypes
    <3> QED
      BY <1>3, <3>1, <3>2, <3>3, <3>4 DEF HandleTerminal
  <2>4. /\ control' \in Seq(ControlMsg) /\ awaitingFlush' \subseteq Ids
        /\ cancelled' \in Ids \cup {NoId} /\ diagnostic' \in FatalReason \cup {NoId}
        /\ stop' \in [Stoppers -> {"idle", "shutting", "failed", "forcing", "stopped"}]
    BY <1>3, <2>3 DEF HandleTerminal, TypeOK, TypeCallers, TypeLife, TypeEnd
  <2>5. TypeCalls'
    BY <1>3 DEF HandleTerminal, TypeOK, TypeCalls
  <2>6. TypeClose'
    BY <1>3 DEF HandleTerminal, TypeOK, TypeClose
  <2>7. TypeFlags'
    BY <1>3, <2>3 DEF HandleTerminal, TypeOK, TypeFlags
  <2>8. TypeWriter'
    BY <1>3, <2>3 DEF HandleTerminal, TypeOK, TypeWriter
  <2>9. TypeModule'
    BY <1>3, <2>1 DEF HandleTerminal, ReaderReady, TypeOK, TypeModule
  <2> QED
    BY <2>3, <2>4, <2>5, <2>6, <2>7, <2>8, <2>9
    DEF LifecycleTypes, TypeOK, TypeCallers, TypeLife, TypeEnd
<1>4. ASSUME HandleLog PROVE TypeOK'
  <2>1. Head(readerQ) \in ReaderMsg /\ Tail(readerQ) \in Seq(ReaderMsg)
    BY <1>4, HeadTailType DEF HandleLog, ReaderReady, TypeOK, TypeModule
  <2>3. LifecycleTypes' /\ deadline' \in BOOLEAN
    BY <1>4, UnchangedTypes, FatalHereTypes, Reasons DEF HandleLog
  <2>4. /\ control' \in Seq(ControlMsg) /\ awaitingFlush' \subseteq Ids
        /\ cancelled' \in Ids \cup {NoId} /\ diagnostic' \in FatalReason \cup {NoId}
        /\ stop' \in [Stoppers -> {"idle", "shutting", "failed", "forcing", "stopped"}]
    BY <1>4 DEF HandleLog, TypeOK, TypeCallers, TypeLife, TypeEnd
  <2>5. TypeCalls'
    BY <1>4 DEF HandleLog, TypeOK, TypeCalls
  <2>6. TypeClose'
    BY <1>4 DEF HandleLog, TypeOK, TypeClose
  <2>7. TypeFlags'
    BY <1>4, <2>3 DEF HandleLog, TypeOK, TypeFlags
  <2>8. TypeWriter'
    BY <1>4 DEF HandleLog, TypeOK, TypeWriter
  <2>9. TypeModule'
    BY <1>4, <2>1 DEF HandleLog, ReaderReady, TypeOK, TypeModule
  <2> QED
    BY <2>3, <2>4, <2>5, <2>6, <2>7, <2>8, <2>9
    DEF LifecycleTypes, TypeOK, TypeCallers, TypeLife, TypeEnd
<1>5. ASSUME HandleInboundError PROVE TypeOK'
  <2>1. Head(readerQ) \in ReaderMsg /\ Tail(readerQ) \in Seq(ReaderMsg)
    BY <1>5, HeadTailType DEF HandleInboundError, ReaderReady, TypeOK, TypeModule
  <2>2. Head(readerQ).m \in FatalReason
    BY <1>5, <2>1, Reasons DEF HandleInboundError, ReaderReady, ReaderMsg
  <2>3. LifecycleTypes' /\ deadline' \in BOOLEAN
    BY <1>5, <2>2, FatalHereTypes DEF HandleInboundError
  <2>4. /\ control' \in Seq(ControlMsg) /\ awaitingFlush' \subseteq Ids
        /\ cancelled' \in Ids \cup {NoId} /\ diagnostic' \in FatalReason \cup {NoId}
        /\ stop' \in [Stoppers -> {"idle", "shutting", "failed", "forcing", "stopped"}]
    BY <1>5 DEF HandleInboundError, TypeOK, TypeCallers, TypeLife, TypeEnd
  <2>5. TypeCalls'
    BY <1>5 DEF HandleInboundError, TypeOK, TypeCalls
  <2>6. TypeClose'
    BY <1>5 DEF HandleInboundError, TypeOK, TypeClose
  <2>7. TypeFlags'
    BY <1>5, <2>3 DEF HandleInboundError, TypeOK, TypeFlags
  <2>8. TypeWriter'
    BY <1>5 DEF HandleInboundError, TypeOK, TypeWriter
  <2>9. TypeModule'
    BY <1>5, <2>1 DEF HandleInboundError, ReaderReady, TypeOK, TypeModule
  <2> QED
    BY <2>3, <2>4, <2>5, <2>6, <2>7, <2>8, <2>9
    DEF LifecycleTypes, TypeOK, TypeCallers, TypeLife, TypeEnd
<1>6. ASSUME HandleEof PROVE TypeOK'
  <2>1. Head(readerQ) \in ReaderMsg /\ Tail(readerQ) \in Seq(ReaderMsg)
    BY <1>6, HeadTailType DEF HandleEof, ReaderReady, TypeOK, TypeModule
  <2>3. LifecycleTypes' /\ deadline' \in BOOLEAN
        /\ stop' \in [Stoppers -> {"idle", "shutting", "failed", "forcing", "stopped"}]
        /\ shutdownReply' \in Stoppers \cup {NoId}
    <3>1. CASE UNCHANGED <<lifecycleAndEnd, stop, shutdownReply>>
      BY <3>1, UnchangedTypes DEF TypeOK, TypeCallers, TypeClose
    <3>2. CASE StopReply("failed") /\ FatalHere("unavailable")
      BY <3>2, StopReplyTypes, FatalHereTypes, Reasons
    <3> QED
      BY <1>6, <3>1, <3>2 DEF HandleEof
  <2>4. /\ control' \in Seq(ControlMsg) /\ awaitingFlush' \subseteq Ids
        /\ cancelled' \in Ids \cup {NoId} /\ diagnostic' \in FatalReason \cup {NoId}
        /\ stop' \in [Stoppers -> {"idle", "shutting", "failed", "forcing", "stopped"}]
    BY <1>6, <2>3 DEF HandleEof, TypeOK, TypeCallers, TypeLife, TypeEnd
  <2>5. TypeCalls'
    BY <1>6 DEF HandleEof, TypeOK, TypeCalls
  <2>6. TypeClose'
    BY <1>6, <2>3 DEF HandleEof, TypeOK, TypeClose
  <2>7. TypeFlags'
    BY <1>6, <2>3 DEF HandleEof, TypeOK, TypeFlags
  <2>8. TypeWriter'
    BY <1>6 DEF HandleEof, TypeOK, TypeWriter
  <2>9. TypeModule'
    BY <1>6, <2>1 DEF HandleEof, ReaderReady, TypeOK, TypeModule
  <2> QED
    BY <2>3, <2>4, <2>5, <2>6, <2>7, <2>8, <2>9
    DEF LifecycleTypes, TypeOK, TypeCallers, TypeLife, TypeEnd
<1> QED
  BY <1>1, <1>2, <1>3, <1>4, <1>5, <1>6 DEF ReaderArm

\* The arm of completions and flushes keeps the types.
LEMMA RpcTypeOK == ASSUME TypeOK, RpcArm PROVE TypeOK'
<1> USE DEF armFrame, callerVars, lifeVars, callVars, closeVars, openVars, writerVars,
            moduleVars, endVars, handleVars
<1>1. ASSUME HandleRpcComplete PROVE TypeOK'
  <2>1. Head(rpcQ) \in ActorMsg /\ Tail(rpcQ) \in Seq(ActorMsg)
    BY <1>1, HeadTailType DEF HandleRpcComplete, RpcReady, TypeOK, TypeWriter
  <2> DEFINE c == Head(rpcQ).x
  <2>2. c \in Calls /\ Msg("telegram_result", c, "done") \in WriterMsg
    BY <1>1, <2>1 DEF HandleRpcComplete, RpcReady, ActorMsg, WriterMsg, Msg
  <2>3. LifecycleTypes' /\ deadline' \in BOOLEAN /\ writerQ' \in Seq(WriterMsg)
    <3>1. CASE UNCHANGED <<lifecycleAndEnd, writerQ>>
      BY <3>1, UnchangedTypes DEF TypeOK, TypeWriter
    <3>2. CASE QueueResult(Msg("telegram_result", c, "done"))
      BY <2>2, <3>2, QueueResultTypes
    <3> QED
      BY <1>1, <3>1, <3>2 DEF HandleRpcComplete
  <2>4. /\ control' \in Seq(ControlMsg) /\ awaitingFlush' \subseteq Ids
        /\ cancelled' \in Ids \cup {NoId} /\ diagnostic' \in FatalReason \cup {NoId}
        /\ stop' \in [Stoppers -> {"idle", "shutting", "failed", "forcing", "stopped"}]
    BY <1>1 DEF HandleRpcComplete, TypeOK, TypeCallers, TypeLife, TypeEnd
  <2>5. TypeCalls'
    BY <1>1 DEF HandleRpcComplete, ActiveAfterCompletion, TypeOK, TypeCalls
  <2>6. TypeClose'
    BY <1>1 DEF HandleRpcComplete, TypeOK, TypeClose
  <2>7. TypeFlags'
    BY <1>1, <2>3 DEF HandleRpcComplete, TypeOK, TypeFlags
  <2>8. TypeWriter'
    BY <1>1, <2>1, <2>3 DEF HandleRpcComplete, RpcReady, TypeOK, TypeWriter
  <2>9. TypeModule'
    BY <1>1 DEF HandleRpcComplete, TypeOK, TypeModule
  <2> QED
    BY <2>3, <2>4, <2>5, <2>6, <2>7, <2>8, <2>9
    DEF LifecycleTypes, TypeOK, TypeCallers, TypeLife, TypeEnd
<1>2. ASSUME HandleHostComplete PROVE TypeOK'
  <2>1. Head(rpcQ) \in ActorMsg /\ Tail(rpcQ) \in Seq(ActorMsg)
    BY <1>2, HeadTailType DEF HandleHostComplete, RpcReady, TypeOK, TypeWriter
  <2> DEFINE c == Head(rpcQ).x
  <2>2. c \in Calls /\ Msg("host_result", c, "done") \in WriterMsg
    BY <1>2, <2>1 DEF HandleHostComplete, RpcReady, ActorMsg, WriterMsg, Msg
  <2>3. LifecycleTypes' /\ deadline' \in BOOLEAN /\ writerQ' \in Seq(WriterMsg)
    <3>1. CASE UNCHANGED <<lifecycleAndEnd, writerQ>>
      BY <3>1, UnchangedTypes DEF TypeOK, TypeWriter
    <3>2. CASE QueueResult(Msg("host_result", c, "done"))
      BY <2>2, <3>2, QueueResultTypes
    <3> QED
      BY <1>2, <3>1, <3>2 DEF HandleHostComplete
  <2>4. /\ control' \in Seq(ControlMsg) /\ awaitingFlush' \subseteq Ids
        /\ cancelled' \in Ids \cup {NoId} /\ diagnostic' \in FatalReason \cup {NoId}
        /\ stop' \in [Stoppers -> {"idle", "shutting", "failed", "forcing", "stopped"}]
    BY <1>2 DEF HandleHostComplete, TypeOK, TypeCallers, TypeLife, TypeEnd
  <2>5. TypeCalls'
    <3>1. UsizeModulus \in Nat \ {0, 1}
      BY ConstantsAssumption DEF ConstantsAssumption
    <3>2. FinishHostCall \/ UNCHANGED <<hostActive, handleVars>>
      BY <1>2 DEF HandleHostComplete
    <3>3. hostActive' \in 0 .. (UsizeModulus - 1)
      BY <3>1, <3>2 DEF FinishHostCall, TypeOK, TypeCalls
    <3>4. /\ registry' \subseteq Handles
          /\ release' \in [Handles -> {"none", "deferring", "releasing", "deferred", "done"}]
      BY <3>2 DEF FinishHostCall, TypeOK, TypeCalls
    <3>5. activeCalls' \subseteq Calls
      BY <1>2 DEF HandleHostComplete, ActiveAfterCompletion, TypeOK, TypeCalls
    <3> QED
      BY <1>2, <3>3, <3>4, <3>5 DEF HandleHostComplete, TypeOK, TypeCalls
  <2>6. TypeClose'
    BY <1>2 DEF HandleHostComplete, TypeOK, TypeClose
  <2>7. TypeFlags'
    BY <1>2, <2>3 DEF HandleHostComplete, TypeOK, TypeFlags
  <2>8. TypeWriter'
    BY <1>2, <2>1, <2>3 DEF HandleHostComplete, RpcReady, TypeOK, TypeWriter
  <2>9. TypeModule'
    BY <1>2 DEF HandleHostComplete, TypeOK, TypeModule
  <2> QED
    BY <2>3, <2>4, <2>5, <2>6, <2>7, <2>8, <2>9
    DEF LifecycleTypes, TypeOK, TypeCallers, TypeLife, TypeEnd
<1>3. ASSUME HandleFlushed PROVE TypeOK'
  <2>1. Head(rpcQ) \in ActorMsg /\ Tail(rpcQ) \in Seq(ActorMsg)
    BY <1>3, HeadTailType DEF HandleFlushed, RpcReady, TypeOK, TypeWriter
  <2>3. LifecycleTypes' /\ deadline' \in BOOLEAN
    <3>1. UNCHANGED lifecycleAndEnd
      BY <1>3 DEF HandleFlushed, lifecycleAndEnd
    <3> QED
      BY <3>1, UnchangedTypes
  <2>4. /\ control' \in Seq(ControlMsg) /\ awaitingFlush' \subseteq Ids
        /\ cancelled' \in Ids \cup {NoId} /\ diagnostic' \in FatalReason \cup {NoId}
        /\ stop' \in [Stoppers -> {"idle", "shutting", "failed", "forcing", "stopped"}]
    BY <1>3 DEF HandleFlushed, TypeOK, TypeCallers, TypeLife, TypeEnd
  <2>5. TypeCalls'
    BY <1>3 DEF HandleFlushed, TypeOK, TypeCalls
  <2>6. TypeClose'
    BY <1>3 DEF HandleFlushed, TypeOK, TypeClose
  <2>7. TypeFlags'
    BY <1>3, <2>3 DEF HandleFlushed, TypeOK, TypeFlags
  <2>8. TypeWriter'
    BY <1>3, <2>1 DEF HandleFlushed, RpcReady, TypeOK, TypeWriter
  <2>9. TypeModule'
    BY <1>3 DEF HandleFlushed, TypeOK, TypeModule
  <2> QED
    BY <2>3, <2>4, <2>5, <2>6, <2>7, <2>8, <2>9
    DEF LifecycleTypes, TypeOK, TypeCallers, TypeLife, TypeEnd
<1>4. ASSUME HandleLifecycleFlushed PROVE TypeOK'
  <2>1. Head(rpcQ) \in ActorMsg /\ Tail(rpcQ) \in Seq(ActorMsg)
    BY <1>4, HeadTailType DEF HandleLifecycleFlushed, RpcReady, TypeOK, TypeWriter
  <2>3. LifecycleTypes' /\ deadline' \in BOOLEAN
    <3>1. CASE FatalHere("wrong_request_id")
      BY <3>1, FatalHereTypes, Reasons
    <3>2. CASE /\ deadline' = (deadline \/ InFlightId(Head(rpcQ).x))
               /\ UNCHANGED <<reply, inFlight, waiting, phase, status, fatal>>
      <4>1. LifecycleTypes'
        BY <3>2, LifecycleTypesHold DEF LifecycleTypes
      <4>2. deadline' \in BOOLEAN
        BY <3>2
      <4> QED
        BY <4>1, <4>2
    <3> QED
      BY <1>4, <3>1, <3>2 DEF HandleLifecycleFlushed
  <2>4. /\ control' \in Seq(ControlMsg) /\ awaitingFlush' \subseteq Ids
        /\ cancelled' \in Ids \cup {NoId} /\ diagnostic' \in FatalReason \cup {NoId}
        /\ stop' \in [Stoppers -> {"idle", "shutting", "failed", "forcing", "stopped"}]
    BY <1>4 DEF HandleLifecycleFlushed, TypeOK, TypeCallers, TypeLife, TypeEnd
  <2>5. TypeCalls'
    BY <1>4 DEF HandleLifecycleFlushed, TypeOK, TypeCalls
  <2>6. TypeClose'
    BY <1>4 DEF HandleLifecycleFlushed, TypeOK, TypeClose
  <2>7. TypeFlags'
    BY <1>4, <2>3 DEF HandleLifecycleFlushed, TypeOK, TypeFlags
  <2>8. TypeWriter'
    BY <1>4, <2>1 DEF HandleLifecycleFlushed, RpcReady, TypeOK, TypeWriter
  <2>9. TypeModule'
    BY <1>4 DEF HandleLifecycleFlushed, TypeOK, TypeModule
  <2> QED
    BY <2>3, <2>4, <2>5, <2>6, <2>7, <2>8, <2>9
    DEF LifecycleTypes, TypeOK, TypeCallers, TypeLife, TypeEnd
<1>5. ASSUME HandleShutdownFlushed PROVE TypeOK'
  <2>1. Head(rpcQ) \in ActorMsg /\ Tail(rpcQ) \in Seq(ActorMsg)
    BY <1>5, HeadTailType DEF HandleShutdownFlushed, RpcReady, TypeOK, TypeWriter
  <2>3. LifecycleTypes' /\ deadline' \in BOOLEAN
        /\ stop' \in [Stoppers -> {"idle", "shutting", "failed", "forcing", "stopped"}]
        /\ shutdownReply' \in Stoppers \cup {NoId}
    <3>1. CASE UNCHANGED <<lifecycleAndEnd, stop, shutdownReply>>
      BY <3>1, UnchangedTypes DEF TypeOK, TypeCallers, TypeClose
    <3> QED
      BY <1>5, <3>1, FinishShutdownTypes DEF HandleShutdownFlushed
  <2>4. /\ control' \in Seq(ControlMsg) /\ awaitingFlush' \subseteq Ids
        /\ cancelled' \in Ids \cup {NoId} /\ diagnostic' \in FatalReason \cup {NoId}
        /\ stop' \in [Stoppers -> {"idle", "shutting", "failed", "forcing", "stopped"}]
    BY <1>5, <2>3 DEF HandleShutdownFlushed, TypeOK, TypeCallers, TypeLife, TypeEnd
  <2>5. TypeCalls'
    BY <1>5 DEF HandleShutdownFlushed, TypeOK, TypeCalls
  <2>6. TypeClose'
    BY <1>5, <2>3 DEF HandleShutdownFlushed, TypeOK, TypeClose
  <2>7. TypeFlags'
    BY <1>5, <2>3 DEF HandleShutdownFlushed, TypeOK, TypeFlags
  <2>8. TypeWriter'
    BY <1>5, <2>1 DEF HandleShutdownFlushed, RpcReady, TypeOK, TypeWriter
  <2>9. TypeModule'
    BY <1>5 DEF HandleShutdownFlushed, TypeOK, TypeModule
  <2> QED
    BY <2>3, <2>4, <2>5, <2>6, <2>7, <2>8, <2>9
    DEF LifecycleTypes, TypeOK, TypeCallers, TypeLife, TypeEnd
<1>6. ASSUME HandleWriterFailed PROVE TypeOK'
  <2>1. Head(rpcQ) \in ActorMsg /\ Tail(rpcQ) \in Seq(ActorMsg)
    BY <1>6, HeadTailType DEF HandleWriterFailed, RpcReady, TypeOK, TypeWriter
  <2>3. LifecycleTypes' /\ deadline' \in BOOLEAN
        /\ stop' \in [Stoppers -> {"idle", "shutting", "failed", "forcing", "stopped"}]
        /\ shutdownReply' \in Stoppers \cup {NoId}
    BY <1>6, StopReplyTypes, FatalHereTypes, Reasons DEF HandleWriterFailed
  <2>4. /\ control' \in Seq(ControlMsg) /\ awaitingFlush' \subseteq Ids
        /\ cancelled' \in Ids \cup {NoId} /\ diagnostic' \in FatalReason \cup {NoId}
        /\ stop' \in [Stoppers -> {"idle", "shutting", "failed", "forcing", "stopped"}]
    BY <1>6, <2>3 DEF HandleWriterFailed, TypeOK, TypeCallers, TypeLife, TypeEnd
  <2>5. TypeCalls'
    BY <1>6 DEF HandleWriterFailed, TypeOK, TypeCalls
  <2>6. TypeClose'
    BY <1>6, <2>3 DEF HandleWriterFailed, TypeOK, TypeClose
  <2>7. TypeFlags'
    BY <1>6, <2>3 DEF HandleWriterFailed, TypeOK, TypeFlags
  <2>8. TypeWriter'
    BY <1>6, <2>1 DEF HandleWriterFailed, RpcReady, TypeOK, TypeWriter
  <2>9. TypeModule'
    BY <1>6 DEF HandleWriterFailed, TypeOK, TypeModule
  <2> QED
    BY <2>3, <2>4, <2>5, <2>6, <2>7, <2>8, <2>9
    DEF LifecycleTypes, TypeOK, TypeCallers, TypeLife, TypeEnd
<1> QED
  BY <1>1, <1>2, <1>3, <1>4, <1>5, <1>6 DEF RpcArm

\* The exit arm, the deadlines and the teardown keep the types.
LEMMA EndTypeOK ==
  ASSUME TypeOK, ObserveExit \/ ShutdownDeadline \/ LifecycleDeadline \/ Kill \/ Finish
  PROVE  TypeOK'
<1> USE DEF armFrame, callerVars, lifeVars, callVars, closeVars, openVars, writerVars,
            moduleVars, endVars, handleVars
<1>1. ASSUME ObserveExit PROVE TypeOK'
  <2>3. LifecycleTypes' /\ deadline' \in BOOLEAN
        /\ stop' \in [Stoppers -> {"idle", "shutting", "failed", "forcing", "stopped"}]
        /\ shutdownReply' \in Stoppers \cup {NoId}
    <3>1. CASE FatalHere("unavailable") /\ UNCHANGED <<stop, shutdownReply>>
      BY <3>1, FatalHereTypes, Reasons DEF TypeOK, TypeCallers, TypeClose
    <3>2. CASE FinishShutdown
      BY <3>2, FinishShutdownTypes
    <3>3. CASE UNCHANGED <<reply, inFlight, deadline, waiting, phase, status, fatal, stop,
                           shutdownReply>>
      BY <3>3, UnchangedTypes DEF lifecycleAndEnd, TypeOK, TypeCallers, TypeClose
    <3> QED
      BY <1>1, <3>1, <3>2, <3>3 DEF ObserveExit
  <2>4. /\ control' \in Seq(ControlMsg) /\ awaitingFlush' \subseteq Ids
        /\ cancelled' \in Ids \cup {NoId} /\ diagnostic' \in FatalReason \cup {NoId}
        /\ stop' \in [Stoppers -> {"idle", "shutting", "failed", "forcing", "stopped"}]
    BY <1>1, <2>3 DEF ObserveExit, TypeOK, TypeCallers, TypeLife, TypeEnd
  <2>5. TypeCalls'
    BY <1>1 DEF ObserveExit, TypeOK, TypeCalls
  <2>6. TypeClose'
    BY <1>1, <2>3 DEF ObserveExit, TypeOK, TypeClose
  <2>7. TypeFlags'
    BY <1>1, <2>3 DEF ObserveExit, TypeOK, TypeFlags
  <2>8. TypeWriter'
    BY <1>1 DEF ObserveExit, TypeOK, TypeWriter
  <2>9. TypeModule'
    BY <1>1 DEF ObserveExit, TypeOK, TypeModule
  <2> QED
    BY <2>3, <2>4, <2>5, <2>6, <2>7, <2>8, <2>9
    DEF LifecycleTypes, TypeOK, TypeCallers, TypeLife, TypeEnd
<1>2. ASSUME ShutdownDeadline PROVE TypeOK'
  <2>3. LifecycleTypes' /\ deadline' \in BOOLEAN
        /\ stop' \in [Stoppers -> {"idle", "shutting", "failed", "forcing", "stopped"}]
        /\ shutdownReply' \in Stoppers \cup {NoId}
    BY <1>2, StopReplyTypes, FatalHereTypes, Reasons DEF ShutdownDeadline
  <2>4. /\ control' \in Seq(ControlMsg) /\ awaitingFlush' \subseteq Ids
        /\ cancelled' \in Ids \cup {NoId} /\ diagnostic' \in FatalReason \cup {NoId}
        /\ stop' \in [Stoppers -> {"idle", "shutting", "failed", "forcing", "stopped"}]
    BY <1>2, <2>3 DEF ShutdownDeadline, TypeOK, TypeCallers, TypeLife, TypeEnd
  <2>5. TypeCalls'
    BY <1>2 DEF ShutdownDeadline, TypeOK, TypeCalls
  <2>6. TypeClose'
    BY <1>2, <2>3 DEF ShutdownDeadline, TypeOK, TypeClose
  <2>7. TypeFlags'
    BY <1>2, <2>3 DEF ShutdownDeadline, TypeOK, TypeFlags
  <2>8. TypeWriter'
    BY <1>2 DEF ShutdownDeadline, TypeOK, TypeWriter
  <2>9. TypeModule'
    BY <1>2 DEF ShutdownDeadline, TypeOK, TypeModule
  <2> QED
    BY <2>3, <2>4, <2>5, <2>6, <2>7, <2>8, <2>9
    DEF LifecycleTypes, TypeOK, TypeCallers, TypeLife, TypeEnd
<1>3. ASSUME LifecycleDeadline PROVE TypeOK'
  <2>3. LifecycleTypes' /\ deadline' \in BOOLEAN
    BY <1>3, FatalHereTypes, Reasons DEF LifecycleDeadline
  <2>4. /\ control' \in Seq(ControlMsg) /\ awaitingFlush' \subseteq Ids
        /\ cancelled' \in Ids \cup {NoId} /\ diagnostic' \in FatalReason \cup {NoId}
        /\ stop' \in [Stoppers -> {"idle", "shutting", "failed", "forcing", "stopped"}]
    BY <1>3 DEF LifecycleDeadline, TypeOK, TypeCallers, TypeLife, TypeEnd
  <2>5. TypeCalls'
    BY <1>3 DEF LifecycleDeadline, TypeOK, TypeCalls
  <2>6. TypeClose'
    BY <1>3 DEF LifecycleDeadline, TypeOK, TypeClose
  <2>7. TypeFlags'
    BY <1>3, <2>3 DEF LifecycleDeadline, TypeOK, TypeFlags
  <2>8. TypeWriter'
    BY <1>3 DEF LifecycleDeadline, TypeOK, TypeWriter
  <2>9. TypeModule'
    BY <1>3 DEF LifecycleDeadline, TypeOK, TypeModule
  <2> QED
    BY <2>3, <2>4, <2>5, <2>6, <2>7, <2>8, <2>9
    DEF LifecycleTypes, TypeOK, TypeCallers, TypeLife, TypeEnd
<1>4. ASSUME Kill PROVE TypeOK'
  <2>1. TypeCallers' /\ TypeLife' /\ TypeClose' /\ TypeEnd'
    BY <1>4 DEF Kill, TypeOK, TypeCallers, TypeLife, TypeClose, TypeEnd
  <2>2. TypeCalls' /\ TypeModule'
    BY <1>4 DEF Kill, TypeOK, TypeCalls, TypeModule
  <2>3. TypeWriter'
    BY <1>4 DEF Kill, TypeOK, TypeWriter
  <2>4. TypeFlags'
    BY <1>4 DEF Kill, TypeOK, TypeFlags
  <2> QED
    BY <2>1, <2>2, <2>3, <2>4 DEF TypeOK
<1>5. ASSUME Finish PROVE TypeOK'
  <2>1. reply' \in [Requests -> ReplyState]
    BY <1>5, AnswerType, Reasons DEF Finish, TypeOK, TypeCallers
  <2>2. stop' \in [Stoppers -> {"idle", "shutting", "failed", "forcing", "stopped"}]
    BY <1>5 DEF Finish, StopAtReturn, TypeOK, TypeCallers
  <2>3. control' = <<>> /\ rpcQ' = <<>> /\ readerQ' = <<>>
    BY <1>5 DEF Finish
  <2>4. TypeLife' /\ TypeClose' /\ TypeEnd'
    BY <1>5 DEF Finish, TypeOK, TypeLife, TypeClose, TypeEnd
  <2>5. TypeCalls'
    BY <1>5 DEF Finish, TypeOK, TypeCalls
  <2>6. control' \in Seq(ControlMsg) /\ rpcQ' \in Seq(ActorMsg) /\ readerQ' \in Seq(ReaderMsg)
    BY <2>3
  <2>7. TypeWriter' /\ TypeModule'
    BY <1>5, <2>6 DEF Finish, TypeOK, TypeWriter, TypeModule
  <2>8. TypeFlags'
    BY <1>5 DEF Finish, TypeOK, TypeFlags
  <2> QED
    BY <2>1, <2>2, <2>4, <2>5, <2>6, <2>7, <2>8 DEF TypeOK, TypeCallers
<1> QED
  BY <1>1, <1>2, <1>3, <1>4, <1>5

\* The writer and the call workers keep the types.
LEMMA TaskTypeOK == ASSUME TypeOK, TaskNext PROVE TypeOK'
<1> USE DEF callerVars, lifeVars, callVars, closeVars, openVars, writerVars,
            moduleVars, endVars, handleVars
<1>1. ASSUME WriterWrite PROVE TypeOK'
  <2>1. Head(writerQ) \in WriterMsg /\ Tail(writerQ) \in Seq(WriterMsg)
    BY <1>1, HeadTailType DEF WriterWrite, WriterIdle, TypeOK, TypeWriter
  <2>2. Append(inbox, Head(writerQ)) \in Seq(WriterMsg)
    BY <2>1, AppendType DEF TypeOK, TypeWriter
  <2>3. FlushEvent(Head(writerQ)) \in ActorMsg
    BY <2>1 DEF FlushEvent, Msg, WriterMsg, ActorMsg
  <2>5. TypeCallers' /\ TypeLife' /\ TypeClose' /\ TypeEnd'
    BY <1>1 DEF WriterWrite, TypeOK, TypeCallers, TypeLife, TypeClose, TypeEnd
  <2>6. TypeCalls'
    BY <1>1 DEF WriterWrite, TypeOK, TypeCalls
  <2>7. TypeWriter'
    BY <1>1, <2>1, <2>2, <2>3 DEF WriterWrite, TypeOK, TypeWriter
  <2>8. TypeModule'
    BY <1>1 DEF WriterWrite, TypeOK, TypeModule
  <2>9. TypeFlags'
    BY <1>1 DEF WriterWrite, TypeOK, TypeFlags
  <2> QED
    BY <2>5, <2>6, <2>7, <2>8, <2>9 DEF TypeOK
<1>2. ASSUME WriterFail PROVE TypeOK'
  <2>1. Head(writerQ) \in WriterMsg /\ Tail(writerQ) \in Seq(WriterMsg)
    BY <1>2, HeadTailType DEF WriterFail, WriterIdle, TypeOK, TypeWriter
  <2>2. Append(inbox, Head(writerQ)) \in Seq(WriterMsg)
    BY <2>1, AppendType DEF TypeOK, TypeWriter
  <2>3. Msg("writer_failed", NoId, "") \in ActorMsg
    BY DEF Msg, ActorMsg
  <2>4. inbox' \in Seq(WriterMsg)
    BY <1>2, <2>2 DEF WriterFail, TypeOK, TypeWriter
  <2>5. TypeCallers' /\ TypeLife' /\ TypeClose' /\ TypeEnd'
    BY <1>2 DEF WriterFail, TypeOK, TypeCallers, TypeLife, TypeClose, TypeEnd
  <2>6. TypeCalls'
    BY <1>2 DEF WriterFail, TypeOK, TypeCalls
  <2>7. TypeWriter'
    BY <1>2, <2>1, <2>3, <2>4 DEF WriterFail, TypeOK, TypeWriter
  <2>8. TypeModule'
    BY <1>2 DEF WriterFail, TypeOK, TypeModule
  <2>9. TypeFlags'
    BY <1>2 DEF WriterFail, TypeOK, TypeFlags
  <2> QED
    BY <2>5, <2>6, <2>7, <2>8, <2>9 DEF TypeOK
<1>3. ASSUME WriterAck PROVE TypeOK'
  <2>1. rpcQ' \in Seq(ActorMsg)
    BY <1>3, AppendType DEF WriterAck, TypeOK, TypeWriter
  <2>2. writerQ' \in Seq(WriterMsg)
    BY <1>3 DEF WriterAck, TypeOK, TypeWriter
  <2>5. TypeCallers' /\ TypeLife' /\ TypeClose' /\ TypeEnd'
    BY <1>3 DEF WriterAck, TypeOK, TypeCallers, TypeLife, TypeClose, TypeEnd
  <2>6. TypeCalls'
    BY <1>3 DEF WriterAck, TypeOK, TypeCalls
  <2>7. TypeWriter'
    BY <1>3, <2>1, <2>2 DEF WriterAck, TypeOK, TypeWriter
  <2>8. TypeModule'
    BY <1>3 DEF WriterAck, TypeOK, TypeModule
  <2>9. TypeFlags'
    BY <1>3 DEF WriterAck, TypeOK, TypeFlags
  <2> QED
    BY <2>5, <2>6, <2>7, <2>8, <2>9 DEF TypeOK
<1>4. ASSUME NEW c \in Calls, WorkerComplete(c) PROVE TypeOK'
  <2>1. Completion(workers[c], c) \in ActorMsg
    BY <1>4 DEF Completion, Msg, ActorMsg
  <2>2. rpcQ' \in Seq(ActorMsg)
    BY <1>4, <2>1, AppendType DEF WorkerComplete, TypeOK, TypeWriter
  <2>5. TypeCallers' /\ TypeLife' /\ TypeClose' /\ TypeEnd'
    BY <1>4 DEF WorkerComplete, TypeOK, TypeCallers, TypeLife, TypeClose, TypeEnd
  <2>6. TypeCalls'
    BY <1>4 DEF WorkerComplete, TypeOK, TypeCalls
  <2>7. TypeWriter'
    BY <1>4, <2>2 DEF WorkerComplete, TypeOK, TypeWriter
  <2>8. TypeModule'
    BY <1>4 DEF WorkerComplete, TypeOK, TypeModule
  <2>9. TypeFlags'
    BY <1>4 DEF WorkerComplete, TypeOK, TypeFlags
  <2> QED
    BY <2>5, <2>6, <2>7, <2>8, <2>9 DEF TypeOK
<1>5. ASSUME NEW c \in Calls, WorkerAbort(c) PROVE TypeOK'
  <2>5. TypeCallers' /\ TypeLife' /\ TypeClose' /\ TypeEnd'
    BY <1>5 DEF WorkerAbort, TypeOK, TypeCallers, TypeLife, TypeClose, TypeEnd
  <2>6. TypeCalls'
    BY <1>5 DEF WorkerAbort, TypeOK, TypeCalls
  <2>7. TypeWriter'
    BY <1>5 DEF WorkerAbort, TypeOK, TypeWriter
  <2>8. TypeModule'
    BY <1>5 DEF WorkerAbort, TypeOK, TypeModule
  <2>9. TypeFlags'
    BY <1>5 DEF WorkerAbort, TypeOK, TypeFlags
  <2> QED
    BY <2>5, <2>6, <2>7, <2>8, <2>9 DEF TypeOK
<1> QED
  BY <1>1, <1>2, <1>3, <1>4, <1>5 DEF TaskNext

\* Whatever the child emits keeps the types.
LEMMA ModuleTypeOK == ASSUME TypeOK, ModuleNext PROVE TypeOK'
<1> USE DEF callerVars, lifeVars, callVars, closeVars, openVars, writerVars,
            moduleVars, endVars, handleVars
<1>1. ASSUME NEW event \in ReaderMsg, Read(event)
      PROVE  readerQ' \in Seq(ReaderMsg) /\ emits' \in Nat
  BY <1>1, AppendType DEF Read, TypeOK, TypeModule
<1>2. ASSUME NEW id \in Ids, NEW kind \in TerminalKinds, ReadTerminal(id, kind) PROVE TypeOK'
  <2>1. Msg("terminal", id, kind) \in ReaderMsg
    BY <1>2 DEF Msg, ReaderMsg
  <2>2. readerQ' \in Seq(ReaderMsg) /\ emits' \in Nat
    BY <1>1, <1>2, <2>1 DEF ReadTerminal
  <2>5. TypeCallers' /\ TypeLife' /\ TypeClose' /\ TypeEnd'
    BY <1>2 DEF ReadTerminal, Read, TypeOK, TypeCallers, TypeLife, TypeClose, TypeEnd
  <2>6. TypeCalls' /\ TypeWriter'
    BY <1>2 DEF ReadTerminal, Read, TypeOK, TypeCalls, TypeWriter
  <2>7. TypeModule'
    BY <1>2, <2>2 DEF ReadTerminal, Read, TypeOK, TypeModule
  <2>8. TypeFlags'
    BY <1>2 DEF ReadTerminal, Read, TypeOK, TypeFlags
  <2> QED
    BY <2>5, <2>6, <2>7, <2>8 DEF TypeOK
<1>3. ASSUME ReadOther PROVE TypeOK'
  <2>1. PICK event \in ReaderMsg : Read(event)
    <3>1. /\ \A id \in Ids : Msg("log", id, "") \in ReaderMsg
          /\ \A c \in Calls, m \in GatewayMethods : Msg("telegram_invoke", c, m) \in ReaderMsg
          /\ \A c \in Calls, m \in HostCalls : Msg("host_invoke", c, m) \in ReaderMsg
          /\ Msg("inbound_error", NoId, "protocol_decode") \in ReaderMsg
      BY DEF Msg, ReaderMsg
    <3> QED
      BY <1>3, <3>1 DEF ReadOther
  <2>2. readerQ' \in Seq(ReaderMsg) /\ emits' \in Nat
    BY <1>1, <2>1
  <2>5. TypeCallers' /\ TypeLife' /\ TypeClose' /\ TypeEnd'
    BY <1>3, <2>1 DEF ReadOther, Read, TypeOK, TypeCallers, TypeLife, TypeClose, TypeEnd
  <2>6. TypeCalls' /\ TypeWriter'
    BY <1>3, <2>1 DEF ReadOther, Read, TypeOK, TypeCalls, TypeWriter
  <2>7. TypeModule'
    BY <1>3, <2>1, <2>2 DEF ReadOther, Read, TypeOK, TypeModule
  <2>8. TypeFlags'
    BY <1>3, <2>1 DEF ReadOther, Read, TypeOK, TypeFlags
  <2> QED
    BY <2>5, <2>6, <2>7, <2>8 DEF TypeOK
<1>4. ASSUME ReadError PROVE TypeOK'
  <2>1. PICK event \in ReaderMsg : Read(event)
    <3>1. \A reason \in {"line_too_large", "protocol_decode"} :
            Msg("inbound_error", NoId, reason) \in ReaderMsg
      BY DEF Msg, ReaderMsg
    <3> QED
      BY <1>4, <3>1 DEF ReadError
  <2>2. readerQ' \in Seq(ReaderMsg) /\ emits' \in Nat
    BY <1>1, <2>1
  <2>5. TypeCallers' /\ TypeLife' /\ TypeClose' /\ TypeEnd'
    BY <1>4, <2>1 DEF ReadError, Read, TypeOK, TypeCallers, TypeLife, TypeClose, TypeEnd
  <2>6. TypeCalls' /\ TypeWriter'
    BY <1>4, <2>1 DEF ReadError, Read, TypeOK, TypeCalls, TypeWriter
  <2>7. TypeModule'
    BY <1>4, <2>1, <2>2 DEF ReadError, Read, TypeOK, TypeModule
  <2>8. TypeFlags'
    BY <1>4, <2>1 DEF ReadError, Read, TypeOK, TypeFlags
  <2> QED
    BY <2>5, <2>6, <2>7, <2>8 DEF TypeOK
<1>5. ASSUME ReadEof PROVE TypeOK'
  <2>1. Msg("eof", NoId, "") \in ReaderMsg
    BY DEF Msg, ReaderMsg
  <2>2. readerQ' \in Seq(ReaderMsg)
    BY <1>5, <2>1, AppendType DEF ReadEof, TypeOK, TypeModule
  <2>5. TypeCallers' /\ TypeLife' /\ TypeClose' /\ TypeEnd'
    BY <1>5 DEF ReadEof, TypeOK, TypeCallers, TypeLife, TypeClose, TypeEnd
  <2>6. TypeCalls' /\ TypeWriter'
    BY <1>5 DEF ReadEof, TypeOK, TypeCalls, TypeWriter
  <2>7. TypeModule'
    BY <1>5, <2>2 DEF ReadEof, TypeOK, TypeModule
  <2>8. TypeFlags'
    BY <1>5 DEF ReadEof, TypeOK, TypeFlags
  <2> QED
    BY <2>5, <2>6, <2>7, <2>8 DEF TypeOK
<1>6. ASSUME ChildExit PROVE TypeOK'
  <2>5. TypeCallers' /\ TypeLife' /\ TypeClose' /\ TypeEnd'
    BY <1>6 DEF ChildExit, TypeOK, TypeCallers, TypeLife, TypeClose, TypeEnd
  <2>6. TypeCalls' /\ TypeWriter'
    BY <1>6 DEF ChildExit, TypeOK, TypeCalls, TypeWriter
  <2>7. TypeModule'
    BY <1>6 DEF ChildExit, TypeOK, TypeModule
  <2>8. TypeFlags'
    BY <1>6 DEF ChildExit, TypeOK, TypeFlags
  <2> QED
    BY <2>5, <2>6, <2>7, <2>8 DEF TypeOK
<1> QED
  BY <1>2, <1>3, <1>4, <1>5, <1>6 DEF ModuleNext

\* Every step, or stutter, keeps the types.
LEMMA NextTypeOK == ASSUME TypeOK, [Next]_vars PROVE TypeOK'
<1>1. CASE UNCHANGED vars
  <2> USE DEF vars, callerVars, lifeVars, callVars, closeVars, openVars, writerVars,
              moduleVars, endVars, handleVars
  <2>1. TypeCallers' /\ TypeLife' /\ TypeCalls' /\ TypeClose'
    BY <1>1 DEF TypeOK, TypeCallers, TypeLife, TypeCalls, TypeClose
  <2>2. TypeWriter' /\ TypeModule' /\ TypeEnd'
    BY <1>1 DEF TypeOK, TypeWriter, TypeModule, TypeEnd
  <2>3. TypeFlags'
    BY <1>1 DEF TypeOK, TypeFlags
  <2> QED
    BY <2>1, <2>2, <2>3 DEF TypeOK
<1>2. CASE SupervisorNext
  BY <1>2, ControlTypeOK, ReaderTypeOK, RpcTypeOK, EndTypeOK DEF SupervisorNext
<1> QED
  BY <1>1, <1>2, CallerTypeOK, TaskTypeOK, ModuleTypeOK DEF Next

\* Every variable of the supervisor keeps its type for any number of requests,
\* calls, stoppers and handles and any queue sizes: in particular the host-call
\* counter stays a usize although it is decremented more often than incremented.
THEOREM TypeCorrect == Spec => []TypeOK
  BY InitTypeOK, NextTypeOK, PTL DEF Spec

-----------------------------------------------------------------------------
(* The shutdown barrier.  ShutdownBarrier speaks of inbox \o writerQ and is *)
(* not inductive: it must be known that a shutdown frame implies closing    *)
(* and that nothing is queued once the frame is written.                    *)

NoShutdown(q) == \A i \in DOMAIN q : q[i].t # "shutdown"
ShutdownLast(q) == \A i \in DOMAIN q : q[i].t = "shutdown" => i = Len(q)

BarrierInv ==
  /\ ShutdownLast(writerQ) /\ ShutdownLast(inbox)
  /\ NoShutdown(inbox) \/ writerQ = <<>>
  /\ closing \/ (NoShutdown(writerQ) /\ NoShutdown(inbox))

\* Queues without a shutdown frame, the empty one among them.
LEMMA NoShutdownFacts ==
  /\ NoShutdown(<<>>) /\ ShutdownLast(<<>>)
  /\ \A q : NoShutdown(q) => ShutdownLast(q)
<1>1. DOMAIN <<>> = {}
  OBVIOUS
<1> QED
  BY <1>1 DEF NoShutdown, ShutdownLast

\* Appending to a queue without a shutdown frame.
LEMMA AppendShutdown ==
  ASSUME NEW q \in Seq(WriterMsg), NEW f \in WriterMsg, NoShutdown(q)
  PROVE  /\ ShutdownLast(Append(q, f))
         /\ f.t # "shutdown" => NoShutdown(Append(q, f))
<1>1. /\ Len(q) \in Nat /\ DOMAIN q = 1 .. Len(q)
      /\ Len(Append(q, f)) = Len(q) + 1
      /\ DOMAIN Append(q, f) = 1 .. (Len(q) + 1)
  OBVIOUS
<1>2. \A i \in 1 .. Len(q) : Append(q, f)[i] = q[i]
  BY <1>1
<1>3. Append(q, f)[Len(q) + 1] = f
  BY <1>1
<1>4. \A i \in DOMAIN Append(q, f) : i \in 1 .. Len(q) \/ i = Len(q) + 1
  BY <1>1
<1>5. \A i \in 1 .. Len(q) : q[i].t # "shutdown"
  BY <1>1 DEF NoShutdown
<1> QED
  BY <1>1, <1>2, <1>3, <1>4, <1>5 DEF NoShutdown, ShutdownLast

\* Taking the first frame from a queue.
LEMMA TailShutdown ==
  ASSUME NEW q \in Seq(WriterMsg), q # <<>>, ShutdownLast(q)
  PROVE  /\ Head(q) \in WriterMsg /\ ShutdownLast(Tail(q))
         /\ Head(q).t = "shutdown" => Tail(q) = <<>>
         /\ NoShutdown(q) => NoShutdown(Tail(q)) /\ Head(q).t # "shutdown"
<1>1. /\ Len(q) \in Nat /\ Len(q) >= 1 /\ DOMAIN q = 1 .. Len(q)
      /\ Tail(q) \in Seq(WriterMsg) /\ Head(q) = q[1] /\ Head(q) \in WriterMsg
      /\ Len(Tail(q)) = Len(q) - 1 /\ DOMAIN Tail(q) = 1 .. (Len(q) - 1)
  OBVIOUS
<1>2. \A i \in 1 .. (Len(q) - 1) : Tail(q)[i] = q[i + 1] /\ i + 1 \in DOMAIN q
  BY <1>1
<1>3. ShutdownLast(Tail(q))
  <2> SUFFICES ASSUME NEW i \in 1 .. (Len(q) - 1), Tail(q)[i].t = "shutdown"
               PROVE  i = Len(q) - 1
    BY <1>1 DEF ShutdownLast
  <2>1. i + 1 \in DOMAIN q /\ q[i + 1].t = "shutdown"
    BY <1>2
  <2>2. i + 1 = Len(q)
    BY <2>1 DEF ShutdownLast
  <2>3. i \in Int /\ Len(q) \in Int
    BY <1>1
  <2> QED
    BY <2>2, <2>3
<1>4. Head(q).t = "shutdown" => Tail(q) = <<>>
  <2>1. 1 \in DOMAIN q
    BY <1>1
  <2>2. Head(q).t = "shutdown" => Len(q) = 1
    BY <1>1, <2>1 DEF ShutdownLast
  <2> QED
    BY <1>1, <2>2
<1>5. NoShutdown(q) => NoShutdown(Tail(q)) /\ Head(q).t # "shutdown"
  <2>1. 1 \in DOMAIN q
    BY <1>1
  <2> QED
    BY <1>1, <1>2, <2>1 DEF NoShutdown
<1> QED
  BY <1>1, <1>3, <1>4, <1>5

\* The only ways a step may touch the writer's queue and the module's stdin.
Quiet == writerQ' = writerQ /\ inbox' = inbox /\ (closing => closing')

QueueFrame ==
  /\ ~closing /\ inbox' = inbox
  /\ \E f \in WriterMsg : f.t # "shutdown" /\ writerQ' = Append(writerQ, f)

QueueShutdown ==
  /\ ~closing /\ closing' /\ inbox' = inbox
  /\ \E f \in WriterMsg : writerQ' = Append(writerQ, f)

TakeFrame ==
  /\ writerQ # <<>> /\ writerQ' = Tail(writerQ) /\ (closing => closing')
  /\ inbox' = inbox \/ inbox' = Append(inbox, Head(writerQ))

DropQueue == writerQ' = <<>> /\ inbox' = inbox /\ (closing => closing')

WriterStep == Quiet \/ QueueFrame \/ QueueShutdown \/ TakeFrame \/ DropQueue

\* Each of these ways keeps the shutdown frame last.
LEMMA WriterStepBarrier ==
  ASSUME TypeOK, BarrierInv, WriterStep
  PROVE  BarrierInv'
<1>0. writerQ \in Seq(WriterMsg) /\ inbox \in Seq(WriterMsg)
  BY DEF TypeOK, TypeWriter
<1> USE DEF BarrierInv
<1>1. CASE Quiet
  BY <1>1 DEF Quiet, ShutdownLast, NoShutdown
<1>2. CASE QueueFrame
  <2>1. PICK f \in WriterMsg : f.t # "shutdown" /\ writerQ' = Append(writerQ, f)
    BY <1>2 DEF QueueFrame
  <2>2. NoShutdown(writerQ) /\ NoShutdown(inbox) /\ inbox' = inbox
    BY <1>2 DEF QueueFrame
  <2>3. ShutdownLast(Append(writerQ, f)) /\ NoShutdown(Append(writerQ, f))
    BY <1>0, <2>1, <2>2, AppendShutdown
  <2>4. ShutdownLast(writerQ)' /\ NoShutdown(writerQ)'
    BY <2>1, <2>3 DEF ShutdownLast, NoShutdown
  <2>5. ShutdownLast(inbox)' /\ NoShutdown(inbox)'
    BY <2>2 DEF ShutdownLast, NoShutdown
  <2> QED
    BY <2>4, <2>5
<1>3. CASE QueueShutdown
  <2>1. PICK f \in WriterMsg : writerQ' = Append(writerQ, f)
    BY <1>3 DEF QueueShutdown
  <2>2. NoShutdown(writerQ) /\ NoShutdown(inbox) /\ inbox' = inbox /\ closing'
    BY <1>3 DEF QueueShutdown
  <2>3. ShutdownLast(Append(writerQ, f))
    BY <1>0, <2>1, <2>2, AppendShutdown
  <2>4. ShutdownLast(writerQ)'
    BY <2>1, <2>3 DEF ShutdownLast
  <2>5. ShutdownLast(inbox)' /\ NoShutdown(inbox)'
    BY <2>2 DEF ShutdownLast, NoShutdown
  <2> QED
    BY <2>2, <2>4, <2>5
<1>4. CASE TakeFrame
  <2>1. writerQ # <<>> /\ writerQ' = Tail(writerQ) /\ (closing => closing')
    BY <1>4 DEF TakeFrame
  <2>2. NoShutdown(inbox)
    BY <2>1
  <2>3. /\ Head(writerQ) \in WriterMsg /\ ShutdownLast(Tail(writerQ))
        /\ Head(writerQ).t = "shutdown" => Tail(writerQ) = <<>>
        /\ NoShutdown(writerQ) => NoShutdown(Tail(writerQ)) /\ Head(writerQ).t # "shutdown"
    BY <1>0, <2>1, TailShutdown
  <2>4. /\ ShutdownLast(writerQ)'
        /\ NoShutdown(writerQ) => NoShutdown(writerQ)'
    BY <2>1, <2>3 DEF ShutdownLast, NoShutdown
  <2>5. CASE inbox' = inbox
    <3>1. ShutdownLast(inbox)' /\ NoShutdown(inbox)'
      BY <2>2, <2>5 DEF ShutdownLast, NoShutdown
    <3> QED
      BY <2>1, <2>4, <3>1
  <2>6. CASE inbox' = Append(inbox, Head(writerQ))
    <3>1. /\ ShutdownLast(Append(inbox, Head(writerQ)))
          /\ Head(writerQ).t # "shutdown" => NoShutdown(Append(inbox, Head(writerQ)))
      BY <1>0, <2>2, <2>3, AppendShutdown
    <3>2. /\ ShutdownLast(inbox)'
          /\ Head(writerQ).t # "shutdown" => NoShutdown(inbox)'
      BY <2>6, <3>1 DEF ShutdownLast, NoShutdown
    <3>3. NoShutdown(inbox)' \/ writerQ' = <<>>
      BY <2>1, <2>3, <3>2
    <3>4. closing' \/ (NoShutdown(writerQ)' /\ NoShutdown(inbox)')
      BY <2>1, <2>3, <2>4, <3>2
    <3> QED
      BY <2>4, <3>2, <3>3, <3>4
  <2> QED
    BY <1>4, <2>5, <2>6 DEF TakeFrame
<1>5. CASE DropQueue
  <2>1. writerQ' = <<>> /\ inbox' = inbox /\ (closing => closing')
    BY <1>5 DEF DropQueue
  <2>2. NoShutdown(writerQ)' /\ ShutdownLast(writerQ)'
    BY <2>1, NoShutdownFacts DEF ShutdownLast, NoShutdown
  <2>3. /\ ShutdownLast(inbox)'
        /\ NoShutdown(inbox) => NoShutdown(inbox)'
    BY <2>1 DEF ShutdownLast, NoShutdown
  <2> QED
    BY <2>1, <2>2, <2>3
<1> QED
  BY <1>1, <1>2, <1>3, <1>4, <1>5 DEF WriterStep


\* What a step does to the requests: it keeps them or it drops them all.
DrainStep ==
  \/ inFlight' = inFlight /\ waiting' = waiting
  \/ inFlight' = NoId /\ waiting' = <<>>

\* What every step must satisfy: Kept.
Kept == WriterStep /\ ClosingDrainsRequests'

\* A step that leaves the writer alone is kept.
LEMMA QuietKept ==
  ASSUME ClosingDrainsRequests, DrainStep,
         writerQ' = writerQ, inbox' = inbox, closing' = closing
  PROVE  Kept
  BY DEF Kept, WriterStep, Quiet, DrainStep, ClosingDrainsRequests

\* Every break drains the requests, or leaves them as they were.
LEMMA BreakDrains ==
  /\ \A rep, rs, reason : Fatal(rep, rs, reason) => DrainStep
  /\ \A reason : FatalHere(reason) => DrainStep
  /\ CleanBreak => DrainStep
  /\ FinishShutdown => DrainStep
  /\ UNCHANGED lifecycleAndEnd => DrainStep
  BY DEF Fatal, FatalHere, CleanBreak, FailLifecycle, FinishShutdown, lifecycleAndEnd,
         DrainStep

\* A result is queued only while not closing.
LEMMA QueueResultKept ==
  ASSUME ClosingDrainsRequests, ~closing, NEW frame \in WriterMsg, frame.t # "shutdown",
         QueueResult(frame), inbox' = inbox, closing' = closing
  PROVE  Kept
<1>1. ~closing'
  OBVIOUS
<1>2. CASE CanQueue
  <2>1. QueueFrame
    BY <1>2 DEF QueueFrame, QueueResult
  <2> QED
    BY <1>1, <2>1 DEF Kept, WriterStep, ClosingDrainsRequests
<1>3. CASE ~CanQueue
  <2>1. writerQ' = writerQ /\ DrainStep
    BY <1>3, BreakDrains DEF QueueResult
  <2> QED
    BY <2>1, QuietKept
<1> QED
  BY <1>2, <1>3

\* A request is dispatched only while not closing.
LEMMA DispatchKept ==
  ASSUME ClosingDrainsRequests, ~closing, NEW r \in Requests, NEW rep, NEW rest,
         DispatchLifecycle(r, rep, rest), inbox' = inbox, closing' = closing
  PROVE  Kept
<1>0. ReqId[r] \in Ids
  BY ConstantsAssumption DEF ConstantsAssumption
<1>1. ~closing'
  OBVIOUS
<1>2. CASE CanQueue
  <2>1. /\ Msg("lifecycle", ReqId[r], "") \in WriterMsg
        /\ Msg("lifecycle", ReqId[r], "").t # "shutdown"
    BY <1>0 DEF Msg, WriterMsg
  <2>2. QueueFrame
    BY <1>2, <2>1 DEF QueueFrame, DispatchLifecycle
  <2> QED
    BY <1>1, <2>2 DEF Kept, WriterStep, ClosingDrainsRequests
<1>3. CASE ~CanQueue
  <2>1. writerQ' = writerQ /\ DrainStep
    BY <1>3, BreakDrains DEF DispatchLifecycle
  <2> QED
    BY <2>1, QuietKept
<1> QED
  BY <1>2, <1>3

\* start_shutdown sets closing, drains the requests and queues the frame last.
LEMMA StartShutdownKept ==
  ASSUME ClosingDrainsRequests, ~closing, NEW s, StartShutdown(s), inbox' = inbox
  PROVE  Kept
<1>1. closing' /\ inFlight' = NoId /\ waiting' = <<>>
  BY DEF StartShutdown, FailLifecycle, Fatal
<1>2. QueueShutdown \/ Quiet
  <2>1. Msg("shutdown", NoId, "") \in WriterMsg
    BY DEF Msg, WriterMsg
  <2> QED
    BY <1>1, <2>1 DEF StartShutdown, QueueShutdown, Quiet
<1> QED
  BY <1>1, <1>2 DEF Kept, WriterStep, ClosingDrainsRequests

\* The callers never touch the writer.
LEMMA CallerKept ==
  ASSUME TypeOK, ClosingDrainsRequests, CallerNext
  PROVE  Kept
<1> USE DEF armFrame, callerVars, lifeVars, callVars, closeVars, openVars, writerVars,
            moduleVars, endVars, handleVars
<1>1. ASSUME CallerNext PROVE Kept
  <2>1. writerQ' = writerQ /\ inbox' = inbox /\ closing' = closing
    BY <1>1 DEF CallerNext, Submit, SubmitClosed, Abandon, StopBegin, StopForce,
        DropSenders, RegisterHandle, ReleaseLoad, ReleaseApply
  <2>2. DrainStep
    BY <1>1, BreakDrains DEF CallerNext, Submit, SubmitClosed, Abandon, StopBegin, StopForce,
        DropSenders, RegisterHandle, ReleaseLoad, ReleaseApply, DrainStep, lifecycleAndEnd
  <2> QED
    BY <2>1, <2>2, QuietKept
<1> QED
  BY <1>1

\* Nor does the child.
LEMMA ModuleKept ==
  ASSUME TypeOK, ClosingDrainsRequests, ModuleNext
  PROVE  Kept
<1> USE DEF armFrame, callerVars, lifeVars, callVars, closeVars, openVars, writerVars,
            moduleVars, endVars, handleVars
<1>1. ASSUME ModuleNext PROVE Kept
  <2>1. writerQ' = writerQ /\ inbox' = inbox /\ closing' = closing
    BY <1>1 DEF ModuleNext, ReadTerminal, ReadOther, ReadError, ReadEof, ChildExit, Read
  <2>2. DrainStep
    BY <1>1, BreakDrains DEF ModuleNext, ReadTerminal, ReadOther, ReadError, ReadEof, ChildExit, Read, DrainStep, lifecycleAndEnd
  <2> QED
    BY <2>1, <2>2, QuietKept
<1> QED
  BY <1>1

\* The control arm keeps the barrier ...
LEMMA ControlKept ==
  ASSUME TypeOK, ClosingDrainsRequests, ControlArm
  PROVE  Kept
<1> USE DEF armFrame, callerVars, lifeVars, callVars, closeVars, openVars, writerVars,
            moduleVars, endVars, handleVars
<1>1. ASSUME HandleRequest PROVE Kept
  <2>0. Head(control).x \in Requests
    BY <1>1, HeadTailType DEF HandleRequest, TypeOK, TypeCallers, ControlMsg
  <2> DEFINE r == Head(control).x
  <2>1. inbox' = inbox /\ closing' = closing
    BY <1>1 DEF HandleRequest
  <2>2. CASE Refusal(r) # NoId
    <3>1. writerQ' = writerQ /\ DrainStep
      BY <1>1, <2>2 DEF HandleRequest, DrainStep
    <3> QED
      BY <2>1, <3>1, QuietKept
  <2>3. CASE Refusal(r) = NoId
    <3>1. ~closing
      <4>1. closing => Refusal(r) = "unavailable"
        BY DEF Refusal
      <4> QED
        BY <2>3, <4>1, SentinelAssumption, Reasons DEF SentinelAssumption
    <3>2. CASE MustWait
      <4>1. writerQ' = writerQ
        BY <1>1, <2>3, <3>2 DEF HandleRequest
      <4> QED
        BY <2>1, <3>1, <4>1 DEF Kept, WriterStep, Quiet, ClosingDrainsRequests
    <3>3. CASE ~MustWait
      <4>1. DispatchLifecycle(r, reply, waiting)
        BY <1>1, <2>3, <3>3 DEF HandleRequest
      <4> QED
        BY <2>0, <2>1, <3>1, <4>1, DispatchKept
    <3> QED
      BY <3>2, <3>3
  <2> QED
    BY <2>2, <2>3
<1>2. ASSUME HandleShutdown PROVE Kept
  <2>1. inbox' = inbox
    BY <1>2 DEF HandleShutdown
  <2>2. CASE ~closing
    <3>1. StartShutdown(Head(control).x)
      BY <1>2, <2>2 DEF HandleShutdown
    <3> QED
      BY <2>1, <2>2, <3>1, StartShutdownKept
  <2>3. CASE closing
    <3>1. writerQ' = writerQ /\ closing' = closing /\ DrainStep
      BY <1>2, <2>3 DEF HandleShutdown, DrainStep
    <3> QED
      BY <2>1, <3>1, QuietKept
  <2> QED
    BY <2>2, <2>3
<1>3. ASSUME HandleControlClosed PROVE Kept
  <2>1. inbox' = inbox
    BY <1>3 DEF HandleControlClosed
  <2>2. CASE ~closing
    <3>1. StartShutdown(NoId)
      BY <1>3, <2>2 DEF HandleControlClosed
    <3> QED
      BY <2>1, <2>2, <3>1, StartShutdownKept
  <2>3. CASE closing
    <3>1. writerQ' = writerQ /\ closing' = closing /\ DrainStep
      BY <1>3, <2>3 DEF HandleControlClosed, DrainStep
    <3> QED
      BY <2>1, <3>1, QuietKept
  <2> QED
    BY <2>2, <2>3
<1>4. ASSUME HandleForce PROVE Kept
  <2>1. writerQ' = writerQ /\ inbox' = inbox /\ closing' = closing
    BY <1>4 DEF HandleForce
  <2>2. DrainStep
    BY <1>4, BreakDrains DEF HandleForce, DrainStep, lifecycleAndEnd
  <2> QED
    BY <2>1, <2>2, QuietKept
<1> QED
  BY <1>1, <1>2, <1>3, <1>4 DEF ControlArm

\* ... so do the reader arm, which drops module work while closing, ...
LEMMA ReaderKept ==
  ASSUME TypeOK, ClosingDrainsRequests, ReaderArm
  PROVE  Kept
<1> USE DEF armFrame, callerVars, lifeVars, callVars, closeVars, openVars, writerVars,
            moduleVars, endVars, handleVars
<1>1. ASSUME HandleTelegramInvoke PROVE Kept
  <2>0. Head(readerQ).x \in Calls
    <3>1. Head(readerQ) \in ReaderMsg
      BY <1>1, HeadTailType DEF HandleTelegramInvoke, ReaderReady, TypeOK, TypeModule
    <3> QED
      BY <1>1, <3>1 DEF HandleTelegramInvoke, ReaderReady, ReaderMsg
  <2> DEFINE c == Head(readerQ).x
  <2>1. inbox' = inbox /\ closing' = closing
    BY <1>1 DEF HandleTelegramInvoke
  <2>2. \A m \in {"capacity", "denied"} :
          /\ Msg("telegram_result", c, m) \in WriterMsg
          /\ Msg("telegram_result", c, m).t # "shutdown"
    BY <2>0 DEF Msg, WriterMsg
  <2>3. CASE closing \/ c \in activeCalls
    <3>1. writerQ' = writerQ /\ DrainStep
      BY <1>1, <2>3, BreakDrains DEF HandleTelegramInvoke
    <3> QED
      BY <2>1, <3>1, QuietKept
  <2>4. CASE ~closing /\ c \notin activeCalls
    <3>1. \/ QueueResult(Msg("telegram_result", c, "capacity"))
          \/ QueueResult(Msg("telegram_result", c, "denied"))
          \/ UNCHANGED lifecycleAndEnd /\ writerQ' = writerQ
      BY <1>1, <2>4 DEF HandleTelegramInvoke
    <3>2. CASE QueueResult(Msg("telegram_result", c, "capacity"))
      BY <2>1, <2>2, <2>4, <3>2, QueueResultKept
    <3>3. CASE QueueResult(Msg("telegram_result", c, "denied"))
      BY <2>1, <2>2, <2>4, <3>3, QueueResultKept
    <3>4. CASE UNCHANGED lifecycleAndEnd /\ writerQ' = writerQ
      BY <2>1, <3>4, BreakDrains, QuietKept
    <3> QED
      BY <3>1, <3>2, <3>3, <3>4
  <2> QED
    BY <2>3, <2>4
<1>2. ASSUME HandleTerminal PROVE Kept
  <2>1. inbox' = inbox /\ closing' = closing
    BY <1>2 DEF HandleTerminal
  <2> DEFINE rep == Answer(reply, {inFlight}, "ok")
  <2>2. CASE DispatchLifecycle(Head(waiting), rep, Tail(waiting)) /\ waiting # <<>>
    <3>1. ~closing
      BY <2>2 DEF ClosingDrainsRequests
    <3>2. Head(waiting) \in Requests
      BY <2>2, HeadTailType DEF TypeOK, TypeLife
    <3> QED
      BY <2>1, <2>2, <3>1, <3>2, DispatchKept
  <2>3. CASE writerQ' = writerQ /\ DrainStep
    BY <2>1, <2>3, QuietKept
  <2>4. CASE inFlight' = NoId /\ waiting' = waiting /\ writerQ' = writerQ
    BY <2>1, <2>4 DEF Kept, WriterStep, Quiet, ClosingDrainsRequests
  <2> QED
    BY <1>2, <2>2, <2>3, <2>4, BreakDrains DEF HandleTerminal
<1>3. ASSUME HandleHostInvoke PROVE Kept
  <2>1. writerQ' = writerQ /\ inbox' = inbox /\ closing' = closing
    BY <1>3 DEF HandleHostInvoke
  <2>2. DrainStep
    BY <1>3, BreakDrains DEF HandleHostInvoke, DrainStep, lifecycleAndEnd
  <2> QED
    BY <2>1, <2>2, QuietKept
<1>4. ASSUME HandleLog PROVE Kept
  <2>1. writerQ' = writerQ /\ inbox' = inbox /\ closing' = closing
    BY <1>4 DEF HandleLog
  <2>2. DrainStep
    BY <1>4, BreakDrains DEF HandleLog, DrainStep, lifecycleAndEnd
  <2> QED
    BY <2>1, <2>2, QuietKept
<1>5. ASSUME HandleInboundError PROVE Kept
  <2>1. writerQ' = writerQ /\ inbox' = inbox /\ closing' = closing
    BY <1>5 DEF HandleInboundError
  <2>2. DrainStep
    BY <1>5, BreakDrains DEF HandleInboundError, DrainStep, lifecycleAndEnd
  <2> QED
    BY <2>1, <2>2, QuietKept
<1>6. ASSUME HandleEof PROVE Kept
  <2>1. writerQ' = writerQ /\ inbox' = inbox /\ closing' = closing
    BY <1>6 DEF HandleEof
  <2>2. DrainStep
    BY <1>6, BreakDrains DEF HandleEof, DrainStep, lifecycleAndEnd
  <2> QED
    BY <2>1, <2>2, QuietKept
<1> QED
  BY <1>1, <1>2, <1>3, <1>4, <1>5, <1>6 DEF ReaderArm

\* ... the arm of completions, which discards results while closing, ...
LEMMA RpcKept ==
  ASSUME TypeOK, ClosingDrainsRequests, RpcArm
  PROVE  Kept
<1> USE DEF armFrame, callerVars, lifeVars, callVars, closeVars, openVars, writerVars,
            moduleVars, endVars, handleVars
<1>1. ASSUME HandleRpcComplete PROVE Kept
  <2>0. Head(rpcQ).x \in Calls
    <3>1. Head(rpcQ) \in ActorMsg
      BY <1>1, HeadTailType DEF HandleRpcComplete, RpcReady, TypeOK, TypeWriter
    <3> QED
      BY <1>1, <3>1 DEF HandleRpcComplete, RpcReady, ActorMsg
  <2>1. inbox' = inbox /\ closing' = closing
    BY <1>1 DEF HandleRpcComplete
  <2>2. /\ Msg("telegram_result", Head(rpcQ).x, "done") \in WriterMsg
        /\ Msg("telegram_result", Head(rpcQ).x, "done").t # "shutdown"
    BY <2>0 DEF Msg, WriterMsg
  <2>3. CASE closing
    <3>1. writerQ' = writerQ /\ DrainStep
      BY <1>1, <2>3, BreakDrains DEF HandleRpcComplete, DiscardCompletion
    <3> QED
      BY <2>1, <3>1, QuietKept
  <2>4. CASE ~closing
    <3>1. QueueResult(Msg("telegram_result", Head(rpcQ).x, "done"))
      BY <1>1, <2>4 DEF HandleRpcComplete, DiscardCompletion
    <3> QED
      BY <2>1, <2>2, <2>4, <3>1, QueueResultKept
  <2> QED
    BY <2>3, <2>4
<1>2. ASSUME HandleHostComplete PROVE Kept
  <2>0. Head(rpcQ).x \in Calls
    <3>1. Head(rpcQ) \in ActorMsg
      BY <1>2, HeadTailType DEF HandleHostComplete, RpcReady, TypeOK, TypeWriter
    <3> QED
      BY <1>2, <3>1 DEF HandleHostComplete, RpcReady, ActorMsg
  <2>1. inbox' = inbox /\ closing' = closing
    BY <1>2 DEF HandleHostComplete
  <2>2. /\ Msg("host_result", Head(rpcQ).x, "done") \in WriterMsg
        /\ Msg("host_result", Head(rpcQ).x, "done").t # "shutdown"
    BY <2>0 DEF Msg, WriterMsg
  <2>3. CASE closing
    <3>1. writerQ' = writerQ /\ DrainStep
      BY <1>2, <2>3, BreakDrains DEF HandleHostComplete, DiscardCompletion
    <3> QED
      BY <2>1, <3>1, QuietKept
  <2>4. CASE ~closing
    <3>1. QueueResult(Msg("host_result", Head(rpcQ).x, "done"))
      BY <1>2, <2>4 DEF HandleHostComplete, DiscardCompletion
    <3> QED
      BY <2>1, <2>2, <2>4, <3>1, QueueResultKept
  <2> QED
    BY <2>3, <2>4
<1>3. ASSUME HandleFlushed PROVE Kept
  <2>1. writerQ' = writerQ /\ inbox' = inbox /\ closing' = closing
    BY <1>3 DEF HandleFlushed
  <2>2. DrainStep
    BY <1>3, BreakDrains DEF HandleFlushed, DrainStep, lifecycleAndEnd
  <2> QED
    BY <2>1, <2>2, QuietKept
<1>4. ASSUME HandleLifecycleFlushed PROVE Kept
  <2>1. writerQ' = writerQ /\ inbox' = inbox /\ closing' = closing
    BY <1>4 DEF HandleLifecycleFlushed
  <2>2. DrainStep
    BY <1>4, BreakDrains DEF HandleLifecycleFlushed, DrainStep, lifecycleAndEnd
  <2> QED
    BY <2>1, <2>2, QuietKept
<1>5. ASSUME HandleShutdownFlushed PROVE Kept
  <2>1. writerQ' = writerQ /\ inbox' = inbox /\ closing' = closing
    BY <1>5 DEF HandleShutdownFlushed
  <2>2. DrainStep
    BY <1>5, BreakDrains DEF HandleShutdownFlushed, DrainStep, lifecycleAndEnd
  <2> QED
    BY <2>1, <2>2, QuietKept
<1>6. ASSUME HandleWriterFailed PROVE Kept
  <2>1. writerQ' = writerQ /\ inbox' = inbox /\ closing' = closing
    BY <1>6 DEF HandleWriterFailed
  <2>2. DrainStep
    BY <1>6, BreakDrains DEF HandleWriterFailed, DrainStep, lifecycleAndEnd
  <2> QED
    BY <2>1, <2>2, QuietKept
<1> QED
  BY <1>1, <1>2, <1>3, <1>4, <1>5, <1>6 DEF RpcArm

\* ... the exit arm, the deadlines, the teardown and the other tasks ...
LEMMA OwnTaskKept ==
  ASSUME TypeOK, ClosingDrainsRequests, ObserveExit \/ ShutdownDeadline \/ LifecycleDeadline \/ Kill \/ Finish \/ TaskNext
  PROVE  Kept
<1> USE DEF armFrame, callerVars, lifeVars, callVars, closeVars, openVars, writerVars,
            moduleVars, endVars, handleVars
<1>1. ASSUME ObserveExit PROVE Kept
  <2>1. writerQ' = writerQ /\ inbox' = inbox /\ closing' = closing
    BY <1>1 DEF ObserveExit
  <2>2. DrainStep
    BY <1>1, BreakDrains DEF ObserveExit, DrainStep, lifecycleAndEnd
  <2> QED
    BY <2>1, <2>2, QuietKept
<1>2. ASSUME ShutdownDeadline PROVE Kept
  <2>1. writerQ' = writerQ /\ inbox' = inbox /\ closing' = closing
    BY <1>2 DEF ShutdownDeadline
  <2>2. DrainStep
    BY <1>2, BreakDrains DEF ShutdownDeadline, DrainStep, lifecycleAndEnd
  <2> QED
    BY <2>1, <2>2, QuietKept
<1>3. ASSUME LifecycleDeadline PROVE Kept
  <2>1. writerQ' = writerQ /\ inbox' = inbox /\ closing' = closing
    BY <1>3 DEF LifecycleDeadline
  <2>2. DrainStep
    BY <1>3, BreakDrains DEF LifecycleDeadline, DrainStep, lifecycleAndEnd
  <2> QED
    BY <2>1, <2>2, QuietKept
<1>4. ASSUME Finish PROVE Kept
  <2>1. writerQ' = writerQ /\ inbox' = inbox /\ closing' = closing
    BY <1>4 DEF Finish
  <2>2. DrainStep
    BY <1>4, BreakDrains DEF Finish, DrainStep, lifecycleAndEnd
  <2> QED
    BY <2>1, <2>2, QuietKept
<1>5. ASSUME Kill PROVE Kept
  BY <1>5 DEF Kill, Kept, WriterStep, DropQueue, ClosingDrainsRequests
<1>6. ASSUME WriterWrite \/ WriterFail PROVE Kept
  <2>1. TakeFrame
    <3>1. writerQ # <<>> /\ writerQ' = Tail(writerQ)
      BY <1>6 DEF WriterWrite, WriterFail, WriterIdle
    <3>2. closing => closing'
      BY <1>6 DEF WriterWrite, WriterFail
    <3>3. inbox' = inbox \/ inbox' = Append(inbox, Head(writerQ))
      BY <1>6 DEF WriterWrite, WriterFail
    <3> QED
      BY <3>1, <3>2, <3>3 DEF TakeFrame
  <2>2. ClosingDrainsRequests'
    BY <1>6 DEF WriterWrite, WriterFail, ClosingDrainsRequests
  <2> QED
    BY <2>1, <2>2 DEF Kept, WriterStep
<1>7. ASSUME WriterAck PROVE Kept
  BY <1>7 DEF WriterAck, Kept, WriterStep, DropQueue, Quiet, ClosingDrainsRequests
<1>8. ASSUME NEW c \in Calls, WorkerComplete(c) \/ WorkerAbort(c) PROVE Kept
  <2>1. writerQ' = writerQ /\ inbox' = inbox /\ closing' = closing
    BY <1>8 DEF WorkerComplete, WorkerAbort
  <2>2. DrainStep
    BY <1>8, BreakDrains DEF WorkerComplete, WorkerAbort, DrainStep, lifecycleAndEnd
  <2> QED
    BY <2>1, <2>2, QuietKept
<1> QED
  BY <1>1, <1>2, <1>3, <1>4, <1>5, <1>6, <1>7, <1>8 DEF TaskNext

\* ... and hence every step.
LEMMA NextKept ==
  ASSUME TypeOK, ClosingDrainsRequests, [Next]_vars
  PROVE  Kept
<1>1. CASE UNCHANGED vars
  <2>1. writerQ' = writerQ /\ inbox' = inbox /\ closing' = closing /\ DrainStep
    BY <1>1 DEF vars, writerVars, closeVars, lifeVars, DrainStep
  <2> QED
    BY <2>1, QuietKept
<1> QED
  BY <1>1, CallerKept, ControlKept, ReaderKept, RpcKept, OwnTaskKept, ModuleKept
  DEF Next, SupervisorNext

\* Once a shutdown has started no request is in flight or waiting: none can be
\* dispatched behind the shutdown frame, none is left without a reply.
THEOREM ClosingDrains == Spec => []ClosingDrainsRequests
<1>1. Init => ClosingDrainsRequests
  BY DEF Init, ClosingDrainsRequests
<1>2. TypeOK /\ ClosingDrainsRequests /\ [Next]_vars => ClosingDrainsRequests'
  BY NextKept DEF Kept
<1> QED
  BY <1>1, <1>2, TypeCorrect, PTL DEF Spec

\* The inductive invariant places the shutdown frame last in inbox \o writerQ.
LEMMA BarrierHolds == ASSUME TypeOK, BarrierInv PROVE ShutdownBarrier
<1>0. writerQ \in Seq(WriterMsg) /\ inbox \in Seq(WriterMsg)
  BY DEF TypeOK, TypeWriter
<1>1. /\ Len(inbox) \in Nat /\ Len(writerQ) \in Nat
      /\ DOMAIN inbox = 1 .. Len(inbox) /\ DOMAIN writerQ = 1 .. Len(writerQ)
  BY <1>0
<1>2. Len(sent) = Len(inbox) + Len(writerQ) /\ DOMAIN sent = 1 .. (Len(inbox) + Len(writerQ))
  BY <1>0 DEF sent
<1>3. ShutdownLast(writerQ) /\ ShutdownLast(inbox) /\ (NoShutdown(inbox) \/ writerQ = <<>>)
  BY DEF BarrierInv
<1> SUFFICES ASSUME NEW i \in DOMAIN sent, sent[i].t = "shutdown"
             PROVE  i = Len(sent)
  BY DEF ShutdownBarrier
<1>4. CASE i <= Len(inbox)
  <2>1. i \in DOMAIN inbox /\ sent[i] = inbox[i]
    BY <1>0, <1>1, <1>2, <1>4 DEF sent
  <2>2. i = Len(inbox) /\ writerQ = <<>>
    BY <1>3, <2>1 DEF ShutdownLast, NoShutdown
  <2> QED
    BY <1>1, <1>2, <2>2
<1>5. CASE i > Len(inbox)
  <2>1. i - Len(inbox) \in DOMAIN writerQ /\ sent[i] = writerQ[i - Len(inbox)]
    BY <1>0, <1>1, <1>2, <1>5 DEF sent
  <2>2. i - Len(inbox) = Len(writerQ)
    BY <1>3, <2>1 DEF ShutdownLast
  <2>3. i \in Int
    BY <1>2
  <2> QED
    BY <1>1, <1>2, <2>2, <2>3
<1>6. i \in Int
  BY <1>1, <1>2
<1> QED
  BY <1>1, <1>4, <1>5, <1>6

\* The frames and the flag agree in every reachable state.
LEMMA BarrierAlways == Spec => []BarrierInv
<1>1. Init => BarrierInv
  BY NoShutdownFacts DEF Init, BarrierInv
<1>2. TypeOK /\ ClosingDrainsRequests /\ BarrierInv /\ [Next]_vars => BarrierInv'
  BY NextKept, WriterStepBarrier DEF Kept
<1> QED
  BY <1>1, <1>2, TypeCorrect, ClosingDrains, PTL DEF Spec

\* The shutdown frame is the last frame the module's stdin is ever given,
\* whatever requests, calls and completions race it.
THEOREM ShutdownIsBarrier == Spec => []ShutdownBarrier
<1>1. TypeOK /\ BarrierInv => ShutdownBarrier
  BY BarrierHolds
<1> QED
  BY <1>1, BarrierAlways, TypeCorrect, PTL

-----------------------------------------------------------------------------
(* The kinds of step.                                                       *)

channels == <<writerQ, inbox, writerOpen, ack, rpcQ, workers, activeCalls, awaitingFlush,
              invoked>>
current == <<inFlight, waiting, deadline>>

\* The events and frames of the call c, and of the lifecycle request id.
Completions(c) == {m \in ActorMsg : m.t \in {"rpc_complete", "host_complete"} /\ m.x = c}
CallEvents(c) ==
  {m \in ActorMsg : m.t \in {"rpc_complete", "host_complete", "call_flushed"} /\ m.x = c}
Results(c) == {m \in WriterMsg : m.t \in {"telegram_result", "host_result"} /\ m.x = c}

\* The terminal frame of the in-flight request is at the head of the reader's queue.
Answering ==
  /\ readerQ # <<>> /\ Head(readerQ).t = "terminal"
  /\ InFlightId(Head(readerQ).x)

StepPass == UNCHANGED <<channels, current>>

StepEnqueue ==
  \E r \in Requests :
    /\ waiting' = Append(waiting, r) /\ ~IdPresent(ReqId[r])
    /\ UNCHANGED <<channels, inFlight, deadline>>

\* dispatch_lifecycle with room in the writer's queue.
Dispatches(r) ==
  /\ writerOpen
  /\ writerQ' = Append(writerQ, Msg("lifecycle", ReqId[r], ""))
  /\ awaitingFlush' = awaitingFlush \cup {ReqId[r]}
  /\ inFlight' = r /\ deadline' = FALSE
  /\ UNCHANGED <<inbox, writerOpen, ack, rpcQ, workers, activeCalls, invoked>>

StepDispatchNew ==
  \E r \in Requests :
    /\ inFlight = NoId /\ ~closing /\ ~IdPresent(ReqId[r])
    /\ Dispatches(r) /\ waiting' = waiting

StepDispatchNext ==
  /\ waiting # <<>> /\ Answering
  /\ Dispatches(Head(waiting)) /\ waiting' = Tail(waiting)

StepEndRequest ==
  /\ Answering
  /\ inFlight' = NoId /\ deadline' = FALSE /\ waiting' = waiting /\ UNCHANGED channels

StepShutdown ==
  /\ closing' /\ writerQ' = Append(writerQ, Msg("shutdown", NoId, ""))
  /\ inFlight' = NoId /\ deadline' = FALSE /\ waiting' = <<>>
  /\ UNCHANGED <<inbox, writerOpen, ack, rpcQ, workers, activeCalls, awaitingFlush, invoked>>

StepRefuseCall ==
  \E c \in Calls, f \in WriterMsg :
    /\ c \notin activeCalls /\ activeCalls' = activeCalls \cup {c}
    /\ invoked' = [invoked EXCEPT ![c] = @ + 1]
    /\ f \in Results(c) /\ writerQ' = Append(writerQ, f)
    /\ UNCHANGED <<inbox, writerOpen, ack, rpcQ, workers, awaitingFlush, current>>

StepSpawn ==
  \E c \in Calls, kind \in {"rpc", "host"} :
    /\ c \notin activeCalls /\ activeCalls' = activeCalls \cup {c}
    /\ ~OverCapacity(activeCalls \cup {c}) \/ ~HostAtCapacity
    /\ invoked' = [invoked EXCEPT ![c] = @ + 1]
    /\ workers' = [workers EXCEPT ![c] = kind]
    /\ UNCHANGED <<writerQ, inbox, writerOpen, ack, rpcQ, awaitingFlush, current>>

StepQueueResult ==
  \E c \in Calls, f \in WriterMsg :
    /\ rpcQ # <<>> /\ Head(rpcQ) \in Completions(c) /\ rpcQ' = Tail(rpcQ)
    /\ f \in Results(c) /\ writerQ' = Append(writerQ, f)
    /\ UNCHANGED <<inbox, writerOpen, ack, workers, activeCalls, awaitingFlush, invoked,
                   current>>

\* A completion discarded while closing, or a result that is flushed.
StepReleaseCall ==
  \E c \in Calls :
    /\ rpcQ # <<>> /\ Head(rpcQ) \in CallEvents(c) /\ rpcQ' = Tail(rpcQ)
    /\ closing \/ Head(rpcQ).t = "call_flushed"
    /\ activeCalls' = activeCalls \ {c}
    /\ UNCHANGED <<writerQ, inbox, writerOpen, ack, workers, awaitingFlush, invoked, current>>

StepLifecycleFlushed ==
  \E id \in Ids :
    /\ rpcQ # <<>> /\ rpcQ' = Tail(rpcQ)
    /\ Head(rpcQ).t = "lifecycle_flushed" /\ Head(rpcQ).x = id
    /\ id \in awaitingFlush /\ awaitingFlush' = awaitingFlush \ {id}
    /\ deadline' = (deadline \/ InFlightId(id))
    /\ UNCHANGED <<writerQ, inbox, writerOpen, ack, workers, activeCalls, invoked, inFlight,
                   waiting>>

StepShutdownFlushed ==
  /\ rpcQ # <<>> /\ Head(rpcQ).t = "shutdown_flushed" /\ rpcQ' = Tail(rpcQ)
  /\ UNCHANGED <<writerQ, inbox, writerOpen, ack, workers, activeCalls, awaitingFlush,
                 invoked, current>>

\* The writer and the workers.
StepWrite ==
  /\ writerOpen /\ ack = NoId /\ writerQ # <<>> /\ writerQ' = Tail(writerQ)
  /\ \/ inbox' = Append(inbox, Head(writerQ)) /\ ack' = FlushEvent(Head(writerQ))
     \/ inbox' \in {inbox, Append(inbox, Head(writerQ))} /\ ack' = Msg("writer_failed", NoId, "")
  /\ UNCHANGED <<writerOpen, rpcQ, workers, activeCalls, awaitingFlush, invoked, current>>

StepAck ==
  /\ ack # NoId /\ rpcQ' = Append(rpcQ, ack) /\ ack' = NoId
  /\ writerOpen' = (ack.t # "writer_failed")
  /\ writerQ' = IF ack.t = "writer_failed" THEN <<>> ELSE writerQ
  /\ UNCHANGED <<inbox, workers, activeCalls, awaitingFlush, invoked, current>>

StepComplete ==
  \E c \in Calls :
    /\ workers[c] # "none" /\ rpcQ' = Append(rpcQ, Completion(workers[c], c))
    /\ workers' = [workers EXCEPT ![c] = "none"]
    /\ UNCHANGED <<writerQ, inbox, writerOpen, ack, activeCalls, awaitingFlush, invoked, current>>

StepAbort ==
  \E c \in Calls :
    /\ closing /\ workers' = [workers EXCEPT ![c] = "none"]
    /\ UNCHANGED <<writerQ, inbox, writerOpen, ack, rpcQ, activeCalls, awaitingFlush, invoked,
                   current>>

\* A step of the select! loop, or beside it.
RunStep ==
  /\ RunPhase /\ phase' = "run" /\ (closing => closing') /\ answered \subseteq answered'
  /\ \/ StepPass \/ StepEnqueue \/ StepDispatchNew \/ StepDispatchNext \/ StepEndRequest
     \/ StepShutdown \/ StepRefuseCall \/ StepSpawn \/ StepQueueResult \/ StepReleaseCall
     \/ StepLifecycleFlushed \/ StepShutdownFlushed \/ StepWrite \/ StepAck \/ StepComplete
     \/ StepAbort

\* A step that leaves the loop, or follows its end.
EndStep ==
  /\ phase' # "run" /\ answered \subseteq answered'
  /\ \A c \in Calls : workers[c] = "none" => workers'[c] = "none"
  /\ deadline' = FALSE \/ (~RunPhase /\ deadline' = deadline)
  /\ UNCHANGED <<writerQ, inbox>> \/ TakeFrame \/ DropQueue

-----------------------------------------------------------------------------
(* Every step is of one of these kinds.                                     *)

\* What every break does.
LEMMA BreakEnds ==
  /\ \A rep, rs, reason : Fatal(rep, rs, reason) => phase' # "run" /\ deadline' = FALSE
  /\ \A reason : FatalHere(reason) => phase' # "run" /\ deadline' = FALSE
  /\ CleanBreak => phase' # "run" /\ deadline' = FALSE
  /\ FinishShutdown => phase' # "run" /\ deadline' = FALSE
  BY DEF Fatal, FatalHere, CleanBreak, FailLifecycle, FinishShutdown

\* A break that touches neither the writer nor the workers ends the loop.
LEMMA BreakIsEnd ==
  ASSUME phase' # "run" /\ deadline' = FALSE,
         UNCHANGED <<writerQ, inbox, workers, answered>>
  PROVE  EndStep
  BY DEF EndStep

\* The callers touch none of this.
LEMMA CallerKinds ==
  ASSUME TypeOK, CallerNext
  PROVE  RunStep \/ EndStep
<1> USE DEF callerVars, lifeVars, callVars, closeVars, openVars, writerVars, moduleVars,
            endVars, handleVars
<1>1. UNCHANGED <<channels, current, closing, phase, answered>>
  BY DEF CallerNext, Submit, SubmitClosed, Abandon, StopBegin, StopForce, DropSenders,
         RegisterHandle, ReleaseLoad, ReleaseApply, channels, current
<1>2. CASE RunPhase
  BY <1>1, <1>2 DEF RunStep, StepPass, RunPhase
<1>3. CASE ~RunPhase
  BY <1>1, <1>3 DEF EndStep, RunPhase, channels, current
<1> QED
  BY <1>2, <1>3

\* Nor does the child, except that it answers.
LEMMA ModuleKinds ==
  ASSUME TypeOK, ModuleNext
  PROVE  RunStep \/ EndStep
<1> USE DEF callerVars, lifeVars, callVars, closeVars, openVars, writerVars, moduleVars,
            endVars, handleVars
<1>1. UNCHANGED <<channels, current, closing, phase>>
  BY DEF ModuleNext, ReadTerminal, ReadOther, ReadError, ReadEof, ChildExit, Read, channels,
         current
<1>2. RunPhase /\ answered \subseteq answered'
  BY DEF ModuleNext, ReadTerminal, ReadOther, ReadError, ReadEof, ChildExit, Read
<1> QED
  BY <1>1, <1>2 DEF RunStep, StepPass, RunPhase

\* dispatch_lifecycle dispatches or breaks.
LEMMA DispatchKinds ==
  ASSUME RunPhase, NEW r \in Requests, NEW rep, NEW rest, DispatchLifecycle(r, rep, rest),
         UNCHANGED <<inbox, writerOpen, ack, rpcQ, workers, activeCalls, invoked, closing,
                     answered>>
  PROVE  \/ Dispatches(r) /\ waiting' = rest /\ phase' = "run"
         \/ EndStep
<1>1. CASE CanQueue
  BY <1>1 DEF DispatchLifecycle, Dispatches, CanQueue, DispatchDeadline, RunPhase
<1>2. CASE ~CanQueue
  <2>1. phase' # "run" /\ deadline' = FALSE
    BY <1>2, BreakEnds DEF DispatchLifecycle
  <2> QED
    BY <1>2, <2>1, BreakIsEnd DEF DispatchLifecycle
<1> QED
  BY <1>1, <1>2

\* start_shutdown queues the shutdown frame or breaks.
LEMMA StartShutdownKinds ==
  ASSUME RunPhase, NEW s, StartShutdown(s),
         UNCHANGED <<inbox, writerOpen, ack, rpcQ, workers, activeCalls, awaitingFlush, invoked,
                     answered>>
  PROVE  RunStep \/ EndStep
<1>1. CASE CanQueue
  <2>1. closing' /\ phase' = "run" /\ StepShutdown
    BY <1>1 DEF StartShutdown, FailLifecycle, StepShutdown, RunPhase
  <2> QED
    BY <2>1 DEF RunStep
<1>2. CASE ~CanQueue
  <2>1. phase' # "run" /\ deadline' = FALSE
    BY <1>2, BreakEnds DEF StartShutdown
  <2> QED
    BY <1>2, <2>1, BreakIsEnd DEF StartShutdown
<1> QED
  BY <1>1, <1>2

\* The control arm ...
LEMMA ControlKinds ==
  ASSUME TypeOK, ControlArm
  PROVE  RunStep \/ EndStep
<1> USE DEF armFrame, callerVars, lifeVars, callVars, closeVars, openVars, writerVars,
            moduleVars, endVars, handleVars
<1>1. ASSUME HandleRequest PROVE RunStep \/ EndStep
  <2>0. Head(control).x \in Requests
    BY <1>1, HeadTailType DEF HandleRequest, TypeOK, TypeCallers, ControlMsg
  <2> DEFINE r == Head(control).x
  <2>1. /\ RunPhase
        /\ UNCHANGED <<inbox, writerOpen, ack, rpcQ, workers, activeCalls, invoked, closing,
                       answered>>
    BY <1>1 DEF HandleRequest
  <2>2. CASE Refusal(r) # NoId
    <3>1. phase' = "run" /\ StepPass
      BY <1>1, <2>1, <2>2 DEF HandleRequest, StepPass, channels, current, RunPhase
    <3> QED
      BY <2>1, <3>1 DEF RunStep
  <2>3. CASE Refusal(r) = NoId
    <3>0. NoId \notin FatalReason
      BY SentinelAssumption DEF SentinelAssumption
    <3>1. ~closing /\ ~IdPresent(ReqId[r])
      <4>1. closing => Refusal(r) = "unavailable"
        BY DEF Refusal
      <4>2. ~closing /\ IdPresent(ReqId[r]) => Refusal(r) = "wrong_request_id"
        BY DEF Refusal
      <4> QED
        BY <2>3, <3>0, <4>1, <4>2, Reasons
    <3>2. CASE MustWait
      <4>1. phase' = "run" /\ waiting' = Append(waiting, r)
            /\ UNCHANGED <<channels, inFlight, deadline>>
        BY <1>1, <2>1, <2>3, <3>2 DEF HandleRequest, channels, RunPhase
      <4>2. StepEnqueue
        BY <2>0, <3>1, <4>1 DEF StepEnqueue
      <4> QED
        BY <2>1, <4>1, <4>2 DEF RunStep
    <3>3. CASE ~MustWait
      <4>1. DispatchLifecycle(r, reply, waiting) /\ inFlight = NoId
        BY <1>1, <2>3, <3>3 DEF HandleRequest, MustWait
      <4>2. \/ Dispatches(r) /\ waiting' = waiting /\ phase' = "run"
            \/ EndStep
        BY <2>0, <2>1, <4>1, DispatchKinds
      <4>3. CASE Dispatches(r) /\ waiting' = waiting /\ phase' = "run"
        <5>1. StepDispatchNew
          BY <2>0, <3>1, <4>1, <4>3 DEF StepDispatchNew
        <5> QED
          BY <2>1, <4>3, <5>1 DEF RunStep
      <4> QED
        BY <4>2, <4>3
    <3> QED
      BY <3>2, <3>3
  <2> QED
    BY <2>2, <2>3
<1>2. ASSUME HandleShutdown PROVE RunStep \/ EndStep
  <2>1. /\ RunPhase
        /\ UNCHANGED <<inbox, writerOpen, ack, rpcQ, workers, activeCalls, awaitingFlush,
                       invoked, answered>>
    BY <1>2 DEF HandleShutdown
  <2>2. CASE ~closing
    <3>1. StartShutdown(Head(control).x)
      BY <1>2, <2>2 DEF HandleShutdown
    <3> QED
      BY <2>1, <3>1, StartShutdownKinds
  <2>3. CASE closing
    <3>1. phase' = "run" /\ closing' /\ StepPass
      BY <1>2, <2>1, <2>3 DEF HandleShutdown, StepPass, channels, current, RunPhase
    <3> QED
      BY <2>1, <3>1 DEF RunStep
  <2> QED
    BY <2>2, <2>3
<1>3. ASSUME HandleControlClosed PROVE RunStep \/ EndStep
  <2>1. /\ RunPhase
        /\ UNCHANGED <<inbox, writerOpen, ack, rpcQ, workers, activeCalls, awaitingFlush,
                       invoked, answered>>
    BY <1>3 DEF HandleControlClosed
  <2>2. CASE ~closing
    <3>1. StartShutdown(NoId)
      BY <1>3, <2>2 DEF HandleControlClosed
    <3> QED
      BY <2>1, <3>1, StartShutdownKinds
  <2>3. CASE closing
    <3>1. phase' = "run" /\ closing' /\ StepPass
      BY <1>3, <2>1, <2>3 DEF HandleControlClosed, StepPass, channels, current, RunPhase
    <3> QED
      BY <2>1, <3>1 DEF RunStep
  <2> QED
    BY <2>2, <2>3
<1>4. ASSUME HandleForce PROVE RunStep \/ EndStep
  <2>1. UNCHANGED <<writerQ, inbox, workers, answered>> /\ CleanBreak
    BY <1>4 DEF HandleForce
  <2> QED
    BY <2>1, BreakEnds, BreakIsEnd
<1> QED
  BY <1>1, <1>2, <1>3, <1>4 DEF ControlArm

\* A queued result, or the break when the writer takes none.
LEMMA QueueResultKinds ==
  ASSUME RunPhase, NEW frame \in WriterMsg, QueueResult(frame)
  PROVE  \/ /\ writerQ' = Append(writerQ, frame) /\ phase' = "run" /\ UNCHANGED current
         \/ phase' # "run" /\ deadline' = FALSE /\ writerQ' = writerQ
<1>1. CASE CanQueue
  BY <1>1 DEF QueueResult, lifecycleAndEnd, current, RunPhase
<1>2. CASE ~CanQueue
  BY <1>2, BreakEnds DEF QueueResult
<1> QED
  BY <1>1, <1>2

\* ... the reader arm ...
LEMMA ReaderKinds ==
  ASSUME TypeOK, ReaderArm
  PROVE  RunStep \/ EndStep
<1> USE DEF armFrame, callerVars, lifeVars, callVars, closeVars, openVars, writerVars,
            moduleVars, endVars, handleVars
<1>1. ASSUME HandleTelegramInvoke PROVE RunStep \/ EndStep
  <2>0. Head(readerQ).x \in Calls
    <3>1. Head(readerQ) \in ReaderMsg
      BY <1>1, HeadTailType DEF HandleTelegramInvoke, ReaderReady, TypeOK, TypeModule
    <3> QED
      BY <1>1, <3>1 DEF HandleTelegramInvoke, ReaderReady, ReaderMsg
  <2> DEFINE c == Head(readerQ).x
             active == activeCalls \cup {c}
  <2>1. /\ RunPhase
        /\ UNCHANGED <<inbox, writerOpen, ack, rpcQ, awaitingFlush, closing, answered>>
    BY <1>1 DEF HandleTelegramInvoke, ReaderReady
  <2>2. CASE closing
    <3>1. phase' = "run" /\ StepPass
      BY <1>1, <2>1, <2>2 DEF HandleTelegramInvoke, StepPass, channels, current, RunPhase,
           lifecycleAndEnd
    <3> QED
      BY <2>1, <3>1 DEF RunStep
  <2>3. CASE ~closing /\ c \in activeCalls
    <3>1. FatalHere("protocol_decode") /\ UNCHANGED <<writerQ, workers>>
      BY <1>1, <2>3 DEF HandleTelegramInvoke
    <3> QED
      BY <2>1, <3>1, BreakEnds, BreakIsEnd
  <2>4. CASE ~closing /\ c \notin activeCalls
    <3>1. activeCalls' = active /\ invoked' = [invoked EXCEPT ![c] = @ + 1]
      BY <1>1, <2>4 DEF HandleTelegramInvoke
    <3>2. CASE OverCapacity(active) \/ ~ValidateInvoke(Head(readerQ).m)
      <4>1. workers' = workers
        BY <1>1, <2>4, <3>2 DEF HandleTelegramInvoke
      <4>2. \E m \in {"capacity", "denied"} : QueueResult(Msg("telegram_result", c, m))
        BY <1>1, <2>4, <3>2 DEF HandleTelegramInvoke
      <4>3. PICK m \in {"capacity", "denied"} : QueueResult(Msg("telegram_result", c, m))
        BY <4>2
      <4> DEFINE f == Msg("telegram_result", c, m)
      <4>4. f \in WriterMsg /\ f \in Results(c)
        BY <2>0 DEF Msg, WriterMsg, Results
      <4> HIDE DEF f
      <4>5. \/ /\ writerQ' = Append(writerQ, f) /\ phase' = "run" /\ UNCHANGED current
            \/ phase' # "run" /\ deadline' = FALSE /\ writerQ' = writerQ
        BY <2>1, <4>3, <4>4, QueueResultKinds DEF f
      <4>6. CASE writerQ' = Append(writerQ, f) /\ phase' = "run" /\ UNCHANGED current
        <5>1. StepRefuseCall
          BY <2>0, <2>1, <2>4, <3>1, <4>1, <4>4, <4>6 DEF StepRefuseCall
        <5> QED
          BY <2>1, <4>6, <5>1 DEF RunStep
      <4>7. CASE phase' # "run" /\ deadline' = FALSE /\ writerQ' = writerQ
        BY <2>1, <4>1, <4>7, BreakIsEnd
      <4> QED
        BY <4>5, <4>6, <4>7
    <3>3. CASE ~OverCapacity(active) /\ ValidateInvoke(Head(readerQ).m)
      <4>1. workers' = [workers EXCEPT ![c] = "rpc"] /\ UNCHANGED <<lifecycleAndEnd, writerQ>>
        BY <1>1, <2>4, <3>3 DEF HandleTelegramInvoke
      <4>2. phase' = "run" /\ UNCHANGED current
        BY <2>1, <4>1 DEF lifecycleAndEnd, current, RunPhase
      <4>3. StepSpawn
        BY <2>0, <2>1, <2>4, <3>1, <3>3, <4>1, <4>2 DEF StepSpawn
      <4> QED
        BY <2>1, <4>2, <4>3 DEF RunStep
    <3> QED
      BY <3>2, <3>3
  <2> QED
    BY <2>2, <2>3, <2>4
<1>2. ASSUME HandleHostInvoke PROVE RunStep \/ EndStep
  <2>0. Head(readerQ).x \in Calls
    <3>1. Head(readerQ) \in ReaderMsg
      BY <1>2, HeadTailType DEF HandleHostInvoke, ReaderReady, TypeOK, TypeModule
    <3> QED
      BY <1>2, <3>1 DEF HandleHostInvoke, ReaderReady, ReaderMsg
  <2> DEFINE c == Head(readerQ).x
  <2>1. /\ RunPhase
        /\ UNCHANGED <<writerQ, inbox, writerOpen, ack, rpcQ, awaitingFlush, closing, answered>>
    BY <1>2 DEF HandleHostInvoke, ReaderReady
  <2>2. CASE UNCHANGED <<lifecycleAndEnd, activeCalls, workers, invoked>>
    <3>1. phase' = "run" /\ StepPass
      BY <2>1, <2>2 DEF StepPass, channels, current, RunPhase, lifecycleAndEnd
    <3> QED
      BY <2>1, <3>1 DEF RunStep
  <2>3. CASE (\E reason : FatalHere(reason)) /\ UNCHANGED workers
    BY <2>1, <2>3, BreakEnds, BreakIsEnd
  <2>4. CASE /\ c \notin activeCalls /\ ~HostAtCapacity /\ activeCalls' = activeCalls \cup {c}
             /\ workers' = [workers EXCEPT ![c] = "host"]
             /\ invoked' = [invoked EXCEPT ![c] = @ + 1]
             /\ UNCHANGED lifecycleAndEnd
    <3>1. phase' = "run" /\ UNCHANGED current
      BY <2>1, <2>4 DEF lifecycleAndEnd, current, RunPhase
    <3>2. StepSpawn
      BY <2>0, <2>1, <2>4, <3>1 DEF StepSpawn
    <3> QED
      BY <2>1, <3>1, <3>2 DEF RunStep
  <2> QED
    BY <1>2, <2>2, <2>3, <2>4 DEF HandleHostInvoke
<1>3. ASSUME HandleTerminal PROVE RunStep \/ EndStep
  <2>1. /\ RunPhase /\ readerQ # <<>> /\ Head(readerQ).t = "terminal"
        /\ UNCHANGED <<inbox, writerOpen, ack, rpcQ, workers, activeCalls, invoked, closing,
                       answered>>
    BY <1>3 DEF HandleTerminal, ReaderReady
  <2> DEFINE rep == Answer(reply, {inFlight}, "ok")
  <2>2. CASE UNCHANGED <<lifecycleAndEnd, awaitingFlush, writerQ>>
    <3>1. phase' = "run" /\ StepPass
      BY <2>1, <2>2 DEF StepPass, channels, current, RunPhase, lifecycleAndEnd
    <3> QED
      BY <2>1, <3>1 DEF RunStep
  <2>3. CASE (\E reason : FatalHere(reason)) /\ UNCHANGED writerQ
    BY <2>1, <2>3, BreakEnds, BreakIsEnd
  <2>4. CASE /\ InFlightId(Head(readerQ).x)
             /\ inFlight' = NoId /\ deadline' = FALSE
             /\ UNCHANGED <<waiting, awaitingFlush, writerQ, phase>>
    <3>1. phase' = "run" /\ StepEndRequest
      BY <2>1, <2>4 DEF StepEndRequest, Answering, channels, RunPhase
    <3> QED
      BY <2>1, <3>1 DEF RunStep
  <2>5. CASE /\ InFlightId(Head(readerQ).x) /\ waiting # <<>>
             /\ DispatchLifecycle(Head(waiting), rep, Tail(waiting))
    <3>1. Head(waiting) \in Requests
      BY <2>5, HeadTailType DEF TypeOK, TypeLife
    <3>2. \/ Dispatches(Head(waiting)) /\ waiting' = Tail(waiting) /\ phase' = "run"
          \/ EndStep
      BY <2>1, <2>5, <3>1, DispatchKinds
    <3>3. CASE Dispatches(Head(waiting)) /\ waiting' = Tail(waiting) /\ phase' = "run"
      <4>1. StepDispatchNext
        BY <2>1, <2>5, <3>3 DEF StepDispatchNext, Answering
      <4> QED
        BY <2>1, <3>3, <4>1 DEF RunStep
    <3> QED
      BY <3>2, <3>3
  <2> QED
    BY <1>3, <2>2, <2>3, <2>4, <2>5 DEF HandleTerminal
<1>4. ASSUME HandleLog PROVE RunStep \/ EndStep
  <2>1. /\ RunPhase
        /\ UNCHANGED <<channels, closing, answered>>
    BY <1>4 DEF HandleLog, ReaderReady, channels
  <2>2. CASE UNCHANGED lifecycleAndEnd
    BY <2>1, <2>2 DEF RunStep, StepPass, current, RunPhase, lifecycleAndEnd
  <2>3. CASE FatalHere("wrong_request_id")
    BY <2>1, <2>3, BreakEnds, BreakIsEnd DEF channels
  <2> QED
    BY <1>4, <2>2, <2>3 DEF HandleLog
<1>5. ASSUME HandleInboundError PROVE RunStep \/ EndStep
  <2>1. UNCHANGED <<writerQ, inbox, workers, answered>> /\ FatalHere(Head(readerQ).m)
    BY <1>5 DEF HandleInboundError
  <2> QED
    BY <2>1, BreakEnds, BreakIsEnd
<1>6. ASSUME HandleEof PROVE RunStep \/ EndStep
  <2>1. /\ RunPhase
        /\ UNCHANGED <<channels, closing, answered>>
    BY <1>6 DEF HandleEof, ReaderReady, channels
  <2>2. CASE UNCHANGED lifecycleAndEnd
    BY <2>1, <2>2 DEF RunStep, StepPass, current, RunPhase, lifecycleAndEnd
  <2>3. CASE FatalHere("unavailable")
    BY <2>1, <2>3, BreakEnds, BreakIsEnd DEF channels
  <2> QED
    BY <1>6, <2>2, <2>3 DEF HandleEof
<1> QED
  BY <1>1, <1>2, <1>3, <1>4, <1>5, <1>6 DEF ReaderArm

\* ... the arm of completions and flushes ...
LEMMA RpcKinds ==
  ASSUME TypeOK, RpcArm
  PROVE  RunStep \/ EndStep
<1> USE DEF armFrame, callerVars, lifeVars, callVars, closeVars, openVars, writerVars,
            moduleVars, endVars, handleVars
<1>0. /\ RunPhase /\ rpcQ # <<>> /\ rpcQ' = Tail(rpcQ) /\ Head(rpcQ) \in ActorMsg
  BY HeadTailType DEF RpcArm, HandleRpcComplete, HandleHostComplete, HandleFlushed,
     HandleLifecycleFlushed, HandleShutdownFlushed, HandleWriterFailed, RpcReady, TypeOK,
     TypeWriter
<1> DEFINE c == Head(rpcQ).x
<1>1. ASSUME HandleRpcComplete \/ HandleHostComplete PROVE RunStep \/ EndStep
  <2>1. Head(rpcQ).t \in {"rpc_complete", "host_complete"}
    BY <1>1 DEF HandleRpcComplete, HandleHostComplete, RpcReady
  <2>2. c \in Calls /\ Head(rpcQ) \in Completions(c) /\ Head(rpcQ) \in CallEvents(c)
    BY <1>0, <2>1 DEF ActorMsg, Completions, CallEvents
  <2>3. UNCHANGED <<inbox, writerOpen, ack, workers, awaitingFlush, invoked, closing, answered>>
    BY <1>1 DEF HandleRpcComplete, HandleHostComplete
  <2>4. CASE closing
    <3>1. /\ UNCHANGED <<lifecycleAndEnd, writerQ>>
          /\ activeCalls' = activeCalls \ {c}
      BY <1>1, <2>4 DEF HandleRpcComplete, HandleHostComplete, DiscardCompletion,
         ActiveAfterCompletion
    <3>2. phase' = "run" /\ UNCHANGED current
      BY <1>0, <3>1 DEF lifecycleAndEnd, current, RunPhase
    <3>3. StepReleaseCall
      BY <1>0, <2>2, <2>3, <2>4, <3>1, <3>2 DEF StepReleaseCall
    <3> QED
      BY <1>0, <2>3, <3>2, <3>3 DEF RunStep
  <2>5. CASE ~closing
    <3>1. activeCalls' = activeCalls
      BY <1>1, <2>5 DEF HandleRpcComplete, HandleHostComplete, DiscardCompletion,
         ActiveAfterCompletion
    <3>2. \E t \in {"telegram_result", "host_result"} : QueueResult(Msg(t, c, "done"))
      BY <1>1, <2>5 DEF HandleRpcComplete, HandleHostComplete, DiscardCompletion
    <3>3. PICK t \in {"telegram_result", "host_result"} : QueueResult(Msg(t, c, "done"))
      BY <3>2
    <3> DEFINE f == Msg(t, c, "done")
    <3>4. f \in WriterMsg /\ f \in Results(c)
      BY <2>2 DEF Msg, WriterMsg, Results
    <3> HIDE DEF f
    <3>5. \/ /\ writerQ' = Append(writerQ, f) /\ phase' = "run" /\ UNCHANGED current
          \/ phase' # "run" /\ deadline' = FALSE /\ writerQ' = writerQ
      BY <1>0, <3>3, <3>4, QueueResultKinds DEF f
    <3>6. CASE writerQ' = Append(writerQ, f) /\ phase' = "run" /\ UNCHANGED current
      <4>1. StepQueueResult
        BY <1>0, <2>2, <2>3, <3>1, <3>4, <3>6 DEF StepQueueResult
      <4> QED
        BY <1>0, <2>3, <3>6, <4>1 DEF RunStep
    <3>7. CASE phase' # "run" /\ deadline' = FALSE /\ writerQ' = writerQ
      BY <2>3, <3>7, BreakIsEnd
    <3> QED
      BY <3>5, <3>6, <3>7
  <2> QED
    BY <2>4, <2>5
<1>2. ASSUME HandleFlushed PROVE RunStep \/ EndStep
  <2>1. Head(rpcQ).t = "call_flushed"
    BY <1>2 DEF HandleFlushed, RpcReady
  <2>2. c \in Calls /\ Head(rpcQ) \in CallEvents(c)
    BY <1>0, <2>1 DEF ActorMsg, CallEvents
  <2>3. /\ UNCHANGED <<writerQ, inbox, writerOpen, ack, workers, awaitingFlush, invoked, closing,
                       answered, phase>>
        /\ UNCHANGED current /\ activeCalls' = activeCalls \ {c}
    BY <1>2 DEF HandleFlushed, current
  <2>4. StepReleaseCall
    BY <1>0, <2>1, <2>2, <2>3 DEF StepReleaseCall
  <2> QED
    BY <1>0, <2>3, <2>4 DEF RunStep, RunPhase
<1>3. ASSUME HandleLifecycleFlushed PROVE RunStep \/ EndStep
  <2>1. Head(rpcQ).t = "lifecycle_flushed"
    BY <1>3 DEF HandleLifecycleFlushed, RpcReady
  <2>2. c \in Ids /\ Head(rpcQ).t = "lifecycle_flushed"
    BY <1>0, <2>1 DEF ActorMsg, Msg
  <2>3. /\ UNCHANGED <<writerQ, inbox, writerOpen, ack, workers, activeCalls, invoked, closing,
                       answered>>
        /\ awaitingFlush' = awaitingFlush \ {c}
    BY <1>3 DEF HandleLifecycleFlushed
  <2>4. CASE c \notin awaitingFlush \/ (InFlightId(c) /\ deadline)
    BY <1>3, <2>3, <2>4, BreakEnds, BreakIsEnd DEF HandleLifecycleFlushed
  <2>5. CASE ~(c \notin awaitingFlush \/ (InFlightId(c) /\ deadline))
    <3>1. /\ deadline' = (deadline \/ InFlightId(c))
          /\ UNCHANGED <<inFlight, waiting, phase>>
      BY <1>3, <2>5 DEF HandleLifecycleFlushed
    <3>2. StepLifecycleFlushed
      BY <1>0, <2>2, <2>3, <2>5, <3>1 DEF StepLifecycleFlushed
    <3> QED
      BY <1>0, <2>3, <3>1, <3>2 DEF RunStep, RunPhase
  <2> QED
    BY <2>4, <2>5
<1>4. ASSUME HandleShutdownFlushed PROVE RunStep \/ EndStep
  <2>1. Head(rpcQ).t = "shutdown_flushed"
    BY <1>4 DEF HandleShutdownFlushed, RpcReady
  <2>2. UNCHANGED <<writerQ, inbox, writerOpen, ack, workers, activeCalls, awaitingFlush, invoked,
                    closing, answered>>
    BY <1>4 DEF HandleShutdownFlushed
  <2>3. CASE FinishShutdown
    BY <2>2, <2>3, BreakEnds, BreakIsEnd
  <2>4. CASE UNCHANGED lifecycleAndEnd
    <3>1. phase' = "run" /\ UNCHANGED current
      BY <1>0, <2>4 DEF lifecycleAndEnd, current, RunPhase
    <3>2. StepShutdownFlushed
      BY <1>0, <2>1, <2>2, <3>1 DEF StepShutdownFlushed
    <3> QED
      BY <1>0, <2>2, <3>1, <3>2 DEF RunStep
  <2> QED
    BY <1>4, <2>3, <2>4 DEF HandleShutdownFlushed
<1>5. ASSUME HandleWriterFailed PROVE RunStep \/ EndStep
  <2>1. UNCHANGED <<writerQ, inbox, workers, answered>> /\ FatalHere("writer_unavailable")
    BY <1>5 DEF HandleWriterFailed
  <2> QED
    BY <2>1, BreakEnds, BreakIsEnd
<1> QED
  BY <1>1, <1>2, <1>3, <1>4, <1>5 DEF RpcArm

\* ... the exit arm, the deadlines and the teardown ...
LEMMA OwnKinds ==
  ASSUME TypeOK, ObserveExit \/ ShutdownDeadline \/ LifecycleDeadline \/ Kill \/ Finish
  PROVE  RunStep \/ EndStep
<1> USE DEF armFrame, callerVars, lifeVars, callVars, closeVars, openVars, writerVars,
            moduleVars, endVars, handleVars
<1>1. ASSUME ObserveExit PROVE RunStep \/ EndStep
  <2>1. RunPhase /\ UNCHANGED <<channels, closing, answered>>
    BY <1>1 DEF ObserveExit, channels
  <2>2. CASE FatalHere("unavailable") \/ FinishShutdown
    BY <2>1, <2>2, BreakEnds, BreakIsEnd DEF channels
  <2>3. CASE UNCHANGED <<inFlight, deadline, waiting, phase>>
    BY <2>1, <2>3 DEF RunStep, StepPass, current, RunPhase
  <2> QED
    BY <1>1, <2>2, <2>3 DEF ObserveExit
<1>2. ASSUME ShutdownDeadline \/ LifecycleDeadline PROVE RunStep \/ EndStep
  <2>1. UNCHANGED <<writerQ, inbox, workers, answered>>
    BY <1>2 DEF ShutdownDeadline, LifecycleDeadline
  <2>2. \E reason : FatalHere(reason)
    BY <1>2 DEF ShutdownDeadline, LifecycleDeadline
  <2> QED
    BY <2>1, <2>2, BreakEnds, BreakIsEnd
<1>3. ASSUME Kill PROVE RunStep \/ EndStep
  BY <1>3 DEF Kill, EndStep, RunPhase, DropQueue
<1>4. ASSUME Finish PROVE RunStep \/ EndStep
  BY <1>4 DEF Finish, EndStep, RunPhase
<1> QED
  BY <1>1, <1>2, <1>3, <1>4

\* ... and the writer and the workers.
LEMMA TaskKinds ==
  ASSUME TypeOK, TaskNext
  PROVE  RunStep \/ EndStep
<1> USE DEF armFrame, callerVars, lifeVars, callVars, closeVars, openVars, writerVars,
            moduleVars, endVars, handleVars
<1>0. UNCHANGED <<phase, closing, answered, current>>
  BY DEF TaskNext, WriterWrite, WriterFail, WriterAck, WorkerComplete, WorkerAbort, current
<1>1. ASSUME WriterWrite \/ WriterFail PROVE RunStep \/ EndStep
  <2>1. StepWrite
    <3>1. writerOpen /\ ack = NoId /\ writerQ # <<>> /\ writerQ' = Tail(writerQ)
      BY <1>1 DEF WriterWrite, WriterFail, WriterIdle
    <3>2. \/ inbox' = Append(inbox, Head(writerQ)) /\ ack' = FlushEvent(Head(writerQ))
          \/ inbox' \in {inbox, Append(inbox, Head(writerQ))}
             /\ ack' = Msg("writer_failed", NoId, "")
      BY <1>1 DEF WriterWrite, WriterFail
    <3>3. UNCHANGED <<writerOpen, rpcQ, workers, activeCalls, awaitingFlush, invoked>>
      BY <1>1 DEF WriterWrite, WriterFail
    <3> QED
      BY <1>0, <3>1, <3>2, <3>3 DEF StepWrite
  <2>2. CASE RunPhase
    BY <1>0, <2>1, <2>2 DEF RunStep, RunPhase
  <2>3. CASE ~RunPhase
    BY <1>0, <2>1, <2>3 DEF EndStep, RunPhase, StepWrite, TakeFrame, current
  <2> QED
    BY <2>2, <2>3
<1>2. ASSUME WriterAck PROVE RunStep \/ EndStep
  <2>1. StepAck
    BY <1>0, <1>2 DEF WriterAck, StepAck
  <2>2. CASE RunPhase
    BY <1>0, <2>1, <2>2 DEF RunStep, RunPhase
  <2>3. CASE ~RunPhase
    BY <1>0, <2>1, <2>3 DEF EndStep, RunPhase, StepAck, DropQueue, current
  <2> QED
    BY <2>2, <2>3
<1>3. ASSUME NEW c \in Calls, WorkerComplete(c) PROVE RunStep \/ EndStep
  <2>1. RunPhase /\ StepComplete
    BY <1>0, <1>3 DEF WorkerComplete, StepComplete
  <2> QED
    BY <1>0, <2>1 DEF RunStep, RunPhase
<1>4. ASSUME NEW c \in Calls, WorkerAbort(c) PROVE RunStep \/ EndStep
  <2>1. /\ workers' = [workers EXCEPT ![c] = "none"]
        /\ UNCHANGED <<writerQ, inbox, writerOpen, ack, rpcQ, activeCalls, awaitingFlush, invoked>>
    BY <1>4 DEF WorkerAbort
  <2>2. CASE RunPhase
    <3>1. closing
      BY <1>4, <2>2 DEF WorkerAbort, RunPhase
    <3>2. StepAbort
      BY <1>0, <2>1, <3>1 DEF StepAbort
    <3> QED
      BY <1>0, <2>2, <3>2 DEF RunStep, RunPhase
  <2>3. CASE ~RunPhase
    <3>1. workers \in [Calls -> {"none", "rpc", "host"}]
      BY DEF TypeOK, TypeCalls
    <3> QED
      BY <1>0, <2>1, <2>3, <3>1 DEF EndStep, RunPhase, current
  <2> QED
    BY <2>2, <2>3
<1> QED
  BY <1>1, <1>2, <1>3, <1>4 DEF TaskNext

\* Hence every step is of one of the kinds.
LEMMA StepKinds ==
  ASSUME TypeOK, [Next]_vars
  PROVE  RunStep \/ EndStep
<1>1. CASE UNCHANGED vars
  <2>1. UNCHANGED <<channels, current, closing, phase, answered>>
    BY <1>1 DEF vars, lifeVars, callVars, closeVars, writerVars, moduleVars, endVars, channels,
       current
  <2>2. CASE RunPhase
    BY <2>1, <2>2 DEF RunStep, StepPass, RunPhase
  <2>3. CASE ~RunPhase
    BY <2>1, <2>3 DEF EndStep, RunPhase, channels, current
  <2> QED
    BY <2>2, <2>3
<1> QED
  BY <1>1, CallerKinds, ControlKinds, ReaderKinds, RpcKinds, OwnKinds, TaskKinds, ModuleKinds
  DEF Next, SupervisorNext

-----------------------------------------------------------------------------
(* Tokens: a frame in the writer's queue becomes an acknowledgement, and    *)
(* the acknowledgement an event in the supervisor's queue.                  *)

WriterFailed == Msg("writer_failed", NoId, "")

\* E are the events the frames F turn into.
Matched(F, E) ==
  /\ \A f \in WriterMsg : f \in F <=> FlushEvent(f) \in E
  /\ WriterFailed \notin E

TokenCount(F, E) == CountOf(writerQ, F) + CountOf(rpcQ, E) + Unit(ack \in E)

\* The queues and the acknowledgement have their types, so the counts are numbers.
LEMMA TokenTypes ==
  ASSUME TypeOK, NEW F, NEW E
  PROVE  /\ writerQ \in Seq(WriterMsg) /\ rpcQ \in Seq(ActorMsg) /\ ack \in ActorMsg \cup {NoId}
         /\ CountOf(writerQ, F) \in Nat /\ CountOf(rpcQ, E) \in Nat
         /\ TokenCount(F, E) \in Nat
<1>1. writerQ \in Seq(WriterMsg) /\ rpcQ \in Seq(ActorMsg) /\ ack \in ActorMsg \cup {NoId}
  BY DEF TypeOK, TypeWriter
<1>2. CountOf(writerQ, F) \in Nat /\ CountOf(rpcQ, E) \in Nat
  BY <1>1, CountType
<1> QED
  BY <1>1, <1>2 DEF TokenCount, Unit

\* Writing a frame keeps its token; only a failed write loses it.
LEMMA TokensWrite ==
  ASSUME TypeOK, NEW F, NEW E, Matched(F, E), NoId \notin E, StepWrite
  PROVE  /\ TokenCount(F, E)' \in Nat
         /\ TokenCount(F, E)' <= TokenCount(F, E)
         /\ ack' # WriterFailed => TokenCount(F, E)' = TokenCount(F, E)
<1>1. /\ writerQ \in Seq(WriterMsg) /\ CountOf(writerQ, F) \in Nat /\ CountOf(rpcQ, E) \in Nat
  BY TokenTypes
<1>2. writerQ # <<>> /\ writerQ' = Tail(writerQ) /\ rpcQ' = rpcQ /\ ack = NoId
  BY DEF StepWrite
<1>3. Head(writerQ) \in WriterMsg /\ Tail(writerQ) \in Seq(WriterMsg)
  BY <1>1, <1>2, HeadTailType
<1>4. CountOf(writerQ, F) = CountOf(writerQ', F) + Unit(Head(writerQ) \in F)
  BY <1>1, <1>2, CountTail
<1>5. CountOf(writerQ', F) \in Nat
  BY <1>2, <1>3, CountType
<1>6. ack' = FlushEvent(Head(writerQ)) \/ ack' = WriterFailed
  BY DEF StepWrite, WriterFailed
<1>7. ack' = FlushEvent(Head(writerQ)) => Unit(ack' \in E) = Unit(Head(writerQ) \in F)
  BY <1>3 DEF Matched
<1>8. ack' = WriterFailed => Unit(ack' \in E) = 0
  BY DEF Matched, Unit
<1>9. Unit(ack \in E) = 0 /\ Unit(Head(writerQ) \in F) \in {0, 1}
  BY <1>2 DEF Unit
<1>10. TokenCount(F, E)' = CountOf(writerQ', F) + CountOf(rpcQ, E) + Unit(ack' \in E)
  BY <1>2 DEF TokenCount
<1>11. TokenCount(F, E) = CountOf(writerQ, F) + CountOf(rpcQ, E) + Unit(ack \in E)
  BY DEF TokenCount
<1> HIDE DEF TokenCount
<1>12. CASE ack' = FlushEvent(Head(writerQ))
  BY <1>1, <1>4, <1>5, <1>7, <1>9, <1>10, <1>11, <1>12
<1>13. CASE ack' = WriterFailed
  BY <1>1, <1>4, <1>5, <1>8, <1>9, <1>10, <1>11, <1>13
<1> QED
  BY <1>6, <1>12, <1>13

\* Sending the acknowledgement keeps every token, unless the writer has failed.
LEMMA TokensAck ==
  ASSUME TypeOK, NEW F, NEW E, Matched(F, E), NoId \notin E, StepAck
  PROVE  /\ TokenCount(F, E)' \in Nat
         /\ TokenCount(F, E)' <= TokenCount(F, E)
         /\ writerOpen' => TokenCount(F, E)' = TokenCount(F, E)
<1>1. /\ rpcQ \in Seq(ActorMsg) /\ CountOf(writerQ, F) \in Nat /\ CountOf(rpcQ, E) \in Nat
  BY TokenTypes
<1>2. ack \in ActorMsg /\ rpcQ' = Append(rpcQ, ack) /\ ack' = NoId
  BY TokenTypes DEF StepAck
<1>3. CountOf(rpcQ', E) = CountOf(rpcQ, E) + Unit(ack \in E)
  BY <1>1, <1>2, CountAppend
<1>4. Unit(ack' \in E) = 0 /\ Unit(ack \in E) \in {0, 1}
  BY <1>2 DEF Unit
<1>5. TokenCount(F, E)' = CountOf(writerQ', F) + CountOf(rpcQ', E) + Unit(ack' \in E)
  BY DEF TokenCount
<1>6. TokenCount(F, E) = CountOf(writerQ, F) + CountOf(rpcQ, E) + Unit(ack \in E)
  BY DEF TokenCount
<1>7. CASE ack.t = "writer_failed"
  <2>1. writerQ' = <<>> /\ ~writerOpen'
    BY <1>7 DEF StepAck
  <2>2. CountOf(writerQ', F) = 0
    BY <2>1, CountEmpty
  <2> QED
    BY <1>1, <1>3, <1>4, <1>5, <1>6, <2>1, <2>2
<1>8. CASE ack.t # "writer_failed"
  <2>1. writerQ' = writerQ
    BY <1>8 DEF StepAck
  <2> QED
    BY <1>1, <1>3, <1>4, <1>5, <1>6, <2>1
<1> QED
  BY <1>7, <1>8

\* Queueing a frame adds its token.
LEMMA TokensSend ==
  ASSUME TypeOK, NEW F, NEW E, NEW f \in WriterMsg, writerQ' = Append(writerQ, f),
         rpcQ' = rpcQ, ack' = ack
  PROVE  TokenCount(F, E)' = TokenCount(F, E) + Unit(f \in F)
<1>1. writerQ \in Seq(WriterMsg) /\ CountOf(writerQ, F) \in Nat /\ CountOf(rpcQ, E) \in Nat
  BY TokenTypes
<1>2. CountOf(writerQ', F) = CountOf(writerQ, F) + Unit(f \in F)
  BY <1>1, CountAppend
<1> QED
  BY <1>1, <1>2 DEF TokenCount, Unit

\* Taking an event removes its token ...
LEMMA TokensTake ==
  ASSUME TypeOK, NEW F, NEW E, rpcQ # <<>>, rpcQ' = Tail(rpcQ), writerQ' = writerQ, ack' = ack
  PROVE  /\ TokenCount(F, E) = TokenCount(F, E)' + Unit(Head(rpcQ) \in E)
         /\ TokenCount(F, E)' \in Nat
<1>1. /\ rpcQ \in Seq(ActorMsg) /\ CountOf(writerQ, F) \in Nat /\ CountOf(rpcQ, E) \in Nat
      /\ Tail(rpcQ) \in Seq(ActorMsg)
  BY TokenTypes, HeadTailType
<1>2. CountOf(rpcQ, E) = CountOf(rpcQ', E) + Unit(Head(rpcQ) \in E)
  BY <1>1, CountTail
<1>3. CountOf(rpcQ', E) \in Nat
  BY <1>1, CountType
<1> QED
  BY <1>1, <1>2, <1>3 DEF TokenCount, Unit

\* ... unless a frame is queued in its place ...
LEMMA TokensExchange ==
  ASSUME TypeOK, NEW F, NEW E, NEW f \in WriterMsg, rpcQ # <<>>, rpcQ' = Tail(rpcQ),
         writerQ' = Append(writerQ, f), ack' = ack
  PROVE  /\ TokenCount(F, E) + Unit(f \in F) = TokenCount(F, E)' + Unit(Head(rpcQ) \in E)
         /\ TokenCount(F, E)' \in Nat
<1>1. /\ writerQ \in Seq(WriterMsg) /\ rpcQ \in Seq(ActorMsg)
      /\ CountOf(writerQ, F) \in Nat /\ CountOf(rpcQ, E) \in Nat
      /\ Tail(rpcQ) \in Seq(ActorMsg)
  BY TokenTypes, HeadTailType
<1>2. CountOf(writerQ', F) = CountOf(writerQ, F) + Unit(f \in F)
  BY <1>1, CountAppend
<1>3. CountOf(rpcQ, E) = CountOf(rpcQ', E) + Unit(Head(rpcQ) \in E)
  BY <1>1, CountTail
<1>4. CountOf(rpcQ', E) \in Nat
  BY <1>1, CountType
<1>5. TokenCount(F, E) + Unit(f \in F) = TokenCount(F, E)' + Unit(Head(rpcQ) \in E)
  BY <1>1, <1>2, <1>3, <1>4 DEF TokenCount, Unit
<1>6. CountOf(writerQ', F) \in Nat
  BY <1>1, <1>2 DEF Unit
<1>7. TokenCount(F, E)' \in Nat
  BY <1>4, <1>6 DEF TokenCount, Unit
<1> QED
  BY <1>5, <1>7

\* ... and a completion sent by a worker adds one.
LEMMA TokensComplete ==
  ASSUME TypeOK, NEW F, NEW E, NEW e \in ActorMsg, rpcQ' = Append(rpcQ, e),
         writerQ' = writerQ, ack' = ack
  PROVE  TokenCount(F, E)' = TokenCount(F, E) + Unit(e \in E)
<1>1. rpcQ \in Seq(ActorMsg) /\ CountOf(writerQ, F) \in Nat /\ CountOf(rpcQ, E) \in Nat
  BY TokenTypes
<1>2. CountOf(rpcQ', E) = CountOf(rpcQ, E) + Unit(e \in E)
  BY <1>1, CountAppend
<1> QED
  BY <1>1, <1>2 DEF TokenCount, Unit

-----------------------------------------------------------------------------
(* Messages and the elements of the queues.                                 *)

\* A flush event and its frame agree on the type and on the id.
LEMMA FlushEventParts ==
  ASSUME NEW f \in WriterMsg
  PROVE  /\ FlushEvent(f) \in ActorMsg /\ FlushEvent(f).x = f.x
         /\ f.t = "lifecycle" => FlushEvent(f).t = "lifecycle_flushed"
         /\ f.t = "shutdown" => FlushEvent(f).t = "shutdown_flushed"
         /\ f.t \in {"telegram_result", "host_result"} => FlushEvent(f).t = "call_flushed"
         /\ f.t \in {"lifecycle", "shutdown", "telegram_result", "host_result"}
<1>1. FlushEvent(f) \in ActorMsg
  BY DEF FlushEvent, Msg, WriterMsg, ActorMsg
<1>2. f.t \in {"lifecycle", "shutdown", "telegram_result", "host_result"}
  BY DEF WriterMsg
<1>3. CASE f.t = "lifecycle"
  <2>1. FlushEvent(f).t = "lifecycle_flushed" /\ FlushEvent(f).x = f.x
    BY <1>3 DEF FlushEvent, Msg
  <2> QED
    BY <1>1, <1>3, <2>1
<1>4. CASE f.t = "shutdown"
  <2>1. FlushEvent(f).t = "shutdown_flushed" /\ FlushEvent(f).x = NoId
    BY <1>4 DEF FlushEvent, Msg
  <2>2. f.x = NoId
    BY <1>4 DEF WriterMsg
  <2> QED
    BY <1>1, <1>4, <2>1, <2>2
<1>5. CASE f.t \in {"telegram_result", "host_result"}
  <2>1. FlushEvent(f).t = "call_flushed" /\ FlushEvent(f).x = f.x
    BY <1>5 DEF FlushEvent, Msg
  <2> QED
    BY <1>1, <1>5, <2>1
<1> QED
  BY <1>2, <1>3, <1>4, <1>5

\* The frames and events the supervisor builds.
LEMMA BuiltMessages ==
  /\ \A id \in Ids : Msg("lifecycle", id, "") \in WriterMsg
  /\ Msg("shutdown", NoId, "") \in WriterMsg
  /\ \A c \in Calls, k \in {"rpc", "host"} :
       /\ Completion(k, c) \in ActorMsg /\ Completion(k, c).x = c
       /\ Completion(k, c).t \in {"rpc_complete", "host_complete"}
  /\ WriterFailed \in ActorMsg /\ WriterFailed.t = "writer_failed"
  /\ NoId \notin ActorMsg
<1>1. \A id \in Ids : Msg("lifecycle", id, "") \in WriterMsg
  BY DEF Msg, WriterMsg
<1>2. Msg("shutdown", NoId, "") \in WriterMsg
  BY DEF Msg, WriterMsg
<1>3. \A c \in Calls, k \in {"rpc", "host"} :
        /\ Completion(k, c) \in ActorMsg /\ Completion(k, c).x = c
        /\ Completion(k, c).t \in {"rpc_complete", "host_complete"}
  BY DEF Msg, ActorMsg, Completion
<1>4. WriterFailed \in ActorMsg /\ WriterFailed.t = "writer_failed"
  BY DEF Msg, ActorMsg, WriterFailed
<1> QED
  BY <1>1, <1>2, <1>3, <1>4, AckAssumption DEF AckAssumption

\* What sending and taking do to the elements of a queue.
LEMMA ElementsAppend ==
  ASSUME NEW X, NEW q \in Seq(X), NEW e \in X
  PROVE  Elements(Append(q, e)) = Elements(q) \cup {e}
<1>1. /\ Len(q) \in Nat /\ DOMAIN q = 1 .. Len(q)
      /\ DOMAIN Append(q, e) = 1 .. (Len(q) + 1)
      /\ \A i \in 1 .. Len(q) : Append(q, e)[i] = q[i]
      /\ Append(q, e)[Len(q) + 1] = e
  BY AppendProperties, LenProperties
<1>2. 1 .. (Len(q) + 1) = (1 .. Len(q)) \cup {Len(q) + 1}
  BY <1>1
<1> QED
  BY <1>1, <1>2 DEF Elements

\* Taking removes at most the head.
LEMMA ElementsTail ==
  ASSUME NEW X, NEW q \in Seq(X), q # <<>>
  PROVE  Elements(q) = Elements(Tail(q)) \cup {Head(q)}
<1>1. /\ Len(q) \in Nat /\ Len(q) >= 1 /\ DOMAIN q = 1 .. Len(q)
      /\ Tail(q) \in Seq(X) /\ Head(q) = q[1]
      /\ Len(Tail(q)) = Len(q) - 1 /\ DOMAIN Tail(q) = 1 .. (Len(q) - 1)
      /\ \A i \in 1 .. (Len(q) - 1) : Tail(q)[i] = q[i + 1]
  OBVIOUS
<1>2. ASSUME NEW e \in Elements(q) PROVE e \in Elements(Tail(q)) \cup {Head(q)}
  <2>1. PICK i \in 1 .. Len(q) : e = q[i]
    BY <1>1 DEF Elements
  <2>2. CASE i = 1
    BY <1>1, <2>1, <2>2
  <2>3. CASE i # 1
    <3>1. i - 1 \in 1 .. (Len(q) - 1) /\ Tail(q)[i - 1] = e
      BY <1>1, <2>1, <2>3
    <3> QED
      BY <1>1, <3>1 DEF Elements
  <2> QED
    BY <2>2, <2>3
<1>3. ASSUME NEW e \in Elements(Tail(q)) PROVE e \in Elements(q)
  <2>1. PICK i \in 1 .. (Len(q) - 1) : e = Tail(q)[i]
    BY <1>1 DEF Elements
  <2>2. i + 1 \in 1 .. Len(q) /\ e = q[i + 1]
    BY <1>1, <2>1
  <2> QED
    BY <1>1, <2>2 DEF Elements
<1>4. Head(q) \in Elements(q)
  BY <1>1 DEF Elements
<1> QED
  BY <1>2, <1>3, <1>4

-----------------------------------------------------------------------------
(* Where events come from.                                                  *)

Events == Elements(rpcQ) \cup {ack}
Flushes == {"call_flushed", "lifecycle_flushed", "shutdown_flushed"}

\* The loop leaves the events alone, takes one, or the tasks add one.
LEMMA EventSteps ==
  ASSUME RunStep
  PROVE  \/ rpcQ' = rpcQ /\ ack' = ack /\ inbox' = inbox
         \/ rpcQ # <<>> /\ rpcQ' = Tail(rpcQ) /\ ack' = ack /\ inbox' = inbox
         \/ StepWrite
         \/ StepAck
         \/ StepComplete
<1> USE DEF channels, current
<1>1. \/ rpcQ' = rpcQ /\ ack' = ack /\ inbox' = inbox
      \/ StepQueueResult \/ StepReleaseCall \/ StepLifecycleFlushed \/ StepShutdownFlushed
      \/ StepWrite \/ StepAck \/ StepComplete
  BY DEF RunStep, StepPass, StepEnqueue, StepDispatchNew, StepDispatchNext, StepEndRequest,
         StepShutdown, StepRefuseCall, StepSpawn, StepAbort, Dispatches
<1>2. \/ StepQueueResult \/ StepReleaseCall \/ StepLifecycleFlushed \/ StepShutdownFlushed
      => rpcQ # <<>> /\ rpcQ' = Tail(rpcQ) /\ ack' = ack /\ inbox' = inbox
  BY DEF StepQueueResult, StepReleaseCall, StepLifecycleFlushed, StepShutdownFlushed
<1> QED
  BY <1>1, <1>2

\* What reached the module's stdin stays there.
LEMMA InboxGrows ==
  ASSUME TypeOK, RunStep
  PROVE  Elements(inbox) \subseteq Elements(inbox')
<1>1. CASE StepWrite
  <2>1. writerQ \in Seq(WriterMsg) /\ inbox \in Seq(WriterMsg) /\ writerQ # <<>>
    BY <1>1 DEF TypeOK, TypeWriter, StepWrite
  <2>2. Head(writerQ) \in WriterMsg
    BY <2>1, HeadTailType
  <2>3. inbox' = inbox \/ inbox' = Append(inbox, Head(writerQ))
    BY <1>1 DEF StepWrite
  <2>4. Elements(Append(inbox, Head(writerQ))) = Elements(inbox) \cup {Head(writerQ)}
    BY <2>1, <2>2, ElementsAppend
  <2> QED
    BY <2>3, <2>4
<1>2. CASE inbox' = inbox
  BY <1>2
<1>3. StepAck \/ StepComplete => inbox' = inbox
  BY DEF StepAck, StepComplete
<1> QED
  BY <1>1, <1>2, <1>3, EventSteps

\* A flush is reported only for a frame that was written.
LEMMA EventSources ==
  ASSUME TypeOK, RunStep, NEW e \in ActorMsg, e \in Events', e.t \in Flushes
  PROVE  e \in Events \/ \E f \in Elements(inbox') : f \in WriterMsg /\ e = FlushEvent(f)
<1>0. /\ writerQ \in Seq(WriterMsg) /\ inbox \in Seq(WriterMsg) /\ rpcQ \in Seq(ActorMsg)
      /\ ack \in ActorMsg \cup {NoId}
  BY DEF TypeOK, TypeWriter
<1>1. CASE rpcQ' = rpcQ /\ ack' = ack
  BY <1>1 DEF Events
<1>2. CASE rpcQ # <<>> /\ rpcQ' = Tail(rpcQ) /\ ack' = ack
  <2>1. Elements(rpcQ') \subseteq Elements(rpcQ)
    BY <1>0, <1>2, ElementsTail
  <2> QED
    BY <1>2, <2>1 DEF Events
<1>3. CASE StepWrite
  <2>1. rpcQ' = rpcQ /\ writerQ # <<>>
    BY <1>3 DEF StepWrite
  <2>2. Head(writerQ) \in WriterMsg
    BY <1>0, <2>1, HeadTailType
  <2>3. CASE inbox' = Append(inbox, Head(writerQ)) /\ ack' = FlushEvent(Head(writerQ))
    <3>1. Head(writerQ) \in Elements(inbox')
      BY <1>0, <2>2, <2>3, ElementsAppend
    <3> QED
      BY <2>1, <2>2, <2>3, <3>1 DEF Events
  <2>4. CASE ack' = WriterFailed
    <3>1. e # ack'
      BY <2>4, BuiltMessages DEF Flushes
    <3> QED
      BY <2>1, <3>1 DEF Events
  <2> QED
    BY <1>3, <2>3, <2>4 DEF StepWrite, WriterFailed
<1>4. CASE StepAck
  <2>1. rpcQ' = Append(rpcQ, ack) /\ ack' = NoId /\ ack \in ActorMsg
    BY <1>0, <1>4 DEF StepAck
  <2>2. Elements(rpcQ') = Elements(rpcQ) \cup {ack}
    BY <1>0, <2>1, ElementsAppend
  <2>3. e # NoId
    BY BuiltMessages
  <2> QED
    BY <2>1, <2>2, <2>3 DEF Events
<1>5. CASE StepComplete
  <2>1. PICK c \in Calls : /\ workers[c] # "none"
                           /\ rpcQ' = Append(rpcQ, Completion(workers[c], c)) /\ ack' = ack
    BY <1>5 DEF StepComplete
  <2>2. workers[c] \in {"rpc", "host"}
    BY <2>1 DEF TypeOK, TypeCalls
  <2>3. /\ Completion(workers[c], c) \in ActorMsg
        /\ Completion(workers[c], c).t \in {"rpc_complete", "host_complete"}
    BY <2>2, BuiltMessages
  <2>4. Elements(rpcQ') = Elements(rpcQ) \cup {Completion(workers[c], c)}
    BY <1>0, <2>1, <2>3, ElementsAppend
  <2>5. e # Completion(workers[c], c)
    BY <2>3 DEF Flushes
  <2> QED
    BY <2>1, <2>4, <2>5 DEF Events
<1> QED
  BY <1>1, <1>2, <1>3, <1>4, <1>5, EventSteps

\* Every flush on its way to the supervisor is the flush of a frame that was written.
FlushedInv ==
  RunPhase =>
    \A e \in Events :
      (e \in ActorMsg /\ e.t \in Flushes) =>
        \E f \in Elements(inbox) : f \in WriterMsg /\ e = FlushEvent(f)

\* That is inductive.
LEMMA FlushedKept ==
  ASSUME TypeOK, FlushedInv, RunStep
  PROVE  FlushedInv'
<1>1. RunPhase
  BY DEF RunStep
<1>2. ASSUME NEW e \in ActorMsg, e \in Events', e.t \in Flushes
      PROVE  \E f \in Elements(inbox') : f \in WriterMsg /\ e = FlushEvent(f)
  BY <1>1, <1>2, EventSources, InboxGrows DEF FlushedInv
<1> QED
  BY <1>2 DEF FlushedInv

-----------------------------------------------------------------------------
(* Lifecycle flushes.                                                       *)

LifecycleFrames(id) == {m \in WriterMsg : m.t = "lifecycle" /\ m.x = id}
LifecycleEvents(id) == {m \in ActorMsg : m.t = "lifecycle_flushed" /\ m.x = id}
FlushCount(id) == TokenCount(LifecycleFrames(id), LifecycleEvents(id))

WriterHealthy == writerOpen /\ ack # WriterFailed

\* A waiting request has an id of its own, that no flush is awaited for.
FreshIds ==
  RunPhase =>
    /\ \A i \in DOMAIN waiting : ReqId[waiting[i]] \notin awaitingFlush
    /\ \A i, j \in DOMAIN waiting : ReqId[waiting[i]] = ReqId[waiting[j]] => i = j

\* Each awaited flush has one token while the writer works, and no other flush has any.
FlushOwed(id) ==
  /\ FlushCount(id) <= Unit(id \in awaitingFlush)
  /\ id \in awaitingFlush /\ WriterHealthy => FlushCount(id) = 1

FlushInv ==
  RunPhase => (ack # NoId => writerOpen) /\ \A id \in Ids : FlushOwed(id)

\* The lifecycle frame of an id and its flush correspond.
LEMMA LifecycleMatched ==
  ASSUME NEW id
  PROVE  /\ Matched(LifecycleFrames(id), LifecycleEvents(id))
         /\ NoId \notin LifecycleEvents(id)
<1>1. WriterFailed \notin LifecycleEvents(id) /\ NoId \notin LifecycleEvents(id)
  BY BuiltMessages DEF LifecycleEvents
<1>2. ASSUME NEW f \in WriterMsg
      PROVE  f \in LifecycleFrames(id) <=> FlushEvent(f) \in LifecycleEvents(id)
  BY FlushEventParts DEF LifecycleFrames, LifecycleEvents
<1> QED
  BY <1>1, <1>2 DEF Matched

\* What a step of the loop does to the waiting requests and to the awaited flushes.
LEMMA WaitingSteps ==
  ASSUME RunStep
  PROVE  \/ waiting' = waiting /\ awaitingFlush' \subseteq awaitingFlush
         \/ waiting' = <<>> /\ awaitingFlush' = awaitingFlush
         \/ \E r \in Requests :
              /\ waiting' = Append(waiting, r) /\ ~IdPresent(ReqId[r])
              /\ awaitingFlush' = awaitingFlush
         \/ \E r \in Requests :
              /\ waiting' = waiting /\ ~IdPresent(ReqId[r])
              /\ awaitingFlush' = awaitingFlush \cup {ReqId[r]}
         \/ /\ waiting # <<>> /\ waiting' = Tail(waiting)
            /\ awaitingFlush' = awaitingFlush \cup {ReqId[Head(waiting)]}
<1> USE DEF channels, current
<1>1. \/ StepPass \/ StepEndRequest \/ StepRefuseCall \/ StepSpawn \/ StepQueueResult
      \/ StepReleaseCall \/ StepLifecycleFlushed \/ StepShutdownFlushed \/ StepWrite
      \/ StepAck \/ StepComplete \/ StepAbort
      => waiting' = waiting /\ awaitingFlush' \subseteq awaitingFlush
  BY DEF StepPass, StepEndRequest, StepRefuseCall, StepSpawn, StepQueueResult,
         StepReleaseCall, StepLifecycleFlushed, StepShutdownFlushed, StepWrite, StepAck,
         StepComplete, StepAbort
<1>2. StepShutdown => waiting' = <<>> /\ awaitingFlush' = awaitingFlush
  BY DEF StepShutdown
<1>3. StepEnqueue => \E r \in Requests :
                       /\ waiting' = Append(waiting, r) /\ ~IdPresent(ReqId[r])
                       /\ awaitingFlush' = awaitingFlush
  BY DEF StepEnqueue
<1>4. StepDispatchNew => \E r \in Requests :
                           /\ waiting' = waiting /\ ~IdPresent(ReqId[r])
                           /\ awaitingFlush' = awaitingFlush \cup {ReqId[r]}
  BY DEF StepDispatchNew, Dispatches
<1>5. StepDispatchNext => /\ waiting # <<>> /\ waiting' = Tail(waiting)
                          /\ awaitingFlush' = awaitingFlush \cup {ReqId[Head(waiting)]}
  BY DEF StepDispatchNext, Dispatches
<1> QED
  BY <1>1, <1>2, <1>3, <1>4, <1>5 DEF RunStep

\* A refused id is in use nowhere.
LEMMA AbsentId ==
  ASSUME TypeOK, NEW id, ~IdPresent(id)
  PROVE  id \notin awaitingFlush /\ \A i \in DOMAIN waiting : ReqId[waiting[i]] # id
  BY DEF IdPresent, Outstanding, Elements

\* The ids stay fresh.
LEMMA FreshKept ==
  ASSUME TypeOK, FreshIds, RunStep
  PROVE  FreshIds'
<1>1. waiting \in Seq(Requests) /\ Len(waiting) \in Nat /\ DOMAIN waiting = 1 .. Len(waiting)
  BY LenProperties DEF TypeOK, TypeLife
<1>2. /\ \A i \in DOMAIN waiting : ReqId[waiting[i]] \notin awaitingFlush
      /\ \A i, j \in DOMAIN waiting : ReqId[waiting[i]] = ReqId[waiting[j]] => i = j
  BY DEF FreshIds, RunStep
<1> DEFINE Goal == /\ \A i \in DOMAIN waiting' : ReqId[waiting'[i]] \notin awaitingFlush'
                   /\ \A i, j \in DOMAIN waiting' :
                        ReqId[waiting'[i]] = ReqId[waiting'[j]] => i = j
<1>3. ASSUME waiting' = waiting /\ awaitingFlush' \subseteq awaitingFlush PROVE Goal
  BY <1>2, <1>3
<1>4. ASSUME waiting' = <<>> PROVE Goal
  BY <1>4
<1>5. ASSUME NEW r \in Requests, waiting' = Append(waiting, r), ~IdPresent(ReqId[r]),
             awaitingFlush' = awaitingFlush
      PROVE  Goal
  <2>1. ReqId[r] \notin awaitingFlush /\ \A i \in DOMAIN waiting : ReqId[waiting[i]] # ReqId[r]
    BY <1>5, AbsentId
  <2>2. /\ DOMAIN waiting' = 1 .. (Len(waiting) + 1)
        /\ \A i \in 1 .. Len(waiting) : waiting'[i] = waiting[i]
        /\ waiting'[Len(waiting) + 1] = r
    BY <1>1, <1>5, AppendProperties
  <2>3. \A i \in DOMAIN waiting' : i \in DOMAIN waiting \/ i = Len(waiting) + 1
    BY <1>1, <2>2
  <2> QED
    BY <1>1, <1>2, <1>5, <2>1, <2>2, <2>3
<1>6. ASSUME NEW r \in Requests, waiting' = waiting, ~IdPresent(ReqId[r]),
             awaitingFlush' = awaitingFlush \cup {ReqId[r]}
      PROVE  Goal
  <2>1. \A i \in DOMAIN waiting : ReqId[waiting[i]] # ReqId[r]
    BY <1>6, AbsentId
  <2> QED
    BY <1>2, <1>6, <2>1
<1>7. ASSUME waiting # <<>>, waiting' = Tail(waiting),
             awaitingFlush' = awaitingFlush \cup {ReqId[Head(waiting)]}
      PROVE  Goal
  <2>1. /\ Len(waiting) >= 1 /\ Head(waiting) = waiting[1]
        /\ DOMAIN waiting' = 1 .. (Len(waiting) - 1)
        /\ \A i \in 1 .. (Len(waiting) - 1) : waiting'[i] = waiting[i + 1]
    BY <1>1, <1>7
  <2>2. \A i \in DOMAIN waiting' : i + 1 \in DOMAIN waiting /\ i + 1 # 1
    BY <1>1, <2>1
  <2>3. 1 \in DOMAIN waiting
    BY <1>1, <2>1
  <2>4. \A i \in DOMAIN waiting' : ReqId[waiting'[i]] \notin awaitingFlush'
    BY <1>2, <1>7, <2>1, <2>2, <2>3
  <2>5. \A i, j \in DOMAIN waiting' : ReqId[waiting'[i]] = ReqId[waiting'[j]] => i + 1 = j + 1
    BY <1>2, <2>1, <2>2
  <2>6. \A i, j \in DOMAIN waiting' : i + 1 = j + 1 => i = j
    BY <2>1
  <2> QED
    BY <2>4, <2>5, <2>6
<1>8. Goal
  BY <1>3, <1>4, <1>5, <1>6, <1>7, WaitingSteps
<1> QED
  BY <1>8 DEF FreshIds

\* The flushes owed when no token of the id moves.
LEMMA OwedUnmoved ==
  ASSUME NEW id \in Ids, FlushOwed(id), FlushCount(id)' = FlushCount(id),
         awaitingFlush' = awaitingFlush, WriterHealthy' => WriterHealthy
  PROVE  FlushOwed(id)'
  BY DEF FlushOwed, Unit

\* A frame that belongs to no lifecycle request moves no such token.
LEMMA OtherFrameSent ==
  ASSUME TypeOK, NEW id \in Ids, NEW f \in WriterMsg, f.t # "lifecycle",
         writerQ' = Append(writerQ, f), rpcQ' = rpcQ, ack' = ack
  PROVE  FlushCount(id)' = FlushCount(id)
<1>1. Unit(f \in LifecycleFrames(id)) = 0
  BY DEF LifecycleFrames, Unit
<1>2. FlushCount(id)' = FlushCount(id) + Unit(f \in LifecycleFrames(id))
  BY TokensSend DEF FlushCount
<1>3. FlushCount(id) \in Nat
  BY TokenTypes DEF FlushCount
<1> QED
  BY <1>1, <1>2, <1>3

\* Nor does taking an event that is no lifecycle flush.
LEMMA OtherEventTaken ==
  ASSUME TypeOK, NEW id \in Ids, rpcQ # <<>>, Head(rpcQ) \notin LifecycleEvents(id),
         rpcQ' = Tail(rpcQ), writerQ' = writerQ, ack' = ack
  PROVE  FlushCount(id)' = FlushCount(id)
<1>1. Unit(Head(rpcQ) \in LifecycleEvents(id)) = 0
  BY DEF Unit
<1>2. /\ FlushCount(id) = FlushCount(id)' + Unit(Head(rpcQ) \in LifecycleEvents(id))
      /\ FlushCount(id)' \in Nat
  BY TokensTake DEF FlushCount
<1> QED
  BY <1>1, <1>2

\* dispatch_lifecycle of a fresh id makes its flush owed.
LEMMA OwedDispatched ==
  ASSUME TypeOK, NEW r \in Requests, ReqId[r] \notin awaitingFlush, Dispatches(r),
         NEW id \in Ids, FlushOwed(id)
  PROVE  FlushOwed(id)'
<1> DEFINE f == Msg("lifecycle", ReqId[r], "")
<1>1. ReqId[r] \in Ids /\ f \in WriterMsg
  BY ConstantsAssumption, BuiltMessages DEF ConstantsAssumption
<1>2. f.t = "lifecycle" /\ f.x = ReqId[r]
  BY DEF Msg
<1>3. f \in LifecycleFrames(id) <=> id = ReqId[r]
  BY <1>1, <1>2 DEF LifecycleFrames
<1> HIDE DEF f
<1>4. /\ writerQ' = Append(writerQ, f) /\ rpcQ' = rpcQ /\ ack' = ack /\ writerOpen' = writerOpen
      /\ awaitingFlush' = awaitingFlush \cup {ReqId[r]}
  BY DEF Dispatches, f
<1>5. FlushCount(id)' = FlushCount(id) + Unit(f \in LifecycleFrames(id))
  BY <1>1, <1>4, TokensSend DEF FlushCount
<1>6. FlushCount(id) \in Nat
  BY TokenTypes DEF FlushCount
<1>7. WriterHealthy' = WriterHealthy
  BY <1>4 DEF WriterHealthy, WriterFailed
<1>8. CASE id = ReqId[r]
  <2>1. FlushCount(id) = 0
    BY <1>6, <1>8 DEF FlushOwed, Unit
  <2>2. FlushCount(id)' = 1 /\ id \in awaitingFlush'
    BY <1>3, <1>4, <1>5, <1>8, <2>1 DEF Unit
  <2> QED
    BY <2>2 DEF FlushOwed, Unit
<1>9. CASE id # ReqId[r]
  <2>1. FlushCount(id)' = FlushCount(id) /\ (id \in awaitingFlush' <=> id \in awaitingFlush)
    BY <1>3, <1>4, <1>5, <1>6, <1>9 DEF Unit
  <2> QED
    BY <1>7, <2>1 DEF FlushOwed, Unit
<1> QED
  BY <1>8, <1>9

\* handle_lifecycle_flushed uses up the one token of the flush it takes.
LEMMA OwedFlushed ==
  ASSUME TypeOK, StepLifecycleFlushed, NEW id \in Ids, FlushOwed(id)
  PROVE  FlushOwed(id)'
<1>1. PICK x \in Ids :
        /\ rpcQ # <<>> /\ rpcQ' = Tail(rpcQ)
        /\ Head(rpcQ).t = "lifecycle_flushed" /\ Head(rpcQ).x = x
        /\ x \in awaitingFlush /\ awaitingFlush' = awaitingFlush \ {x}
        /\ writerQ' = writerQ /\ ack' = ack /\ writerOpen' = writerOpen
  BY DEF StepLifecycleFlushed
<1>2. Head(rpcQ) \in ActorMsg /\ Head(rpcQ).t = "lifecycle_flushed" /\ Head(rpcQ).x = x
  <2>1. rpcQ \in Seq(ActorMsg)
    BY DEF TypeOK, TypeWriter
  <2>2. Head(rpcQ) \in ActorMsg
    BY <1>1, <2>1, HeadTailType
  <2> QED
    BY <1>1, <2>2
<1>3. Head(rpcQ) \in LifecycleEvents(id) <=> id = x
  BY <1>2 DEF LifecycleEvents
<1>4. /\ FlushCount(id) = FlushCount(id)' + Unit(Head(rpcQ) \in LifecycleEvents(id))
      /\ FlushCount(id)' \in Nat
  BY <1>1, TokensTake DEF FlushCount
<1>5. WriterHealthy' = WriterHealthy
  BY <1>1 DEF WriterHealthy, WriterFailed
<1>8. id \in awaitingFlush' <=> (id \in awaitingFlush /\ id # x)
  BY <1>1
<1>6. CASE id = x
  <2>1. FlushCount(id) <= 1 /\ FlushCount(id) = FlushCount(id)' + 1
    BY <1>3, <1>4, <1>6 DEF FlushOwed, Unit
  <2>2. FlushCount(id)' = 0 /\ id \notin awaitingFlush'
    BY <1>4, <1>6, <1>8, <2>1
  <2> QED
    BY <2>2 DEF FlushOwed, Unit
<1>7. CASE id # x
  <2>1. FlushCount(id)' = FlushCount(id) /\ (id \in awaitingFlush' <=> id \in awaitingFlush)
    BY <1>3, <1>4, <1>7, <1>8 DEF Unit
  <2> QED
    BY <1>5, <2>1 DEF FlushOwed, Unit
<1> QED
  BY <1>6, <1>7

\* The writer moves tokens along, and loses one only by failing.
LEMMA OwedWriter ==
  ASSUME TypeOK, StepWrite \/ StepAck, ack # NoId => writerOpen, NEW id \in Ids, FlushOwed(id)
  PROVE  FlushOwed(id)'
<1>1. Matched(LifecycleFrames(id), LifecycleEvents(id)) /\ NoId \notin LifecycleEvents(id)
  BY LifecycleMatched
<1>2. /\ FlushCount(id)' \in Nat /\ FlushCount(id)' <= FlushCount(id)
      /\ WriterHealthy' => WriterHealthy /\ FlushCount(id)' = FlushCount(id)
  <2>1. CASE StepWrite
    <3>1. writerOpen' = writerOpen /\ ack = NoId
      BY <2>1 DEF StepWrite
    <3>2. ack # WriterFailed
      BY <3>1, BuiltMessages
    <3>3. /\ FlushCount(id)' \in Nat /\ FlushCount(id)' <= FlushCount(id)
          /\ ack' # WriterFailed => FlushCount(id)' = FlushCount(id)
      BY <1>1, <2>1, TokensWrite DEF FlushCount
    <3>4. WriterHealthy' => ack' # WriterFailed /\ writerOpen'
      BY DEF WriterHealthy, WriterFailed
    <3> QED
      BY <3>1, <3>2, <3>3, <3>4 DEF WriterHealthy
  <2>2. CASE StepAck
    <3>1. ack # NoId /\ writerOpen' = (ack.t # "writer_failed")
      BY <2>2 DEF StepAck
    <3>2. writerOpen' => ack # WriterFailed
      BY <3>1, BuiltMessages
    <3>3. /\ FlushCount(id)' \in Nat /\ FlushCount(id)' <= FlushCount(id)
          /\ writerOpen' => FlushCount(id)' = FlushCount(id)
      BY <1>1, <2>2, TokensAck DEF FlushCount
    <3> QED
      BY <3>1, <3>2, <3>3 DEF WriterHealthy
  <2> QED
    BY <2>1, <2>2
<1>3. awaitingFlush' = awaitingFlush
  BY DEF StepWrite, StepAck
<1>4. FlushCount(id) \in Nat
  BY TokenTypes DEF FlushCount
<1> QED
  BY <1>2, <1>3, <1>4 DEF FlushOwed, Unit

\* Calls move no lifecycle token either.
LEMMA OwedCalls ==
  ASSUME TypeOK, NEW id \in Ids,
         \/ StepRefuseCall \/ StepQueueResult \/ StepReleaseCall \/ StepShutdownFlushed
         \/ StepComplete \/ StepShutdown
  PROVE  /\ FlushCount(id)' = FlushCount(id)
         /\ UNCHANGED <<awaitingFlush, ack, writerOpen>>
<1>0. /\ rpcQ \in Seq(ActorMsg) /\ workers \in [Calls -> {"none", "rpc", "host"}]
      /\ FlushCount(id) \in Nat
  BY TokenTypes DEF TypeOK, TypeWriter, TypeCalls, FlushCount
<1>1. CASE StepShutdown
  <2>1. Msg("shutdown", NoId, "") \in WriterMsg /\ Msg("shutdown", NoId, "").t # "lifecycle"
    BY BuiltMessages DEF Msg
  <2> QED
    BY <1>1, <2>1, OtherFrameSent DEF StepShutdown
<1>2. CASE StepRefuseCall
  <2>1. PICK c \in Calls, f \in WriterMsg :
          /\ f \in Results(c) /\ writerQ' = Append(writerQ, f)
          /\ UNCHANGED <<awaitingFlush, writerOpen, ack, rpcQ>>
    BY <1>2 DEF StepRefuseCall
  <2>2. f.t # "lifecycle"
    BY <2>1 DEF Results
  <2> QED
    BY <2>1, <2>2, OtherFrameSent
<1>3. CASE StepQueueResult
  <2>1. PICK c \in Calls, f \in WriterMsg :
          /\ rpcQ # <<>> /\ Head(rpcQ) \in Completions(c) /\ rpcQ' = Tail(rpcQ)
          /\ f \in Results(c) /\ writerQ' = Append(writerQ, f)
          /\ UNCHANGED <<awaitingFlush, writerOpen, ack>>
    BY <1>3 DEF StepQueueResult
  <2>2. /\ Unit(f \in LifecycleFrames(id)) = 0
        /\ Unit(Head(rpcQ) \in LifecycleEvents(id)) = 0
    BY <2>1 DEF Results, Completions, LifecycleFrames, LifecycleEvents, Unit
  <2>3. /\ FlushCount(id) + Unit(f \in LifecycleFrames(id))
             = FlushCount(id)' + Unit(Head(rpcQ) \in LifecycleEvents(id))
        /\ FlushCount(id)' \in Nat
    BY <2>1, TokensExchange DEF FlushCount
  <2> QED
    BY <1>0, <2>1, <2>2, <2>3
<1>4. CASE StepReleaseCall
  <2>1. PICK c \in Calls :
          /\ rpcQ # <<>> /\ Head(rpcQ) \in CallEvents(c) /\ rpcQ' = Tail(rpcQ)
          /\ UNCHANGED <<awaitingFlush, writerQ, writerOpen, ack>>
    BY <1>4 DEF StepReleaseCall
  <2>2. Head(rpcQ) \notin LifecycleEvents(id)
    BY <2>1 DEF CallEvents, LifecycleEvents
  <2> QED
    BY <2>1, <2>2, OtherEventTaken
<1>5. CASE StepShutdownFlushed
  <2>1. /\ rpcQ # <<>> /\ Head(rpcQ).t = "shutdown_flushed" /\ rpcQ' = Tail(rpcQ)
        /\ UNCHANGED <<awaitingFlush, writerQ, writerOpen, ack>>
    BY <1>5 DEF StepShutdownFlushed
  <2>2. Head(rpcQ) \notin LifecycleEvents(id)
    BY <2>1 DEF LifecycleEvents
  <2> QED
    BY <2>1, <2>2, OtherEventTaken
<1>6. CASE StepComplete
  <2>1. PICK c \in Calls :
          /\ workers[c] # "none" /\ rpcQ' = Append(rpcQ, Completion(workers[c], c))
          /\ UNCHANGED <<awaitingFlush, writerQ, writerOpen, ack>>
    BY <1>6 DEF StepComplete
  <2>2. workers[c] \in {"rpc", "host"}
    BY <1>0, <2>1
  <2>3. /\ Completion(workers[c], c) \in ActorMsg
        /\ Completion(workers[c], c).t \in {"rpc_complete", "host_complete"}
    BY <2>2, BuiltMessages
  <2>4. Unit(Completion(workers[c], c) \in LifecycleEvents(id)) = 0
    BY <2>3 DEF LifecycleEvents, Unit
  <2>5. FlushCount(id)' = FlushCount(id) + Unit(Completion(workers[c], c) \in LifecycleEvents(id))
    BY <2>1, <2>3, TokensComplete DEF FlushCount
  <2> QED
    BY <1>0, <2>1, <2>4, <2>5
<1> QED
  BY <1>1, <1>2, <1>3, <1>4, <1>5, <1>6

\* The flushes owed stay in balance.
LEMMA FlushKept ==
  ASSUME TypeOK, FreshIds, FlushInv, RunStep
  PROVE  FlushInv'
<1>0. RunPhase /\ (ack # NoId => writerOpen) /\ \A id \in Ids : FlushOwed(id)
  BY DEF FlushInv, RunStep
<1> DEFINE Goal == (ack' # NoId => writerOpen') /\ \A id \in Ids : FlushOwed(id)'
<1>1. ASSUME StepPass \/ StepEnqueue \/ StepEndRequest \/ StepSpawn \/ StepAbort PROVE Goal
  <2>1. UNCHANGED <<writerQ, rpcQ, ack, writerOpen, awaitingFlush>>
    BY <1>1 DEF StepPass, StepEnqueue, StepEndRequest, StepSpawn, StepAbort, channels
  <2>2. \A id \in Ids : FlushCount(id)' = FlushCount(id)
    BY <2>1 DEF FlushCount, TokenCount
  <2>3. WriterHealthy' = WriterHealthy
    BY <2>1 DEF WriterHealthy, WriterFailed
  <2> QED
    BY <1>0, <2>1, <2>2, <2>3, OwedUnmoved
<1>2. ASSUME NEW r \in Requests, Dispatches(r), ReqId[r] \notin awaitingFlush PROVE Goal
  <2>1. UNCHANGED <<ack, writerOpen>>
    BY <1>2 DEF Dispatches
  <2> QED
    BY <1>0, <1>2, <2>1, OwedDispatched
<1>3. ASSUME StepDispatchNew PROVE Goal
  <2>1. PICK r \in Requests : ~IdPresent(ReqId[r]) /\ Dispatches(r)
    BY <1>3 DEF StepDispatchNew
  <2> QED
    BY <1>2, <2>1, AbsentId
<1>4. ASSUME StepDispatchNext PROVE Goal
  <2>1. waiting \in Seq(Requests) /\ waiting # <<>> /\ Dispatches(Head(waiting))
    BY <1>4 DEF StepDispatchNext, TypeOK, TypeLife
  <2>2. Head(waiting) \in Requests /\ Head(waiting) = waiting[1] /\ 1 \in DOMAIN waiting
    BY <2>1
  <2>3. ReqId[Head(waiting)] \notin awaitingFlush
    BY <1>0, <2>2 DEF FreshIds
  <2> QED
    BY <1>2, <2>1, <2>2, <2>3
<1>5. ASSUME \/ StepRefuseCall \/ StepQueueResult \/ StepReleaseCall \/ StepShutdownFlushed
             \/ StepComplete \/ StepShutdown
      PROVE  Goal
  <2>1. \A id \in Ids : /\ FlushCount(id)' = FlushCount(id)
                        /\ UNCHANGED <<awaitingFlush, ack, writerOpen>>
    BY <1>5, OwedCalls
  <2>2. UNCHANGED <<ack, writerOpen>>
    BY <1>5 DEF StepRefuseCall, StepQueueResult, StepReleaseCall, StepShutdownFlushed,
                StepComplete, StepShutdown
  <2>3. WriterHealthy' = WriterHealthy
    BY <2>2 DEF WriterHealthy, WriterFailed
  <2> QED
    BY <1>0, <2>1, <2>2, <2>3, OwedUnmoved
<1>6. ASSUME StepLifecycleFlushed PROVE Goal
  <2>1. UNCHANGED <<ack, writerOpen>>
    BY <1>6 DEF StepLifecycleFlushed
  <2> QED
    BY <1>0, <1>6, <2>1, OwedFlushed
<1>7. ASSUME StepWrite \/ StepAck PROVE Goal
  <2>1. \/ writerOpen /\ writerOpen' = writerOpen
        \/ ack' = NoId
    BY <1>7 DEF StepWrite, StepAck
  <2> QED
    BY <1>0, <1>7, <2>1, OwedWriter
<1>8. Goal
  BY <1>1, <1>3, <1>4, <1>5, <1>6, <1>7 DEF RunStep
<1> QED
  BY <1>8 DEF FlushInv

\* A deadline runs only for a request whose frame was written.
DeadlineInv ==
  deadline => /\ RunPhase /\ inFlight # NoId
              /\ \E f \in Elements(inbox) : f \in LifecycleFrames(ReqId[inFlight])

\* A lifecycle flush in the supervisor's queue is that of a written frame.
LEMMA FlushedFrameWritten ==
  ASSUME TypeOK, RunPhase, FlushedInv, NEW e \in Elements(rpcQ), e.t = "lifecycle_flushed"
  PROVE  \E f \in Elements(inbox) : f \in LifecycleFrames(e.x)
<1>1. rpcQ \in Seq(ActorMsg)
  BY DEF TypeOK, TypeWriter
<1>2. e \in ActorMsg
  BY <1>1 DEF Elements
<1>3. PICK f \in Elements(inbox) : f \in WriterMsg /\ e = FlushEvent(f)
  BY <1>2 DEF FlushedInv, Events, Flushes
<1>4. f.t = "lifecycle" /\ f.x = e.x
  BY <1>3, FlushEventParts
<1> QED
  BY <1>3, <1>4 DEF LifecycleFrames

\* What a step of the loop does to the deadline.
LEMMA DeadlineSteps ==
  ASSUME TypeOK, RunStep
  PROVE  \/ deadline' = FALSE
         \/ deadline' = deadline /\ inFlight' = inFlight
         \/ StepLifecycleFlushed
<1> USE DEF channels, current
<1>1. StepDispatchNew \/ StepDispatchNext \/ StepEndRequest \/ StepShutdown => deadline' = FALSE
  BY DEF StepDispatchNew, StepDispatchNext, StepEndRequest, StepShutdown, Dispatches
<1>2. \/ StepPass \/ StepEnqueue \/ StepRefuseCall \/ StepSpawn \/ StepQueueResult
      \/ StepReleaseCall \/ StepShutdownFlushed \/ StepWrite \/ StepAck \/ StepComplete
      \/ StepAbort
      => deadline' = deadline /\ inFlight' = inFlight
  BY DEF StepPass, StepEnqueue, StepRefuseCall, StepSpawn, StepQueueResult,
         StepReleaseCall, StepShutdownFlushed, StepWrite, StepAck, StepComplete, StepAbort
<1> QED
  BY <1>1, <1>2 DEF RunStep

\* Deadlines stay with written requests.
LEMMA DeadlineKept ==
  ASSUME TypeOK, FlushedInv, DeadlineInv, RunStep \/ EndStep
  PROVE  DeadlineInv'
<1>1. CASE EndStep
  <2>1. deadline' = FALSE \/ (~RunPhase /\ deadline' = deadline)
    BY <1>1 DEF EndStep
  <2>2. ~RunPhase => ~deadline
    BY DEF DeadlineInv
  <2> QED
    BY <2>1, <2>2 DEF DeadlineInv
<1>2. CASE RunStep
  <2>0. RunPhase /\ phase' = "run" /\ Elements(inbox) \subseteq Elements(inbox')
    BY <1>2, InboxGrows DEF RunStep
  <2>1. CASE deadline' = FALSE
    BY <2>1 DEF DeadlineInv
  <2>2. CASE deadline' = deadline /\ inFlight' = inFlight
    BY <2>0, <2>2 DEF DeadlineInv, RunPhase
  <2>3. CASE StepLifecycleFlushed
    <3>1. PICK id \in Ids :
            /\ rpcQ # <<>> /\ Head(rpcQ).t = "lifecycle_flushed" /\ Head(rpcQ).x = id
            /\ deadline' = (deadline \/ InFlightId(id)) /\ inFlight' = inFlight
      BY <2>3 DEF StepLifecycleFlushed
    <3>2. Head(rpcQ) \in Elements(rpcQ)
      BY <3>1, ElementsTail DEF TypeOK, TypeWriter
    <3>3. \E f \in Elements(inbox) : f \in LifecycleFrames(id)
      BY <2>0, <3>1, <3>2, FlushedFrameWritten
    <3>4. InFlightId(id) => inFlight # NoId /\ ReqId[inFlight] = id
      BY DEF InFlightId
    <3>5. CASE deadline
      BY <2>0, <3>1, <3>5 DEF DeadlineInv, RunPhase
    <3>6. CASE InFlightId(id)
      BY <2>0, <3>1, <3>3, <3>4, <3>6 DEF DeadlineInv, RunPhase
    <3>7. CASE ~deadline /\ ~InFlightId(id)
      BY <3>1, <3>7 DEF DeadlineInv
    <3> QED
      BY <3>5, <3>6, <3>7
  <2> QED
    BY <1>2, <2>1, <2>2, <2>3, DeadlineSteps
<1> QED
  BY <1>1, <1>2

-----------------------------------------------------------------------------
(* The flush discipline.                                                    *)

\* The inductive invariant of the lifecycle frames and their flushes.
LifecycleInv == TypeOK /\ FreshIds /\ FlushInv /\ FlushedInv /\ DeadlineInv

\* It holds at the start.
LEMMA InitLifecycle == Init => LifecycleInv
<1> SUFFICES ASSUME Init PROVE LifecycleInv
  OBVIOUS
<1>1. TypeOK
  BY InitTypeOK
<1>2. /\ writerQ = <<>> /\ rpcQ = <<>> /\ ack = NoId /\ awaitingFlush = {} /\ waiting = <<>>
      /\ deadline = FALSE
  BY DEF Init
<1>3. FreshIds
  BY <1>2 DEF FreshIds
<1>4. FlushInv
  <2>1. ASSUME NEW id \in Ids PROVE FlushCount(id) = 0
    <3>1. ack \notin LifecycleEvents(id)
      BY <1>2, LifecycleMatched
    <3> QED
      BY <1>2, <3>1, CountEmpty DEF FlushCount, TokenCount, Unit
  <2> QED
    BY <1>2, <2>1 DEF FlushInv, FlushOwed, Unit
<1>5. FlushedInv
  <2>1. Events = {NoId}
    BY <1>2 DEF Events, Elements
  <2> QED
    BY <2>1, BuiltMessages DEF FlushedInv
<1>6. DeadlineInv
  BY <1>2 DEF DeadlineInv
<1> QED
  BY <1>1, <1>3, <1>4, <1>5, <1>6 DEF LifecycleInv

\* Every step preserves it.
LEMMA NextLifecycle == LifecycleInv /\ [Next]_vars => LifecycleInv'
<1> SUFFICES ASSUME LifecycleInv, [Next]_vars PROVE LifecycleInv'
  OBVIOUS
<1>0. TypeOK /\ FreshIds /\ FlushInv /\ FlushedInv /\ DeadlineInv
  BY DEF LifecycleInv
<1>1. TypeOK'
  BY <1>0, NextTypeOK
<1>2. RunStep \/ EndStep
  BY <1>0, StepKinds
<1>3. DeadlineInv'
  BY <1>0, <1>2, DeadlineKept
<1>4. FreshIds' /\ FlushInv' /\ FlushedInv'
  <2>1. CASE RunStep
    BY <1>0, <2>1, FreshKept, FlushKept, FlushedKept
  <2>2. CASE EndStep
    BY <2>2 DEF EndStep, FreshIds, FlushInv, FlushedInv, RunPhase
  <2> QED
    BY <1>2, <2>1, <2>2
<1> QED
  BY <1>1, <1>3, <1>4 DEF LifecycleInv

\* So it always holds.
LEMMA LifecycleAlways == Spec => []LifecycleInv
  BY InitLifecycle, NextLifecycle, PTL DEF Spec

\* The counts of the checked property are those of the tokens.
LEMMA FlushTokensCounted ==
  ASSUME TypeOK, NEW id \in Ids
  PROVE  FlushCount(id) =
           Cardinality({i \in FlushTokens.frames : writerQ[i].x = id})
           + Cardinality({i \in FlushTokens.events : rpcQ[i].x = id})
           + (IF ack = Msg("lifecycle_flushed", id, "") THEN 1 ELSE 0)
<1>1. /\ \A i \in DOMAIN writerQ : writerQ[i] \in WriterMsg
      /\ \A i \in DOMAIN rpcQ : rpcQ[i] \in ActorMsg
      /\ ack \in ActorMsg \cup {NoId}
  BY DEF TypeOK, TypeWriter
<1>2. {i \in FlushTokens.frames : writerQ[i].x = id} = PositionsOf(writerQ, LifecycleFrames(id))
  BY <1>1 DEF FlushTokens, PositionsOf, LifecycleFrames
<1>3. {i \in FlushTokens.events : rpcQ[i].x = id} = PositionsOf(rpcQ, LifecycleEvents(id))
  BY <1>1 DEF FlushTokens, PositionsOf, LifecycleEvents
<1>4. ack = Msg("lifecycle_flushed", id, "") <=> ack \in LifecycleEvents(id)
  <2>1. Msg("lifecycle_flushed", id, "") \in LifecycleEvents(id)
    BY DEF LifecycleEvents, Msg, ActorMsg
  <2>2. ASSUME NEW e \in LifecycleEvents(id) PROVE e = Msg("lifecycle_flushed", id, "")
    <3>1. e \in [t : {"lifecycle_flushed"}, x : Ids, m : {""}]
      BY DEF LifecycleEvents, ActorMsg
    <3>2. e.t = "lifecycle_flushed" /\ e.x = id /\ e.m = ""
      BY <3>1 DEF LifecycleEvents
    <3> QED
      BY <3>1, <3>2 DEF Msg
  <2> QED
    BY <2>1, <2>2
<1> QED
  BY <1>2, <1>3, <1>4 DEF FlushCount, TokenCount, CountOf, Unit

\* The response deadline runs only for a request that reached the module, and
\* every flush that can still arrive is expected exactly once, whatever the ids,
\* the queue bounds and the order in which writer and supervisor run
\* (handle_lifecycle_flushed, dispatch_lifecycle, write_stdin).
THEOREM FlushesAreDisciplined == Spec => []FlushDiscipline
<1>1. LifecycleInv => FlushDiscipline
  <2> SUFFICES ASSUME LifecycleInv PROVE FlushDiscipline
    OBVIOUS
  <2>0. TypeOK /\ FlushInv /\ DeadlineInv
    BY DEF LifecycleInv
  <2>1. DeadlineOnlyAfterFlush
    <3>1. ASSUME deadline
          PROVE  inFlight # NoId /\ \E i \in DOMAIN inbox :
                   inbox[i].t = "lifecycle" /\ inbox[i].x = ReqId[inFlight]
      BY <2>0, <3>1 DEF DeadlineInv, Elements, LifecycleFrames
    <3> QED
      BY <3>1 DEF DeadlineOnlyAfterFlush
  <2>2. FlushAcksExpected
    <3>1. RunPhase => \A id \in Ids : FlushOwed(id)
      BY <2>0 DEF FlushInv
    <3> QED
      BY <2>0, <3>1, FlushTokensCounted
      DEF FlushAcksExpected, FlushOwed, WriterHealthy, WriterFailed, Unit
  <2> QED
    BY <2>1, <2>2 DEF FlushDiscipline
<1> QED
  BY <1>1, LifecycleAlways, PTL

-----------------------------------------------------------------------------
(* Calls: a worker, its completion, the result and its flush are the one    *)
(* token of an accepted call.                                               *)

CallTokens(c) == TokenCount(Results(c), CallEvents(c))
CallCount(c) == CallTokens(c) + Running(c)
Busy == {c \in Calls : workers[c] # "none"}

\* Only a reserved call_id has a token, and at most one.
CallReserved(c) == CallCount(c) <= Unit(c \in activeCalls)

CallInv ==
  RunPhase => IsFiniteSet(activeCalls) /\ \A c \in Calls : CallReserved(c)

\* The result frames of a call and their flushes correspond.
LEMMA CallMatched ==
  ASSUME NEW c
  PROVE  Matched(Results(c), CallEvents(c)) /\ NoId \notin CallEvents(c)
<1>1. WriterFailed \notin CallEvents(c) /\ NoId \notin CallEvents(c)
  BY BuiltMessages DEF CallEvents
<1>2. ASSUME NEW f \in WriterMsg PROVE f \in Results(c) <=> FlushEvent(f) \in CallEvents(c)
  BY FlushEventParts DEF Results, CallEvents
<1> QED
  BY <1>1, <1>2 DEF Matched

\* The counts are numbers.
LEMMA CallTypes ==
  ASSUME TypeOK, NEW c \in Calls
  PROVE  CallTokens(c) \in Nat /\ Running(c) \in {0, 1} /\ CallCount(c) \in Nat
<1>1. CallTokens(c) \in Nat
  BY TokenTypes DEF CallTokens
<1> QED
  BY <1>1 DEF Running, CallCount

\* A call whose token does not move stays reserved as it was.
LEMMA ReservedUnmoved ==
  ASSUME TypeOK, NEW c \in Calls, CallReserved(c), CallTokens(c)' \in Nat,
         CallTokens(c)' <= CallTokens(c), workers'[c] \in {workers[c], "none"},
         c \in activeCalls => c \in activeCalls'
  PROVE  CallReserved(c)'
<1>1. CallTokens(c) \in Nat /\ Running(c) \in {0, 1}
  BY CallTypes
<1>2. Running(c)' \in {0, 1} /\ Running(c)' <= Running(c)
  BY DEF Running
<1>3. CallTokens(c) + Running(c) <= Unit(c \in activeCalls)
  BY DEF CallReserved, CallCount
<1>4. CallTokens(c)' + Running(c)' <= CallTokens(c) + Running(c)
  BY <1>1, <1>2
<1>5. Unit(c \in activeCalls) <= Unit(c \in activeCalls')
  BY DEF Unit
<1>6. CallTokens(c)' + Running(c)' <= Unit(c \in activeCalls')
  BY <1>1, <1>2, <1>3, <1>4, <1>5 DEF Unit
<1> QED
  BY <1>6 DEF CallReserved, CallCount

\* Lifecycle frames, their flushes and the shutdown move no call token.
LEMMA CallsLifecycle ==
  ASSUME TypeOK, NEW c \in Calls,
         \/ StepPass \/ StepEnqueue \/ StepDispatchNew \/ StepDispatchNext \/ StepEndRequest
         \/ StepShutdown \/ StepLifecycleFlushed \/ StepShutdownFlushed
  PROVE  CallTokens(c)' = CallTokens(c) /\ UNCHANGED <<workers, activeCalls>>
<1>0. CallTokens(c) \in Nat
  BY CallTypes
<1>1. CASE StepPass \/ StepEnqueue \/ StepEndRequest
  BY <1>1 DEF StepPass, StepEnqueue, StepEndRequest, channels, CallTokens, TokenCount
<1>2. ASSUME NEW f \in WriterMsg, f.t \in {"lifecycle", "shutdown"},
             writerQ' = Append(writerQ, f), rpcQ' = rpcQ, ack' = ack
      PROVE  CallTokens(c)' = CallTokens(c)
  <2>1. Unit(f \in Results(c)) = 0
    BY <1>2 DEF Results, Unit
  <2>2. CallTokens(c)' = CallTokens(c) + Unit(f \in Results(c))
    BY <1>2, TokensSend DEF CallTokens
  <2> QED
    BY <1>0, <2>1, <2>2
<1>3. CASE StepShutdown
  <2>1. /\ Msg("shutdown", NoId, "") \in WriterMsg
        /\ Msg("shutdown", NoId, "").t \in {"lifecycle", "shutdown"}
    BY BuiltMessages DEF Msg
  <2> QED
    BY <1>2, <1>3, <2>1 DEF StepShutdown
<1>4. CASE StepDispatchNew \/ StepDispatchNext
  <2>1. waiting # <<>> => Head(waiting) \in Requests
    BY HeadTailType DEF TypeOK, TypeLife
  <2>2. PICK r \in Requests : Dispatches(r)
    BY <1>4, <2>1 DEF StepDispatchNew, StepDispatchNext
  <2>3. ReqId[r] \in Ids
    BY ConstantsAssumption DEF ConstantsAssumption
  <2>4. /\ Msg("lifecycle", ReqId[r], "") \in WriterMsg
        /\ Msg("lifecycle", ReqId[r], "").t \in {"lifecycle", "shutdown"}
    BY <2>3, BuiltMessages DEF Msg
  <2> QED
    BY <1>2, <2>2, <2>4 DEF Dispatches
<1>5. CASE StepLifecycleFlushed \/ StepShutdownFlushed
  <2>1. /\ rpcQ # <<>> /\ rpcQ' = Tail(rpcQ) /\ writerQ' = writerQ /\ ack' = ack
        /\ Head(rpcQ).t \in {"lifecycle_flushed", "shutdown_flushed"}
        /\ UNCHANGED <<workers, activeCalls>>
    BY <1>5 DEF StepLifecycleFlushed, StepShutdownFlushed
  <2>2. Unit(Head(rpcQ) \in CallEvents(c)) = 0
    BY <2>1 DEF CallEvents, Unit
  <2>3. /\ CallTokens(c) = CallTokens(c)' + Unit(Head(rpcQ) \in CallEvents(c))
        /\ CallTokens(c)' \in Nat
    BY <2>1, TokensTake DEF CallTokens
  <2> QED
    BY <2>1, <2>2, <2>3
<1> QED
  BY <1>1, <1>3, <1>4, <1>5

\* An accepted call gets its token when its id is reserved.
LEMMA ReservedAccepted ==
  ASSUME TypeOK, StepRefuseCall \/ StepSpawn, NEW d \in Calls, CallReserved(d)
  PROVE  CallReserved(d)'
<1>0. CallTokens(d) \in Nat /\ Running(d) \in {0, 1}
  BY CallTypes
<1>1. CASE StepRefuseCall
  <2>1. PICK c \in Calls, f \in WriterMsg :
          /\ c \notin activeCalls /\ activeCalls' = activeCalls \cup {c}
          /\ f \in Results(c) /\ writerQ' = Append(writerQ, f)
          /\ UNCHANGED <<ack, rpcQ, workers>>
    BY <1>1 DEF StepRefuseCall
  <2>2. f \in Results(d) <=> c = d
    BY <2>1 DEF Results
  <2>3. CallTokens(d)' = CallTokens(d) + Unit(f \in Results(d))
    BY <2>1, TokensSend DEF CallTokens
  <2>4. CASE c = d
    <3>1. CallTokens(d) = 0 /\ Running(d) = 0
      BY <1>0, <2>1, <2>4 DEF CallReserved, CallCount, Unit
    <3>2. CallTokens(d)' = 1 /\ Running(d)' = 0
      BY <2>1, <2>2, <2>3, <2>4, <3>1 DEF Unit, Running
    <3>3. d \in activeCalls'
      BY <2>1, <2>4
    <3> QED
      BY <3>2, <3>3 DEF CallReserved, CallCount, Unit
  <2>5. CASE c # d
    <3>1. CallTokens(d)' = CallTokens(d)
      BY <1>0, <2>2, <2>3, <2>5 DEF Unit
    <3> QED
      BY <1>0, <2>1, <3>1, ReservedUnmoved
  <2> QED
    BY <2>4, <2>5
<1>2. CASE StepSpawn
  <2>1. PICK c \in Calls, kind \in {"rpc", "host"} :
          /\ c \notin activeCalls /\ activeCalls' = activeCalls \cup {c}
          /\ workers' = [workers EXCEPT ![c] = kind]
          /\ UNCHANGED <<writerQ, ack, rpcQ>>
    BY <1>2 DEF StepSpawn
  <2>2. CallTokens(d)' = CallTokens(d)
    BY <2>1 DEF CallTokens, TokenCount
  <2>3. CASE c = d
    <3>1. CallTokens(d) = 0
      BY <1>0, <2>1, <2>3 DEF CallReserved, CallCount, Unit
    <3>2. Running(d)' \in {0, 1}
      BY DEF Running
    <3>3. d \in activeCalls'
      BY <2>1, <2>3
    <3> QED
      BY <2>2, <3>1, <3>2, <3>3 DEF CallReserved, CallCount, Unit
  <2>4. CASE c # d
    <3>1. workers'[d] = workers[d]
      BY <2>1, <2>4 DEF TypeOK, TypeCalls
    <3> QED
      BY <1>0, <2>1, <2>2, <3>1, ReservedUnmoved
  <2> QED
    BY <2>3, <2>4
<1> QED
  BY <1>1, <1>2

\* A completion is exchanged for its result, or its call is released with it.
LEMMA ReservedTaken ==
  ASSUME TypeOK, StepQueueResult \/ StepReleaseCall, NEW d \in Calls, CallReserved(d)
  PROVE  CallReserved(d)'
<1>0. CallTokens(d) \in Nat /\ Running(d) \in {0, 1}
  BY CallTypes
<1>1. CASE StepQueueResult
  <2>1. PICK c \in Calls, f \in WriterMsg :
          /\ rpcQ # <<>> /\ Head(rpcQ) \in Completions(c) /\ rpcQ' = Tail(rpcQ)
          /\ f \in Results(c) /\ writerQ' = Append(writerQ, f)
          /\ UNCHANGED <<ack, workers, activeCalls>>
    BY <1>1 DEF StepQueueResult
  <2>2. (f \in Results(d) <=> c = d) /\ (Head(rpcQ) \in CallEvents(d) <=> c = d)
    BY <2>1 DEF Results, Completions, CallEvents
  <2>3. /\ CallTokens(d) + Unit(f \in Results(d))
             = CallTokens(d)' + Unit(Head(rpcQ) \in CallEvents(d))
        /\ CallTokens(d)' \in Nat
    BY <2>1, TokensExchange DEF CallTokens
  <2>4. CallTokens(d)' = CallTokens(d)
    BY <1>0, <2>2, <2>3 DEF Unit
  <2> QED
    BY <1>0, <2>1, <2>4, ReservedUnmoved
<1>2. CASE StepReleaseCall
  <2>1. PICK c \in Calls :
          /\ rpcQ # <<>> /\ Head(rpcQ) \in CallEvents(c) /\ rpcQ' = Tail(rpcQ)
          /\ activeCalls' = activeCalls \ {c}
          /\ UNCHANGED <<writerQ, ack, workers>>
    BY <1>2 DEF StepReleaseCall
  <2>2. Head(rpcQ) \in CallEvents(d) <=> c = d
    BY <2>1 DEF CallEvents
  <2>3. /\ CallTokens(d) = CallTokens(d)' + Unit(Head(rpcQ) \in CallEvents(d))
        /\ CallTokens(d)' \in Nat
    BY <2>1, TokensTake DEF CallTokens
  <2>4. d \in activeCalls' <=> (d \in activeCalls /\ c # d)
    BY <2>1
  <2>5. Running(d)' = Running(d)
    BY <2>1 DEF Running
  <2>6. CASE c = d
    <3>1. CallTokens(d) = CallTokens(d)' + 1 /\ CallTokens(d) + Running(d) <= 1
      BY <2>2, <2>3, <2>6, <1>0 DEF CallReserved, CallCount, Unit
    <3>2. CallTokens(d)' = 0 /\ Running(d)' = 0
      BY <1>0, <2>3, <2>5, <3>1
    <3> QED
      BY <3>2 DEF CallReserved, CallCount, Unit
  <2>7. CASE c # d
    <3>1. CallTokens(d)' = CallTokens(d)
      BY <2>2, <2>3, <2>7 DEF Unit
    <3>2. workers'[d] \in {workers[d], "none"} /\ (d \in activeCalls => d \in activeCalls')
      BY <2>1, <2>4, <2>7
    <3> QED
      BY <1>0, <3>1, <3>2, ReservedUnmoved
  <2> QED
    BY <2>6, <2>7
<1> QED
  BY <1>1, <1>2

\* A worker that ends hands its token on, or drops it when aborted.
LEMMA ReservedWorker ==
  ASSUME TypeOK, StepComplete \/ StepAbort, NEW d \in Calls, CallReserved(d)
  PROVE  CallReserved(d)'
<1>0. /\ CallTokens(d) \in Nat /\ Running(d) \in {0, 1}
      /\ workers \in [Calls -> {"none", "rpc", "host"}]
  BY CallTypes DEF TypeOK, TypeCalls
<1>1. CASE StepComplete
  <2>1. PICK c \in Calls :
          /\ workers[c] # "none" /\ rpcQ' = Append(rpcQ, Completion(workers[c], c))
          /\ workers' = [workers EXCEPT ![c] = "none"]
          /\ UNCHANGED <<writerQ, ack, activeCalls>>
    BY <1>1 DEF StepComplete
  <2> DEFINE e == Completion(workers[c], c)
  <2>0. workers[c] \in {"rpc", "host"}
    BY <1>0, <2>1
  <2>2. e \in ActorMsg /\ e.x = c /\ e.t \in {"rpc_complete", "host_complete"}
    BY <2>0, BuiltMessages
  <2>3. e \in CallEvents(d) <=> c = d
    BY <2>2 DEF CallEvents
  <2>4. CallTokens(d)' = CallTokens(d) + Unit(e \in CallEvents(d))
    BY <2>1, <2>2, TokensComplete DEF CallTokens
  <2> HIDE DEF e
  <2>5. CASE c = d
    <3>1. Running(d) = 1 /\ Running(d)' = 0
      BY <1>0, <2>1, <2>5 DEF Running
    <3>2. CallTokens(d)' = CallTokens(d) + 1
      BY <2>3, <2>4, <2>5 DEF Unit
    <3>3. CallCount(d)' = CallCount(d)
      BY <1>0, <3>1, <3>2 DEF CallCount
    <3> QED
      BY <2>1, <3>3 DEF CallReserved
  <2>6. CASE c # d
    <3>1. CallTokens(d)' = CallTokens(d) /\ workers'[d] = workers[d]
      BY <1>0, <2>1, <2>3, <2>4, <2>6 DEF Unit
    <3> QED
      BY <1>0, <2>1, <3>1, ReservedUnmoved
  <2> QED
    BY <2>5, <2>6
<1>2. CASE StepAbort
  <2>1. PICK c \in Calls : /\ workers' = [workers EXCEPT ![c] = "none"]
                           /\ UNCHANGED <<writerQ, ack, rpcQ, activeCalls>>
    BY <1>2 DEF StepAbort
  <2>2. workers'[d] \in {workers[d], "none"}
    BY <1>0, <2>1
  <2>3. CallTokens(d)' = CallTokens(d)
    BY <2>1 DEF CallTokens, TokenCount
  <2> QED
    BY <1>0, <2>1, <2>2, <2>3, ReservedUnmoved
<1> QED
  BY <1>1, <1>2

\* The writer moves results along.
LEMMA ReservedWriter ==
  ASSUME TypeOK, StepWrite \/ StepAck, NEW c \in Calls, CallReserved(c)
  PROVE  CallReserved(c)'
<1>1. Matched(Results(c), CallEvents(c)) /\ NoId \notin CallEvents(c)
  BY CallMatched
<1>2. CallTokens(c)' \in Nat /\ CallTokens(c)' <= CallTokens(c)
  BY <1>1, TokensWrite, TokensAck DEF CallTokens
<1>3. UNCHANGED <<workers, activeCalls>>
  BY DEF StepWrite, StepAck
<1> QED
  BY <1>2, <1>3, ReservedUnmoved

\* Call ids stay reserved as long as the call has a token.
LEMMA CallKept ==
  ASSUME TypeOK, CallInv, RunStep
  PROVE  CallInv'
<1>0. IsFiniteSet(activeCalls) /\ \A c \in Calls : CallReserved(c)
  BY DEF CallInv, RunStep
<1>1. \A c \in Calls : CallReserved(c)'
  <2>1. ASSUME NEW c \in Calls,
               \/ StepPass \/ StepEnqueue \/ StepDispatchNew \/ StepDispatchNext
               \/ StepEndRequest \/ StepShutdown \/ StepLifecycleFlushed \/ StepShutdownFlushed
        PROVE  CallReserved(c)'
    <3>1. CallTokens(c)' = CallTokens(c) /\ UNCHANGED <<workers, activeCalls>>
      BY <2>1, CallsLifecycle
    <3>2. CallTokens(c) \in Nat /\ CallReserved(c)
      BY <1>0, CallTypes
    <3> QED
      BY <3>1, <3>2, ReservedUnmoved
  <2> QED
    BY <1>0, <2>1, ReservedAccepted, ReservedTaken, ReservedWorker, ReservedWriter DEF RunStep
<1>2. \/ activeCalls' \subseteq activeCalls
      \/ \E c \in Calls : activeCalls' = activeCalls \cup {c}
  <2> USE DEF channels, current
  <2>1. \/ StepPass \/ StepEnqueue \/ StepDispatchNew \/ StepDispatchNext \/ StepEndRequest
        \/ StepShutdown \/ StepQueueResult \/ StepLifecycleFlushed \/ StepShutdownFlushed
        \/ StepWrite \/ StepAck \/ StepComplete \/ StepAbort
        => activeCalls' = activeCalls
    BY DEF StepPass, StepEnqueue, StepDispatchNew, StepDispatchNext, StepEndRequest,
           StepShutdown, StepQueueResult, StepLifecycleFlushed, StepShutdownFlushed,
           StepWrite, StepAck, StepComplete, StepAbort, Dispatches
  <2>2. StepReleaseCall => activeCalls' \subseteq activeCalls
    BY DEF StepReleaseCall
  <2>3. StepRefuseCall \/ StepSpawn => \E c \in Calls : activeCalls' = activeCalls \cup {c}
    BY DEF StepRefuseCall, StepSpawn
  <2> QED
    BY <2>1, <2>2, <2>3 DEF RunStep
<1>3. IsFiniteSet(activeCalls')
  BY <1>0, <1>2, FS_Subset, FS_AddElement
<1> QED
  BY <1>1, <1>3 DEF CallInv

\* A busy call is reserved.
LEMMA BusyReserved ==
  ASSUME TypeOK, RunPhase, CallInv
  PROVE  Busy \subseteq activeCalls
<1> SUFFICES ASSUME NEW c \in Calls, workers[c] # "none" PROVE c \in activeCalls
  BY DEF Busy
<1>1. Running(c) = 1 /\ CallTokens(c) \in Nat
  BY CallTypes DEF Running
<1>2. CallTokens(c) + Running(c) <= Unit(c \in activeCalls)
  BY DEF CallInv, CallReserved, CallCount
<1> QED
  BY <1>1, <1>2 DEF Unit

\* Workers stay within the bound.
BusyInv == IsFiniteSet(Busy) /\ Cardinality(Busy) <= MaxActive

\* The capacity check of either arm bounds them.
LEMMA BusyKept ==
  ASSUME TypeOK, CallInv, BusyInv, RunStep \/ EndStep
  PROVE  BusyInv'
<1>0. /\ workers \in [Calls -> {"none", "rpc", "host"}] /\ MaxActive \in Nat
      /\ IsFiniteSet(Busy) /\ Cardinality(Busy) <= MaxActive
  BY ConstantsAssumption DEF TypeOK, TypeCalls, ConstantsAssumption, BusyInv
<1>1. ASSUME Busy' \subseteq Busy PROVE BusyInv'
  <2>1. IsFiniteSet(Busy') /\ Cardinality(Busy') <= Cardinality(Busy)
    BY <1>0, <1>1, FS_Subset
  <2>2. Cardinality(Busy') \in Nat /\ Cardinality(Busy) \in Nat
    BY <1>0, <2>1, FS_CardinalityType
  <2> QED
    BY <1>0, <2>1, <2>2 DEF BusyInv
<1>2. CASE EndStep
  <2>1. Busy' \subseteq Busy
    BY <1>2 DEF EndStep, Busy
  <2> QED
    BY <1>1, <2>1
<1>3. CASE RunStep
  <2>1. CASE StepSpawn
    <3>1. PICK c \in Calls, kind \in {"rpc", "host"} :
            /\ c \notin activeCalls
            /\ ~OverCapacity(activeCalls \cup {c}) \/ ~HostAtCapacity
            /\ workers' = [workers EXCEPT ![c] = kind]
      BY <2>1 DEF StepSpawn
    <3>2. RunPhase /\ IsFiniteSet(activeCalls) /\ Busy \subseteq activeCalls
      BY <1>3, BusyReserved DEF CallInv, RunStep
    <3>3. Busy' \subseteq activeCalls \cup {c}
      BY <1>0, <3>1, <3>2 DEF Busy
    <3>4. /\ IsFiniteSet(activeCalls \cup {c})
          /\ Cardinality(activeCalls \cup {c}) = Cardinality(activeCalls) + 1
          /\ Cardinality(activeCalls) \in Nat
      BY <3>1, <3>2, FS_AddElement, FS_CardinalityType
    <3>5. Cardinality(activeCalls \cup {c}) <= MaxActive
      BY <1>0, <3>1, <3>4 DEF OverCapacity, HostAtCapacity
    <3>6. IsFiniteSet(Busy') /\ Cardinality(Busy') <= Cardinality(activeCalls \cup {c})
      BY <3>3, <3>4, FS_Subset
    <3>7. Cardinality(Busy') \in Nat
      BY <3>6, FS_CardinalityType
    <3> QED
      BY <1>0, <3>4, <3>5, <3>6, <3>7 DEF BusyInv
  <2>2. CASE StepComplete \/ StepAbort
    <3>1. PICK c \in Calls : workers' = [workers EXCEPT ![c] = "none"]
      BY <2>2 DEF StepComplete, StepAbort
    <3>2. Busy' \subseteq Busy
      BY <1>0, <3>1 DEF Busy
    <3> QED
      BY <1>1, <3>2
  <2>3. CASE ~StepSpawn /\ ~StepComplete /\ ~StepAbort
    <3>1. workers' = workers
      BY <1>3, <2>3
      DEF RunStep, StepPass, StepEnqueue, StepDispatchNew, StepDispatchNext, StepEndRequest,
          StepShutdown, StepRefuseCall, StepQueueResult, StepReleaseCall,
          StepLifecycleFlushed, StepShutdownFlushed, StepWrite, StepAck, Dispatches, channels,
          current
    <3>2. Busy' \subseteq Busy
      BY <3>1 DEF Busy
    <3> QED
      BY <1>1, <3>2
  <2> QED
    BY <2>1, <2>2, <2>3
<1> QED
  BY <1>2, <1>3

-----------------------------------------------------------------------------
(* Every accepted call is answered once.                                    *)

CompletionsOf(c) == CountOf(rpcQ, Completions(c))
ResultsOf(c) == CountOf(sent, Results(c))
AnsweredOnce(c) == invoked[c] = ResultsOf(c) + CompletionsOf(c) + Running(c)

\* The writer acknowledges flushes, or reports its failure.
AckInv == RunPhase => (ack \in ActorMsg => ack.t \in Flushes \cup {"writer_failed"})

AnsweredInv ==
  RunPhase /\ ~closing /\ WriterHealthy => \A c \in Calls : AnsweredOnce(c)

\* The counts are numbers.
LEMMA AnsweredTypes ==
  ASSUME TypeOK, NEW c \in Calls
  PROVE  /\ writerQ \in Seq(WriterMsg) /\ inbox \in Seq(WriterMsg) /\ rpcQ \in Seq(ActorMsg)
         /\ sent \in Seq(WriterMsg) /\ invoked \in [Calls -> Nat]
         /\ workers \in [Calls -> {"none", "rpc", "host"}]
         /\ ResultsOf(c) \in Nat /\ CompletionsOf(c) \in Nat /\ Running(c) \in {0, 1}
<1>1. /\ writerQ \in Seq(WriterMsg) /\ inbox \in Seq(WriterMsg) /\ rpcQ \in Seq(ActorMsg)
      /\ invoked \in [Calls -> Nat] /\ workers \in [Calls -> {"none", "rpc", "host"}]
  BY DEF TypeOK, TypeWriter, TypeCalls
<1>2. sent \in Seq(WriterMsg)
  BY <1>1, ConcatProperties DEF sent
<1>3. ResultsOf(c) \in Nat /\ CompletionsOf(c) \in Nat
  BY <1>1, <1>2, CountType DEF ResultsOf, CompletionsOf
<1> QED
  BY <1>1, <1>2, <1>3 DEF Running

\* Queueing a frame adds it to what is sent; writing one does not change it.
LEMMA SentQueued ==
  ASSUME TypeOK, NEW c \in Calls, NEW f \in WriterMsg, writerQ' = Append(writerQ, f),
         inbox' = inbox
  PROVE  ResultsOf(c)' = ResultsOf(c) + Unit(f \in Results(c))
<1>1. writerQ \in Seq(WriterMsg) /\ inbox \in Seq(WriterMsg) /\ sent \in Seq(WriterMsg)
  BY AnsweredTypes
<1>2. sent' = Append(sent, f)
  BY <1>1, ConcatAppend DEF sent
<1>3. CountOf(sent', Results(c)) = CountOf(sent, Results(c)) + Unit(f \in Results(c))
  BY <1>1, <1>2, CountAppend
<1> QED
  BY <1>3 DEF ResultsOf

\* Taking an event removes it from the completions if it is one.
LEMMA CompletionTaken ==
  ASSUME TypeOK, NEW c \in Calls, rpcQ # <<>>, rpcQ' = Tail(rpcQ)
  PROVE  /\ CompletionsOf(c) = CompletionsOf(c)' + Unit(Head(rpcQ) \in Completions(c))
         /\ CompletionsOf(c)' \in Nat
<1>1. rpcQ \in Seq(ActorMsg) /\ Tail(rpcQ) \in Seq(ActorMsg)
  BY AnsweredTypes, HeadTailType
<1>2. CountOf(rpcQ, Completions(c))
        = CountOf(rpcQ', Completions(c)) + Unit(Head(rpcQ) \in Completions(c))
  BY <1>1, CountTail
<1>3. CountOf(rpcQ', Completions(c)) \in Nat
  BY <1>1, CountType
<1> QED
  BY <1>2, <1>3 DEF CompletionsOf

\* An event sent to the supervisor adds to them if it is one.
LEMMA CompletionSent ==
  ASSUME TypeOK, NEW c \in Calls, NEW e \in ActorMsg, rpcQ' = Append(rpcQ, e)
  PROVE  CompletionsOf(c)' = CompletionsOf(c) + Unit(e \in Completions(c))
<1>1. rpcQ \in Seq(ActorMsg)
  BY AnsweredTypes
<1>2. CountOf(rpcQ', Completions(c)) = CountOf(rpcQ, Completions(c)) + Unit(e \in Completions(c))
  BY <1>1, CountAppend
<1> QED
  BY <1>2 DEF CompletionsOf

\* Nothing about calls changes.
LEMMA AnsweredUnmoved ==
  ASSUME TypeOK, NEW c \in Calls, AnsweredOnce(c), ResultsOf(c)' = ResultsOf(c),
         CompletionsOf(c)' = CompletionsOf(c), UNCHANGED <<workers, invoked>>
  PROVE  AnsweredOnce(c)'
  BY DEF AnsweredOnce, Running

\* The lifecycle frames do not answer calls.
LEMMA AnsweredLifecycle ==
  ASSUME TypeOK, NEW c \in Calls, AnsweredOnce(c),
         \/ StepPass \/ StepEnqueue \/ StepDispatchNew \/ StepDispatchNext \/ StepEndRequest
         \/ StepLifecycleFlushed \/ StepShutdownFlushed
  PROVE  AnsweredOnce(c)'
<1>0. ResultsOf(c) \in Nat /\ CompletionsOf(c) \in Nat
  BY AnsweredTypes
<1>1. CASE StepPass \/ StepEnqueue \/ StepEndRequest
  <2>1. UNCHANGED <<writerQ, inbox, rpcQ, workers, invoked>>
    BY <1>1 DEF StepPass, StepEnqueue, StepEndRequest, channels
  <2>2. ResultsOf(c)' = ResultsOf(c) /\ CompletionsOf(c)' = CompletionsOf(c)
    BY <2>1 DEF ResultsOf, CompletionsOf, sent
  <2> QED
    BY <2>1, <2>2, AnsweredUnmoved
<1>2. CASE StepDispatchNew \/ StepDispatchNext
  <2>1. waiting # <<>> => Head(waiting) \in Requests
    BY HeadTailType DEF TypeOK, TypeLife
  <2>2. PICK r \in Requests : Dispatches(r)
    BY <1>2, <2>1 DEF StepDispatchNew, StepDispatchNext
  <2>3. ReqId[r] \in Ids
    BY ConstantsAssumption DEF ConstantsAssumption
  <2> DEFINE f == Msg("lifecycle", ReqId[r], "")
  <2>4. f \in WriterMsg /\ f.t = "lifecycle"
    BY <2>3, BuiltMessages DEF Msg
  <2> HIDE DEF f
  <2>5. writerQ' = Append(writerQ, f) /\ UNCHANGED <<inbox, rpcQ, workers, invoked>>
    BY <2>2 DEF Dispatches, f
  <2>6. Unit(f \in Results(c)) = 0
    BY <2>4 DEF Results, Unit
  <2>7. ResultsOf(c)' = ResultsOf(c)
    BY <1>0, <2>4, <2>5, <2>6, SentQueued
  <2>8. CompletionsOf(c)' = CompletionsOf(c)
    BY <2>5 DEF CompletionsOf
  <2> QED
    BY <2>5, <2>7, <2>8, AnsweredUnmoved
<1>3. CASE StepLifecycleFlushed \/ StepShutdownFlushed
  <2>1. /\ rpcQ # <<>> /\ rpcQ' = Tail(rpcQ)
        /\ Head(rpcQ).t \in {"lifecycle_flushed", "shutdown_flushed"}
        /\ UNCHANGED <<writerQ, inbox, workers, invoked>>
    BY <1>3 DEF StepLifecycleFlushed, StepShutdownFlushed
  <2>2. Unit(Head(rpcQ) \in Completions(c)) = 0
    BY <2>1 DEF Completions, Unit
  <2>3. CompletionsOf(c)' = CompletionsOf(c)
    BY <2>1, <2>2, CompletionTaken
  <2>4. ResultsOf(c)' = ResultsOf(c)
    BY <2>1 DEF ResultsOf, sent
  <2> QED
    BY <2>1, <2>3, <2>4, AnsweredUnmoved
<1> QED
  BY <1>1, <1>2, <1>3

\* An accepted call is answered at once, or a worker owes the answer.
LEMMA AnsweredAccepted ==
  ASSUME TypeOK, RunPhase, CallInv, NEW d \in Calls, AnsweredOnce(d), StepRefuseCall \/ StepSpawn
  PROVE  AnsweredOnce(d)'
<1>0. /\ ResultsOf(d) \in Nat /\ CompletionsOf(d) \in Nat /\ Running(d) \in {0, 1}
      /\ invoked \in [Calls -> Nat] /\ workers \in [Calls -> {"none", "rpc", "host"}]
  BY AnsweredTypes
<1>1. CASE StepRefuseCall
  <2>1. PICK c \in Calls, f \in WriterMsg :
          /\ invoked' = [invoked EXCEPT ![c] = @ + 1]
          /\ f \in Results(c) /\ writerQ' = Append(writerQ, f)
          /\ UNCHANGED <<inbox, rpcQ, workers>>
    BY <1>1 DEF StepRefuseCall
  <2>2. f \in Results(d) <=> c = d
    BY <2>1 DEF Results
  <2>3. ResultsOf(d)' = ResultsOf(d) + Unit(c = d)
    BY <2>1, <2>2, SentQueued DEF Unit
  <2>4. CompletionsOf(d)' = CompletionsOf(d) /\ Running(d)' = Running(d)
    BY <2>1 DEF CompletionsOf, Running
  <2>5. invoked'[d] = invoked[d] + Unit(c = d)
    BY <1>0, <2>1 DEF Unit
  <2>6. Unit(c = d) \in {0, 1}
    BY DEF Unit
  <2> QED
    BY <1>0, <2>3, <2>4, <2>5, <2>6 DEF AnsweredOnce
<1>2. CASE StepSpawn
  <2>1. PICK c \in Calls, kind \in {"rpc", "host"} :
          /\ c \notin activeCalls /\ invoked' = [invoked EXCEPT ![c] = @ + 1]
          /\ workers' = [workers EXCEPT ![c] = kind]
          /\ UNCHANGED <<writerQ, inbox, rpcQ>>
    BY <1>2 DEF StepSpawn
  <2>2. ResultsOf(d)' = ResultsOf(d) /\ CompletionsOf(d)' = CompletionsOf(d)
    BY <2>1 DEF ResultsOf, CompletionsOf, sent
  <2>3. CASE c = d
    <3>1. d \notin Busy
      BY <2>1, <2>3, BusyReserved
    <3>2. Running(d) = 0 /\ Running(d)' = 1
      BY <1>0, <2>1, <2>3, <3>1 DEF Running, Busy
    <3>3. invoked'[d] = invoked[d] + 1
      BY <1>0, <2>1, <2>3
    <3> QED
      BY <1>0, <2>2, <3>2, <3>3 DEF AnsweredOnce
  <2>4. CASE c # d
    <3>1. Running(d)' = Running(d) /\ invoked'[d] = invoked[d]
      BY <1>0, <2>1, <2>4 DEF Running
    <3> QED
      BY <2>2, <3>1 DEF AnsweredOnce
  <2> QED
    BY <2>3, <2>4
<1> QED
  BY <1>1, <1>2

\* A completion becomes a result; while not closing, none is dropped.
LEMMA AnsweredTaken ==
  ASSUME TypeOK, ~closing, NEW d \in Calls, AnsweredOnce(d), StepQueueResult \/ StepReleaseCall
  PROVE  AnsweredOnce(d)'
<1>0. /\ ResultsOf(d) \in Nat /\ CompletionsOf(d) \in Nat /\ Running(d) \in {0, 1}
      /\ invoked \in [Calls -> Nat]
  BY AnsweredTypes
<1>1. CASE StepQueueResult
  <2>1. PICK c \in Calls, f \in WriterMsg :
          /\ rpcQ # <<>> /\ Head(rpcQ) \in Completions(c) /\ rpcQ' = Tail(rpcQ)
          /\ f \in Results(c) /\ writerQ' = Append(writerQ, f)
          /\ UNCHANGED <<inbox, workers, invoked>>
    BY <1>1 DEF StepQueueResult
  <2>2. (f \in Results(d) <=> c = d) /\ (Head(rpcQ) \in Completions(d) <=> c = d)
    BY <2>1 DEF Results, Completions
  <2>3. ResultsOf(d)' = ResultsOf(d) + Unit(c = d)
    BY <2>1, <2>2, SentQueued DEF Unit
  <2>4. CompletionsOf(d) = CompletionsOf(d)' + Unit(c = d) /\ CompletionsOf(d)' \in Nat
    BY <2>1, <2>2, CompletionTaken DEF Unit
  <2>5. Running(d)' = Running(d) /\ invoked' = invoked /\ Unit(c = d) \in {0, 1}
    BY <2>1 DEF Running, Unit
  <2> QED
    BY <1>0, <2>3, <2>4, <2>5 DEF AnsweredOnce
<1>2. CASE StepReleaseCall
  <2>1. /\ rpcQ # <<>> /\ rpcQ' = Tail(rpcQ) /\ Head(rpcQ).t = "call_flushed"
        /\ UNCHANGED <<writerQ, inbox, workers, invoked>>
    BY <1>2 DEF StepReleaseCall
  <2>2. Unit(Head(rpcQ) \in Completions(d)) = 0
    BY <2>1 DEF Completions, Unit
  <2>3. CompletionsOf(d)' = CompletionsOf(d)
    BY <2>1, <2>2, CompletionTaken
  <2>4. ResultsOf(d)' = ResultsOf(d)
    BY <2>1 DEF ResultsOf, sent
  <2> QED
    BY <2>1, <2>3, <2>4, AnsweredUnmoved
<1> QED
  BY <1>1, <1>2

\* A healthy writer moves results without losing them, and a worker that ends
\* sends its completion.
LEMMA AnsweredTasks ==
  ASSUME TypeOK, RunPhase, AckInv, NEW d \in Calls, AnsweredOnce(d), WriterHealthy',
         StepWrite \/ StepAck \/ StepComplete
  PROVE  AnsweredOnce(d)'
<1>0. /\ ResultsOf(d) \in Nat /\ CompletionsOf(d) \in Nat /\ Running(d) \in {0, 1}
      /\ invoked \in [Calls -> Nat] /\ workers \in [Calls -> {"none", "rpc", "host"}]
      /\ writerQ \in Seq(WriterMsg) /\ inbox \in Seq(WriterMsg)
  BY AnsweredTypes
<1>h. writerOpen' /\ ack' # WriterFailed
  BY DEF WriterHealthy, WriterFailed
<1>1. CASE StepWrite
  <2>1. /\ writerQ # <<>> /\ writerQ' = Tail(writerQ) /\ inbox' = Append(inbox, Head(writerQ))
        /\ UNCHANGED <<rpcQ, workers, invoked>>
    BY <1>1, <1>h DEF StepWrite, WriterFailed
  <2>2. sent' = sent
    BY <1>0, <2>1, MoveHead DEF sent
  <2>3. ResultsOf(d)' = ResultsOf(d) /\ CompletionsOf(d)' = CompletionsOf(d)
    BY <2>1, <2>2 DEF ResultsOf, CompletionsOf
  <2> QED
    BY <2>1, <2>3, AnsweredUnmoved
<1>2. CASE StepAck
  <2>1. /\ ack # NoId /\ rpcQ' = Append(rpcQ, ack) /\ ack.t # "writer_failed"
        /\ writerQ' = writerQ /\ UNCHANGED <<inbox, workers, invoked>>
    BY <1>2, <1>h DEF StepAck
  <2>2. ack \in ActorMsg /\ ack.t \in Flushes
    BY <2>1 DEF AckInv, TypeOK, TypeWriter
  <2>3. Unit(ack \in Completions(d)) = 0
    BY <2>2 DEF Completions, Flushes, Unit
  <2>4. CompletionsOf(d)' = CompletionsOf(d)
    BY <1>0, <2>1, <2>2, <2>3, CompletionSent
  <2>5. ResultsOf(d)' = ResultsOf(d)
    BY <2>1 DEF ResultsOf, sent
  <2> QED
    BY <2>1, <2>4, <2>5, AnsweredUnmoved
<1>3. CASE StepComplete
  <2>1. PICK c \in Calls :
          /\ workers[c] # "none" /\ rpcQ' = Append(rpcQ, Completion(workers[c], c))
          /\ workers' = [workers EXCEPT ![c] = "none"]
          /\ UNCHANGED <<writerQ, inbox, invoked>>
    BY <1>3 DEF StepComplete
  <2>2. workers[c] \in {"rpc", "host"}
    BY <1>0, <2>1
  <2> DEFINE e == Completion(workers[c], c)
  <2>3. e \in ActorMsg /\ e.x = c /\ e.t \in {"rpc_complete", "host_complete"}
    BY <2>2, BuiltMessages
  <2>4. rpcQ' = Append(rpcQ, e)
    BY <2>1
  <2> HIDE DEF e
  <2>5. e \in Completions(d) <=> c = d
    BY <2>3 DEF Completions
  <2>6. CompletionsOf(d)' = CompletionsOf(d) + Unit(c = d)
    BY <2>3, <2>4, <2>5, CompletionSent DEF Unit
  <2>7. ResultsOf(d)' = ResultsOf(d)
    BY <2>1 DEF ResultsOf, sent
  <2>8. Running(d) = Running(d)' + Unit(c = d) /\ Running(d)' \in {0, 1}
    BY <1>0, <2>1 DEF Running, Unit
  <2>9. invoked'[d] = invoked[d] /\ Unit(c = d) \in {0, 1}
    BY <2>1 DEF Unit
  <2> QED
    BY <1>0, <2>6, <2>7, <2>8, <2>9 DEF AnsweredOnce
<1> QED
  BY <1>1, <1>2, <1>3

\* The writer never acknowledges anything but what it wrote.
LEMMA AckKept ==
  ASSUME TypeOK, AckInv, RunStep
  PROVE  AckInv'
<1>0. RunPhase
  BY DEF RunStep
<1>1. CASE StepWrite
  <2>1. ack' = FlushEvent(Head(writerQ)) \/ ack' = WriterFailed
    BY <1>1 DEF StepWrite, WriterFailed
  <2>2. Head(writerQ) \in WriterMsg
    BY <1>1, HeadTailType DEF StepWrite, TypeOK, TypeWriter
  <2>3. FlushEvent(Head(writerQ)).t \in Flushes
    BY <2>2, FlushEventParts DEF Flushes
  <2>4. WriterFailed.t = "writer_failed"
    BY BuiltMessages
  <2> QED
    BY <2>1, <2>3, <2>4 DEF AckInv
<1>2. CASE StepAck
  <2>1. ack' = NoId
    BY <1>2 DEF StepAck
  <2> QED
    BY <2>1, BuiltMessages DEF AckInv
<1>3. CASE ack' = ack
  BY <1>0, <1>3 DEF AckInv
<1>4. StepComplete => ack' = ack
  BY DEF StepComplete
<1> QED
  BY <1>1, <1>2, <1>3, <1>4, EventSteps

\* The balance of calls and answers is kept.
LEMMA AnsweredKept ==
  ASSUME TypeOK, FlushInv, CallInv, AckInv, AnsweredInv, RunStep
  PROVE  AnsweredInv'
<1> SUFFICES ASSUME RunPhase', ~closing', WriterHealthy', NEW d \in Calls PROVE AnsweredOnce(d)'
  BY DEF AnsweredInv
<1>0. RunPhase /\ ~closing
  BY DEF RunStep
<1>h. writerOpen' /\ ack' # WriterFailed
  BY DEF WriterHealthy, WriterFailed
<1>1. WriterHealthy
  <2>1. CASE StepWrite
    <3>1. writerOpen /\ ack = NoId
      BY <2>1 DEF StepWrite
    <3> QED
      BY <3>1, BuiltMessages DEF WriterHealthy
  <2>2. CASE StepAck
    <3>1. ack # NoId /\ ack.t # "writer_failed"
      BY <2>2, <1>h DEF StepAck
    <3>2. writerOpen
      BY <1>0, <3>1 DEF FlushInv
    <3> QED
      BY <3>1, <3>2, BuiltMessages DEF WriterHealthy
  <2>3. CASE ~StepWrite /\ ~StepAck
    <3>1. ack' = ack /\ writerOpen' = writerOpen
      BY <2>3
      DEF RunStep, StepPass, StepEnqueue, StepDispatchNew, StepDispatchNext, StepEndRequest,
          StepShutdown, StepRefuseCall, StepSpawn, StepQueueResult, StepReleaseCall,
          StepLifecycleFlushed, StepShutdownFlushed, StepComplete, StepAbort, Dispatches,
          channels, current
    <3> QED
      BY <1>h, <3>1 DEF WriterHealthy
  <2> QED
    BY <2>1, <2>2, <2>3
<1>2. AnsweredOnce(d)
  BY <1>0, <1>1 DEF AnsweredInv
<1>3. ~StepShutdown /\ ~StepAbort
  BY <1>0 DEF StepShutdown, StepAbort
<1> QED
  BY <1>0, <1>2, <1>3, AnsweredLifecycle, AnsweredAccepted, AnsweredTaken, AnsweredTasks
  DEF RunStep

-----------------------------------------------------------------------------
(* The theorems about calls.                                                *)

\* The inductive invariant of the calls; the balance needs the flushes of LifecycleInv.
CallsInvariant == LifecycleInv /\ CallInv /\ BusyInv /\ AckInv /\ AnsweredInv

\* It holds at the start.
LEMMA InitCalls == Init => CallsInvariant
<1> SUFFICES ASSUME Init PROVE CallsInvariant
  OBVIOUS
<1>1. LifecycleInv
  BY InitLifecycle
<1>2. /\ writerQ = <<>> /\ rpcQ = <<>> /\ ack = NoId /\ inbox = <<>> /\ activeCalls = {}
      /\ workers = [c \in Calls |-> "none"] /\ invoked = [c \in Calls |-> 0]
  BY DEF Init
<1>3. \A c \in Calls : Running(c) = 0
  BY <1>2 DEF Running
<1>4. CallInv
  <2>1. ASSUME NEW c \in Calls PROVE CallReserved(c)
    <3>1. ack \notin CallEvents(c)
      BY <1>2, CallMatched
    <3>2. CallTokens(c) = 0
      BY <1>2, <3>1, CountEmpty DEF CallTokens, TokenCount, Unit
    <3> QED
      BY <1>3, <3>2 DEF CallReserved, CallCount, Unit
  <2> QED
    BY <1>2, <2>1, FS_EmptySet DEF CallInv
<1>5. BusyInv
  <2>1. Busy = {}
    BY <1>2 DEF Busy
  <2>2. MaxActive \in Nat
    BY ConstantsAssumption DEF ConstantsAssumption
  <2> QED
    BY <2>1, <2>2, FS_EmptySet DEF BusyInv
<1>6. AckInv
  BY <1>2, BuiltMessages DEF AckInv
<1>7. AnsweredInv
  <2>1. sent = <<>>
    BY <1>2 DEF sent
  <2>2. \A c \in Calls : ResultsOf(c) = 0 /\ CompletionsOf(c) = 0 /\ invoked[c] = 0
    BY <1>2, <2>1, CountEmpty DEF ResultsOf, CompletionsOf
  <2> QED
    BY <1>3, <2>2 DEF AnsweredInv, AnsweredOnce
<1> QED
  BY <1>1, <1>4, <1>5, <1>6, <1>7 DEF CallsInvariant

\* Every step preserves it.
LEMMA NextCalls == CallsInvariant /\ [Next]_vars => CallsInvariant'
<1> SUFFICES ASSUME CallsInvariant, [Next]_vars PROVE CallsInvariant'
  OBVIOUS
<1>0. LifecycleInv /\ CallInv /\ BusyInv /\ AckInv /\ AnsweredInv
  BY DEF CallsInvariant
<1>1. TypeOK /\ FlushInv
  BY <1>0 DEF LifecycleInv
<1>2. LifecycleInv'
  BY <1>0, NextLifecycle
<1>3. RunStep \/ EndStep
  BY <1>1, StepKinds
<1>4. BusyInv'
  BY <1>0, <1>1, <1>3, BusyKept
<1>5. CallInv' /\ AckInv' /\ AnsweredInv'
  <2>1. CASE RunStep
    BY <1>0, <1>1, <2>1, CallKept, AckKept, AnsweredKept
  <2>2. CASE EndStep
    BY <2>2 DEF EndStep, CallInv, AckInv, AnsweredInv, RunPhase
  <2> QED
    BY <1>3, <2>1, <2>2
<1> QED
  BY <1>2, <1>4, <1>5 DEF CallsInvariant

\* So it always holds.
LEMMA CallsAlways == Spec => []CallsInvariant
  BY InitCalls, NextCalls, PTL DEF Spec

\* The counts of the checked properties are those of the queues.
LEMMA CallsCounted ==
  ASSUME TypeOK, NEW c \in Calls
  PROVE  /\ ResultsFor(sent, c) = ResultsOf(c) /\ CompletionsFor(c) = CompletionsOf(c)
         /\ ResultsFor(writerQ, c) = CountOf(writerQ, Results(c))
<1>1. /\ writerQ \in Seq(WriterMsg) /\ sent \in Seq(WriterMsg) /\ rpcQ \in Seq(ActorMsg)
  BY AnsweredTypes
<1>2. ASSUME NEW q \in Seq(WriterMsg) PROVE ResultsFor(q, c) = CountOf(q, Results(c))
  <2>1. \A i \in DOMAIN q : q[i] \in WriterMsg
    OBVIOUS
  <2>2. {i \in DOMAIN q : q[i].t \in {"telegram_result", "host_result"} /\ q[i].x = c}
          = PositionsOf(q, Results(c))
    BY <2>1 DEF PositionsOf, Results
  <2> QED
    BY <2>2 DEF ResultsFor, CountOf
<1>3. CompletionsFor(c) = CompletionsOf(c)
  <2>1. \A i \in DOMAIN rpcQ : rpcQ[i] \in ActorMsg
    BY <1>1
  <2>2. {i \in DOMAIN rpcQ : rpcQ[i].t \in {"rpc_complete", "host_complete"} /\ rpcQ[i].x = c}
          = PositionsOf(rpcQ, Completions(c))
    BY <2>1 DEF PositionsOf, Completions
  <2> QED
    BY <2>2 DEF CompletionsFor, CompletionsOf, CountOf
<1> QED
  BY <1>1, <1>2, <1>3 DEF ResultsOf

\* A running call has a worker.
LEMMA RunningBusy == \A c : Running(c) # 0 <=> workers[c] # "none"
  BY DEF Running

\* A call with a worker, an event, a result or a flush is reserved.
LEMMA TokenReserved ==
  ASSUME TypeOK, RunPhase, CallInv, NEW c \in Calls,
         \/ Running(c) # 0 \/ CountOf(rpcQ, CallEvents(c)) # 0
         \/ CountOf(writerQ, Results(c)) # 0 \/ ack \in CallEvents(c)
  PROVE  c \in activeCalls
<1> DEFINE n == CountOf(writerQ, Results(c))
           k == CountOf(rpcQ, CallEvents(c))
           u == Unit(ack \in CallEvents(c))
           r == Running(c)
<1>1. n \in Nat /\ k \in Nat /\ r \in Nat /\ u \in Nat
  <2>1. n \in Nat /\ k \in Nat
    BY TokenTypes
  <2>2. r \in Nat
    BY CallTypes
  <2>3. u \in Nat
    BY DEF Unit
  <2> QED
    BY <2>1, <2>2, <2>3
<1>2. n + k + u + r <= Unit(c \in activeCalls)
  BY DEF CallInv, CallReserved, CallCount, CallTokens, TokenCount
<1>3. r # 0 \/ k # 0 \/ n # 0 \/ u # 0
  BY DEF Unit
<1> HIDE DEF n, k, u, r
<1>4. n + k + u + r >= 1
  BY <1>1, <1>3
<1>5. CASE Unit(c \in activeCalls) = 0
  BY <1>1, <1>2, <1>4, <1>5
<1>6. CASE Unit(c \in activeCalls) # 0
  BY <1>6 DEF Unit
<1> QED
  BY <1>5, <1>6

\* At most V6_MAX_ACTIVE_RPCS calls of a module execute at once, for every such
\* bound and every set of call ids: telegram.invoke checks after it reserves,
\* host.invoke before (supervise, reserve_call_id).
THEOREM WorkersStayBounded == Spec => []WorkersBounded
<1>1. CallsInvariant => WorkersBounded
  BY DEF CallsInvariant, BusyInv, Busy, WorkersBounded
<1> QED
  BY <1>1, CallsAlways, PTL

\* A call_id stays reserved from its acceptance until its result is flushed
\* (reserve_call_id, handle_rpc_complete, write_stdin).
THEOREM CallsStayReserved == Spec => []ReservedUntilFlushed
<1>1. CallsInvariant => ReservedUntilFlushed
  <2> SUFFICES ASSUME CallsInvariant, RunPhase, NEW c \in Calls,
                      \/ workers[c] # "none" \/ CompletionsFor(c) # 0
                      \/ ResultsFor(writerQ, c) # 0 \/ ack = Msg("call_flushed", c, "")
               PROVE  c \in activeCalls
    BY DEF ReservedUntilFlushed
  <2>0. TypeOK /\ CallInv
    BY DEF CallsInvariant, LifecycleInv
  <2>1. writerQ \in Seq(WriterMsg) /\ rpcQ \in Seq(ActorMsg)
    BY <2>0 DEF TypeOK, TypeWriter
  <2>2. workers[c] # "none" => Running(c) # 0
    BY RunningBusy
  <2>3. CompletionsFor(c) # 0 => CountOf(rpcQ, CallEvents(c)) # 0
    <3>1. CompletionsFor(c) = CountOf(rpcQ, Completions(c))
      BY <2>0, CallsCounted DEF CompletionsOf
    <3>2. Completions(c) \subseteq CallEvents(c)
      BY DEF Completions, CallEvents
    <3> QED
      BY <2>1, <3>1, <3>2, CountZero
  <2>4. ResultsFor(writerQ, c) = CountOf(writerQ, Results(c))
    BY <2>0, CallsCounted
  <2>5. Msg("call_flushed", c, "") \in CallEvents(c)
    BY DEF Msg, CallEvents, ActorMsg
  <2> QED
    BY <2>0, <2>2, <2>3, <2>4, <2>5, TokenReserved
<1> QED
  BY <1>1, CallsAlways, PTL

\* While the module is not being shut down and its stdin works, every accepted
\* call has exactly one result delivered, queued or owed (supervise,
\* handle_rpc_complete, write_stdin).
THEOREM CallsAnsweredOnce == Spec => []EveryCallAnsweredOnce
<1>1. CallsInvariant => EveryCallAnsweredOnce
  <2> SUFFICES ASSUME CallsInvariant, RunPhase, ~closing, writerOpen,
                      ack # Msg("writer_failed", NoId, ""), NEW c \in Calls
               PROVE  invoked[c] = ResultsFor(sent, c) + CompletionsFor(c) + Running(c)
    BY DEF EveryCallAnsweredOnce
  <2>1. TypeOK /\ AnsweredInv
    BY DEF CallsInvariant, LifecycleInv
  <2>2. AnsweredOnce(c)
    BY <2>1 DEF AnsweredInv, WriterHealthy, WriterFailed
  <2> QED
    BY <2>1, <2>2, CallsCounted DEF AnsweredOnce
<1> QED
  BY <1>1, CallsAlways, PTL

-----------------------------------------------------------------------------
(* One lifecycle request at a time.                                         *)

\* In q, a lifecycle frame follows another only when A holds the id of that one.
Ordered(q, A) ==
  \A i, j \in DOMAIN q :
    (i < j /\ q[i].t = "lifecycle" /\ q[j].t = "lifecycle") => q[i].x \in A

LifecycleIn(q) == {f \in Elements(q) : f.t = "lifecycle"}
LifecycleSent == LifecycleIn(inbox) \cup LifecycleIn(writerQ)

\* What was handed to the module is ordered, and while the supervisor serves, the
\* one frame the module has not answered is that of the request in flight.
OrderInv ==
  /\ Ordered(inbox, answered) /\ Ordered(writerQ, answered)
  /\ LifecycleIn(writerQ) # {} => \A f \in LifecycleIn(inbox) : f.x \in answered

OpenInv ==
  RunPhase /\ ~closing => \A f \in LifecycleSent : f.x \in answered \/ InFlightId(f.x)

\* A terminal frame in the reader's queue was emitted by the module.
TerminalInv == \A e \in Elements(readerQ) : e.t = "terminal" => e.x \in answered

\* Appending to an ordered queue.
LEMMA OrderedAppend ==
  ASSUME NEW X, NEW q \in Seq(X), NEW e \in X, NEW A, Ordered(q, A),
         e.t = "lifecycle" => \A f \in LifecycleIn(q) : f.x \in A
  PROVE  Ordered(Append(q, e), A)
<1>1. /\ Len(q) \in Nat /\ DOMAIN q = 1 .. Len(q)
      /\ DOMAIN Append(q, e) = 1 .. (Len(q) + 1)
      /\ \A i \in 1 .. Len(q) : Append(q, e)[i] = q[i]
      /\ Append(q, e)[Len(q) + 1] = e
  BY AppendProperties, LenProperties
<1> SUFFICES ASSUME NEW i \in 1 .. (Len(q) + 1), NEW j \in 1 .. (Len(q) + 1), i < j,
                    Append(q, e)[i].t = "lifecycle", Append(q, e)[j].t = "lifecycle"
             PROVE  Append(q, e)[i].x \in A
  BY <1>1 DEF Ordered
<1>2. i \in 1 .. Len(q) /\ Append(q, e)[i] = q[i]
  BY <1>1
<1>3. CASE j = Len(q) + 1
  <2>1. q[i] \in LifecycleIn(q)
    BY <1>1, <1>2 DEF LifecycleIn, Elements
  <2> QED
    BY <1>1, <1>2, <1>3, <2>1
<1>4. CASE j # Len(q) + 1
  <2>1. j \in 1 .. Len(q) /\ Append(q, e)[j] = q[j]
    BY <1>1, <1>4
  <2> QED
    BY <1>1, <1>2, <2>1 DEF Ordered
<1> QED
  BY <1>3, <1>4

\* Taking from one.
LEMMA OrderedTail ==
  ASSUME NEW X, NEW q \in Seq(X), q # <<>>, NEW A, Ordered(q, A)
  PROVE  /\ Ordered(Tail(q), A)
         /\ Head(q).t = "lifecycle" /\ LifecycleIn(Tail(q)) # {} => Head(q).x \in A
<1>1. /\ Len(q) \in Nat /\ Len(q) >= 1 /\ DOMAIN q = 1 .. Len(q) /\ Head(q) = q[1]
      /\ DOMAIN Tail(q) = 1 .. (Len(q) - 1)
      /\ \A i \in 1 .. (Len(q) - 1) : Tail(q)[i] = q[i + 1]
  OBVIOUS
<1>2. Ordered(Tail(q), A)
  <2> SUFFICES ASSUME NEW i \in 1 .. (Len(q) - 1), NEW j \in 1 .. (Len(q) - 1), i < j,
                      Tail(q)[i].t = "lifecycle", Tail(q)[j].t = "lifecycle"
               PROVE  Tail(q)[i].x \in A
    BY <1>1 DEF Ordered
  <2>1. /\ i + 1 \in DOMAIN q /\ j + 1 \in DOMAIN q /\ i + 1 < j + 1
        /\ Tail(q)[i] = q[i + 1] /\ Tail(q)[j] = q[j + 1]
    BY <1>1
  <2> QED
    BY <2>1 DEF Ordered
<1>3. ASSUME Head(q).t = "lifecycle", LifecycleIn(Tail(q)) # {} PROVE Head(q).x \in A
  <2>1. PICK j \in 1 .. (Len(q) - 1) : Tail(q)[j].t = "lifecycle"
    BY <1>1, <1>3 DEF LifecycleIn, Elements
  <2>2. j + 1 \in DOMAIN q /\ 1 \in DOMAIN q /\ 1 < j + 1 /\ q[j + 1].t = "lifecycle"
    BY <1>1, <2>1
  <2> QED
    BY <1>1, <1>3, <2>2 DEF Ordered
<1> QED
  BY <1>2, <1>3

\* More answers leave a queue ordered.
LEMMA OrderedGrows ==
  ASSUME NEW q, NEW A, NEW B, A \subseteq B, Ordered(q, A)
  PROVE  Ordered(q, B)
  BY DEF Ordered

\* Sending and taking, for the lifecycle frames of a queue.
LEMMA LifecycleInSteps ==
  ASSUME NEW X, NEW q \in Seq(X)
  PROVE  /\ \A e \in X : LifecycleIn(Append(q, e)) =
                           LifecycleIn(q) \cup {f \in {e} : f.t = "lifecycle"}
         /\ q # <<>> => LifecycleIn(q) = LifecycleIn(Tail(q)) \cup
                                           {f \in {Head(q)} : f.t = "lifecycle"}
         /\ LifecycleIn(<<>>) = {}
<1>1. \A e \in X : Elements(Append(q, e)) = Elements(q) \cup {e}
  BY ElementsAppend
<1>2. q # <<>> => Elements(q) = Elements(Tail(q)) \cup {Head(q)}
  BY ElementsTail
<1>3. Elements(<<>>) = {}
  BY DEF Elements
<1> QED
  BY <1>1, <1>2, <1>3 DEF LifecycleIn

\* The writer's part: a frame is taken, or the queue is dropped.
FrameTaken ==
  /\ writerQ # <<>> /\ writerQ' = Tail(writerQ)
  /\ inbox' = inbox \/ inbox' = Append(inbox, Head(writerQ))

FramesDropped == writerQ' = <<>> /\ inbox' = inbox

\* It keeps the order and adds no frame.
LEMMA OrderTaken ==
  ASSUME TypeOK, OrderInv, answered \subseteq answered',
         UNCHANGED <<writerQ, inbox>> \/ FrameTaken \/ FramesDropped
  PROVE  OrderInv' /\ LifecycleSent' \subseteq LifecycleSent
<1>0. /\ writerQ \in Seq(WriterMsg) /\ inbox \in Seq(WriterMsg)
      /\ Ordered(inbox, answered) /\ Ordered(writerQ, answered)
      /\ LifecycleIn(writerQ) # {} => \A f \in LifecycleIn(inbox) : f.x \in answered
  BY DEF TypeOK, TypeWriter, OrderInv
<1>g. \A q : Ordered(q, answered) => Ordered(q, answered')
  BY OrderedGrows
<1>1. CASE UNCHANGED <<writerQ, inbox>>
  <2>1. OrderInv'
    BY <1>0, <1>1, <1>g DEF OrderInv
  <2> QED
    BY <1>1, <2>1 DEF LifecycleSent
<1>2. CASE FramesDropped
  <2>1. LifecycleIn(<<>>) = {}
    BY LifecycleInSteps, <1>0
  <2>2. Ordered(<<>>, answered')
    BY DEF Ordered
  <2>3. Ordered(inbox, answered')
    BY <1>0, <1>g
  <2>4. writerQ' = <<>> /\ inbox' = inbox
    BY <1>2 DEF FramesDropped
  <2>5. OrderInv'
    BY <2>1, <2>2, <2>3, <2>4 DEF OrderInv
  <2> QED
    BY <2>1, <2>4, <2>5 DEF LifecycleSent
<1>3. CASE FrameTaken
  <2>0. writerQ # <<>> /\ writerQ' = Tail(writerQ)
    BY <1>3 DEF FrameTaken
  <2>1. Head(writerQ) \in WriterMsg
    BY <1>0, <2>0, HeadTailType
  <2>2. /\ Ordered(Tail(writerQ), answered)
        /\ (Head(writerQ).t = "lifecycle" /\ LifecycleIn(Tail(writerQ)) # {}) =>
             Head(writerQ).x \in answered
    BY <1>0, <2>0, OrderedTail
  <2> DEFINE H == {f \in {Head(writerQ)} : f.t = "lifecycle"}
  <2>3. LifecycleIn(writerQ) = LifecycleIn(Tail(writerQ)) \cup H
    BY <1>0, <2>0, LifecycleInSteps
  <2>4. CASE inbox' = inbox
    <3>1. OrderInv'
      BY <1>0, <1>g, <2>0, <2>2, <2>3, <2>4 DEF OrderInv
    <3> QED
      BY <2>0, <2>3, <2>4, <3>1 DEF LifecycleSent
  <2>5. CASE inbox' = Append(inbox, Head(writerQ))
    <3>1. LifecycleIn(inbox') = LifecycleIn(inbox) \cup H
      BY <1>0, <2>1, <2>5, LifecycleInSteps
    <3>2. Head(writerQ).t = "lifecycle" => \A f \in LifecycleIn(inbox) : f.x \in answered
      BY <1>0, <2>3
    <3>3. Ordered(inbox', answered)
      BY <1>0, <2>1, <2>5, <3>2, OrderedAppend
    <3>4. LifecycleIn(Tail(writerQ)) # {} => \A f \in LifecycleIn(inbox') : f.x \in answered
      BY <1>0, <2>2, <2>3, <3>1
    <3>5. OrderInv'
      BY <1>g, <2>0, <2>2, <3>3, <3>4 DEF OrderInv
    <3> QED
      BY <2>0, <2>3, <3>1, <3>5 DEF LifecycleSent
  <2> QED
    BY <1>3, <2>4, <2>5 DEF FrameTaken
<1> QED
  BY <1>1, <1>2, <1>3

\* Queueing a frame keeps it when every earlier lifecycle frame is answered.
LEMMA OrderQueued ==
  ASSUME TypeOK, OrderInv, answered \subseteq answered', NEW e \in WriterMsg,
         writerQ' = Append(writerQ, e), inbox' = inbox,
         e.t = "lifecycle" => \A f \in LifecycleSent : f.x \in answered
  PROVE  /\ OrderInv'
         /\ LifecycleSent' = LifecycleSent \cup {f \in {e} : f.t = "lifecycle"}
<1>0. /\ writerQ \in Seq(WriterMsg) /\ inbox \in Seq(WriterMsg)
      /\ Ordered(inbox, answered) /\ Ordered(writerQ, answered)
      /\ LifecycleIn(writerQ) # {} => \A f \in LifecycleIn(inbox) : f.x \in answered
  BY DEF TypeOK, TypeWriter, OrderInv
<1>1. LifecycleIn(writerQ') = LifecycleIn(writerQ) \cup {f \in {e} : f.t = "lifecycle"}
  BY <1>0, LifecycleInSteps
<1>2. Ordered(writerQ', answered)
  BY <1>0, OrderedAppend DEF LifecycleSent
<1>3. Ordered(writerQ', answered') /\ Ordered(inbox', answered')
  BY <1>0, <1>2, OrderedGrows
<1>4. LifecycleIn(writerQ') # {} => \A f \in LifecycleIn(inbox') : f.x \in answered'
  BY <1>0, <1>1 DEF LifecycleSent
<1> QED
  BY <1>1, <1>3, <1>4 DEF OrderInv, LifecycleSent

\* What a step of the loop does to the frames.
LEMMA FrameSteps ==
  ASSUME TypeOK, RunStep
  PROVE  \/ UNCHANGED <<writerQ, inbox>> \/ FrameTaken \/ FramesDropped
         \/ \E e \in WriterMsg :
              writerQ' = Append(writerQ, e) /\ inbox' = inbox /\ e.t # "lifecycle"
         \/ StepDispatchNew \/ StepDispatchNext
<1> USE DEF channels, current
<1>1. \/ StepPass \/ StepEnqueue \/ StepEndRequest \/ StepSpawn \/ StepReleaseCall
      \/ StepLifecycleFlushed \/ StepShutdownFlushed \/ StepComplete \/ StepAbort
      => UNCHANGED <<writerQ, inbox>>
  BY DEF StepPass, StepEnqueue, StepEndRequest, StepSpawn, StepReleaseCall,
         StepLifecycleFlushed, StepShutdownFlushed, StepComplete, StepAbort
<1>2. StepWrite => FrameTaken
  BY DEF StepWrite, FrameTaken
<1>3. StepAck => UNCHANGED <<writerQ, inbox>> \/ FramesDropped
  BY DEF StepAck, FramesDropped
<1>4. StepRefuseCall \/ StepQueueResult =>
        \E e \in WriterMsg :
          writerQ' = Append(writerQ, e) /\ inbox' = inbox /\ e.t # "lifecycle"
  <2>1. ASSUME StepRefuseCall \/ StepQueueResult
        PROVE  \E e \in WriterMsg :
                 writerQ' = Append(writerQ, e) /\ inbox' = inbox /\ e.t # "lifecycle"
    <3>1. PICK c \in Calls, e \in WriterMsg :
            e \in Results(c) /\ writerQ' = Append(writerQ, e) /\ inbox' = inbox
      BY <2>1 DEF StepRefuseCall, StepQueueResult
    <3>2. e.t # "lifecycle"
      BY <3>1 DEF Results
    <3> QED
      BY <3>1, <3>2
  <2> QED
    BY <2>1
<1>5. StepShutdown =>
        \E e \in WriterMsg :
          writerQ' = Append(writerQ, e) /\ inbox' = inbox /\ e.t # "lifecycle"
  <2>1. Msg("shutdown", NoId, "") \in WriterMsg /\ Msg("shutdown", NoId, "").t # "lifecycle"
    BY BuiltMessages DEF Msg
  <2> QED
    BY <2>1 DEF StepShutdown
<1> QED
  BY <1>1, <1>2, <1>3, <1>4, <1>5 DEF RunStep

\* Everything the reader hands over has been emitted.
LEMMA ReaderSteps ==
  ASSUME TypeOK, [Next]_vars
  PROVE  \/ readerQ' = readerQ \/ readerQ' = <<>>
         \/ readerQ # <<>> /\ readerQ' = Tail(readerQ)
         \/ \E e \in ReaderMsg : /\ readerQ' = Append(readerQ, e)
                                 /\ e.t = "terminal" => e.x \in answered'
<1> USE DEF armFrame, callerVars, lifeVars, callVars, closeVars, openVars, writerVars,
            moduleVars, endVars, handleVars
<1>1. CASE UNCHANGED vars
  BY <1>1 DEF vars
<1>2. ASSUME CallerNext PROVE readerQ' = readerQ
  BY <1>2 DEF CallerNext, Submit, SubmitClosed, Abandon, StopBegin, StopForce, DropSenders,
         RegisterHandle, ReleaseLoad, ReleaseApply
<1>3. ASSUME TaskNext PROVE readerQ' = readerQ
  BY <1>3 DEF TaskNext, WriterWrite, WriterFail, WriterAck, WorkerComplete, WorkerAbort
<1>4. ASSUME ControlArm \/ RpcArm PROVE readerQ' = readerQ
  BY <1>4 DEF ControlArm, HandleRequest, HandleShutdown, HandleForce, HandleControlClosed,
         RpcArm, HandleRpcComplete, HandleHostComplete, HandleFlushed, HandleLifecycleFlushed,
         HandleShutdownFlushed, HandleWriterFailed
<1>5. ASSUME ObserveExit \/ ShutdownDeadline \/ LifecycleDeadline \/ Kill \/ Finish
      PROVE  readerQ' = readerQ \/ readerQ' = <<>>
  BY <1>5 DEF ObserveExit, ShutdownDeadline, LifecycleDeadline, Kill, Finish
<1>6. ASSUME ReaderArm PROVE readerQ # <<>> /\ readerQ' = Tail(readerQ)
  BY <1>6 DEF ReaderArm, HandleTelegramInvoke, HandleHostInvoke, HandleTerminal, HandleLog,
         HandleInboundError, HandleEof, ReaderReady
<1>7. ASSUME ModuleNext
      PROVE  \/ readerQ' = readerQ
             \/ \E e \in ReaderMsg : /\ readerQ' = Append(readerQ, e)
                                     /\ e.t = "terminal" => e.x \in answered'
  <2>1. ASSUME NEW id \in Ids, NEW kind \in TerminalKinds, ReadTerminal(id, kind)
        PROVE  \E e \in ReaderMsg : /\ readerQ' = Append(readerQ, e)
                                    /\ e.t = "terminal" => e.x \in answered'
    <3>1. Msg("terminal", id, kind) \in ReaderMsg /\ Msg("terminal", id, kind).x = id
      BY DEF Msg, ReaderMsg
    <3>2. readerQ' = Append(readerQ, Msg("terminal", id, kind)) /\ id \in answered'
      BY <2>1 DEF ReadTerminal, Read
    <3> QED
      BY <3>1, <3>2
  <2>2. /\ \A id \in Ids : Msg("log", id, "") \in ReaderMsg /\ Msg("log", id, "").t = "log"
        /\ \A c \in Calls, m \in GatewayMethods :
             /\ Msg("telegram_invoke", c, m) \in ReaderMsg
             /\ Msg("telegram_invoke", c, m).t = "telegram_invoke"
        /\ \A c \in Calls, m \in HostCalls :
             /\ Msg("host_invoke", c, m) \in ReaderMsg
             /\ Msg("host_invoke", c, m).t = "host_invoke"
        /\ \A m \in {"protocol_decode", "line_too_large"} :
             /\ Msg("inbound_error", NoId, m) \in ReaderMsg
             /\ Msg("inbound_error", NoId, m).t = "inbound_error"
        /\ Msg("eof", NoId, "") \in ReaderMsg /\ Msg("eof", NoId, "").t = "eof"
    BY DEF Msg, ReaderMsg
  <2>3. ASSUME ReadOther \/ ReadError \/ ReadEof
        PROVE  \E e \in ReaderMsg : readerQ' = Append(readerQ, e) /\ e.t # "terminal"
    <3>1. CASE ReadOther
      <4>1. \E e \in ReaderMsg : Read(e) /\ e.t # "terminal"
        BY <2>2, <3>1 DEF ReadOther
      <4> QED
        BY <4>1 DEF Read
    <3>2. CASE ReadError
      <4>1. \E e \in ReaderMsg : Read(e) /\ e.t # "terminal"
        BY <2>2, <3>2 DEF ReadError
      <4> QED
        BY <4>1 DEF Read
    <3>3. CASE ReadEof
      BY <2>2, <3>3 DEF ReadEof
    <3> QED
      BY <2>3, <3>1, <3>2, <3>3
  <2>4. ASSUME ChildExit PROVE readerQ' = readerQ
    BY <2>4 DEF ChildExit
  <2> QED
    BY <1>7, <2>1, <2>3, <2>4 DEF ModuleNext
<1> QED
  BY <1>1, <1>2, <1>3, <1>4, <1>5, <1>6, <1>7 DEF Next, SupervisorNext

\* So a terminal frame is always one the module emitted.
LEMMA TerminalKept ==
  ASSUME TypeOK, TerminalInv, answered \subseteq answered', [Next]_vars
  PROVE  TerminalInv'
<1>0. readerQ \in Seq(ReaderMsg)
  BY DEF TypeOK, TypeModule
<1>1. CASE readerQ' = readerQ
  BY <1>1 DEF TerminalInv
<1>2. CASE readerQ' = <<>>
  BY <1>2 DEF TerminalInv, Elements
<1>3. CASE readerQ # <<>> /\ readerQ' = Tail(readerQ)
  <2>1. Elements(readerQ') \subseteq Elements(readerQ)
    BY <1>0, <1>3, ElementsTail
  <2> QED
    BY <2>1 DEF TerminalInv
<1>4. ASSUME NEW e \in ReaderMsg, readerQ' = Append(readerQ, e),
             e.t = "terminal" => e.x \in answered'
      PROVE  TerminalInv'
  <2>1. Elements(readerQ') = Elements(readerQ) \cup {e}
    BY <1>0, <1>4, ElementsAppend
  <2> QED
    BY <1>4, <2>1 DEF TerminalInv
<1> QED
  BY <1>1, <1>2, <1>3, <1>4, ReaderSteps

\* When the in-flight request is being answered, the module has emitted the answer.
LEMMA AnsweringAnswered ==
  ASSUME TypeOK, TerminalInv, Answering
  PROVE  inFlight # NoId /\ ReqId[inFlight] \in answered
<1>1. Head(readerQ) \in Elements(readerQ)
  BY ElementsTail DEF TypeOK, TypeModule, Answering
<1> QED
  BY <1>1 DEF TerminalInv, Answering, InFlightId

\* Only the frame of the request in flight is open.
LEMMA OpenKept ==
  ASSUME TypeOK, ClosingDrainsRequests, OrderInv, OpenInv, TerminalInv, RunStep
  PROVE  OrderInv' /\ OpenInv'
<1>0. RunPhase /\ (closing => closing') /\ answered \subseteq answered'
  BY DEF RunStep
<1>1. ASSUME NEW r \in Requests, Dispatches(r), \A f \in LifecycleSent : f.x \in answered
      PROVE  OrderInv' /\ OpenInv'
  <2>1. ReqId[r] \in Ids /\ r # NoId
    BY ConstantsAssumption DEF ConstantsAssumption
  <2> DEFINE e == Msg("lifecycle", ReqId[r], "")
  <2>2. e \in WriterMsg /\ e.x = ReqId[r]
    BY <2>1, BuiltMessages DEF Msg
  <2>3. writerQ' = Append(writerQ, e) /\ inbox' = inbox /\ inFlight' = r
    BY <1>1 DEF Dispatches
  <2> HIDE DEF e
  <2>4. OrderInv' /\ LifecycleSent' = LifecycleSent \cup {f \in {e} : f.t = "lifecycle"}
    BY <1>0, <1>1, <2>2, <2>3, OrderQueued
  <2>5. InFlightId(e.x)'
    BY <2>1, <2>2, <2>3 DEF InFlightId
  <2>6. \A f \in LifecycleSent' : f.x \in answered' \/ f = e
    BY <1>0, <1>1, <2>4
  <2> QED
    BY <2>4, <2>5, <2>6 DEF OpenInv
<1>2. CASE StepDispatchNew
  <2>1. PICK r \in Requests : inFlight = NoId /\ ~closing /\ Dispatches(r)
    BY <1>2 DEF StepDispatchNew
  <2>2. \A f \in LifecycleSent : f.x \in answered
    BY <1>0, <2>1 DEF OpenInv, InFlightId
  <2> QED
    BY <1>1, <2>1, <2>2
<1>3. CASE StepDispatchNext
  <2>1. waiting # <<>> /\ Answering /\ Dispatches(Head(waiting)) /\ Head(waiting) \in Requests
    BY <1>3, HeadTailType DEF StepDispatchNext, TypeOK, TypeLife
  <2>2. ~closing
    BY <2>1 DEF ClosingDrainsRequests
  <2>3. \A f \in LifecycleSent : f.x \in answered
    BY <1>0, <2>1, <2>2, AnsweringAnswered DEF OpenInv, InFlightId
  <2> QED
    BY <1>1, <2>1, <2>3
<1>4. ASSUME LifecycleSent' \subseteq LifecycleSent, ~StepDispatchNew, ~StepDispatchNext
      PROVE  OpenInv'
  <2>1. \/ inFlight' = inFlight \/ StepEndRequest \/ closing'
    BY <1>4
    DEF RunStep, StepPass, StepEnqueue, StepShutdown, StepRefuseCall, StepSpawn,
        StepQueueResult, StepReleaseCall, StepLifecycleFlushed, StepShutdownFlushed, StepWrite,
        StepAck, StepComplete, StepAbort, current
  <2>2. CASE inFlight' = inFlight
    BY <1>0, <1>4, <2>2 DEF OpenInv, InFlightId
  <2>3. CASE closing'
    BY <2>3 DEF OpenInv
  <2>4. CASE StepEndRequest
    <3>1. Answering
      BY <2>4 DEF StepEndRequest
    <3>2. \A id : InFlightId(id) => id \in answered
      BY <3>1, AnsweringAnswered DEF InFlightId
    <3> QED
      BY <1>0, <1>4, <3>2 DEF OpenInv
  <2> QED
    BY <2>1, <2>2, <2>3, <2>4
<1>5. CASE ~StepDispatchNew /\ ~StepDispatchNext
  <2>1. OrderInv' /\ LifecycleSent' \subseteq LifecycleSent
    <3>1. CASE UNCHANGED <<writerQ, inbox>> \/ FrameTaken \/ FramesDropped
      BY <1>0, <3>1, OrderTaken
    <3>2. ASSUME NEW e \in WriterMsg, writerQ' = Append(writerQ, e), inbox' = inbox,
                 e.t # "lifecycle"
          PROVE  OrderInv' /\ LifecycleSent' \subseteq LifecycleSent
      BY <1>0, <3>2, OrderQueued
    <3> QED
      BY <1>5, <3>1, <3>2, FrameSteps
  <2> QED
    BY <1>4, <1>5, <2>1
<1> QED
  BY <1>2, <1>3, <1>5

\* Two queues in order, one after the other.
LEMMA OrderedSent ==
  ASSUME TypeOK, OrderInv
  PROVE  SequentialContract
<1>0. /\ writerQ \in Seq(WriterMsg) /\ inbox \in Seq(WriterMsg)
      /\ Len(inbox) \in Nat /\ Len(writerQ) \in Nat
      /\ DOMAIN inbox = 1 .. Len(inbox) /\ DOMAIN writerQ = 1 .. Len(writerQ)
  BY LenProperties DEF TypeOK, TypeWriter
<1>1. /\ DOMAIN sent = 1 .. (Len(inbox) + Len(writerQ))
      /\ \A i \in 1 .. (Len(inbox) + Len(writerQ)) :
           sent[i] = IF i <= Len(inbox) THEN inbox[i] ELSE writerQ[i - Len(inbox)]
  BY <1>0, ConcatProperties, LenProperties DEF sent
<1> SUFFICES ASSUME NEW i \in 1 .. (Len(inbox) + Len(writerQ)),
                    NEW j \in 1 .. (Len(inbox) + Len(writerQ)),
                    i < j, sent[i].t = "lifecycle", sent[j].t = "lifecycle"
             PROVE  sent[i].x \in answered
  BY <1>1 DEF SequentialContract
<1>2. CASE j <= Len(inbox)
  <2>1. i \in DOMAIN inbox /\ j \in DOMAIN inbox /\ sent[i] = inbox[i] /\ sent[j] = inbox[j]
    BY <1>0, <1>1, <1>2
  <2> QED
    BY <2>1 DEF OrderInv, Ordered
<1>3. CASE i > Len(inbox)
  <2>1. /\ i - Len(inbox) \in DOMAIN writerQ /\ j - Len(inbox) \in DOMAIN writerQ
        /\ sent[i] = writerQ[i - Len(inbox)] /\ sent[j] = writerQ[j - Len(inbox)]
        /\ i - Len(inbox) < j - Len(inbox)
    BY <1>0, <1>1, <1>3
  <2> QED
    BY <2>1 DEF OrderInv, Ordered
<1>4. CASE i <= Len(inbox) /\ j > Len(inbox)
  <2>1. /\ i \in DOMAIN inbox /\ j - Len(inbox) \in DOMAIN writerQ
        /\ sent[i] = inbox[i] /\ sent[j] = writerQ[j - Len(inbox)]
    BY <1>0, <1>1, <1>4
  <2>2. sent[i] \in LifecycleIn(inbox) /\ sent[j] \in LifecycleIn(writerQ)
    BY <2>1 DEF LifecycleIn, Elements
  <2> QED
    BY <2>2 DEF OrderInv
<1> QED
  BY <1>0, <1>2, <1>3, <1>4

\* The inductive invariant of the requests, one after the other.
OrderlyInv == OrderInv /\ OpenInv /\ TerminalInv

\* It holds at the start.
LEMMA InitOrderly == Init => OrderlyInv
<1> SUFFICES ASSUME Init PROVE OrderlyInv
  OBVIOUS
<1>1. writerQ = <<>> /\ inbox = <<>> /\ readerQ = <<>>
  BY DEF Init
<1>2. LifecycleIn(<<>>) = {} /\ Ordered(<<>>, answered)
  BY DEF LifecycleIn, Elements, Ordered
<1>3. OrderInv /\ OpenInv
  BY <1>1, <1>2 DEF OrderInv, OpenInv, LifecycleSent
<1>4. TerminalInv
  BY <1>1 DEF TerminalInv, Elements
<1> QED
  BY <1>3, <1>4 DEF OrderlyInv

\* Every step preserves it.
LEMMA NextOrderly ==
  ASSUME TypeOK, ClosingDrainsRequests, OrderlyInv, [Next]_vars
  PROVE  OrderlyInv'
<1>0. OrderInv /\ OpenInv /\ TerminalInv
  BY DEF OrderlyInv
<1>1. CASE RunStep
  <2>1. answered \subseteq answered'
    BY <1>1 DEF RunStep
  <2> QED
    BY <1>0, <1>1, <2>1, OpenKept, TerminalKept DEF OrderlyInv
<1>2. CASE EndStep
  <2>1. answered \subseteq answered' /\ phase' # "run"
    BY <1>2 DEF EndStep
  <2>2. UNCHANGED <<writerQ, inbox>> \/ FrameTaken \/ FramesDropped
    BY <1>2 DEF EndStep, TakeFrame, DropQueue, FrameTaken, FramesDropped
  <2>3. OrderInv' /\ TerminalInv'
    BY <1>0, <2>1, <2>2, OrderTaken, TerminalKept
  <2>4. OpenInv'
    BY <2>1 DEF OpenInv, RunPhase
  <2> QED
    BY <2>3, <2>4 DEF OrderlyInv
<1> QED
  BY <1>1, <1>2, StepKinds

\* So it always holds.
LEMMA OrderlyAlways == Spec => []OrderlyInv
<1>1. TypeOK /\ ClosingDrainsRequests /\ OrderlyInv /\ [Next]_vars => OrderlyInv'
  BY NextOrderly
<1> QED
  BY InitOrderly, <1>1, TypeCorrect, ClosingDrains, PTL DEF Spec

\* A lifecycle frame reaches the writer only when the module has answered every
\* earlier one, whatever the requests, their ids and the interleaving
\* (supervise, dispatch_lifecycle).
THEOREM RequestsAreSequential == Spec => []SequentialContract
<1>1. TypeOK /\ OrderlyInv => SequentialContract
  BY OrderedSent DEF OrderlyInv
<1> QED
  BY <1>1, OrderlyAlways, TypeCorrect, PTL

-----------------------------------------------------------------------------
(* What stopping a module means.                                            *)

ShutdownWritten == \E f \in Elements(inbox) : f.t = "shutdown"
ShutdownTaken == rpcQ # <<>> /\ Head(rpcQ).t = "shutdown_flushed"
NoNewStop == \A s \in Stoppers : stop'[s] = "stopped" => stop[s] = "stopped"

\* The kinds of step for the end of a module.
StopQuiet ==
  /\ UNCHANGED <<phase, status, fatal, forceReply, shutdownFlushed>>
  /\ child' = child \/ (RunPhase /\ child = "alive")
  /\ \A s \in Stoppers :
       stop'[s] = "stopped" => stop[s] = "stopped" \/ status # "Running" \/ phase = "done"

StopFlushed ==
  RunPhase /\ ShutdownTaken /\ UNCHANGED <<phase, status, fatal, forceReply, child>> /\ NoNewStop

StopCrash ==
  /\ RunPhase /\ phase' = "teardown" /\ status' = "Crashed" /\ fatal' \in FatalReason
  /\ NoNewStop /\ UNCHANGED <<child, forceReply>>
  /\ shutdownFlushed' = shutdownFlushed \/ ShutdownTaken

StopClean ==
  /\ RunPhase /\ phase' = "teardown" /\ child = "exit_ok"
  /\ UNCHANGED <<status, fatal, child, forceReply>>
  /\ (shutdownFlushed /\ shutdownFlushed' = shutdownFlushed) \/ ShutdownTaken

StopForced ==
  /\ RunPhase /\ phase' = "teardown" /\ forceReply' \in Stoppers
  /\ UNCHANGED <<status, fatal, child, stop, shutdownFlushed>>

StopKill ==
  /\ phase = "teardown" /\ phase' = "killed" /\ child' = (IF child = "alive" THEN "killed" ELSE child)
  /\ UNCHANGED <<status, fatal, stop, forceReply, shutdownFlushed>>

StopFinish ==
  /\ phase = "killed" /\ phase' = "done"
  /\ status' = IF fatal = NoId THEN "Terminated" ELSE "Crashed"
  /\ UNCHANGED <<fatal, child, forceReply, shutdownFlushed>>

StopStep ==
  \/ StopQuiet \/ StopFlushed \/ StopCrash \/ StopClean \/ StopForced \/ StopKill \/ StopFinish

\* Answering a stopper with a failure stops nobody.
LEMMA FailedReply ==
  ASSUME TypeOK
  PROVE  /\ StopReply("failed") => NoNewStop
         /\ stop' = stop => NoNewStop
  BY DEF StopReply, NoNewStop

\* A crash, wherever it happens.
LEMMA CrashStep ==
  ASSUME TypeOK, RunPhase, NoNewStop, UNCHANGED <<child, forceReply>>,
         shutdownFlushed' = shutdownFlushed \/ ShutdownTaken,
         NEW rep, NEW rs, NEW reason \in FatalReason,
         Fatal(rep, rs, reason) \/ FatalHere(reason)
  PROVE  StopCrash
  BY DEF Fatal, FatalHere, StopCrash

\* A step of the loop that does not end it.
LEMMA QuietStep ==
  ASSUME NoNewStop, UNCHANGED <<phase, status, fatal, forceReply, shutdownFlushed, child>>
  PROVE  StopQuiet
  BY DEF StopQuiet, NoNewStop

\* shutdown_child_exit_result ends the loop either way.
LEMMA FinishShutdownStep ==
  ASSUME TypeOK, RunPhase, FinishShutdown, UNCHANGED <<child, forceReply>>,
         (shutdownFlushed /\ shutdownFlushed' = shutdownFlushed) \/ ShutdownTaken
  PROVE  StopStep
<1>1. CASE child = "exit_ok"
  <2>1. CleanBreak
    BY <1>1 DEF FinishShutdown
  <2> QED
    BY <1>1, <2>1 DEF CleanBreak, StopClean, StopStep
<1>2. CASE child # "exit_ok"
  <2>1. StopReply("failed") /\ FatalHere("unavailable")
    BY <1>2 DEF FinishShutdown
  <2>2. StopCrash
    BY <2>1, CrashStep, FailedReply DEF FatalReason
  <2> QED
    BY <2>2 DEF StopStep
<1> QED
  BY <1>1, <1>2

\* The callers and the child.
LEMMA OutsideStop ==
  ASSUME TypeOK, CallerNext \/ ModuleNext \/ TaskNext
  PROVE  StopStep
<1> USE DEF callerVars, lifeVars, callVars, closeVars, openVars, writerVars, moduleVars,
            endVars, handleVars
<1>1. UNCHANGED <<phase, status, fatal, forceReply, shutdownFlushed>>
  BY DEF CallerNext, Submit, SubmitClosed, Abandon, StopBegin, StopForce, DropSenders,
         RegisterHandle, ReleaseLoad, ReleaseApply, ModuleNext, ReadTerminal, ReadOther,
         ReadError, ReadEof, ChildExit, Read, TaskNext, WriterWrite, WriterFail, WriterAck,
         WorkerComplete, WorkerAbort
<1>2. child' = child \/ (RunPhase /\ child = "alive")
  BY DEF CallerNext, Submit, SubmitClosed, Abandon, StopBegin, StopForce, DropSenders,
         RegisterHandle, ReleaseLoad, ReleaseApply, ModuleNext, ReadTerminal, ReadOther,
         ReadError, ReadEof, ChildExit, Read, TaskNext, WriterWrite, WriterFail, WriterAck,
         WorkerComplete, WorkerAbort
<1>3. \A s \in Stoppers :
        stop'[s] = "stopped" => stop[s] = "stopped" \/ status # "Running" \/ phase = "done"
  <2>0. stop \in [Stoppers -> {"idle", "shutting", "failed", "forcing", "stopped"}]
    BY DEF TypeOK, TypeCallers
  <2>1. CASE \E s \in Stoppers : StopBegin(s) \/ StopForce(s)
    BY <2>0, <2>1 DEF StopBegin, StopForce
  <2>2. CASE stop' = stop
    BY <2>2
  <2>3. stop' = stop \/ \E s \in Stoppers : StopBegin(s) \/ StopForce(s)
    BY DEF CallerNext, Submit, SubmitClosed, Abandon, DropSenders,
           RegisterHandle, ReleaseLoad, ReleaseApply, ModuleNext, ReadTerminal, ReadOther,
           ReadError, ReadEof, ChildExit, Read, TaskNext, WriterWrite, WriterFail, WriterAck,
           WorkerComplete, WorkerAbort
  <2> QED
    BY <2>1, <2>2, <2>3
<1> QED
  BY <1>1, <1>2, <1>3 DEF StopStep, StopQuiet

\* The control arm.
LEMMA ControlStop ==
  ASSUME TypeOK, ControlArm
  PROVE  StopStep
<1> USE DEF armFrame, lifeVars, callVars, closeVars, openVars, writerVars, moduleVars,
            handleVars
<1>0. RunPhase /\ QueueFailure \in FatalReason
  BY QueueFailureType
  DEF ControlArm, HandleRequest, HandleShutdown, HandleForce, HandleControlClosed
<1>t. stop \in [Stoppers -> {"idle", "shutting", "failed", "forcing", "stopped"}]
  BY DEF TypeOK, TypeCallers
<1>1. ASSUME HandleRequest PROVE StopStep
  <2>1. UNCHANGED <<child, forceReply, shutdownFlushed, stop>>
    BY <1>1 DEF HandleRequest
  <2>2. NoNewStop
    BY <2>1, FailedReply
  <2>3. CASE UNCHANGED <<phase, status, fatal>>
    BY <2>1, <2>2, <2>3, QuietStep DEF StopStep
  <2>4. ASSUME NEW rep, NEW rs, Fatal(rep, rs, QueueFailure) PROVE StopStep
    BY <1>0, <2>1, <2>2, <2>4, CrashStep DEF StopStep
  <2>5. \/ UNCHANGED <<phase, status, fatal>>
        \/ \E rep, rs : Fatal(rep, rs, QueueFailure)
    BY <1>1 DEF HandleRequest, DispatchLifecycle
  <2> QED
    BY <2>3, <2>4, <2>5
<1>2. ASSUME NEW t, StartShutdown(t), UNCHANGED <<child, forceReply, shutdownFlushed>>
      PROVE  StopStep
  <2>1. CASE CanQueue
    <3>1. stop' = stop /\ UNCHANGED <<phase, status, fatal>>
      BY <1>2, <2>1 DEF StartShutdown
    <3> QED
      BY <1>2, <3>1, FailedReply, QuietStep DEF StopStep
  <2>2. CASE ~CanQueue
    <3>1. /\ Fatal(Answer(reply, Outstanding, "unavailable"), {}, QueueFailure)
          /\ stop' = [s \in Stoppers |-> IF s = t THEN "failed" ELSE stop[s]]
      BY <1>2, <2>2 DEF StartShutdown
    <3>2. NoNewStop
      BY <3>1 DEF NoNewStop
    <3>3. StopCrash
      BY <1>0, <1>2, <3>1, <3>2, CrashStep
    <3> QED
      BY <3>3 DEF StopStep
  <2> QED
    BY <2>1, <2>2
<1>3. ASSUME HandleShutdown PROVE StopStep
  <2>0. UNCHANGED <<child, forceReply, shutdownFlushed>>
    BY <1>3 DEF HandleShutdown
  <2>1. CASE closing
    <3>1. /\ stop' = [stop EXCEPT ![Head(control).x] = "failed"]
          /\ UNCHANGED <<phase, status, fatal>>
      BY <1>3, <2>1 DEF HandleShutdown, StartShutdown, SecondShutdownReply
    <3>2. NoNewStop
      BY <1>t, <3>1 DEF NoNewStop
    <3> QED
      BY <2>0, <3>1, <3>2, QuietStep DEF StopStep
  <2>2. CASE ~closing
    BY <1>2, <1>3, <2>0, <2>2 DEF HandleShutdown
  <2> QED
    BY <2>1, <2>2
<1>4. ASSUME HandleForce PROVE StopStep
  <2>1. control \in Seq(ControlMsg) /\ control # <<>> /\ Head(control).t = "force"
    BY <1>4 DEF HandleForce, TypeOK, TypeCallers
  <2>2. Head(control) \in ControlMsg
    BY <2>1, HeadTailType
  <2>3. Head(control).x \in Stoppers
    BY <2>1, <2>2 DEF ControlMsg
  <2>4. StopForced
    BY <1>0, <1>4, <2>3 DEF HandleForce, CleanBreak, StopForced
  <2> QED
    BY <2>4 DEF StopStep
<1>5. ASSUME HandleControlClosed PROVE StopStep
  <2>0. UNCHANGED <<child, forceReply, shutdownFlushed>>
    BY <1>5 DEF HandleControlClosed
  <2>1. CASE closing
    <3>1. stop' = stop /\ UNCHANGED <<phase, status, fatal>>
      BY <1>5, <2>1 DEF HandleControlClosed
    <3> QED
      BY <2>0, <3>1, FailedReply, QuietStep DEF StopStep
  <2>2. CASE ~closing
    BY <1>2, <1>5, <2>0, <2>2 DEF HandleControlClosed
  <2> QED
    BY <2>1, <2>2
<1> QED
  BY <1>1, <1>3, <1>4, <1>5 DEF ControlArm

\* The reader's arm.
LEMMA ReaderStop ==
  ASSUME TypeOK, ReaderArm
  PROVE  StopStep
<1> USE DEF armFrame, lifeVars, callVars, closeVars, openVars, writerVars, moduleVars,
            handleVars, lifecycleAndEnd
<1>0. RunPhase /\ QueueFailure \in FatalReason
  BY QueueFailureType
  DEF ReaderArm, HandleTelegramInvoke, HandleHostInvoke, HandleTerminal, HandleLog,
      HandleInboundError, HandleEof, ReaderReady
<1>1. UNCHANGED <<child, forceReply, shutdownFlushed>>
  BY DEF ReaderArm, HandleTelegramInvoke, HandleHostInvoke, HandleTerminal, HandleLog,
         HandleInboundError, HandleEof
<1>2. NoNewStop
  <2>1. CASE HandleEof
    BY <2>1, FailedReply DEF HandleEof
  <2>2. CASE ~HandleEof
    BY <2>2, FailedReply
    DEF ReaderArm, HandleTelegramInvoke, HandleHostInvoke, HandleTerminal, HandleLog,
        HandleInboundError
  <2> QED
    BY <2>1, <2>2
<1>3. CASE UNCHANGED <<phase, status, fatal>>
  BY <1>1, <1>2, <1>3, QuietStep DEF StopStep
<1>4. ASSUME NEW rep, NEW rs, NEW reason \in FatalReason,
             Fatal(rep, rs, reason) \/ FatalHere(reason)
      PROVE  StopStep
  BY <1>0, <1>1, <1>2, <1>4, CrashStep DEF StopStep
<1>5. {"wrong_request_id", "wrong_module_id", "protocol_decode", "backpressure", "unavailable",
       "line_too_large"} \subseteq FatalReason
  BY DEF FatalReason
<1>6. ASSUME HandleTelegramInvoke \/ HandleHostInvoke PROVE StopStep
  <2>1. \/ UNCHANGED <<phase, status, fatal>>
        \/ FatalHere("protocol_decode") \/ FatalHere("backpressure") \/ FatalHere(QueueFailure)
    BY <1>6 DEF HandleTelegramInvoke, HandleHostInvoke, QueueResult
  <2> QED
    BY <1>0, <1>3, <1>4, <1>5, <2>1
<1>7. ASSUME HandleTerminal PROVE StopStep
  <2>1. \/ UNCHANGED <<phase, status, fatal>>
        \/ FatalHere("wrong_request_id") \/ FatalHere("wrong_module_id")
        \/ FatalHere("protocol_decode")
        \/ \E rep, rs : Fatal(rep, rs, QueueFailure)
    BY <1>7 DEF HandleTerminal, DispatchLifecycle
  <2> QED
    BY <1>0, <1>3, <1>4, <1>5, <2>1
<1>8. ASSUME HandleLog PROVE StopStep
  <2>1. UNCHANGED <<phase, status, fatal>> \/ FatalHere("wrong_request_id")
    BY <1>8 DEF HandleLog
  <2> QED
    BY <1>3, <1>4, <1>5, <2>1
<1>9. ASSUME HandleInboundError PROVE StopStep
  <2>1. readerQ # <<>> /\ Head(readerQ).t = "inbound_error" /\ FatalHere(Head(readerQ).m)
    BY <1>9 DEF HandleInboundError, ReaderReady
  <2>2. Head(readerQ) \in ReaderMsg
    BY <2>1, HeadTailType DEF TypeOK, TypeModule
  <2>3. Head(readerQ).m \in {"protocol_decode", "line_too_large"}
    BY <2>1, <2>2 DEF ReaderMsg
  <2> QED
    BY <1>4, <1>5, <2>1, <2>3
<1>10. ASSUME HandleEof PROVE StopStep
  <2>1. UNCHANGED <<phase, status, fatal>> \/ FatalHere("unavailable")
    BY <1>10 DEF HandleEof
  <2> QED
    BY <1>3, <1>4, <1>5, <2>1
<1> QED
  BY <1>6, <1>7, <1>8, <1>9, <1>10 DEF ReaderArm

\* The arm of the writer's and the workers' events.
LEMMA RpcStop ==
  ASSUME TypeOK, RpcArm
  PROVE  StopStep
<1> USE DEF armFrame, callerVars, lifeVars, callVars, closeVars, openVars, writerVars,
            moduleVars, endVars, handleVars, lifecycleAndEnd
<1>0. RunPhase /\ QueueFailure \in FatalReason
  BY QueueFailureType
  DEF RpcArm, HandleRpcComplete, HandleHostComplete, HandleFlushed, HandleLifecycleFlushed,
      HandleShutdownFlushed, HandleWriterFailed, RpcReady
<1>1. UNCHANGED <<child, forceReply>>
  BY DEF RpcArm, HandleRpcComplete, HandleHostComplete, HandleFlushed, HandleLifecycleFlushed,
         HandleShutdownFlushed, HandleWriterFailed
<1>2. {"wrong_request_id", "writer_unavailable"} \subseteq FatalReason
  BY DEF FatalReason
<1>3. ASSUME HandleRpcComplete \/ HandleHostComplete \/ HandleFlushed \/ HandleLifecycleFlushed
      PROVE  StopStep
  <2>1. stop' = stop /\ shutdownFlushed' = shutdownFlushed
    BY <1>3 DEF HandleRpcComplete, HandleHostComplete, HandleFlushed, HandleLifecycleFlushed
  <2>2. \/ UNCHANGED <<phase, status, fatal>>
        \/ FatalHere(QueueFailure) \/ FatalHere("wrong_request_id")
    BY <1>3 DEF HandleRpcComplete, HandleHostComplete, HandleFlushed, HandleLifecycleFlushed,
                QueueResult
  <2>3. CASE UNCHANGED <<phase, status, fatal>>
    BY <1>1, <2>1, <2>3, FailedReply, QuietStep DEF StopStep
  <2>4. CASE FatalHere(QueueFailure) \/ FatalHere("wrong_request_id")
    <3>1. StopCrash
      BY <1>0, <1>1, <1>2, <2>1, <2>4, FailedReply, CrashStep
    <3> QED
      BY <3>1 DEF StopStep
  <2> QED
    BY <2>2, <2>3, <2>4
<1>4. ASSUME HandleShutdownFlushed PROVE StopStep
  <2>1. ShutdownTaken
    BY <1>4 DEF HandleShutdownFlushed, RpcReady, ShutdownTaken
  <2>2. CASE exitSeen
    <3>1. FinishShutdown
      BY <1>4, <2>2 DEF HandleShutdownFlushed
    <3> QED
      BY <1>0, <1>1, <2>1, <3>1, FinishShutdownStep
  <2>3. CASE ~exitSeen
    <3>1. stop' = stop /\ UNCHANGED <<phase, status, fatal>>
      BY <1>4, <2>3 DEF HandleShutdownFlushed
    <3> QED
      BY <1>0, <1>1, <2>1, <3>1, FailedReply DEF StopStep, StopFlushed
  <2> QED
    BY <2>2, <2>3
<1>5. ASSUME HandleWriterFailed PROVE StopStep
  <2>1. /\ StopReply("failed") /\ FatalHere("writer_unavailable")
        /\ shutdownFlushed' = shutdownFlushed
    BY <1>5 DEF HandleWriterFailed
  <2>2. StopCrash
    BY <1>0, <1>1, <1>2, <2>1, FailedReply, CrashStep
  <2> QED
    BY <2>2 DEF StopStep
<1> QED
  BY <1>3, <1>4, <1>5 DEF RpcArm

\* The child's exit, the deadlines and the teardown.
LEMMA OwnStop ==
  ASSUME TypeOK, ObserveExit \/ ShutdownDeadline \/ LifecycleDeadline \/ Kill \/ Finish
  PROVE  StopStep
<1> USE DEF armFrame, callerVars, lifeVars, callVars, closeVars, openVars, writerVars,
            moduleVars, endVars, handleVars
<1>0. {"unavailable", "shutdown_timeout", "execution_timeout"} \subseteq FatalReason
  BY DEF FatalReason
<1>1. ASSUME ObserveExit PROVE StopStep
  <2>1. RunPhase /\ UNCHANGED <<child, forceReply, shutdownFlushed>>
    BY <1>1 DEF ObserveExit
  <2>2. CASE FatalHere("unavailable") /\ stop' = stop
    <3>1. StopCrash
      BY <1>0, <2>1, <2>2, FailedReply, CrashStep
    <3> QED
      BY <3>1 DEF StopStep
  <2>3. CASE shutdownFlushed /\ FinishShutdown
    BY <2>1, <2>3, FinishShutdownStep
  <2>4. CASE stop' = stop /\ UNCHANGED <<phase, status, fatal>>
    BY <2>1, <2>4, FailedReply, QuietStep DEF StopStep
  <2> QED
    BY <1>1, <2>2, <2>3, <2>4 DEF ObserveExit
<1>2. ASSUME ShutdownDeadline PROVE StopStep
  <2>1. /\ RunPhase /\ UNCHANGED <<child, forceReply, shutdownFlushed>>
        /\ StopReply("failed") /\ FatalHere("shutdown_timeout")
    BY <1>2 DEF ShutdownDeadline
  <2>2. StopCrash
    BY <1>0, <2>1, FailedReply, CrashStep
  <2> QED
    BY <2>2 DEF StopStep
<1>3. ASSUME LifecycleDeadline PROVE StopStep
  <2>1. /\ RunPhase /\ UNCHANGED <<child, forceReply, shutdownFlushed, stop>>
        /\ FatalHere("execution_timeout")
    BY <1>3 DEF LifecycleDeadline
  <2>2. StopCrash
    BY <1>0, <2>1, FailedReply, CrashStep
  <2> QED
    BY <2>2 DEF StopStep
<1>4. ASSUME Kill PROVE StopStep
  BY <1>4 DEF Kill, StopKill, StopStep
<1>5. ASSUME Finish PROVE StopStep
  BY <1>5 DEF Finish, StopFinish, StopStep
<1> QED
  BY <1>1, <1>2, <1>3, <1>4, <1>5

\* Hence every step.
LEMMA StopSteps ==
  ASSUME TypeOK, [Next]_vars
  PROVE  StopStep
<1>1. CASE UNCHANGED vars
  BY <1>1 DEF vars, callerVars, closeVars, moduleVars, endVars, StopStep, StopQuiet
<1> QED
  BY <1>1, OutsideStop, ControlStop, ReaderStop, RpcStop, OwnStop DEF Next, SupervisorNext

\* What is known at the end of a module, and on the way there.
EndInv ==
  /\ phase \in {"killed", "done"} => child # "alive"
  /\ RunPhase => fatal = NoId /\ status = "Running"
  /\ status # "Running" => child # "alive" \/ fatal # NoId
  /\ status = "Terminated" => fatal = NoId

CauseInv ==
  /\ shutdownFlushed => ShutdownWritten
  /\ ~RunPhase /\ fatal = NoId => (child = "exit_ok" /\ ShutdownWritten) \/ forceReply # NoId

\* The frame of a flush that the supervisor takes was written.
LEMMA ShutdownFrameWritten ==
  ASSUME TypeOK, RunPhase, FlushedInv, ShutdownTaken
  PROVE  ShutdownWritten
<1>1. Head(rpcQ) \in ActorMsg /\ Head(rpcQ) \in Elements(rpcQ)
  BY ElementsTail, HeadTailType DEF TypeOK, TypeWriter, ShutdownTaken
<1>2. PICK f \in Elements(inbox) : f \in WriterMsg /\ Head(rpcQ) = FlushEvent(f)
  BY <1>1 DEF FlushedInv, Events, Flushes, ShutdownTaken
<1>3. f.t = "shutdown"
  BY <1>2, FlushEventParts DEF ShutdownTaken
<1> QED
  BY <1>2, <1>3 DEF ShutdownWritten

\* A written shutdown frame stays written.
LEMMA ShutdownStaysWritten ==
  ASSUME TypeOK, [Next]_vars, ShutdownWritten
  PROVE  ShutdownWritten'
<1>1. Elements(inbox) \subseteq Elements(inbox')
  <2>1. CASE RunStep
    BY <2>1, InboxGrows
  <2>2. CASE EndStep
    <3>1. \/ inbox' = inbox
          \/ writerQ # <<>> /\ inbox' = Append(inbox, Head(writerQ))
      BY <2>2 DEF EndStep, TakeFrame, DropQueue
    <3>2. writerQ # <<>> => Head(writerQ) \in WriterMsg
      BY HeadTailType DEF TypeOK, TypeWriter
    <3>3. inbox \in Seq(WriterMsg)
      BY DEF TypeOK, TypeWriter
    <3>4. writerQ # <<>> =>
            Elements(Append(inbox, Head(writerQ))) = Elements(inbox) \cup {Head(writerQ)}
      BY <3>2, <3>3, ElementsAppend
    <3> QED
      BY <3>1, <3>4
  <2> QED
    BY <2>1, <2>2, StepKinds
<1> QED
  BY <1>1 DEF ShutdownWritten

\* The three invariants are preserved together.
LEMMA StopKept ==
  ASSUME TypeOK, FlushedInv, EndInv, CauseInv, StopMeansStopped, [Next]_vars
  PROVE  EndInv' /\ CauseInv' /\ StopMeansStopped'
<1>0. /\ NoId \notin FatalReason /\ NoId \notin Stoppers
      /\ ShutdownWritten => ShutdownWritten'
      /\ RunPhase /\ ShutdownTaken => ShutdownWritten
  BY ConstantsAssumption, SentinelAssumption, ShutdownStaysWritten, ShutdownFrameWritten
  DEF ConstantsAssumption, SentinelAssumption
<1> USE DEF RunPhase
<1>1. EndInv'
  BY <1>0, StopSteps
  DEF EndInv, StopStep, StopQuiet, StopFlushed, StopCrash, StopClean, StopForced, StopKill,
      StopFinish
<1>2. shutdownFlushed' => ShutdownWritten'
  BY <1>0, StopSteps
  DEF CauseInv, StopStep, StopQuiet, StopFlushed, StopCrash, StopClean, StopForced, StopKill,
      StopFinish
<1>3. ~RunPhase' /\ fatal' = NoId =>
        (child' = "exit_ok" /\ ShutdownWritten') \/ forceReply' # NoId
  BY <1>0, StopSteps
  DEF CauseInv, StopStep, StopQuiet, StopFlushed, StopCrash, StopClean, StopForced, StopKill,
      StopFinish
<1>4. StopMeansStopped'
  <2> SUFFICES ASSUME NEW s \in Stoppers, stop'[s] = "stopped"
               PROVE  phase' # "run" /\ (child' # "alive" \/ fatal' # NoId)
    BY DEF StopMeansStopped
  <2>1. stop[s] = "stopped" => phase # "run" /\ (child # "alive" \/ fatal # NoId)
    BY DEF StopMeansStopped
  <2>2. CASE StopQuiet
    BY <2>1, <2>2 DEF StopQuiet, EndInv
  <2>3. CASE StopFlushed
    BY <2>1, <2>3 DEF StopFlushed, NoNewStop
  <2>4. CASE StopCrash
    BY <1>0, <2>4 DEF StopCrash
  <2>5. CASE StopClean
    BY <2>5 DEF StopClean
  <2>6. CASE StopForced
    BY <2>1, <2>6 DEF StopForced
  <2>7. CASE StopKill
    BY <2>7 DEF StopKill
  <2>8. CASE StopFinish
    BY <2>8 DEF StopFinish, EndInv
  <2> QED
    BY <2>2, <2>3, <2>4, <2>5, <2>6, <2>7, <2>8, StopSteps DEF StopStep
<1> QED
  BY <1>1, <1>2, <1>3, <1>4 DEF CauseInv

\* Whoever is told that a module stopped is told the truth, and a module is
\* recorded Terminated only if it exited cleanly after the shutdown frame reached
\* it or a stopper forced it (shutdown_process, graceful_shutdown, terminate,
\* shutdown_child_exit_result).
THEOREM StopsAreTruthful == Spec => []StopContract
<1> DEFINE Inv == EndInv /\ CauseInv /\ StopMeansStopped
<1>1. Init => Inv
  BY DEF Init, EndInv, CauseInv, StopMeansStopped, RunPhase
<1>2. LifecycleInv /\ Inv /\ [Next]_vars => Inv'
  BY StopKept DEF LifecycleInv
<1>3. Inv => StopContract
  <2> SUFFICES ASSUME EndInv, CauseInv, StopMeansStopped PROVE TerminatedOnlyOnRequest
    BY DEF StopContract
  <2>1. status = "Terminated" => ~RunPhase /\ fatal = NoId
    BY DEF EndInv
  <2> QED
    BY <2>1 DEF CauseInv, TerminatedOnlyOnRequest, ShutdownWritten, Elements
<1> QED
  BY <1>1, <1>2, <1>3, LifecycleAlways, PTL DEF Spec

-----------------------------------------------------------------------------
(* A module that keeps the contract.                                        *)

Blamed == {"protocol_decode", "line_too_large", "wrong_request_id", "wrong_module_id",
           "unavailable"}
Replies == {"terminal", "log"}
Invokes == {"telegram_invoke", "host_invoke"}

\* What the host and the module agree on beyond the contract's rules for frames:
\* a call_id is used once, the host methods are those the supervisor accepts,
\* and the id of a request tells the response it expects.
Agreed ==
  /\ ~ReuseCallIds
  /\ HostCalls \subseteq SupervisorHostMethods
  /\ \A r, s \in Requests : ReqId[r] = ReqId[s] => Expected[r] = Expected[s]

\* The request a reply may be about, and the replies it admits.
Current(id) == IF closing THEN id = cancelled ELSE InFlightId(id)
Expects(id, kind) == \E r \in Requests : ReqId[r] = id /\ ExpectedMatches(Expected[r], kind)

\* A request the module may still answer is the current one.
CurrentInv == \A f \in LifecycleSent : f.x \in answered \/ Current(f.x)

\* A frame the supervisor accepts from the module, in whatever order it is read.
Legal(e) ==
  /\ e.t \in Replies => Current(e.x)
  /\ e.t = "terminal" => e.x \in answered /\ Expects(e.x, e.m)
  /\ e.t \in Invokes => issued[e.x] # 0 /\ e.x \notin activeCalls
  /\ e.t # "inbound_error"
  /\ e.t = "eof" => closing

\* No reply follows the terminal frame, and no two calls share an id.
Clash(e, f) ==
  \/ e.t = "terminal" /\ f.t \in Replies
  \/ e.t \in Invokes /\ f.t \in Invokes /\ e.x = f.x
Clear(q) == \A i, j \in DOMAIN q : i < j => ~Clash(q[i], q[j])

FramesInv == Clear(readerQ) /\ \A e \in Elements(readerQ) : Legal(e)

\* The child leaves only once the shutdown frame was sent, and cleanly.
LeavingInv ==
  /\ child # "alive" => child = "exit_ok" /\ closing
  /\ exitSeen => child # "alive"

IssuedInv == issued \in [Calls -> Nat] /\ \A c \in activeCalls : issued[c] # 0

HonestInv ==
  /\ fatal \notin Blamed
  /\ issued \in [Calls -> Nat]
  /\ RunPhase => CurrentInv /\ FramesInv /\ LeavingInv /\ IssuedInv

\* A request whose deadline runs awaits no flush, so none can restart it.
OwnFlushInv == RunPhase /\ deadline => ReqId[inFlight] \notin awaitingFlush

\* What holds of every module.
Served ==
  /\ TypeOK /\ ClosingDrainsRequests /\ OrderlyInv /\ BarrierInv /\ LifecycleInv
  /\ OwnFlushInv

\* The contract restricts what a module does and adds nothing to it.
LEMMA ConformingStep ==
  ASSUME [ConformingNext]_conformingVars
  PROVE  [Next]_vars
<1>1. CASE UNCHANGED conformingVars
  BY <1>1 DEF conformingVars
<1>2. CASE HostNext
  BY <1>2 DEF HostNext, Next
<1>3. ASSUME NEW id \in Ids, NEW kind \in TerminalKinds, ConformingResponse(id, kind)
      PROVE  ModuleNext
  BY <1>3 DEF ConformingResponse, ModuleNext
<1>4. ASSUME NEW id \in Ids, ConformingLog(id) PROVE ModuleNext
  BY <1>4 DEF ConformingLog, ModuleNext, ReadOther
<1>5. ASSUME NEW c \in Calls, NEW m \in GatewayMethods, ConformingTelegramCall(c, m)
      PROVE  ModuleNext
  BY <1>5 DEF ConformingTelegramCall, ModuleNext, ReadOther
<1>6. ASSUME NEW c \in Calls, NEW m \in HostCalls, ConformingHostCall(c, m)
      PROVE  ModuleNext
  BY <1>6 DEF ConformingHostCall, ModuleNext, ReadOther
<1>7. CASE ConformingEof \/ ConformingExit
  BY <1>7 DEF ConformingEof, ConformingExit, ModuleNext, Next
<1>8. CASE ModuleNext
  BY <1>8 DEF Next
<1> QED
  BY <1>1, <1>2, <1>3, <1>4, <1>5, <1>6, <1>7, <1>8 DEF ConformingNext

\* A deadline that runs stays with a flushed request.
LEMMA OwnFlushKept ==
  ASSUME TypeOK, OwnFlushInv, [Next]_vars
  PROVE  OwnFlushInv'
<1> USE DEF channels, current
<1>1. CASE EndStep
  BY <1>1 DEF EndStep, OwnFlushInv, RunPhase
<1>2. CASE RunStep
  <2>0. RunPhase
    BY <1>2 DEF RunStep
  <2>1. CASE \/ StepPass \/ StepEnqueue \/ StepRefuseCall \/ StepSpawn \/ StepQueueResult
             \/ StepReleaseCall \/ StepShutdownFlushed \/ StepWrite \/ StepAck \/ StepComplete
             \/ StepAbort
    <3>1. UNCHANGED <<deadline, inFlight, awaitingFlush>>
      BY <2>1 DEF StepPass, StepEnqueue, StepRefuseCall, StepSpawn, StepQueueResult,
         StepReleaseCall, StepShutdownFlushed, StepWrite, StepAck, StepComplete, StepAbort
    <3> QED
      BY <2>0, <3>1 DEF OwnFlushInv
  <2>2. CASE StepDispatchNew \/ StepDispatchNext \/ StepEndRequest \/ StepShutdown
    <3>1. deadline' = FALSE
      BY <2>2 DEF StepDispatchNew, StepDispatchNext, StepEndRequest, StepShutdown, Dispatches
    <3> QED
      BY <3>1 DEF OwnFlushInv
  <2>3. CASE StepLifecycleFlushed
    <3>1. PICK id \in Ids :
            /\ awaitingFlush' = awaitingFlush \ {id}
            /\ deadline' = (deadline \/ InFlightId(id)) /\ inFlight' = inFlight
      BY <2>3 DEF StepLifecycleFlushed
    <3> QED
      BY <2>0, <3>1 DEF OwnFlushInv, InFlightId
  <2> QED
    BY <1>2, <2>1, <2>2, <2>3 DEF RunStep
<1> QED
  BY <1>1, <1>2, StepKinds

\* Sending to a queue without clashes.
LEMMA ClearAppend ==
  ASSUME NEW X, NEW q \in Seq(X), NEW e \in X, Clear(q),
         \A f \in Elements(q) : ~Clash(f, e)
  PROVE  Clear(Append(q, e))
<1>1. /\ Len(q) \in Nat /\ DOMAIN q = 1 .. Len(q)
      /\ DOMAIN Append(q, e) = 1 .. (Len(q) + 1)
      /\ \A i \in 1 .. Len(q) : Append(q, e)[i] = q[i]
      /\ Append(q, e)[Len(q) + 1] = e
  BY AppendProperties, LenProperties
<1> SUFFICES ASSUME NEW i \in 1 .. (Len(q) + 1), NEW j \in 1 .. (Len(q) + 1), i < j
             PROVE  ~Clash(Append(q, e)[i], Append(q, e)[j])
  BY <1>1 DEF Clear
<1>2. i \in 1 .. Len(q) /\ Append(q, e)[i] = q[i] /\ q[i] \in Elements(q)
  BY <1>1 DEF Elements
<1>3. CASE j = Len(q) + 1
  BY <1>1, <1>2, <1>3
<1>4. CASE j # Len(q) + 1
  <2>1. j \in 1 .. Len(q) /\ Append(q, e)[j] = q[j]
    BY <1>1, <1>4
  <2> QED
    BY <1>1, <1>2, <2>1 DEF Clear
<1> QED
  BY <1>3, <1>4

\* Taking from one.
LEMMA ClearTail ==
  ASSUME NEW X, NEW q \in Seq(X), q # <<>>, Clear(q)
  PROVE  /\ Clear(Tail(q))
         /\ \A f \in Elements(Tail(q)) : ~Clash(Head(q), f)
<1>1. /\ Len(q) \in Nat /\ Len(q) >= 1 /\ DOMAIN q = 1 .. Len(q) /\ Head(q) = q[1]
      /\ DOMAIN Tail(q) = 1 .. (Len(q) - 1)
      /\ \A i \in 1 .. (Len(q) - 1) : Tail(q)[i] = q[i + 1]
  OBVIOUS
<1>2. Clear(Tail(q))
  <2> SUFFICES ASSUME NEW i \in 1 .. (Len(q) - 1), NEW j \in 1 .. (Len(q) - 1), i < j
               PROVE  ~Clash(Tail(q)[i], Tail(q)[j])
    BY <1>1 DEF Clear
  <2>1. /\ i + 1 \in DOMAIN q /\ j + 1 \in DOMAIN q /\ i + 1 < j + 1
        /\ Tail(q)[i] = q[i + 1] /\ Tail(q)[j] = q[j + 1]
    BY <1>1
  <2> QED
    BY <2>1 DEF Clear
<1>3. ASSUME NEW f \in Elements(Tail(q)) PROVE ~Clash(Head(q), f)
  <2>1. PICK j \in 1 .. (Len(q) - 1) : f = Tail(q)[j]
    BY <1>1, <1>3 DEF Elements
  <2>2. j + 1 \in DOMAIN q /\ 1 \in DOMAIN q /\ 1 < j + 1 /\ q[j + 1] = f
    BY <1>1, <2>1
  <2> QED
    BY <1>1, <2>2 DEF Clear
<1> QED
  BY <1>2, <1>3

\* A step that leaves the loop for another reason, or follows its end, blames nobody.
LEMMA HonestEnd ==
  ASSUME HonestInv, phase' # "run", issued' = issued,
         fatal' = fatal \/ fatal' \notin Blamed
  PROVE  HonestInv'
  BY DEF HonestInv, RunPhase

\* A break with a cause that is not the module's.
LEMMA HonestBreak ==
  /\ QueueFailure \notin Blamed
  /\ {"backpressure", "shutdown_timeout", "execution_timeout", "writer_unavailable"}
       \cap Blamed = {}
  /\ \A rep, rs, reason : Fatal(rep, rs, reason) => phase' # "run" /\ fatal' = reason
  /\ \A reason : FatalHere(reason) => phase' # "run" /\ fatal' = reason
  /\ CleanBreak => phase' # "run" /\ fatal' = fatal
  BY DEF QueueFailure, Blamed, Fatal, FatalHere, CleanBreak, FailLifecycle

readerStep == readerQ' = readerQ \/ (readerQ # <<>> /\ readerQ' = Tail(readerQ))

\* Reading a frame leaves the others clear of each other.
LEMMA ReadOn ==
  ASSUME TypeOK, Clear(readerQ), readerStep
  PROVE  Clear(readerQ') /\ Elements(readerQ') \subseteq Elements(readerQ)
<1>0. readerQ \in Seq(ReaderMsg)
  BY DEF TypeOK, TypeModule
<1>1. CASE readerQ' = readerQ
  BY <1>1
<1>2. CASE readerQ # <<>> /\ readerQ' = Tail(readerQ)
  BY <1>0, <1>2, ClearTail, ElementsTail
<1> QED
  BY <1>1, <1>2 DEF readerStep

\* A step that changes no request and reserves no call.
LEMMA HonestQuiet ==
  ASSUME TypeOK, HonestInv, RunPhase, readerStep, LifecycleSent' \subseteq LifecycleSent,
         activeCalls' \subseteq activeCalls, exitSeen' => exitSeen \/ child # "alive",
         UNCHANGED <<fatal, closing, cancelled, inFlight, answered, child, issued>>
  PROVE  HonestInv'
<1>0. CurrentInv /\ FramesInv /\ LeavingInv /\ IssuedInv /\ fatal \notin Blamed
  BY DEF HonestInv
<1>1. Clear(readerQ') /\ Elements(readerQ') \subseteq Elements(readerQ)
  BY <1>0, ReadOn DEF FramesInv
<1>2. \A id : Current(id)' = Current(id)
  BY DEF Current, InFlightId
<1>3. CurrentInv'
  BY <1>0, <1>2 DEF CurrentInv
<1>4. ASSUME NEW e \in Elements(readerQ') PROVE Legal(e)'
  BY <1>0, <1>1, <1>2, <1>4 DEF FramesInv, Legal, Expects
<1>5. FramesInv'
  BY <1>1, <1>4 DEF FramesInv
<1>6. LeavingInv' /\ IssuedInv'
  BY <1>0 DEF LeavingInv, IssuedInv
<1> QED
  BY <1>0, <1>3, <1>5, <1>6 DEF HonestInv, IssuedInv

\* A step that changes the request in flight when nothing is left to answer.
LEMMA HonestTurn ==
  ASSUME TypeOK, HonestInv, RunPhase, readerStep,
         \A f \in LifecycleSent' : f.x \in answered \/ Current(f.x)',
         \A e \in Elements(readerQ') : e.t \in Replies => Current(e.x)',
         closing => closing',
         UNCHANGED <<fatal, answered, activeCalls, child, exitSeen, issued>>
  PROVE  HonestInv'
<1>0. CurrentInv /\ FramesInv /\ LeavingInv /\ IssuedInv /\ fatal \notin Blamed
  BY DEF HonestInv
<1>1. Clear(readerQ') /\ Elements(readerQ') \subseteq Elements(readerQ)
  BY <1>0, ReadOn DEF FramesInv
<1>3. CurrentInv'
  BY DEF CurrentInv
<1>4. ASSUME NEW e \in Elements(readerQ') PROVE Legal(e)'
  BY <1>0, <1>1, <1>4 DEF FramesInv, Legal, Expects
<1>5. FramesInv'
  BY <1>1, <1>4 DEF FramesInv
<1>6. LeavingInv' /\ IssuedInv'
  BY <1>0 DEF LeavingInv, IssuedInv
<1> QED
  BY <1>0, <1>3, <1>5, <1>6 DEF HonestInv, IssuedInv

\* The callers reach nothing of this.
LEMMA HonestCallers ==
  ASSUME Served, HonestInv, CallerNext, issued' = issued
  PROVE  HonestInv'
<1> USE DEF callerVars, lifeVars, callVars, closeVars, openVars, writerVars, moduleVars,
            endVars, handleVars
<1>1. UNCHANGED <<phase, fatal, closing, cancelled, inFlight, answered, child, exitSeen,
                  activeCalls, readerQ, writerQ, inbox>>
  BY DEF CallerNext, Submit, SubmitClosed, Abandon, StopBegin, StopForce, DropSenders,
         RegisterHandle, ReleaseLoad, ReleaseApply
<1>2. CASE RunPhase
  <2>1. readerStep /\ LifecycleSent' \subseteq LifecycleSent
    BY <1>1 DEF readerStep, LifecycleSent
  <2> QED
    BY <1>1, <1>2, <2>1, HonestQuiet DEF Served
<1>3. CASE ~RunPhase
  BY <1>1, <1>3, HonestEnd DEF RunPhase
<1> QED
  BY <1>2, <1>3

\* The writer and the workers send no request and reserve no call.
LEMMA HonestTasks ==
  ASSUME Served, HonestInv, TaskNext, issued' = issued
  PROVE  HonestInv'
<1> USE DEF callerVars, lifeVars, callVars, closeVars, openVars, writerVars, moduleVars,
            endVars, handleVars
<1>1. UNCHANGED <<phase, fatal, closing, cancelled, inFlight, answered, child, exitSeen,
                  activeCalls, readerQ>>
  BY DEF TaskNext, WriterWrite, WriterFail, WriterAck, WorkerComplete, WorkerAbort
<1>2. UNCHANGED <<writerQ, inbox>> \/ FrameTaken \/ FramesDropped
  BY DEF TaskNext, WriterWrite, WriterFail, WriterAck, WorkerComplete, WorkerAbort, WriterIdle,
         FrameTaken, FramesDropped
<1>3. LifecycleSent' \subseteq LifecycleSent
  BY <1>1, <1>2, OrderTaken DEF Served, OrderlyInv
<1>4. CASE RunPhase
  BY <1>1, <1>3, <1>4, HonestQuiet DEF Served, readerStep
<1>5. CASE ~RunPhase
  BY <1>1, <1>5, HonestEnd DEF RunPhase
<1> QED
  BY <1>4, <1>5

\* A shutdown turns the request in flight into the cancelled one.
LEMMA HonestShutdown ==
  ASSUME Served, HonestInv, RunPhase, ~closing, NEW s, StartShutdown(s),
         UNCHANGED <<inbox, readerQ, answered, activeCalls, child, exitSeen, issued>>
  PROVE  HonestInv'
<1>0. TypeOK /\ OrderInv /\ CurrentInv /\ FramesInv
  BY DEF Served, OrderlyInv, HonestInv
<1>1. CASE CanQueue
  <2>1. /\ writerQ' = Append(writerQ, Msg("shutdown", NoId, ""))
        /\ closing' /\ fatal' = fatal
        /\ cancelled' = IF inFlight = NoId THEN NoId ELSE ReqId[inFlight]
    BY <1>1 DEF StartShutdown
  <2>2. Msg("shutdown", NoId, "") \in WriterMsg /\ Msg("shutdown", NoId, "").t # "lifecycle"
    BY BuiltMessages DEF Msg
  <2>3. LifecycleSent' = LifecycleSent
    BY <1>0, <2>1, <2>2, OrderQueued
  <2>4. \A id : Current(id) => Current(id)'
    BY <2>1 DEF Current, InFlightId
  <2>5. readerStep
    BY DEF readerStep
  <2>6. /\ \A f \in LifecycleSent' : f.x \in answered \/ Current(f.x)'
        /\ \A e \in Elements(readerQ') : e.t \in Replies => Current(e.x)'
    BY <1>0, <2>3, <2>4 DEF CurrentInv, FramesInv, Legal
  <2> QED
    BY <1>0, <2>1, <2>5, <2>6, HonestTurn
<1>2. CASE ~CanQueue
  BY <1>2, HonestBreak, HonestEnd DEF StartShutdown
<1> QED
  BY <1>1, <1>2

\* A dispatch, when every earlier request is answered and no reply is left to read.
LEMMA HonestDispatch ==
  ASSUME Served, HonestInv, RunPhase, ~closing, NEW r \in Requests, NEW rep, NEW rest,
         DispatchLifecycle(r, rep, rest), readerStep,
         \A f \in LifecycleSent : f.x \in answered,
         \A e \in Elements(readerQ') : e.t \notin Replies,
         UNCHANGED <<inbox, closing, answered, activeCalls, child, exitSeen, issued>>
  PROVE  HonestInv'
<1>0. TypeOK /\ OrderInv
  BY DEF Served, OrderlyInv
<1>1. CASE CanQueue
  <2>1. ReqId[r] \in Ids /\ r # NoId
    BY ConstantsAssumption DEF ConstantsAssumption
  <2> DEFINE e == Msg("lifecycle", ReqId[r], "")
  <2>2. e \in WriterMsg /\ e.x = ReqId[r]
    BY <2>1, BuiltMessages DEF Msg
  <2>3. writerQ' = Append(writerQ, e) /\ inFlight' = r /\ fatal' = fatal
    BY <1>1 DEF DispatchLifecycle
  <2> HIDE DEF e
  <2>4. LifecycleSent' = LifecycleSent \cup {f \in {e} : f.t = "lifecycle"}
    BY <1>0, <2>2, <2>3, OrderQueued
  <2>5. Current(e.x)'
    BY <2>1, <2>2, <2>3 DEF Current, InFlightId
  <2>6. \A f \in LifecycleSent' : f.x \in answered \/ Current(f.x)'
    BY <2>4, <2>5
  <2> QED
    BY <1>0, <2>3, <2>6, HonestTurn
<1>2. CASE ~CanQueue
  BY <1>2, HonestBreak, HonestEnd DEF DispatchLifecycle
<1> QED
  BY <1>1, <1>2

\* When no request is in flight, all are answered and every answer was read.
LEMMA NothingOpen ==
  ASSUME HonestInv, RunPhase, ~closing, inFlight = NoId
  PROVE  /\ \A f \in LifecycleSent : f.x \in answered
         /\ \A e \in Elements(readerQ) : e.t \notin Replies
  BY DEF HonestInv, CurrentInv, FramesInv, Legal, Current, InFlightId

\* The control arm.
LEMMA HonestControl ==
  ASSUME Served, HonestInv, ControlArm, issued' = issued
  PROVE  HonestInv'
<1> USE DEF armFrame, callerVars, lifeVars, callVars, closeVars, openVars, writerVars,
            moduleVars, endVars, handleVars
<1>0. TypeOK
  BY DEF Served
<1>1. ASSUME UNCHANGED <<fatal, closing, cancelled, inFlight, answered, child, exitSeen,
                         activeCalls, readerQ, writerQ, inbox>>, RunPhase
      PROVE  HonestInv'
  BY <1>0, <1>1, HonestQuiet DEF readerStep, LifecycleSent
<1>2. CASE HandleRequest
  <2>0. Head(control).x \in Requests
    BY <1>0, <1>2, HeadTailType DEF HandleRequest, TypeOK, TypeCallers, ControlMsg
  <2> DEFINE r == Head(control).x
  <2>1. /\ RunPhase
        /\ UNCHANGED <<inbox, closing, cancelled, answered, activeCalls, child, exitSeen,
                       readerQ>>
    BY <1>2 DEF HandleRequest
  <2>2. CASE Refusal(r) # NoId
    BY <1>1, <1>2, <2>1, <2>2 DEF HandleRequest
  <2>3. CASE Refusal(r) = NoId /\ MustWait
    BY <1>1, <1>2, <2>1, <2>3 DEF HandleRequest
  <2>4. CASE Refusal(r) = NoId /\ ~MustWait
    <3>1. DispatchLifecycle(r, reply, waiting) /\ inFlight = NoId
      BY <1>2, <2>4 DEF HandleRequest, MustWait
    <3>2. ~closing
      <4>1. closing => Refusal(r) = "unavailable"
        BY DEF Refusal
      <4> QED
        BY <2>4, <4>1, Reasons, SentinelAssumption DEF SentinelAssumption
    <3> QED
      BY <2>0, <2>1, <3>1, <3>2, NothingOpen, HonestDispatch DEF readerStep
  <2> QED
    BY <2>2, <2>3, <2>4
<1>3. CASE HandleShutdown
  <2>1. /\ RunPhase
        /\ UNCHANGED <<inbox, answered, activeCalls, child, exitSeen, readerQ>>
    BY <1>3 DEF HandleShutdown
  <2>2. CASE ~closing
    BY <1>3, <2>1, <2>2, HonestShutdown DEF HandleShutdown
  <2>3. CASE closing
    BY <1>1, <1>3, <2>1, <2>3 DEF HandleShutdown
  <2> QED
    BY <2>2, <2>3
<1>4. CASE HandleControlClosed
  <2>1. /\ RunPhase
        /\ UNCHANGED <<inbox, answered, activeCalls, child, exitSeen, readerQ>>
    BY <1>4 DEF HandleControlClosed
  <2>2. CASE ~closing
    BY <1>4, <2>1, <2>2, HonestShutdown DEF HandleControlClosed
  <2>3. CASE closing
    BY <1>1, <1>4, <2>1, <2>3 DEF HandleControlClosed
  <2> QED
    BY <2>2, <2>3
<1>5. CASE HandleForce
  BY <1>5, HonestBreak, HonestEnd DEF HandleForce
<1> QED
  BY <1>2, <1>3, <1>4, <1>5 DEF ControlArm

\* An accepted call: no frame left to read is of a call with its id.
LEMMA HonestAccept ==
  ASSUME TypeOK, HonestInv, RunPhase, readerQ # <<>>, readerQ' = Tail(readerQ),
         Head(readerQ).t \in Invokes,
         activeCalls' \subseteq activeCalls \cup {Head(readerQ).x},
         LifecycleSent' \subseteq LifecycleSent,
         UNCHANGED <<fatal, closing, cancelled, inFlight, answered, child, exitSeen, issued>>
  PROVE  HonestInv'
<1>0. CurrentInv /\ FramesInv /\ LeavingInv /\ IssuedInv /\ fatal \notin Blamed
  BY DEF HonestInv
<1> DEFINE h == Head(readerQ)
<1>1. /\ readerQ \in Seq(ReaderMsg) /\ h \in Elements(readerQ)
      /\ Elements(readerQ') \subseteq Elements(readerQ)
      /\ Clear(readerQ') /\ \A e \in Elements(readerQ') : ~Clash(h, e)
  BY <1>0, ElementsTail, ClearTail DEF FramesInv, TypeOK, TypeModule
<1>2. \A id : Current(id)' = Current(id)
  BY DEF Current, InFlightId
<1>3. CurrentInv'
  BY <1>0, <1>2 DEF CurrentInv
<1>4. ASSUME NEW e \in Elements(readerQ') PROVE Legal(e)'
  <2>1. Legal(e) /\ ~Clash(h, e)
    BY <1>0, <1>1, <1>4 DEF FramesInv
  <2>2. e.t \in Invokes => e.x \notin activeCalls'
    BY <2>1 DEF Legal, Clash
  <2> QED
    BY <1>2, <2>1, <2>2 DEF Legal, Expects
<1>5. FramesInv'
  BY <1>1, <1>4 DEF FramesInv
<1>6. issued[h.x] # 0
  BY <1>0, <1>1 DEF FramesInv, Legal
<1>7. LeavingInv' /\ IssuedInv'
  BY <1>0, <1>6 DEF LeavingInv, IssuedInv
<1> QED
  BY <1>0, <1>3, <1>5, <1>7 DEF HonestInv, IssuedInv

\* The result of a call is no lifecycle frame.
LEMMA ResultSends ==
  ASSUME Served, NEW frame \in WriterMsg, frame.t # "lifecycle", UNCHANGED <<inbox, answered>>,
         writerQ' = writerQ \/ writerQ' = Append(writerQ, frame)
  PROVE  LifecycleSent' = LifecycleSent
<1>0. TypeOK /\ OrderInv
  BY DEF Served, OrderlyInv
<1>1. CASE writerQ' = writerQ
  BY <1>1 DEF LifecycleSent
<1>2. CASE writerQ' = Append(writerQ, frame)
  BY <1>0, <1>2, OrderQueued
<1> QED
  BY <1>1, <1>2

\* The frame at the head of the reader's queue is legal.
LEMMA HeadLegal ==
  ASSUME TypeOK, HonestInv, RunPhase, readerQ # <<>>
  PROVE  Head(readerQ) \in ReaderMsg /\ Legal(Head(readerQ))
  BY ElementsTail, HeadTailType DEF HonestInv, FramesInv, TypeOK, TypeModule

\* The types of the frames of a module.
LEMMA InvokeTypes ==
  ASSUME NEW e \in ReaderMsg
  PROVE  /\ e.t \in Invokes => e.x \in Calls
         /\ e.t = "host_invoke" => e.m \in HostCalls
  BY DEF ReaderMsg, Invokes

\* A legal call is never refused for its id.
LEMMA HonestTelegram ==
  ASSUME Served, HonestInv, HandleTelegramInvoke, issued' = issued
  PROVE  HonestInv'
<1> USE DEF armFrame, callerVars, lifeVars, callVars, closeVars, openVars, writerVars,
            moduleVars, endVars, handleVars
<1>0. TypeOK /\ RunPhase /\ readerQ # <<>> /\ readerQ' = Tail(readerQ)
  BY DEF Served, HandleTelegramInvoke, ReaderReady
<1>1. Head(readerQ) \in ReaderMsg /\ Legal(Head(readerQ)) /\ Head(readerQ).t = "telegram_invoke"
  BY <1>0, HeadLegal DEF HandleTelegramInvoke, ReaderReady
<1> DEFINE c == Head(readerQ).x
<1>2. c \in Calls /\ c \notin activeCalls /\ Head(readerQ).t \in Invokes
  BY <1>1, InvokeTypes DEF Invokes, Legal
<1>3. UNCHANGED <<inbox, closing, cancelled, answered, child, exitSeen>>
  BY DEF HandleTelegramInvoke
<1>4. CASE closing
  <2>1. UNCHANGED <<fatal, inFlight, activeCalls, writerQ>>
    BY <1>4 DEF HandleTelegramInvoke, lifecycleAndEnd
  <2> QED
    BY <1>0, <1>3, <2>1, HonestQuiet DEF readerStep, LifecycleSent
<1>5. ASSUME ~closing, NEW v \in {"capacity", "denied"},
             activeCalls' = activeCalls \cup {c}, QueueResult(Msg("telegram_result", c, v))
      PROVE  HonestInv'
  <2>1. CASE CanQueue
    <3>1. /\ Msg("telegram_result", c, v) \in WriterMsg
          /\ Msg("telegram_result", c, v).t # "lifecycle"
      BY <1>2 DEF Msg, WriterMsg
    <3>2. writerQ' = Append(writerQ, Msg("telegram_result", c, v)) /\ UNCHANGED <<fatal, inFlight>>
      BY <1>5, <2>1 DEF QueueResult, lifecycleAndEnd
    <3>3. LifecycleSent' = LifecycleSent
      BY <1>3, <3>1, <3>2, ResultSends
    <3> QED
      BY <1>0, <1>2, <1>3, <1>5, <3>2, <3>3, HonestAccept
  <2>2. CASE ~CanQueue
    BY <1>5, <2>2, HonestBreak, HonestEnd DEF QueueResult
  <2> QED
    BY <2>1, <2>2
<1>6. ASSUME ~closing, activeCalls' = activeCalls \cup {c}, UNCHANGED <<lifecycleAndEnd, writerQ>>
      PROVE  HonestInv'
  BY <1>0, <1>2, <1>3, <1>6, HonestAccept DEF lifecycleAndEnd, LifecycleSent
<1> QED
  BY <1>2, <1>4, <1>5, <1>6 DEF HandleTelegramInvoke

\* Nor for its method.
LEMMA HonestHost ==
  ASSUME Agreed, Served, HonestInv, HandleHostInvoke, issued' = issued
  PROVE  HonestInv'
<1> USE DEF armFrame, callerVars, lifeVars, callVars, closeVars, openVars, writerVars,
            moduleVars, endVars, handleVars
<1>0. TypeOK /\ RunPhase /\ readerQ # <<>> /\ readerQ' = Tail(readerQ)
  BY DEF Served, HandleHostInvoke, ReaderReady
<1>1. Head(readerQ) \in ReaderMsg /\ Legal(Head(readerQ)) /\ Head(readerQ).t = "host_invoke"
  BY <1>0, HeadLegal DEF HandleHostInvoke, ReaderReady
<1> DEFINE c == Head(readerQ).x
<1>2. /\ c \notin activeCalls /\ Head(readerQ).t \in Invokes
      /\ Head(readerQ).m \in SupervisorHostMethods
  BY <1>1, InvokeTypes DEF Invokes, Legal, Agreed
<1>3. UNCHANGED <<inbox, closing, cancelled, answered, child, exitSeen, writerQ>>
  BY DEF HandleHostInvoke
<1>4. LifecycleSent' = LifecycleSent
  BY <1>3 DEF LifecycleSent
<1>5. CASE closing
  <2>1. UNCHANGED <<fatal, inFlight, activeCalls>>
    BY <1>5 DEF HandleHostInvoke, lifecycleAndEnd
  <2> QED
    BY <1>0, <1>3, <1>4, <2>1, HonestQuiet DEF readerStep
<1>6. CASE ~closing /\ HostAtCapacity
  <2>1. FatalHere("backpressure")
    BY <1>2, <1>6 DEF HandleHostInvoke
  <2> QED
    BY <2>1, HonestBreak, HonestEnd
<1>7. CASE ~closing /\ ~HostAtCapacity
  <2>1. activeCalls' = activeCalls \cup {c} /\ UNCHANGED <<fatal, inFlight>>
    BY <1>2, <1>7 DEF HandleHostInvoke, lifecycleAndEnd
  <2> QED
    BY <1>0, <1>2, <1>3, <1>4, <2>1, HonestAccept
<1> QED
  BY <1>5, <1>6, <1>7

\* The responses of one type of request.
LEMMA MatchedKinds ==
  ASSUME NEW r \in Requests, NEW kind, ExpectedMatches(Expected[r], kind)
  PROVE  kind # "initialized_other"
<1>1. Expected[r] \in ExpectedKinds
  BY ExpectedAssumption DEF ExpectedAssumption
<1> QED
  BY <1>1 DEF ExpectedMatches, ExpectedKinds

\* A legal terminal frame completes the request in flight, or is drained.
LEMMA HonestTerminal ==
  ASSUME Agreed, Served, HonestInv, HandleTerminal, issued' = issued
  PROVE  HonestInv'
<1> USE DEF armFrame, callerVars, lifeVars, callVars, closeVars, openVars, writerVars,
            moduleVars, endVars, handleVars
<1>0. TypeOK /\ RunPhase /\ readerQ # <<>> /\ readerQ' = Tail(readerQ)
  BY DEF Served, HandleTerminal, ReaderReady
<1>1. Head(readerQ) \in ReaderMsg /\ Legal(Head(readerQ)) /\ Head(readerQ).t = "terminal"
  BY <1>0, HeadLegal DEF HandleTerminal, ReaderReady
<1> DEFINE id == Head(readerQ).x
           kind == Head(readerQ).m
<1>2. Current(id) /\ id \in answered /\ Expects(id, kind)
  BY <1>1 DEF Legal, Replies
<1>3. UNCHANGED <<inbox, closing, cancelled, answered, child, exitSeen, activeCalls>>
  BY DEF HandleTerminal
<1>4. CASE closing
  <2>1. Cancelled(id) /\ ~InFlightId(id)
    BY <1>2, <1>4 DEF Current, Cancelled, Served, ClosingDrainsRequests, InFlightId
  <2>2. UNCHANGED <<fatal, inFlight, writerQ>>
    BY <2>1 DEF HandleTerminal, lifecycleAndEnd
  <2> QED
    BY <1>0, <1>3, <2>2, HonestQuiet DEF readerStep, LifecycleSent
<1>5. CASE ~closing
  <2>1. ~Cancelled(id) /\ InFlightId(id)
    BY <1>2, <1>5 DEF Current, Cancelled
  <2>2. PICK r \in Requests : ReqId[r] = id /\ ExpectedMatches(Expected[r], kind)
    BY <1>2 DEF Expects
  <2>3. inFlight \in Requests /\ ReqId[inFlight] = id
    BY <1>0, <2>1 DEF InFlightId, TypeOK, TypeLife
  <2>4. ExpectedMatches(Expected[inFlight], kind) /\ kind # "initialized_other"
    BY <2>2, <2>3, MatchedKinds DEF Agreed
  <2>5. \A f \in LifecycleSent : f.x \in answered
    BY <1>0, <1>2, <1>5, <2>1 DEF HonestInv, CurrentInv, Current, InFlightId
  <2>6. \A e \in Elements(readerQ') : e.t \notin Replies
    <3>1. readerQ \in Seq(ReaderMsg) /\ Clear(readerQ)
      BY <1>0 DEF HonestInv, FramesInv, TypeOK, TypeModule
    <3> QED
      BY <1>0, <1>1, <3>1, ClearTail DEF Clash
  <2>7. CASE waiting = <<>>
    <3>1. UNCHANGED <<fatal, writerQ>>
      BY <2>1, <2>4, <2>7 DEF HandleTerminal
    <3>2. LifecycleSent' = LifecycleSent
      BY <1>3, <3>1 DEF LifecycleSent
    <3> QED
      BY <1>0, <1>3, <2>5, <2>6, <3>1, <3>2, HonestTurn DEF readerStep
  <2>8. CASE waiting # <<>>
    <3>1. Head(waiting) \in Requests
      BY <1>0, <2>8, HeadTailType DEF TypeOK, TypeLife
    <3>2. DispatchLifecycle(Head(waiting), Answer(reply, {inFlight}, "ok"), Tail(waiting))
      BY <2>1, <2>4, <2>8 DEF HandleTerminal
    <3> QED
      BY <1>0, <1>3, <1>5, <2>5, <2>6, <3>1, <3>2, HonestDispatch DEF readerStep
  <2> QED
    BY <2>7, <2>8
<1> QED
  BY <1>4, <1>5

\* The reader's arm.
LEMMA HonestReader ==
  ASSUME Agreed, Served, HonestInv, ReaderArm, issued' = issued
  PROVE  HonestInv'
<1> USE DEF armFrame, callerVars, lifeVars, callVars, closeVars, openVars, writerVars,
            moduleVars, endVars, handleVars
<1>1. CASE HandleLog
  <2>1. /\ TypeOK /\ RunPhase /\ readerQ # <<>> /\ readerQ' = Tail(readerQ)
        /\ Head(readerQ).t = "log"
    BY <1>1 DEF Served, HandleLog, ReaderReady
  <2>2. Current(Head(readerQ).x)
    BY <2>1, HeadLegal DEF Legal, Replies
  <2>3. UNCHANGED <<fatal, inFlight>>
    BY <1>1, <2>2 DEF HandleLog, Current, Cancelled, lifecycleAndEnd
  <2>4. UNCHANGED <<inbox, closing, cancelled, answered, child, exitSeen, activeCalls, writerQ>>
    BY <1>1 DEF HandleLog
  <2> QED
    BY <2>1, <2>3, <2>4, HonestQuiet DEF readerStep, LifecycleSent
<1>2. CASE HandleInboundError
  <2>1. TypeOK /\ RunPhase /\ readerQ # <<>> /\ Head(readerQ).t = "inbound_error"
    BY <1>2 DEF Served, HandleInboundError, ReaderReady
  <2> QED
    BY <2>1, HeadLegal DEF Legal
<1>3. CASE HandleEof
  <2>1. /\ TypeOK /\ RunPhase /\ readerQ # <<>> /\ readerQ' = Tail(readerQ)
        /\ Head(readerQ).t = "eof"
    BY <1>3 DEF Served, HandleEof, ReaderReady
  <2>2. closing
    BY <2>1, HeadLegal DEF Legal
  <2>3. UNCHANGED <<fatal, inFlight>>
    BY <1>3, <2>2 DEF HandleEof, lifecycleAndEnd
  <2>4. UNCHANGED <<inbox, closing, cancelled, answered, child, exitSeen, activeCalls, writerQ>>
    BY <1>3 DEF HandleEof
  <2> QED
    BY <2>1, <2>3, <2>4, HonestQuiet DEF readerStep, LifecycleSent
<1> QED
  BY <1>1, <1>2, <1>3, HonestTelegram, HonestHost, HonestTerminal DEF ReaderArm

\* A lifecycle flush that the supervisor takes is awaited, and restarts no deadline.
LEMMA FlushAwaited ==
  ASSUME Served, RunPhase, rpcQ # <<>>, Head(rpcQ).t = "lifecycle_flushed"
  PROVE  Head(rpcQ).x \in awaitingFlush /\ ~(InFlightId(Head(rpcQ).x) /\ deadline)
<1>0. TypeOK /\ FlushInv /\ OwnFlushInv
  BY DEF Served, LifecycleInv
<1> DEFINE e == Head(rpcQ)
<1>1. rpcQ \in Seq(ActorMsg) /\ e \in ActorMsg /\ 1 \in DOMAIN rpcQ /\ rpcQ[1] = e
  BY <1>0, HeadTailType DEF TypeOK, TypeWriter
<1>2. e.x \in Ids /\ e \in LifecycleEvents(e.x)
  BY <1>1 DEF ActorMsg, LifecycleEvents
<1>3. CountOf(rpcQ, LifecycleEvents(e.x)) # 0
  BY <1>1, <1>2, CountZero
<1>4. /\ CountOf(rpcQ, LifecycleEvents(e.x)) \in Nat
      /\ CountOf(writerQ, LifecycleFrames(e.x)) \in Nat
  BY <1>0, TokenTypes
<1>5. FlushCount(e.x) >= 1
  BY <1>3, <1>4 DEF FlushCount, TokenCount, Unit
<1>6. FlushCount(e.x) <= Unit(e.x \in awaitingFlush)
  BY <1>0, <1>2 DEF FlushInv, FlushOwed
<1>7. FlushCount(e.x) \in Nat
  BY <1>0, TokenTypes DEF FlushCount
<1>8. e.x \in awaitingFlush
  BY <1>5, <1>6, <1>7 DEF Unit
<1> QED
  BY <1>0, <1>8 DEF OwnFlushInv, InFlightId

\* A completion is queued, discarded, or breaks the loop for want of room.
LEMMA HonestCompletion ==
  ASSUME Served, HonestInv, RunPhase, NEW frame \in WriterMsg, frame.t # "lifecycle",
         activeCalls' \subseteq activeCalls,
         (UNCHANGED lifecycleAndEnd /\ writerQ' = writerQ) \/ QueueResult(frame),
         UNCHANGED <<inbox, closing, cancelled, answered, child, exitSeen, readerQ, issued>>
  PROVE  HonestInv'
<1>0. TypeOK
  BY DEF Served
<1>1. ASSUME UNCHANGED lifecycleAndEnd, writerQ' = writerQ \/ writerQ' = Append(writerQ, frame)
      PROVE  HonestInv'
  <2>1. LifecycleSent' = LifecycleSent
    BY <1>1, ResultSends
  <2> QED
    BY <1>0, <1>1, <2>1, HonestQuiet DEF readerStep, lifecycleAndEnd
<1>2. CASE QueueResult(frame) /\ CanQueue
  BY <1>1, <1>2 DEF QueueResult
<1>3. CASE QueueResult(frame) /\ ~CanQueue
  BY <1>3, HonestBreak, HonestEnd DEF QueueResult
<1> QED
  BY <1>1, <1>2, <1>3

\* The arm of the writer's and the workers' events.
LEMMA HonestRpc ==
  ASSUME Served, HonestInv, RpcArm, issued' = issued
  PROVE  HonestInv'
<1> USE DEF armFrame, callerVars, lifeVars, callVars, closeVars, openVars, writerVars,
            moduleVars, endVars, handleVars
<1>0. TypeOK /\ LeavingInv
  BY DEF Served, HonestInv, RpcArm, HandleRpcComplete, HandleHostComplete, HandleFlushed,
         HandleLifecycleFlushed, HandleShutdownFlushed, HandleWriterFailed, RpcReady
<1>1. ASSUME UNCHANGED <<fatal, closing, cancelled, inFlight, answered, child, exitSeen, readerQ,
                         writerQ, inbox>>, activeCalls' \subseteq activeCalls, RunPhase
      PROVE  HonestInv'
  BY <1>0, <1>1, HonestQuiet DEF readerStep, LifecycleSent
<1>2. CASE HandleRpcComplete \/ HandleHostComplete
  <2>1. /\ RunPhase /\ rpcQ # <<>> /\ Head(rpcQ).t \in {"rpc_complete", "host_complete"}
        /\ activeCalls' = ActiveAfterCompletion(Head(rpcQ).x)
    BY <1>2 DEF HandleRpcComplete, HandleHostComplete, RpcReady
  <2>2. PICK t \in {"telegram_result", "host_result"} :
          \/ UNCHANGED lifecycleAndEnd /\ writerQ' = writerQ
          \/ QueueResult(Msg(t, Head(rpcQ).x, "done"))
    BY <1>2 DEF HandleRpcComplete, HandleHostComplete
  <2>3. rpcQ \in Seq(ActorMsg)
    BY <1>0 DEF TypeOK, TypeWriter
  <2>4. Head(rpcQ) \in ActorMsg
    BY <2>1, <2>3, HeadTailType
  <2>5. Head(rpcQ).x \in Calls
    BY <2>1, <2>4 DEF ActorMsg
  <2>6. Msg(t, Head(rpcQ).x, "done") \in WriterMsg /\ Msg(t, Head(rpcQ).x, "done").t # "lifecycle"
    BY <2>5 DEF Msg, WriterMsg
  <2>7. activeCalls' \subseteq activeCalls
    BY <2>1 DEF ActiveAfterCompletion
  <2>8. UNCHANGED <<inbox, closing, cancelled, answered, child, exitSeen, readerQ>>
    BY <1>2 DEF HandleRpcComplete, HandleHostComplete
  <2> QED
    BY <2>1, <2>2, <2>6, <2>7, <2>8, HonestCompletion
<1>3. CASE HandleFlushed
  BY <1>1, <1>3 DEF HandleFlushed, RpcReady
<1>4. CASE HandleLifecycleFlushed
  <2>1. RunPhase /\ rpcQ # <<>> /\ Head(rpcQ).t = "lifecycle_flushed"
    BY <1>4 DEF HandleLifecycleFlushed, RpcReady
  <2>2. UNCHANGED <<inFlight, fatal>>
    BY <1>4, <2>1, FlushAwaited DEF HandleLifecycleFlushed
  <2> QED
    BY <1>1, <1>4, <2>1, <2>2 DEF HandleLifecycleFlushed
<1>5. CASE HandleShutdownFlushed
  <2>1. RunPhase /\ UNCHANGED <<closing, cancelled, answered, child, exitSeen, readerQ, writerQ,
                                inbox, activeCalls>>
    BY <1>5 DEF HandleShutdownFlushed, RpcReady
  <2>2. CASE exitSeen
    <3>1. child = "exit_ok"
      BY <1>0, <2>2 DEF LeavingInv
    <3>2. CleanBreak
      BY <1>5, <2>2, <3>1 DEF HandleShutdownFlushed, FinishShutdown
    <3> QED
      BY <3>2, HonestBreak, HonestEnd
  <2>3. CASE ~exitSeen
    BY <1>1, <1>5, <2>1, <2>3 DEF HandleShutdownFlushed, lifecycleAndEnd
  <2> QED
    BY <2>2, <2>3
<1>6. CASE HandleWriterFailed
  BY <1>6, HonestBreak, HonestEnd DEF HandleWriterFailed
<1> QED
  BY <1>2, <1>3, <1>4, <1>5, <1>6 DEF RpcArm

\* The child's exit, the deadlines and the teardown.
LEMMA HonestOwn ==
  ASSUME Served, HonestInv, issued' = issued,
         ObserveExit \/ ShutdownDeadline \/ LifecycleDeadline \/ Kill \/ Finish
  PROVE  HonestInv'
<1> USE DEF armFrame, callerVars, lifeVars, callVars, closeVars, openVars, writerVars,
            moduleVars, endVars, handleVars
<1>0. TypeOK
  BY DEF Served
<1>1. CASE ObserveExit
  <2>1. /\ RunPhase /\ child # "alive" /\ LeavingInv
        /\ UNCHANGED <<closing, cancelled, answered, child, readerQ, writerQ, inbox,
                       activeCalls>>
    BY <1>1 DEF ObserveExit, HonestInv
  <2>2. child = "exit_ok" /\ closing
    BY <2>1 DEF LeavingInv
  <2>3. CASE shutdownFlushed
    <3>1. CleanBreak
      BY <1>1, <2>2, <2>3 DEF ObserveExit, FinishShutdown
    <3> QED
      BY <3>1, HonestBreak, HonestEnd
  <2>4. CASE ~shutdownFlushed
    <3>1. UNCHANGED <<fatal, inFlight>>
      BY <1>1, <2>2, <2>4 DEF ObserveExit
    <3> QED
      BY <1>0, <2>1, <3>1, HonestQuiet DEF readerStep, LifecycleSent
  <2> QED
    BY <2>3, <2>4
<1>2. CASE ShutdownDeadline
  BY <1>2, HonestBreak, HonestEnd DEF ShutdownDeadline
<1>3. CASE LifecycleDeadline
  BY <1>3, HonestBreak, HonestEnd DEF LifecycleDeadline
<1>4. CASE Kill \/ Finish
  BY <1>4, HonestEnd DEF Kill, Finish
<1> QED
  BY <1>1, <1>2, <1>3, <1>4

\* The host's part of a step keeps the invariant.
LEMMA HonestHostNext ==
  ASSUME Agreed, Served, HonestInv, HostNext
  PROVE  HonestInv'
  BY HonestCallers, HonestTasks, HonestControl, HonestReader, HonestRpc, HonestOwn
  DEF HostNext, SupervisorNext

\* A request the module has received and not answered is the current one.
LEMMA UnansweredCurrent ==
  ASSUME TypeOK, HonestInv, RunPhase, NEW id, Unanswered(id)
  PROVE  Current(id) /\ id \notin answered
<1>1. id \notin answered /\ Received("lifecycle", id)
  BY DEF Unanswered
<1>2. PICK i \in DOMAIN inbox : inbox[i].t = "lifecycle" /\ inbox[i].x = id
  BY <1>1 DEF Received
<1>3. inbox[i] \in LifecycleSent
  BY <1>2 DEF LifecycleSent, LifecycleIn, Elements
<1> QED
  BY <1>1, <1>2, <1>3 DEF HonestInv, CurrentInv

\* So no terminal frame is left to read before its reply.
LEMMA NoEarlierTerminal ==
  ASSUME HonestInv, RunPhase, NEW id, Current(id), id \notin answered,
         NEW f \in Elements(readerQ)
  PROVE  f.t # "terminal"
<1>1. Legal(f)
  BY DEF HonestInv, FramesInv
<1> QED
  BY <1>1 DEF Legal, Replies, Current, InFlightId

\* A module that received the shutdown frame is being stopped.
LEMMA ShutdownReceived ==
  ASSUME Served, Received("shutdown", NoId)
  PROVE  closing
  BY DEF Served, BarrierInv, NoShutdown, Received

\* A legal frame that clashes with none before it may be read.
LEMMA HonestEmits ==
  ASSUME TypeOK, HonestInv, RunPhase, NEW e \in ReaderMsg, readerQ' = Append(readerQ, e),
         Legal(e)', \A f \in Elements(readerQ) : ~Clash(f, e),
         answered \subseteq answered', issued' \in [Calls -> Nat],
         \A c \in Calls : issued[c] # 0 => issued'[c] # 0,
         UNCHANGED <<fatal, closing, cancelled, inFlight, writerQ, inbox, child, exitSeen,
                     activeCalls>>
  PROVE  HonestInv'
<1>0. CurrentInv /\ FramesInv /\ LeavingInv /\ IssuedInv /\ fatal \notin Blamed
  BY DEF HonestInv
<1>1. /\ readerQ \in Seq(ReaderMsg) /\ activeCalls \subseteq Calls
      /\ \A f \in Elements(readerQ) : f \in ReaderMsg
  BY DEF TypeOK, TypeModule, TypeCalls, Elements
<1>2. Elements(readerQ') = Elements(readerQ) \cup {e} /\ Clear(readerQ')
  BY <1>0, <1>1, ElementsAppend, ClearAppend DEF FramesInv
<1>3. \A id : Current(id)' = Current(id)
  BY DEF Current, InFlightId
<1>4. CurrentInv'
  BY <1>0, <1>3 DEF CurrentInv, LifecycleSent
<1>5. ASSUME NEW f \in Elements(readerQ) PROVE Legal(f)'
  <2>1. Legal(f)
    BY <1>0, <1>5 DEF FramesInv
  <2>2. f.t \in Invokes => f.x \in Calls
    BY <1>1, <1>5, InvokeTypes
  <2> QED
    BY <1>3, <2>1, <2>2 DEF Legal, Expects
<1>6. FramesInv'
  BY <1>2, <1>5 DEF FramesInv
<1>7. LeavingInv' /\ IssuedInv'
  BY <1>0, <1>1 DEF LeavingInv, IssuedInv
<1> QED
  BY <1>0, <1>4, <1>6, <1>7 DEF HonestInv

\* A call under a fresh id.
LEMMA HonestInvoke ==
  ASSUME Agreed, Served, HonestInv, RunPhase, NEW c \in Calls, NEW e \in ReaderMsg, MayCall(c),
         e.t \in Invokes, e.x = c, readerQ' = Append(readerQ, e),
         issued' = [issued EXCEPT ![c] = @ + 1],
         UNCHANGED <<fatal, closing, cancelled, inFlight, answered, writerQ, inbox, child,
                     exitSeen, activeCalls>>
  PROVE  HonestInv'
<1>0. TypeOK /\ IssuedInv /\ FramesInv
  BY DEF Served, HonestInv
<1>1. issued[c] = 0
  BY DEF MayCall, Agreed
<1>2. /\ issued' \in [Calls -> Nat] /\ issued'[c] # 0
      /\ \A d \in Calls : issued[d] # 0 => issued'[d] # 0
  BY <1>0 DEF IssuedInv
<1>3. c \notin activeCalls
  BY <1>0, <1>1 DEF IssuedInv
<1>4. \A f \in Elements(readerQ) : ~Clash(f, e)
  BY <1>0, <1>1 DEF FramesInv, Legal, Clash, Invokes, Replies
<1>5. Legal(e)'
  BY <1>2, <1>3 DEF Legal, Invokes, Replies
<1> QED
  BY <1>0, <1>2, <1>4, <1>5, HonestEmits

\* What the module does under the contract.
LEMMA HonestModule ==
  ASSUME Agreed, Served, HonestInv, ConformingNext, ~HostNext
  PROVE  HonestInv'
<1> USE DEF callerVars, lifeVars, callVars, closeVars, openVars, writerVars, moduleVars,
            endVars, handleVars
<1>0. TypeOK
  BY DEF Served
<1>1. ASSUME NEW e \in ReaderMsg, Read(e)
      PROVE  /\ RunPhase /\ readerQ' = Append(readerQ, e)
             /\ UNCHANGED <<fatal, closing, cancelled, inFlight, writerQ, inbox, child,
                            exitSeen, activeCalls>>
  BY <1>1 DEF Read
<1>2. ASSUME NEW id \in Ids, NEW kind \in TerminalKinds, ConformingResponse(id, kind)
      PROVE  HonestInv'
  <2> DEFINE e == Msg("terminal", id, kind)
  <2>1. e \in ReaderMsg /\ e.t = "terminal" /\ e.x = id /\ e.m = kind
    BY DEF Msg, ReaderMsg
  <2>2. /\ Read(e) /\ Unanswered(id) /\ answered' = answered \cup {id} /\ issued' = issued
        /\ Expects(id, kind)
    BY <1>2 DEF ConformingResponse, ReadTerminal, Expects
  <2> HIDE DEF e
  <2>3. /\ RunPhase /\ readerQ' = Append(readerQ, e)
        /\ UNCHANGED <<fatal, closing, cancelled, inFlight, writerQ, inbox, child,
                       exitSeen, activeCalls>>
    BY <1>1, <2>1, <2>2
  <2>4. Current(id) /\ id \notin answered
    BY <1>0, <2>2, <2>3, UnansweredCurrent
  <2>5. Current(id)' /\ Expects(id, kind)'
    BY <2>2, <2>3, <2>4 DEF Current, InFlightId, Expects
  <2>6. Legal(e)'
    BY <2>1, <2>2, <2>5 DEF Legal, Invokes, Replies
  <2>7. \A f \in Elements(readerQ) : ~Clash(f, e)
    BY <2>1, <2>3, <2>4, NoEarlierTerminal DEF Clash, Invokes
  <2>8. issued' \in [Calls -> Nat]
    BY <2>2 DEF HonestInv
  <2> QED
    BY <1>0, <2>1, <2>2, <2>3, <2>6, <2>7, <2>8, HonestEmits
<1>3. ASSUME NEW id \in Ids, ConformingLog(id) PROVE HonestInv'
  <2> DEFINE e == Msg("log", id, "")
  <2>1. e \in ReaderMsg /\ e.t = "log" /\ e.x = id
    BY DEF Msg, ReaderMsg
  <2>2. Read(e) /\ Unanswered(id) /\ answered' = answered /\ issued' = issued
    BY <1>3 DEF ConformingLog
  <2> HIDE DEF e
  <2>3. /\ RunPhase /\ readerQ' = Append(readerQ, e)
        /\ UNCHANGED <<fatal, closing, cancelled, inFlight, writerQ, inbox, child,
                       exitSeen, activeCalls>>
    BY <1>1, <2>1, <2>2
  <2>4. Current(id) /\ id \notin answered
    BY <1>0, <2>2, <2>3, UnansweredCurrent
  <2>5. Current(id)'
    BY <2>2, <2>3, <2>4 DEF Current, InFlightId
  <2>6. Legal(e)'
    BY <2>1, <2>5 DEF Legal, Invokes, Replies
  <2>7. \A f \in Elements(readerQ) : ~Clash(f, e)
    BY <2>1, <2>3, <2>4, NoEarlierTerminal DEF Clash, Invokes
  <2>8. issued' \in [Calls -> Nat]
    BY <2>2 DEF HonestInv
  <2> QED
    BY <1>0, <2>1, <2>2, <2>3, <2>6, <2>7, <2>8, HonestEmits
<1>4. ASSUME NEW c \in Calls, NEW m \in GatewayMethods, ConformingTelegramCall(c, m)
      PROVE  HonestInv'
  <2> DEFINE e == Msg("telegram_invoke", c, m)
  <2>1. e \in ReaderMsg /\ e.t \in Invokes /\ e.x = c
    BY DEF Msg, ReaderMsg, Invokes
  <2>2. /\ Read(e) /\ MayCall(c) /\ answered' = answered
        /\ issued' = [issued EXCEPT ![c] = @ + 1]
    BY <1>4 DEF ConformingTelegramCall
  <2> HIDE DEF e
  <2>3. /\ RunPhase /\ readerQ' = Append(readerQ, e)
        /\ UNCHANGED <<fatal, closing, cancelled, inFlight, writerQ, inbox, child,
                       exitSeen, activeCalls>>
    BY <1>1, <2>1, <2>2
  <2> QED
    BY <2>1, <2>2, <2>3, HonestInvoke
<1>5. ASSUME NEW c \in Calls, NEW m \in HostCalls, ConformingHostCall(c, m)
      PROVE  HonestInv'
  <2> DEFINE e == Msg("host_invoke", c, m)
  <2>1. e \in ReaderMsg /\ e.t \in Invokes /\ e.x = c
    BY DEF Msg, ReaderMsg, Invokes
  <2>2. /\ Read(e) /\ MayCall(c) /\ answered' = answered
        /\ issued' = [issued EXCEPT ![c] = @ + 1]
    BY <1>5 DEF ConformingHostCall
  <2> HIDE DEF e
  <2>3. /\ RunPhase /\ readerQ' = Append(readerQ, e)
        /\ UNCHANGED <<fatal, closing, cancelled, inFlight, writerQ, inbox, child,
                       exitSeen, activeCalls>>
    BY <1>1, <2>1, <2>2
  <2> QED
    BY <2>1, <2>2, <2>3, HonestInvoke
<1>6. CASE ConformingEof
  <2> DEFINE e == Msg("eof", NoId, "")
  <2>1. e \in ReaderMsg /\ e.t = "eof"
    BY DEF Msg, ReaderMsg
  <2>2. closing
    BY <1>6, ShutdownReceived DEF ConformingEof
  <2>3. /\ RunPhase /\ readerQ' = Append(readerQ, e) /\ issued' = issued
        /\ UNCHANGED <<fatal, closing, cancelled, inFlight, answered, writerQ, inbox, child,
                       exitSeen, activeCalls>>
    BY <1>6 DEF ConformingEof, ReadEof
  <2> HIDE DEF e
  <2>4. Legal(e)'
    BY <2>1, <2>2, <2>3 DEF Legal, Invokes, Replies
  <2>5. \A f \in Elements(readerQ) : ~Clash(f, e)
    BY <2>1 DEF Clash, Invokes, Replies
  <2>6. issued' \in [Calls -> Nat]
    BY <2>3 DEF HonestInv
  <2> QED
    BY <1>0, <2>1, <2>3, <2>4, <2>5, <2>6, HonestEmits
<1>7. CASE ConformingExit
  <2>1. closing
    BY <1>7, ShutdownReceived DEF ConformingExit
  <2>2. /\ RunPhase /\ child' = "exit_ok" /\ issued' = issued
        /\ UNCHANGED <<fatal, phase, closing, cancelled, inFlight, answered, writerQ, inbox,
                       exitSeen, activeCalls, readerQ>>
    BY <1>7 DEF ConformingExit, ChildExit
  <2>3. CurrentInv' /\ FramesInv' /\ IssuedInv'
    <3>1. \A id : Current(id)' = Current(id)
      BY <2>2 DEF Current, InFlightId
    <3>2. \A e : Legal(e)' = Legal(e)
      BY <2>2, <3>1 DEF Legal, Expects
    <3> QED
      BY <2>2, <3>1, <3>2 DEF HonestInv, CurrentInv, FramesInv, IssuedInv, LifecycleSent
  <2>4. LeavingInv'
    BY <2>1, <2>2 DEF LeavingInv
  <2> QED
    BY <2>2, <2>3, <2>4 DEF HonestInv
<1> QED
  BY <1>2, <1>3, <1>4, <1>5, <1>6, <1>7 DEF ConformingNext

\* Nothing is open at the start.
LEMMA InitHonest == ConformingInit => HonestInv
<1> SUFFICES ASSUME ConformingInit PROVE HonestInv
  OBVIOUS
<1>1. /\ writerQ = <<>> /\ inbox = <<>> /\ readerQ = <<>> /\ activeCalls = {} /\ fatal = NoId
      /\ child = "alive" /\ ~exitSeen /\ issued = [c \in Calls |-> 0]
  BY DEF ConformingInit, Init
<1>2. Elements(<<>>) = {} /\ DOMAIN <<>> = {}
  BY DEF Elements
<1>3. CurrentInv
  BY <1>1, <1>2 DEF CurrentInv, LifecycleSent, LifecycleIn
<1>4. FramesInv
  BY <1>1, <1>2 DEF FramesInv, Clear
<1>5. LeavingInv /\ IssuedInv
  BY <1>1 DEF LeavingInv, IssuedInv
<1>6. fatal \notin Blamed
  <2>1. Blamed \subseteq FatalReason
    BY Reasons DEF Blamed
  <2> QED
    BY <1>1, <2>1, SentinelAssumption DEF SentinelAssumption
<1> QED
  BY <1>3, <1>4, <1>5, <1>6 DEF HonestInv, IssuedInv

\* A module that keeps the contract, uses each call_id once and only the host
\* methods the supervisor accepts is never stopped for a protocol error, for a
\* wrong or unexpected reply or for dying, whatever the number of requests,
\* calls and stoppers, the queue bounds and the interleaving, as long as the id
\* of a request tells the response it expects (supervise, handle_frame,
\* reserve_call_id, start_shutdown, shutdown_child_exit_result).
THEOREM HonestModulesAreNotBlamed ==
  ASSUME ~ReuseCallIds, HostCalls \subseteq SupervisorHostMethods,
         \A r, s \in Requests : ReqId[r] = ReqId[s] => Expected[r] = Expected[s]
  PROVE  ConformingSpec => []ConformingModuleNeverBlamed
<1>1. Agreed
  BY DEF Agreed
<1>2. ConformingSpec => Spec
  <2>1. ConformingInit => Init
    BY DEF ConformingInit
  <2> QED
    BY <2>1, ConformingStep, PTL DEF ConformingSpec, Spec
<1>3. Spec => []OwnFlushInv
  <2>1. Init => OwnFlushInv
    BY DEF Init, OwnFlushInv
  <2>2. TypeOK /\ OwnFlushInv /\ [Next]_vars => OwnFlushInv'
    BY OwnFlushKept
  <2> QED
    BY <2>1, <2>2, TypeCorrect, PTL DEF Spec
<1>4. Spec => []Served
  BY <1>3, TypeCorrect, ClosingDrains, OrderlyAlways, BarrierAlways, LifecycleAlways, PTL
  DEF Served
<1>5. Served /\ HonestInv /\ [ConformingNext]_conformingVars => HonestInv'
  <2> SUFFICES ASSUME Served, HonestInv, [ConformingNext]_conformingVars PROVE HonestInv'
    OBVIOUS
  <2>1. CASE HostNext
    BY <1>1, <2>1, HonestHostNext
  <2>2. CASE ConformingNext /\ ~HostNext
    BY <1>1, <2>2, HonestModule
  <2>3. CASE UNCHANGED conformingVars
    <3>1. UNCHANGED <<fatal, phase, closing, cancelled, inFlight, answered, writerQ, inbox,
                      child, exitSeen, activeCalls, readerQ, issued>>
      BY <2>3 DEF conformingVars, vars, lifeVars, callVars, closeVars, writerVars, moduleVars,
                  endVars
    <3>2. \A id : Current(id)' = Current(id)
      BY <3>1 DEF Current, InFlightId
    <3>3. \A e : Legal(e)' = Legal(e)
      BY <3>1, <3>2 DEF Legal, Expects
    <3> QED
      BY <3>1, <3>2, <3>3 DEF HonestInv, CurrentInv, FramesInv, IssuedInv, LeavingInv,
                              LifecycleSent, RunPhase
  <2> QED
    BY <2>1, <2>2, <2>3
<1>6. HonestInv => ConformingModuleNeverBlamed
  BY DEF HonestInv, Blamed, ConformingModuleNeverBlamed
<1> QED
  BY <1>2, <1>4, <1>5, <1>6, InitHonest, PTL DEF ConformingSpec

=============================================================================
