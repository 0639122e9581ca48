---------------------------- MODULE OnlineProofs ----------------------------
(***************************************************************************)
(* The invariants of the parts that run while Lavis is connected, for      *)
(* every value of their constants: the log forwarder, the run loop, the    *)
(* catalogue of modules and the upstream check.                            *)
(***************************************************************************)
EXTENDS MCOnline, FiniteSetTheorems,
        SequenceTheorems, WellFoundedInduction, NaturalsInduction, TLAPS

-----------------------------------------------------------------------------
(* The log forwarder.  LogInv is not inductive: that a token in hand is no    *)
(* older than the file was at the last rejection needs the file never to go   *)
(* back, and a single request for the topic needs the flag to be set before.  *)

LogStrong ==
  /\ LogTypeOK /\ NoFeedback /\ LossesReportedOnce /\ RejectedTokenReread
  /\ reported \in Nat /\ rejectedAt \in Nat /\ overflow <= entered
  /\ created \in 0 .. 1 /\ (created = 1 => attempted)
  /\ rejectedAt <= files.token /\ files.token <= issued

\* The forwarder's own warnings go nowhere.
LEMMA OwnEventsFiltered ==
  ASSUME OnEvent("own")
  PROVE  UNCHANGED <<channel, dropped, overflow>>
BY DEF OnEvent, Forwarded

\* Logging: a line is queued, counted as lost, or filtered.
LEMMA LogKeeps ==
  ASSUME LogStrong, Log
  PROVE  LogStrong'
<1>1. PICK kind \in EventKinds : OnEvent(kind)
  BY DEF Log
<1>2. /\ entered < MaxEvents /\ entered' = entered + 1
      /\ UNCHANGED <<sender, token, chat, topic, unavailable, attempted, files, issued,
                     reported, created, rejectedAt>>
  BY DEF Log, found, world, histories
<1>3. Forwarded(kind) => kind = "host"
  BY <1>1 DEF Forwarded, ShouldForward, SuppressedTarget, EventKinds
<1>4. channel \in Seq(EventKinds) /\ Len(channel) <= Capacity /\ Len(channel) \in Nat
  BY DEF LogStrong, LogTypeOK
<1>5. channel' \in Seq(EventKinds) /\ Len(channel') <= Capacity /\ NoFeedback'
  <2>1. CASE channel' = channel
    BY <2>1, <1>4 DEF LogStrong, NoFeedback
  <2>2. CASE channel' = Append(channel, kind) /\ ~ChannelFull /\ kind = "host"
    <3>1. channel' \in Seq(EventKinds) /\ Len(channel') = Len(channel) + 1
          /\ \A i \in 1 .. Len(channel') : channel'[i] = IF i <= Len(channel) THEN channel[i] ELSE kind
      BY <2>2, <1>1, <1>4
    <3>2. Len(channel') <= Capacity
      BY <2>2, <3>1, <1>4, LogAssumption DEF ChannelFull
    <3> QED BY <2>2, <3>1, <3>2, <1>4 DEF LogStrong, NoFeedback
  <2> QED BY <1>1, <1>3, <2>1, <2>2 DEF OnEvent
<1>6. \/ UNCHANGED <<dropped, overflow>>
      \/ dropped' = dropped + 1 /\ overflow' = overflow + 1
  BY <1>1 DEF OnEvent
<1>7. /\ dropped \in Nat /\ overflow \in Nat /\ entered \in Nat /\ sender.count \in Nat
      /\ reported \in Nat /\ reported + sender.count + dropped <= overflow
      /\ overflow <= entered /\ MaxEvents \in Nat
  BY LogAssumption DEF LogStrong, LogTypeOK, LossesReportedOnce
<1>8. /\ dropped' \in 0 .. MaxEvents /\ overflow' \in 0 .. MaxEvents /\ entered' \in 0 .. MaxEvents
      /\ reported + sender.count + dropped' <= overflow' /\ overflow' <= entered'
  BY <1>2, <1>6, <1>7
<1> QED BY <1>2, <1>5, <1>8 DEF LogStrong, LogTypeOK, LossesReportedOnce, RejectedTokenReread

\* The worker's steps up to the post.
LEMMA WorkerKeeps ==
  ASSUME LogStrong, Recv \/ LoadToken \/ LoadCompanionChatId \/ Swap
  PROVE  LogStrong'
<1>t. LogTypeOK
  BY DEF LogStrong
<1>1. CASE Recv
  <2>1. channel' \in Seq(EventKinds) /\ Len(channel') <= Capacity
        /\ DOMAIN channel' = 1 .. Len(channel') /\ DOMAIN channel = 1 .. Len(channel)
        /\ \A i \in 1 .. Len(channel') : channel'[i] = channel[i + 1] /\ i + 1 \in 1 .. Len(channel)
    BY <1>1, <1>t, LogAssumption DEF Recv, LogTypeOK
  <2>2. \A i \in DOMAIN channel' : channel'[i] = "host"
    BY <2>1 DEF NoFeedback, LogStrong
  <2>3. NoFeedback'
    BY <2>2 DEF NoFeedback
  <2> QED BY <1>1, <2>1, <2>3 DEF Recv, Goto, found, world, histories, LogStrong, LogTypeOK,
             LossesReportedOnce, RejectedTokenReread
<1>2. CASE LoadToken
  BY <1>2 DEF LoadToken, Goto, bridge, world, histories, LogStrong, LogTypeOK, NoFeedback,
     LossesReportedOnce, RejectedTokenReread
<1>3. CASE LoadCompanionChatId
  BY <1>3 DEF LoadCompanionChatId, Goto, bridge, world, histories, LogStrong, LogTypeOK,
     NoFeedback, LossesReportedOnce, RejectedTokenReread
<1>4. CASE Swap
  <2>1. sender'.count = dropped /\ dropped' = 0 /\ sender'.at = "send"
        /\ sender' \in [at : {"recv", "token", "chat", "topic", "swap", "send"},
                        count : 0 .. MaxEvents]
    BY <1>4, <1>t DEF Swap, TakeDropped, LogTypeOK
  <2>2. /\ dropped \in Nat /\ overflow \in Nat /\ sender.count \in Nat
        /\ reported \in Nat /\ reported + sender.count + dropped <= overflow /\ MaxEvents \in Nat
    BY LogAssumption DEF LogStrong, LogTypeOK, LossesReportedOnce
  <2>3. reported + sender'.count + dropped' <= overflow /\ dropped' \in 0 .. MaxEvents
    BY <2>1, <2>2
  <2> QED BY <1>4, <2>1, <2>3 DEF Swap, found, world, histories, LogStrong, LogTypeOK,
             NoFeedback, LossesReportedOnce, RejectedTokenReread
<1> QED BY <1>1, <1>2, <1>3, <1>4

\* The topic is asked for only while no request was made.
LEMMA TopicKeeps ==
  ASSUME LogStrong, ResolveTopic
  PROVE  LogStrong'
<1>1. UNCHANGED <<channel, dropped, overflow, entered, token, chat, issued, reported, rejectedAt>>
  BY OwnEventsFiltered DEF ResolveTopic
<1>2. /\ sender' \in [at : {"recv", "token", "chat", "topic", "swap", "send"}, count : 0 .. MaxEvents]
      /\ sender'.count = sender.count
  BY DEF ResolveTopic, Goto, LogStrong, LogTypeOK
<1>3. /\ files' \in [token : 0 .. MaxTokens, chat : BOOLEAN, topic : BOOLEAN]
      /\ files'.token = files.token
  BY DEF ResolveTopic, LogStrong, LogTypeOK
<1>4. topic' \in BOOLEAN /\ unavailable' \in BOOLEAN /\ attempted' \in BOOLEAN
  BY DEF ResolveTopic, LogStrong, LogTypeOK
<1>5. created' \in 0 .. 1 /\ (created' = 1 => attempted')
  BY DEF ResolveTopic, Creates, LogStrong, LogTypeOK
<1> QED BY <1>1, <1>2, <1>3, <1>4, <1>5 DEF LogStrong, LogTypeOK, NoFeedback,
           LossesReportedOnce, RejectedTokenReread

\* A post reports its count or loses it, and a rejection empties the token.
LEMMA PostKeeps ==
  ASSUME LogStrong, SendMessage
  PROVE  LogStrong'
<1>1. UNCHANGED <<channel, dropped, overflow, entered, chat, topic, unavailable, attempted,
                  files, issued, created>>
  BY OwnEventsFiltered DEF SendMessage, world
<1>0. sender' = [at |-> "recv", count |-> 0]
  BY DEF SendMessage
<1>2. sender'.count = 0 /\ (reported' = reported \/ reported' = reported + sender.count)
  BY DEF SendMessage
<1>3. /\ dropped \in Nat /\ overflow \in Nat /\ sender.count \in Nat
      /\ reported \in Nat /\ reported + sender.count + dropped <= overflow /\ MaxEvents \in Nat
  BY LogAssumption DEF LogStrong, LogTypeOK, LossesReportedOnce
<1>4. reported' \in Nat /\ reported' + sender'.count + dropped' <= overflow'
  BY <1>1, <1>2, <1>3
<1>5. \/ token' = 0 /\ rejectedAt' = files.token
      \/ UNCHANGED <<token, rejectedAt>>
  BY DEF SendMessage, AfterRejection
<1>6. /\ rejectedAt' \in Nat /\ rejectedAt' <= files.token /\ token' \in 0 .. MaxTokens
      /\ RejectedTokenReread'
  BY <1>5, LogAssumption DEF LogStrong, LogTypeOK, RejectedTokenReread
<1>7. sender' \in [at : {"recv", "token", "chat", "topic", "swap", "send"}, count : 0 .. MaxEvents]
  BY <1>0, <1>3
<1> QED BY <1>1, <1>4, <1>6, <1>7 DEF LogStrong, LogTypeOK, NoFeedback, LossesReportedOnce

\* The setup flow writes the valid token, which never gets older.
LEMMA OwnerKeeps ==
  ASSUME LogStrong, SetupWrites \/ TokenReplaced
  PROVE  LogStrong'
<1>1. UNCHANGED <<channel, dropped, overflow, entered, sender, token, chat, topic, unavailable,
                  attempted, reported, created, rejectedAt>>
  BY DEF SetupWrites, TokenReplaced, bridge, found, histories
<1>2. /\ issued' \in 1 .. MaxTokens /\ issued <= issued'
      /\ files' \in [token : 0 .. MaxTokens, chat : BOOLEAN, topic : BOOLEAN]
      /\ files'.token \in {files.token, issued} /\ files'.token <= issued'
  <2>1. CASE SetupWrites
    <3>1. issued' = issued /\ files' \in {[files EXCEPT !.token = issued], [files EXCEPT !.chat = TRUE],
                                          [files EXCEPT !.topic = TRUE]}
      BY <2>1 DEF SetupWrites
    <3>2. /\ files \in [token : 0 .. MaxTokens, chat : BOOLEAN, topic : BOOLEAN]
          /\ issued \in 1 .. MaxTokens /\ files.token <= issued /\ MaxTokens \in Nat
      BY LogAssumption DEF LogStrong, LogTypeOK
    <3>3. CASE files' = [files EXCEPT !.token = issued]
      BY <3>1, <3>2, <3>3
    <3>4. CASE files' = [files EXCEPT !.chat = TRUE]
      <4>1. files'.token = files.token
        BY <3>2, <3>4
      <4>2. files' \in [token : 0 .. MaxTokens, chat : BOOLEAN, topic : BOOLEAN]
        BY <3>2, <3>4
      <4> QED BY <3>1, <3>2, <4>1, <4>2
    <3>5. CASE files' = [files EXCEPT !.topic = TRUE]
      <4>1. files'.token = files.token
        BY <3>2, <3>5
      <4>2. files' \in [token : 0 .. MaxTokens, chat : BOOLEAN, topic : BOOLEAN]
        BY <3>2, <3>5
      <4> QED BY <3>1, <3>2, <4>1, <4>2
    <3> QED BY <3>1, <3>3, <3>4, <3>5
  <2>2. CASE TokenReplaced
    BY <2>2, LogAssumption DEF TokenReplaced, LogStrong, LogTypeOK
  <2> QED BY <2>1, <2>2
<1>3. rejectedAt <= files'.token
  BY <1>2, LogAssumption DEF LogStrong, LogTypeOK
<1> QED BY <1>1, <1>2, <1>3 DEF LogStrong, LogTypeOK, NoFeedback, LossesReportedOnce,
           RejectedTokenReread

\* The forwarder, for every capacity and any number of events and tokens: it feeds
\* nothing of its own back into the channel, reports a lost line at most once
\* (dropped.swap), asks for the Logs topic at most once, and after a rejection
\* reads its token anew (log_forwarder.rs, on_event and the worker).
THEOREM LogsForwardedOnce == LogSpec => []LogInv
<1>1. LogInit => LogStrong
  <2> SUFFICES ASSUME LogInit PROVE LogStrong
    OBVIOUS
  <2>1. channel \in Seq(EventKinds) /\ Len(channel) = 0 /\ NoFeedback
    BY DEF LogInit, NoFeedback
  <2>2. files \in [token : 0 .. MaxTokens, chat : BOOLEAN, topic : BOOLEAN] /\ files.token <= 1
    BY LogAssumption DEF LogInit
  <2>3. LogTypeOK
    <3>1. /\ dropped \in 0 .. MaxEvents /\ overflow \in 0 .. MaxEvents
          /\ entered \in 0 .. MaxEvents /\ 0 \in 0 .. MaxEvents
          /\ token \in 0 .. MaxTokens /\ issued \in 1 .. MaxTokens /\ Len(channel) <= Capacity
      BY <2>1, LogAssumption DEF LogInit
    <3>2. sender \in [at : {"recv", "token", "chat", "topic", "swap", "send"},
                      count : 0 .. MaxEvents]
      BY <3>1 DEF LogInit
    <3>3. chat \in BOOLEAN /\ topic \in BOOLEAN /\ unavailable \in BOOLEAN /\ attempted \in BOOLEAN
      BY DEF LogInit
    <3> QED BY <2>1, <2>2, <3>1, <3>2, <3>3 DEF LogTypeOK
  <2> QED BY <2>1, <2>2, <2>3 DEF LogInit, LogStrong, LossesReportedOnce, RejectedTokenReread
<1>2. LogStrong /\ [LogNext]_logVars => LogStrong'
  <2>1. ASSUME LogStrong, UNCHANGED logVars PROVE LogStrong'
    BY <2>1 DEF logVars, bridge, found, world, histories, LogStrong, LogTypeOK, NoFeedback,
       LossesReportedOnce, RejectedTokenReread
  <2> QED BY <2>1, LogKeeps, WorkerKeeps, TopicKeeps, PostKeeps, OwnerKeeps DEF LogNext
<1>3. LogStrong => LogInv
  BY DEF LogStrong, LogInv, OneTopicRequest
<1> QED BY <1>1, <1>2, <1>3, PTL DEF LogSpec

-----------------------------------------------------------------------------
(* The run loop.  HostInv needs three more facts: what is private when an     *)
(* update arrives is still recognised when its event is prepared, although    *)
(* the dialogue has moved on in between; events are projected only once       *)
(* BotFather's peer is known; and nothing is processed after the loop ended.  *)

Steps == {"setup", "project", "respond", "notify", "execute", "end"}
Handled == [peer : Peers, own : BOOLEAN, text : Texts, edited : BOOLEAN, notice : BOOLEAN]
Handling == [step : Steps, m : Handled, hidden : BOOLEAN, deadline : BOOLEAN, input : BOOLEAN]

HandlerInv ==
  /\ handler = NoHandler \/ handler \in Handling
  /\ handler.step = "setup" /\ handler.hidden => Private(handler.m)
  /\ handler.step = "project" /\ handler.hidden =>
       handler.m.peer = "botfather" \/ AuthoredActivePrefix(handler.m) \/ handler.input

EventInv ==
  /\ IsFiniteSet(events) /\ Cardinality(events) <= MAX_EVENT_DISPATCH_TASKS
  /\ ProtectedNeverProjected
  /\ permitted => botfather

StreamInv ==
  /\ errors \in Nat /\ errors = failing /\ errors <= UPDATE_STREAM_RESTART_AFTER
  /\ loop = "running" => errors < UPDATE_STREAM_RESTART_AFTER

EndedInv ==
  /\ loop \in {"running", "closing", "exit", "restart", "failed"}
  /\ loop = "closing" => reason \in {"exit", "restart", "failed"}
  /\ loop # "running" => handler = NoHandler
  /\ NoTaskOutlivesLoop

HostStrong == setup \in SetupPhases /\ HandlerInv /\ EventInv /\ StreamInv /\ EndedInv

\* A handler goes on to its next step.
LEMMA HandlerGoes ==
  ASSUME NEW h \in Handling, NEW s \in Steps
  PROVE  /\ [h EXCEPT !.step = s] \in Handling /\ [h EXCEPT !.step = s].step = s
         /\ [h EXCEPT !.step = s].m = h.m /\ [h EXCEPT !.step = s].hidden = h.hidden
         /\ [h EXCEPT !.step = s].input = h.input
BY DEF Handling

\* So it does with what the dialogue said about its message.
LEMMA HandlerInput ==
  ASSUME NEW h \in Handling, NEW s \in Steps, NEW b \in BOOLEAN
  PROVE  LET k == [h EXCEPT !.step = s, !.input = b]
         IN  k \in Handling /\ k.step = s /\ k.m = h.m /\ k.hidden = h.hidden /\ k.input = b
BY DEF Handling

\* A handler at work is a handling of a running loop.
LEMMA AtWork ==
  ASSUME HostStrong, handler.step # "none"
  PROVE  handler \in Handling /\ loop = "running" /\ handler # NoHandler
BY DEF HostStrong, HandlerInv, EndedInv, NoHandler

\* Ending a handler leaves nothing to say about it.
LEMMA HandlerEnds ==
  ASSUME handler' = NoHandler
  PROVE  HandlerInv'
BY DEF HandlerInv, NoHandler

\* Taking an update or a notification: its privacy is judged now.
LEMMA TakeKeeps ==
  ASSUME HostStrong,
         (\E m \in Message : TakeUpdate(m)) \/ (\E n \in outbox : ConsumeSetupNotification(n))
  PROVE  HostStrong'
<1>1. UNCHANGED <<loop, reason, setup, botfather, permitted, events, provision, refresh>>
      /\ loop = "running" /\ errors' = 0 /\ failing' = 0
  BY DEF TakeUpdate, ConsumeSetupNotification, StreamOk, Polled, taskVars
<1>2. HandlerInv'
  <2>0. setup.deadline \in BOOLEAN
    <3>1. \/ setup = [active |-> FALSE, deadline |-> FALSE]
          \/ setup = [active |-> TRUE, deadline |-> TRUE]
          \/ setup = [active |-> TRUE, deadline |-> FALSE]
      BY DEF HostStrong, SetupPhases, SetupIdle
    <3>2. setup.deadline = TRUE \/ setup.deadline = FALSE
      BY <3>1
    <3> QED BY <3>2
  <2>1. ASSUME NEW m \in Message, TakeUpdate(m) PROVE HandlerInv'
    <3>1. handler' = [step |-> "setup", m |-> m, hidden |-> Private(m),
                      deadline |-> setup.deadline, input |-> FALSE]
      BY <2>1 DEF TakeUpdate
    <3>2. m \in Handled
      BY DEF Message, Handled
    <3>3. Private(m) \in BOOLEAN /\ "setup" \in Steps
      BY DEF Private, Steps
    <3>4. handler' \in Handling
      BY <3>1, <3>2, <3>3, <2>0 DEF Handling
    <3>5. handler'.step = "setup" /\ (handler'.hidden => Private(m)) /\ handler'.m = m
      BY <3>1
    <3>6. Private(m)' = Private(m)
      BY <1>1 DEF Private
    <3> QED BY <3>4, <3>5, <3>6 DEF HandlerInv
  <2>2. ASSUME NEW n \in outbox, ConsumeSetupNotification(n), handler' # NoHandler
        PROVE  HandlerInv'
    <3> DEFINE m == [peer |-> "saved", own |-> TRUE, text |-> "plain", edited |-> FALSE, notice |-> TRUE]
               q == Private([peer |-> "saved", own |-> TRUE, text |-> "plain"])
    <3>1. handler' = [step |-> "setup", hidden |-> q, m |-> m,
                      deadline |-> setup.deadline, input |-> FALSE]
      BY <2>2 DEF ConsumeSetupNotification
    <3>2. m \in Handled
      BY DEF Handled, Peers, Texts
    <3>3. q \in BOOLEAN /\ "setup" \in Steps
      BY DEF Private, Steps
    <3>4. q => Private(m)
      BY DEF Private
    <3> HIDE DEF q
    <3>5. handler' \in Handling
      BY <3>1, <3>2, <3>3, <2>0 DEF Handling
    <3>6. handler'.step = "setup" /\ (handler'.hidden => q) /\ handler'.m = m
      BY <3>1
    <3>7. Private(m)' = Private(m)
      BY <1>1 DEF Private
    <3> QED BY <3>4, <3>5, <3>6, <3>7 DEF HandlerInv
  <2> QED BY <2>1, <2>2, HandlerEnds
<1>3. EventInv'
  BY <1>1 DEF HostStrong, EventInv, ProtectedNeverProjected
<1>4. StreamInv'
  BY <1>1, HostAssumption DEF StreamInv
<1>5. EndedInv'
  BY <1>1 DEF HostStrong, EndedInv, NoTaskOutlivesLoop
<1> QED BY <1>1, <1>2, <1>3, <1>4, <1>5 DEF HostStrong

\* The dialogue sees the message first.  Whatever it makes of it, a private
\* message is afterwards BotFather's, a command, or an answer.
LEMMA SetupInputKeeps ==
  ASSUME HostStrong, HandleSetupInput
  PROVE  HostStrong'
<1>1. UNCHANGED <<loop, reason, errors, failing, events, refresh>> /\ handler.step = "setup"
  BY DEF HandleSetupInput, streamVars
<1>h. handler \in Handling /\ loop = "running"
  BY <1>1, AtWork
<1>m. handler.m \in Handled /\ handler.m.own \in BOOLEAN /\ handler.m.peer \in Peers
  BY <1>h DEF Handling, Handled
<1>p. handler.hidden => Private(handler.m)
  BY <1>1 DEF HostStrong, HandlerInv
<1>2. setup' \in SetupPhases
  BY DEF HandleSetupInput, HostStrong
<1>3. HandlerInv'
  <2>0. "project" \in Steps
    BY DEF Steps
  <2>1. /\ handler' \in Handling /\ handler'.step = "project" /\ handler'.m = handler.m
        /\ handler'.hidden = handler.hidden
    <3>1. \/ handler' = [handler EXCEPT !.step = "project"]
          \/ \E b \in BOOLEAN : handler' = [handler EXCEPT !.step = "project", !.input = b]
      BY DEF HandleSetupInput
    <3>2. ASSUME handler' = [handler EXCEPT !.step = "project"]
          PROVE  /\ handler' \in Handling /\ handler'.step = "project" /\ handler'.m = handler.m
                 /\ handler'.hidden = handler.hidden
      BY <3>2, <1>h, <2>0, HandlerGoes
    <3>3. ASSUME NEW b \in BOOLEAN, handler' = [handler EXCEPT !.step = "project", !.input = b]
          PROVE  /\ handler' \in Handling /\ handler'.step = "project" /\ handler'.m = handler.m
                 /\ handler'.hidden = handler.hidden
      <4> DEFINE k == [handler EXCEPT !.step = "project", !.input = b]
      <4>1. k \in Handling /\ k.step = "project" /\ k.m = handler.m /\ k.hidden = handler.hidden
        BY <1>h, <2>0 DEF Handling
      <4>2. handler' = k
        BY <3>3
      <4> HIDE DEF k
      <4> QED BY <4>1, <4>2
    <3> QED BY <3>1, <3>2, <3>3
  <2>2. /\ Private(handler.m) => \/ handler.m.peer = "botfather"
                                 \/ AuthoredActivePrefix(handler.m)
                                 \/ handler.m.own /\ handler.m.peer = "saved" /\ setup.active
        /\ Route(handler.m) = "setup" => AuthoredActivePrefix(handler.m)
    BY DEF Private, AuthoredActivePrefix, Route, Prefixed, Commands
  <2>3. CASE ~(handler.m.own /\ handler.m.peer = "saved" /\ setup.active)
    BY <1>p, <2>1, <2>2, <2>3 DEF HandlerInv, AuthoredActivePrefix
  <2>4. CASE handler.m.own /\ handler.m.peer = "saved" /\ setup.active
    <3>1. \/ Route(handler.m) = "setup"
          \/ handler' = [handler EXCEPT !.step = "project", !.input = TRUE]
      BY <2>4 DEF HandleSetupInput
    <3>2. Route(handler.m) = "setup" \/ handler'.input
      BY <3>1, <1>h, <2>0, HandlerInput, TRUE \in BOOLEAN
    <3> QED BY <2>1, <2>2, <3>2 DEF HandlerInv, AuthoredActivePrefix
  <2> QED BY <2>3, <2>4
<1>4. permitted' => botfather'
  BY DEF HandleSetupInput, HostStrong, EventInv
<1>5. EventInv'
  BY <1>1, <1>4 DEF HostStrong, EventInv, ProtectedNeverProjected
<1>6. StreamInv'
  BY <1>1 DEF HostStrong, StreamInv
<1>7. EndedInv'
  BY <1>1, <1>h DEF HostStrong, EndedInv, NoTaskOutlivesLoop
<1> QED BY <1>2, <1>3, <1>5, <1>6, <1>7 DEF HostStrong

\* The event: a private message is protected once BotFather is known, so that it
\* is projected only if it was edited, and then without its text.
LEMMA ProjectKeeps ==
  ASSUME HostStrong, ProjectEvent
  PROVE  HostStrong'
<1> DEFINE m == handler.m
           protected == EventProtected(m, handler.input)
<1>1. UNCHANGED <<loop, reason, errors, failing, setup, botfather, permitted, provision, refresh>>
      /\ handler.step = "project"
  BY DEF ProjectEvent, streamVars
<1>h. handler \in Handling /\ loop = "running"
  BY <1>1, AtWork
<1>2. HandlerInv'
  <2>1. PICK s \in {"respond", "notify", "execute", "end"} : handler' = [handler EXCEPT !.step = s]
    BY DEF ProjectEvent
  <2>2. handler' \in Handling /\ handler'.step = s
    <3>1. s \in Steps
      BY DEF Steps
    <3> QED BY <1>h, <2>1, <3>1, HandlerGoes
  <2> QED BY <2>1, <2>2 DEF HandlerInv
<1>3. EventInv'
  <2>1. CASE events' = events
    BY <1>1, <2>1 DEF HostStrong, EventInv, ProtectedNeverProjected
  <2>2. CASE /\ ShouldPrepareMessageEvent(m.edited, protected) /\ HasCapacity
             /\ PrepareMessageEventDispatch /\ events' = events \cup {Dispatch(m, protected)}
    <3>1. botfather
      BY <2>2 DEF PrepareMessageEventDispatch, HostStrong, EventInv
    <3>2. handler.hidden => protected
      BY <1>1, <3>1 DEF HostStrong, HandlerInv, EventProtected, SetupProtectsMessage
    <3>3. LET e == Dispatch(m, protected) IN e.hidden => e.edited /\ e.text = ""
      <4>1. handler.hidden => m.edited
        BY <2>2, <3>2 DEF ShouldPrepareMessageEvent
      <4> QED BY <3>2, <4>1 DEF Dispatch
    <3>4. /\ IsFiniteSet(events') /\ Cardinality(events) \in Nat
          /\ Cardinality(events') \in {Cardinality(events), Cardinality(events) + 1}
      BY <2>2, FS_AddElement, FS_CardinalityType DEF HostStrong, EventInv
    <3>5. Cardinality(events') <= MAX_EVENT_DISPATCH_TASKS
      BY <2>2, <3>4, HostAssumption DEF HasCapacity
    <3> QED BY <1>1, <2>2, <3>3, <3>4, <3>5 DEF HostStrong, EventInv, ProtectedNeverProjected
  <2> QED BY <2>1, <2>2 DEF ProjectEvent
<1>4. StreamInv' /\ EndedInv'
  BY <1>1, <1>h DEF HostStrong, StreamInv, EndedInv, NoTaskOutlivesLoop
<1> QED BY <1>1, <1>2, <1>3, <1>4 DEF HostStrong

\* The answers, the command and the end of an update.
LEMMA AnswerKeeps ==
  ASSUME HostStrong, RespondSetupInput \/ Notify \/ Execute \/ EndUpdate
  PROVE  HostStrong'
<1>0. handler.step \in {"respond", "notify", "execute", "end"}
  BY DEF RespondSetupInput, Notify, Execute, EndUpdate
<1>h. handler \in Handling /\ loop = "running"
  BY <1>0, AtWork
<1>1. UNCHANGED <<errors, failing, events, refresh>> /\ setup' \in SetupPhases
  BY DEF RespondSetupInput, Notify, Execute, EndUpdate, streamVars, taskVars, HostStrong
<1>2. HandlerInv'
  <2>1. CASE handler' = NoHandler
    BY <2>1, HandlerEnds
  <2>2. CASE RespondSetupInput
    <3>0. "end" \in Steps /\ "notify" \in Steps
      BY DEF Steps
    <3>1. PICK s \in Steps : handler' = [handler EXCEPT !.step = s] /\ s \in {"end", "notify"}
      BY <2>2, <3>0 DEF RespondSetupInput
    <3>2. handler' \in Handling /\ handler'.step = s
      BY <3>1, <1>h, HandlerGoes
    <3> QED BY <3>1, <3>2 DEF HandlerInv
  <2> QED BY <2>1, <2>2 DEF Notify, Execute, EndUpdate
<1>3. permitted' => botfather'
  BY DEF RespondSetupInput, Notify, Execute, EndUpdate, HostStrong, EventInv
<1>4. \/ UNCHANGED <<loop, reason>>
      \/ loop' = "closing" /\ reason' = "restart" /\ handler' = NoHandler
  BY DEF RespondSetupInput, Notify, Execute, EndUpdate
<1>5. EventInv'
  BY <1>1, <1>3 DEF HostStrong, EventInv, ProtectedNeverProjected
<1>6. StreamInv'
  BY <1>1, <1>4, <1>h DEF HostStrong, StreamInv
<1>7. EndedInv'
  BY <1>4, <1>h DEF HostStrong, EndedInv, NoTaskOutlivesLoop
<1> QED BY <1>1, <1>2, <1>5, <1>6, <1>7 DEF HostStrong

\* Deadlines and finished tasks.
LEMMA TasksKeep ==
  ASSUME HostStrong,
         HandleSetupTimeout \/ SendProvisionCompletion \/ \E e \in events : HandleEventDispatch(e)
  PROVE  HostStrong'
<1>1. UNCHANGED <<loop, reason, errors, failing, botfather, permitted, refresh>>
  BY DEF HandleSetupTimeout, SendProvisionCompletion, HandleEventDispatch, streamVars, taskVars
<1>2. setup' \in SetupPhases
  BY DEF HandleSetupTimeout, SendProvisionCompletion, HandleEventDispatch, HostStrong, SetupPhases
<1>3. HandlerInv'
  <2>1. CASE handler' = NoHandler
    BY <2>1, HandlerEnds
  <2>2. CASE UNCHANGED <<handler, setup>>
    BY <2>2 DEF HostStrong, HandlerInv, Private, AuthoredActivePrefix
  <2> QED BY <2>1, <2>2 DEF HandleSetupTimeout, SendProvisionCompletion, HandleEventDispatch
<1>4. EventInv'
  <2>1. CASE events' = events
    BY <1>1, <2>1 DEF HostStrong, EventInv, ProtectedNeverProjected
  <2>2. ASSUME NEW e \in events, HandleEventDispatch(e) PROVE EventInv'
    <3>1. events' = events \ {e} /\ IsFiniteSet(events)
          /\ Cardinality(events) <= MAX_EVENT_DISPATCH_TASKS
      BY <2>2 DEF HandleEventDispatch, HostStrong, EventInv
    <3>2. IsFiniteSet(events') /\ Cardinality(events') = Cardinality(events) - 1
          /\ Cardinality(events) \in Nat
      BY <3>1, FS_RemoveElement, FS_CardinalityType
    <3>3. Cardinality(events') <= MAX_EVENT_DISPATCH_TASKS
      BY <3>1, <3>2, HostAssumption
    <3> QED BY <1>1, <3>1, <3>2, <3>3 DEF HostStrong, EventInv, ProtectedNeverProjected
  <2> QED BY <2>1, <2>2 DEF HandleSetupTimeout, SendProvisionCompletion, taskVars
<1>5. StreamInv'
  BY <1>1 DEF HostStrong, StreamInv
<1>6. EndedInv'
  <2>1. CASE loop = "running"
    BY <1>1, <2>1 DEF HostStrong, EndedInv, NoTaskOutlivesLoop
  <2>2. ASSUME NEW e \in events, HandleEventDispatch(e) PROVE EndedInv'
    BY <1>1, <2>2 DEF HandleEventDispatch, HostStrong, EndedInv, NoTaskOutlivesLoop
  <2> QED BY <2>1, <2>2 DEF HandleSetupTimeout, SendProvisionCompletion
<1> QED BY <1>2, <1>3, <1>4, <1>5, <1>6 DEF HostStrong

\* Stream errors and the end of the loop.
LEMMA StreamKeeps ==
  ASSUME HostStrong, StreamError \/ RetryElapsed \/ ConnectionChanges \/ CtrlC \/ Close
  PROVE  HostStrong'
<1>1. UNCHANGED <<setup, botfather, permitted>> /\ (handler' = handler \/ handler' = NoHandler)
  BY DEF StreamError, RetryElapsed, ConnectionChanges, CtrlC, Close
<1>2. HandlerInv'
  <2>1. CASE handler' = handler
    BY <1>1, <2>1 DEF HostStrong, HandlerInv, Private, AuthoredActivePrefix
  <2> QED BY <1>1, <2>1, HandlerEnds
<1>3. EventInv'
  <2>1. CASE events' = events
    BY <1>1, <2>1 DEF HostStrong, EventInv, ProtectedNeverProjected
  <2>2. CASE events' = {}
    <3>1. IsFiniteSet(events') /\ Cardinality(events') = 0
      BY <2>2, FS_EmptySet
    <3>2. Cardinality(events') <= MAX_EVENT_DISPATCH_TASKS
      BY <3>1, HostAssumption
    <3>3. \A e \in events' : FALSE
      BY <2>2
    <3> QED BY <1>1, <3>1, <3>2, <3>3 DEF HostStrong, EventInv, ProtectedNeverProjected
  <2>3. events' = events \/ events' = {}
    BY DEF StreamError, RetryElapsed, ConnectionChanges, CtrlC, Close, AbortAndDrain, taskVars
  <2> QED BY <2>1, <2>2, <2>3
<1>4. StreamInv'
  <2>1. CASE UNCHANGED <<errors, failing>> /\ (loop' = "running" => loop = "running")
    BY <2>1 DEF HostStrong, StreamInv
  <2>2. CASE /\ loop = "running" /\ errors' = errors + 1 /\ failing' = failing + 1
             /\ errors + 1 >= UPDATE_STREAM_RESTART_AFTER => loop' = "closing"
    BY <2>2, HostAssumption DEF HostStrong, StreamInv
  <2>3. CASE StreamError
    BY <2>1, <2>2, <2>3 DEF StreamError, Polled
  <2>4. CASE RetryElapsed \/ ConnectionChanges \/ CtrlC \/ Close
    <3>1. UNCHANGED <<errors, failing>>
      BY <2>4 DEF RetryElapsed, ConnectionChanges, CtrlC, Close, streamVars
    <3>2. loop' = "running" => loop = "running"
      BY <2>4 DEF RetryElapsed, ConnectionChanges, CtrlC, Close, HostStrong, EndedInv
    <3> QED BY <2>1, <3>1, <3>2
  <2> QED BY <2>3, <2>4
<1>5. EndedInv'
  <2>1. CASE StreamError
    BY <2>1 DEF StreamError, Polled, HostStrong, EndedInv, NoTaskOutlivesLoop
  <2>2. CASE RetryElapsed \/ ConnectionChanges \/ CtrlC
    BY <2>2 DEF RetryElapsed, ConnectionChanges, CtrlC, HostStrong, EndedInv, NoTaskOutlivesLoop
  <2>3. CASE Close
    BY <2>3 DEF Close, AbortAndDrain, HostStrong, EndedInv, NoTaskOutlivesLoop
  <2> QED BY <2>1, <2>2, <2>3
<1> QED BY <1>1, <1>2, <1>3, <1>4, <1>5 DEF HostStrong

\* The run loop, for every bound on its tasks and every restart threshold: what is
\* private is never projected to a module with its text, even when the dialogue
\* that makes it private ends while the update is processed; the stream restarts
\* the process only for errors in a row; and run() leaves no task behind
\* (updates.rs, process_update and run).
THEOREM SecretsStayPrivate == HostSpec => []HostInv
<1>1. HostInit => HostStrong
  <2>1. HostInit => HandlerInv
    BY DEF HostInit, HandlerInv, NoHandler
  <2>2. HostInit => EventInv
    BY FS_EmptySet, HostAssumption DEF HostInit, EventInv, ProtectedNeverProjected
  <2>3. HostInit => StreamInv /\ EndedInv /\ setup \in SetupPhases
    BY HostAssumption DEF HostInit, StreamInv, EndedInv, NoTaskOutlivesLoop, SetupPhases
  <2> QED BY <2>1, <2>2, <2>3 DEF HostStrong
<1>2. HostStrong /\ [HostNext]_hostVars => HostStrong'
  <2>1. ASSUME HostStrong, UNCHANGED hostVars PROVE HostStrong'
    BY <2>1 DEF hostVars, HostStrong, HandlerInv, EventInv, StreamInv, EndedInv, Private,
       AuthoredActivePrefix, ProtectedNeverProjected, NoTaskOutlivesLoop
  <2> QED BY <2>1, TakeKeeps, SetupInputKeeps, ProjectKeeps, AnswerKeeps, TasksKeep, StreamKeeps
          DEF HostNext, ProcessUpdate
<1>3. HostStrong => HostInv
  <2> SUFFICES ASSUME HostStrong PROVE HostInv
    OBVIOUS
  <2>1. handler.step \in {"none", "setup", "project", "respond", "notify", "execute", "end"}
    BY DEF HostStrong, HandlerInv, NoHandler, Handling, Steps
  <2>2. errors \in 0 .. UPDATE_STREAM_RESTART_AFTER /\ RestartCountsInARow
    BY HostAssumption DEF HostStrong, StreamInv, RestartCountsInARow
  <2> QED BY <2>1, <2>2 DEF HostStrong, HostInv, HostTypeOK, EventInv, EndedInv
<1> QED BY <1>1, <1>2, <1>3, PTL DEF HostSpec

-----------------------------------------------------------------------------
(* The catalogue of modules.  CatalogInv speaks of what is shown; what makes   *)
(* it inductive is that a module still to be started has no process, that the  *)
(* snapshot offers only what processes in the index declared, and what a       *)
(* report that is half made already knows.                                     *)

Serving == {"idle", "execute", "doctor", "info"}
Entry == [descriptor : Manifests, status : {"Running", "Crashed"}, diagnostic : Nat, generation : Nat]
Doing == [at : {"boot", "start", "update", "down"} \cup Serving,
          id : Modules \cup {NoCommand}, todo : SUBSET Modules]
Answer == [id : Modules \cup {NoCommand},
           kind : {"none", "doctor", "info", "silent", "result", "missing", "refused", "ended"},
           ran : Manifests \cup {Nothing}, named : Manifests \cup {Nothing},
           status : {"none", "Running", "Failed", "Terminated", "InstalledDisabled"},
           diagnostic : Nat]

ManagerShape ==
  /\ DOMAIN registered \subseteq Modules /\ registered \in [DOMAIN registered -> Manifests]
  /\ DOMAIN index \subseteq DOMAIN registered /\ index \in [DOMAIN index -> Entry]
  /\ DOMAIN retained \subseteq Modules /\ retained \in [DOMAIN retained -> Nat]
  /\ attempts \in [Modules -> 0 .. MaxStarts]

RuntimeShape ==
  /\ enabledIds \subseteq Modules /\ warned \subseteq DOMAIN registered
  /\ doing \in Doing /\ answer \in Answer

DoingInv ==
  /\ doing.todo \subseteq DOMAIN registered /\ doing.todo \cap DOMAIN index = {}
  /\ doing.at \in {"boot", "start", "update"} => answer = NoAnswer
  /\ doing.at = "update" => doing.id \in DOMAIN registered

HistoryInv ==
  /\ DOMAIN retained \cap DOMAIN index = {}
  /\ \A m \in DOMAIN index : /\ index[m].status = "Running" => index[m].diagnostic = 0
                             /\ index[m].generation \in {0, attempts[m]}

\* A command reference of a process in the index, alive or not.
Declared(r) == \E m \in DOMAIN index : r \in {m} \X index[m].descriptor.commands

SnapInv ==
  doing.at \in Serving =>
    /\ externalSnapshot.descriptors = ViewedDescriptors(index)
    /\ CommandRefs(index) \subseteq externalSnapshot.refs
    /\ \A r \in externalSnapshot.refs : Declared(r)

\* The module has crashed, or could not be started.
IsDown(m) ==
  \/ m \in DOMAIN index /\ index[m].status = "Crashed"
  \/ m \notin DOMAIN index /\ m \in DOMAIN retained

ReportInv ==
  /\ doing.at = "idle" /\ answer.diagnostic # 0 =>
       /\ IsDown(answer.id) /\ answer.status \in {"Running", "Failed"}
       /\ answer.status = "Running" => answer.kind = "doctor"
  /\ doing.at = "info" => answer.kind = "info" /\ (answer.diagnostic # 0 => IsDown(answer.id))
  /\ doing.at = "doctor" =>
       /\ answer.kind = "doctor" /\ answer.status \in {"Running", "Failed", "InstalledDisabled"}
       /\ answer.status = "InstalledDisabled" =>
            answer.id \notin DOMAIN index /\ answer.id \notin DOMAIN retained

AnswerInv == FooterTrue /\ FailureWithdraws

CatalogStrong ==
  ManagerShape /\ RuntimeShape /\ DoingInv /\ HistoryInv /\ SnapInv /\ ReportInv /\ AnswerInv

\* The maps of the manager: an entry added or replaced, an entry removed.
LEMMA WithValue ==
  ASSUME NEW f, NEW m, NEW v
  PROVE  /\ DOMAIN With(f, m, v) = DOMAIN f \cup {m} /\ With(f, m, v)[m] = v
         /\ \A x \in DOMAIN f : x # m => With(f, m, v)[x] = f[x]
BY DEF With

\* Likewise.
LEMMA WithType ==
  ASSUME NEW T, NEW f, f \in [DOMAIN f -> T], NEW m, NEW v \in T
  PROVE  With(f, m, v) \in [DOMAIN With(f, m, v) -> T]
BY DEF With

\* Likewise.
LEMMA WithoutValue ==
  ASSUME NEW T, NEW f, f \in [DOMAIN f -> T], NEW m
  PROVE  /\ DOMAIN Without(f, m) = DOMAIN f \ {m}
         /\ \A x \in DOMAIN f : x # m => Without(f, m)[x] = f[x]
         /\ Without(f, m) \in [DOMAIN Without(f, m) -> T]
BY DEF Without

\* The empty map.
LEMMA NothingValue ==
  ASSUME NEW T
  PROVE  DOMAIN Nothing = {} /\ Nothing \in [DOMAIN Nothing -> T]
BY DEF Nothing

\* What there is to read of an entry.
LEMMA EntryFields ==
  ASSUME ManagerShape, NEW m \in DOMAIN index
  PROVE  /\ index[m] \in Entry /\ index[m].status \in {"Running", "Crashed"}
         /\ index[m].descriptor \in Manifests
         /\ index[m].diagnostic \in Nat /\ index[m].generation \in Nat
BY DEF ManagerShape, Entry

\* A module is reported failed exactly when it is down, and has a diagnostic only
\* then.
LEMMA StatusRead ==
  ASSUME CatalogStrong, NEW m
  PROVE  /\ StatusOf(m, index) \in {"Running", "Failed", "InstalledDisabled"}
         /\ StatusOf(m, index) = "Failed" <=> IsDown(m)
         /\ StatusOf(m, index) = "InstalledDisabled" <=> m \notin DOMAIN index /\ m \notin DOMAIN retained
         /\ DiagnosticText(m) \in Nat /\ (DiagnosticText(m) # 0 => IsDown(m))
<1>1. m \in DOMAIN index => /\ index[m].status \in {"Running", "Crashed"} /\ index[m].diagnostic \in Nat
                            /\ index[m].status = "Running" => index[m].diagnostic = 0
                            /\ m \notin DOMAIN retained
  BY EntryFields DEF CatalogStrong, HistoryInv
<1>2. m \in DOMAIN retained => retained[m] \in Nat
  BY DEF CatalogStrong, ManagerShape
<1>3. CASE m \in DOMAIN index /\ index[m].status = "Running"
  <2>1. StatusOf(m, index) = "Running"
    BY <1>3 DEF StatusOf, Running
  <2> QED BY <1>1, <1>3, <2>1 DEF IsDown, DiagnosticText
<1>4. CASE m \in DOMAIN index /\ index[m].status = "Crashed"
  <2>1. StatusOf(m, index) = "Failed"
    BY <1>4 DEF StatusOf, Running
  <2> QED BY <1>1, <1>4, <2>1 DEF IsDown, DiagnosticText
<1>5. CASE m \notin DOMAIN index /\ m \in DOMAIN retained
  <2>1. StatusOf(m, index) = "Failed"
    BY <1>5 DEF StatusOf, Running
  <2> QED BY <1>2, <1>5, <2>1 DEF IsDown, DiagnosticText
<1>6. CASE m \notin DOMAIN index /\ m \notin DOMAIN retained
  <2>1. StatusOf(m, index) = "InstalledDisabled"
    BY <1>6 DEF StatusOf, Running
  <2> QED BY <1>6, <2>1 DEF IsDown, DiagnosticText
<1> QED BY <1>1, <1>3, <1>4, <1>5, <1>6

\* The references of running modules.
LEMMA RefsRead ==
  ASSUME NEW ix, NEW r
  PROVE  r \in CommandRefs(ix) <=> \E m \in Running(ix) : r \in {m} \X ix[m].descriptor.commands
BY DEF CommandRefs

\* A new index with the same processes, some of which may have died, reads like
\* the old one except for its deaths.
LEMMA DeathsOnly ==
  ASSUME CatalogStrong, registered' = registered, DOMAIN index' = DOMAIN index,
         \A m \in DOMAIN index : /\ index'[m].descriptor = index[m].descriptor
                                 /\ index'[m].status \in {index[m].status, "Crashed"}
  PROVE  /\ ViewedDescriptors(index)' = ViewedDescriptors(index)
         /\ CommandRefs(index') \subseteq CommandRefs(index)
         /\ \A r : Declared(r)' <=> Declared(r)
<1>1. Running(index') \subseteq Running(index)
  BY DEF Running
<1>2. CommandRefs(index') \subseteq CommandRefs(index)
  <2> SUFFICES ASSUME NEW r \in CommandRefs(index') PROVE r \in CommandRefs(index)
    OBVIOUS
  <2>1. PICK m \in Running(index') : r \in {m} \X index'[m].descriptor.commands
    BY RefsRead
  <2>2. m \in Running(index) /\ index'[m].descriptor = index[m].descriptor
    BY <1>1, <2>1 DEF Running
  <2> QED BY <2>1, <2>2, RefsRead
<1>3. ViewedDescriptors(index)' = ViewedDescriptors(index)
  BY DEF ViewedDescriptors
<1>4. \A r : Declared(r)' <=> Declared(r)
  BY DEF Declared
<1> QED BY <1>2, <1>3, <1>4

\* A fresh snapshot is a snapshot in order.
LEMMA FreshSnapshot ==
  ASSUME externalSnapshot' = FromManager(index)', ManagerShape'
  PROVE  SnapInv' /\ \A r \in externalSnapshot'.refs : r[1] \in Running(index')
<1>1. /\ externalSnapshot'.descriptors = ViewedDescriptors(index)'
      /\ externalSnapshot'.refs = CommandRefs(index')
  BY DEF FromManager
<1>2. ASSUME NEW r \in CommandRefs(index') PROVE Declared(r)' /\ r[1] \in Running(index')
  <2>1. PICK m \in Running(index') : r \in {m} \X index'[m].descriptor.commands
    BY RefsRead
  <2>2. m \in DOMAIN index'
    BY DEF Running
  <2>3. r[1] = m
    BY <2>1
  <2> QED BY <2>1, <2>2, <2>3 DEF Declared
<1> QED BY <1>1, <1>2 DEF SnapInv

\* A process dies or its diagnostic arrives, beside whatever the runtime does.
LEMMA EndsKeep ==
  ASSUME CatalogStrong, NEW m \in Modules, ProcessEnds(m) \/ RecordDiagnostic(m)
  PROVE  CatalogStrong'
<1>1. UNCHANGED <<registered, retained, attempts, enabledIds, externalSnapshot, doing, warned, answer>>
      /\ m \in DOMAIN index
  BY DEF ProcessEnds, RecordDiagnostic, Running
<1>s. ManagerShape /\ index \in [DOMAIN index -> Entry] /\ index[m] \in Entry
  BY <1>1 DEF CatalogStrong, ManagerShape
<1>2. PICK k \in Entry :
        /\ index' = [index EXCEPT ![m] = k]
        /\ k.descriptor = index[m].descriptor /\ k.generation = index[m].generation
        /\ k.status = "Crashed"
  <2>1. CASE ProcessEnds(m)
    <3> DEFINE k == [index[m] EXCEPT !.status = "Crashed"]
    <3>1. k \in Entry /\ k.descriptor = index[m].descriptor /\ k.generation = index[m].generation
          /\ k.status = "Crashed"
      BY <1>s DEF Entry
    <3>2. index' = [index EXCEPT ![m] = k]
      BY <2>1, <1>s DEF ProcessEnds
    <3> QED BY <3>1, <3>2
  <2>2. CASE RecordDiagnostic(m)
    <3> DEFINE k == [index[m] EXCEPT !.diagnostic = index[m].generation]
    <3>1. k \in Entry /\ k.descriptor = index[m].descriptor /\ k.generation = index[m].generation
          /\ k.status = index[m].status
      BY <1>s DEF Entry
    <3>2. index' = [index EXCEPT ![m] = k] /\ index[m].status = "Crashed"
      BY <2>2, <1>s DEF RecordDiagnostic
    <3> QED BY <3>1, <3>2
  <2> QED BY <2>1, <2>2
<1>3. /\ DOMAIN index' = DOMAIN index /\ index'[m] = k
      /\ \A x \in DOMAIN index : x # m => index'[x] = index[x]
  BY <1>1, <1>2, <1>s
<1>4. ManagerShape'
  <2>1. index' \in [DOMAIN index' -> Entry]
    BY <1>2, <1>3, <1>s
  <2> QED BY <1>1, <1>3, <2>1 DEF CatalogStrong, ManagerShape
<1>5. RuntimeShape' /\ DoingInv' /\ AnswerInv'
  BY <1>1, <1>3 DEF CatalogStrong, RuntimeShape, DoingInv, AnswerInv, FooterTrue, FailureWithdraws
<1>6. HistoryInv'
  BY <1>1, <1>2, <1>3 DEF CatalogStrong, HistoryInv
<1>7. SnapInv'
  <2>1. \A x \in DOMAIN index : /\ index'[x].descriptor = index[x].descriptor
                                /\ index'[x].status \in {index[x].status, "Crashed"}
    BY <1>2, <1>3
  <2>2. /\ ViewedDescriptors(index)' = ViewedDescriptors(index)
        /\ CommandRefs(index') \subseteq CommandRefs(index)
        /\ \A r : Declared(r)' <=> Declared(r)
    BY <1>1, <1>3, <2>1, DeathsOnly
  <2> QED BY <1>1, <2>2 DEF CatalogStrong, SnapInv
<1>8. ReportInv'
  <2>1. \A x : IsDown(x) => IsDown(x)'
    BY <1>1, <1>2, <1>3 DEF IsDown
  <2> QED BY <1>1, <1>3, <2>1 DEF CatalogStrong, ReportInv
<1> QED BY <1>4, <1>5, <1>6, <1>7, <1>8 DEF CatalogStrong

\* A module is started, or fails to start: it had no process before.
LEMMA StartKeeps ==
  ASSUME CatalogStrong, NEW m \in Modules, StartEnabled(m)
  PROVE  CatalogStrong'
<1>1. /\ UNCHANGED <<registered, enabledIds, externalSnapshot, warned, answer>>
      /\ doing.at \in {"boot", "start"} /\ m \in doing.todo /\ attempts[m] < MaxStarts
      /\ doing' = [doing EXCEPT !.todo = @ \ {m}]
  BY DEF StartEnabled
<1>2. m \in DOMAIN registered /\ m \notin DOMAIN index /\ registered[m] \in Manifests
  BY <1>1 DEF CatalogStrong, DoingInv, ManagerShape
<1>3. /\ doing' \in Doing /\ doing'.at = doing.at /\ doing'.id = doing.id
      /\ doing'.todo = doing.todo \ {m}
  BY <1>1 DEF CatalogStrong, RuntimeShape, Doing
<1>a. /\ attempts' \in [Modules -> 0 .. MaxStarts] /\ attempts'[m] \in Nat
      /\ \A x \in Modules : x # m => attempts'[x] = attempts[x]
      /\ attempts' = attempts \/ ProcessStartKind(registered[m]) = "v6"
  <2>1. CASE attempts' = attempts
    BY <2>1, CatalogAssumption DEF CatalogStrong, ManagerShape
  <2>2. CASE attempts' = [attempts EXCEPT ![m] = @ + 1] /\ ProcessStartKind(registered[m]) = "v6"
    BY <2>2, <1>1, CatalogAssumption DEF CatalogStrong, ManagerShape
  <2> QED BY <2>1, <2>2 DEF StartEnabled, StartV6, StartLegacy
<1>4. \/ /\ index' = index
         /\ retained' = retained \/ \E n \in Nat : retained' = With(retained, m, n)
      \/ \E n \in {0, attempts'[m]} : Published(m, registered[m], n)
  BY <1>a DEF StartEnabled, StartV6, StartLegacy, RetainV6Diagnostic
<1>5. ManagerShape' /\ HistoryInv' /\ DOMAIN index' \subseteq DOMAIN index \cup {m}
  <2>1. CASE /\ index' = index
             /\ retained' = retained \/ \E n \in Nat : retained' = With(retained, m, n)
    <3>1. DOMAIN retained' \subseteq DOMAIN retained \cup {m} /\ retained' \in [DOMAIN retained' -> Nat]
      <4>1. retained \in [DOMAIN retained -> Nat]
        BY DEF CatalogStrong, ManagerShape
      <4>2. CASE retained' = retained
        BY <4>1, <4>2
      <4>3. ASSUME NEW n \in Nat, retained' = With(retained, m, n)
            PROVE  /\ DOMAIN retained' \subseteq DOMAIN retained \cup {m}
                   /\ retained' \in [DOMAIN retained' -> Nat]
        <5>1. DOMAIN retained' = DOMAIN retained \cup {m}
          BY <4>3, WithValue
        <5>2. retained' \in [DOMAIN retained' -> Nat]
          BY <4>1, <4>3, WithType
        <5> QED BY <5>1, <5>2
      <4> QED BY <2>1, <4>2, <4>3
    <3>2. ManagerShape'
      BY <1>1, <1>a, <2>1, <3>1 DEF CatalogStrong, ManagerShape
    <3>3. HistoryInv'
      BY <1>2, <1>a, <2>1, <3>1 DEF CatalogStrong, HistoryInv, ManagerShape
    <3> QED BY <2>1, <3>2, <3>3
  <2>2. ASSUME NEW n \in {0, attempts'[m]}, Published(m, registered[m], n)
        PROVE  ManagerShape' /\ HistoryInv' /\ DOMAIN index' \subseteq DOMAIN index \cup {m}
    <3> DEFINE k == [descriptor |-> registered[m], status |-> "Running", diagnostic |-> 0,
                     generation |-> n]
    <3>1. k \in Entry /\ k.status = "Running" /\ k.diagnostic = 0 /\ k.generation = n
      BY <1>2, <1>a DEF Entry
    <3>2. index' = With(index, m, k) /\ retained' = Without(retained, m)
      BY <2>2 DEF Published, AfterStart
    <3> HIDE DEF k
    <3>3. /\ DOMAIN index' = DOMAIN index \cup {m} /\ index'[m] = k
          /\ \A x \in DOMAIN index : x # m => index'[x] = index[x]
          /\ index' \in [DOMAIN index' -> Entry]
      <4>1. index \in [DOMAIN index -> Entry]
        BY DEF CatalogStrong, ManagerShape
      <4>2. index' \in [DOMAIN index' -> Entry]
        BY <3>1, <3>2, <4>1, WithType
      <4>3. /\ DOMAIN index' = DOMAIN index \cup {m} /\ index'[m] = k
            /\ \A x \in DOMAIN index : x # m => index'[x] = index[x]
        BY <3>2 DEF With
      <4> QED BY <4>2, <4>3
    <3>4. DOMAIN retained' = DOMAIN retained \ {m} /\ retained' \in [DOMAIN retained' -> Nat]
      BY <3>2, WithoutValue DEF CatalogStrong, ManagerShape
    <3>5. ManagerShape'
      BY <1>1, <1>2, <1>a, <3>3, <3>4 DEF CatalogStrong, ManagerShape
    <3>6. \A x \in DOMAIN index' : /\ index'[x].status = "Running" => index'[x].diagnostic = 0
                                   /\ index'[x].generation \in {0, attempts'[x]}
      BY <1>2, <1>a, <2>2, <3>1, <3>3 DEF CatalogStrong, HistoryInv, ManagerShape
    <3>7. HistoryInv'
      BY <3>3, <3>4, <3>6 DEF CatalogStrong, HistoryInv
    <3> QED BY <3>3, <3>5, <3>7
  <2> QED BY <1>4, <2>1, <2>2
<1>6. RuntimeShape' /\ AnswerInv'
  BY <1>1, <1>3 DEF CatalogStrong, RuntimeShape, AnswerInv, FooterTrue, FailureWithdraws
<1>7. DoingInv'
  BY <1>1, <1>3, <1>5 DEF CatalogStrong, DoingInv
<1>8. SnapInv' /\ ReportInv'
  BY <1>1, <1>3 DEF SnapInv, ReportInv, Serving
<1> QED BY <1>5, <1>6, <1>7, <1>8 DEF CatalogStrong

\* The idle state and the empty reply.
LEMMA IdleType ==
  /\ Idle \in Doing /\ Idle.at = "idle" /\ Idle.todo = {}
  /\ NoAnswer \in Answer /\ NoAnswer.kind = "none" /\ NoAnswer.diagnostic = 0
  /\ NoAnswer.ran = NoAnswer.named
BY DEF Idle, Doing, NoAnswer, Answer, Serving

\* The end of a boot, an installation or an update: the snapshot is taken anew.
LEMMA RefreshKeeps ==
  ASSUME CatalogStrong, EndWithRefresh
  PROVE  CatalogStrong'
<1>1. /\ UNCHANGED <<registered, index, retained, attempts, enabledIds, warned, answer>>
      /\ doing.at \in {"boot", "start"} /\ doing' = Idle
      /\ externalSnapshot' = FromManager(index)
  BY DEF EndWithRefresh, managerVars, RefreshSnapshot
<1>2. ManagerShape' /\ RuntimeShape' /\ HistoryInv'
  BY <1>1, IdleType DEF CatalogStrong, ManagerShape, RuntimeShape, HistoryInv
<1>3. answer = NoAnswer
  BY <1>1 DEF CatalogStrong, DoingInv
<1>4. SnapInv'
  <2>1. externalSnapshot' = FromManager(index)'
    BY <1>1 DEF FromManager, CommandRefs, ViewedDescriptors, StatusOf, ActiveDefaults, Running
  <2> QED BY <1>2, <2>1, FreshSnapshot
<1>5. DoingInv' /\ ReportInv' /\ AnswerInv'
  BY <1>1, <1>3, IdleType DEF DoingInv, ReportInv, AnswerInv, FooterTrue, FailureWithdraws
<1> QED BY <1>2, <1>4, <1>5 DEF CatalogStrong

\* Owner commands that leave the manager alone.  The replies of lm doctor and
\* lm info are made of two reads; processes may die between them, never appear.
LEMMA ReadsKeep ==
  ASSUME CatalogStrong,
         \/ DoctorDiagnostic \/ InfoStatus
         \/ \E m \in Modules : SetEnabledId(m) \/ LmDoctor(m) \/ LmInfo(m) \/ ResolveInSnapshot(m)
  PROVE  CatalogStrong'
<1>1. UNCHANGED <<registered, index, retained, attempts, externalSnapshot, warned>>
      /\ doing.at \in Serving
  BY DEF DoctorDiagnostic, InfoStatus, SetEnabledId, LmDoctor, LmInfo, ResolveInSnapshot,
     managerVars, Serving
<1>2. /\ ManagerShape' /\ HistoryInv'
      /\ \A x : /\ IsDown(x)' <=> IsDown(x)
                /\ StatusOf(x, index)' = StatusOf(x, index)
                /\ DiagnosticText(x)' = DiagnosticText(x)
  BY <1>1 DEF CatalogStrong, ManagerShape, HistoryInv, IsDown, StatusOf, Running, DiagnosticText
<1>3. SnapInv'
  <2>1. /\ ViewedDescriptors(index)' = ViewedDescriptors(index)
        /\ CommandRefs(index)' = CommandRefs(index)
        /\ \A r : Declared(r)' <=> Declared(r)
    BY <1>1 DEF ViewedDescriptors, CommandRefs, Running, Declared
  <2> QED BY <1>1, <2>1 DEF CatalogStrong, SnapInv
<1>a. answer \in Answer /\ doing \in Doing
  BY DEF CatalogStrong, RuntimeShape
<1> DEFINE Goal == RuntimeShape' /\ DoingInv' /\ ReportInv' /\ AnswerInv'
<1>4. ASSUME NEW m \in Modules, SetEnabledId(m) PROVE Goal
  <2>1. enabledIds' \subseteq Modules /\ answer' = NoAnswer /\ doing' = doing
        /\ doing.at = "idle"
    BY <1>4 DEF SetEnabledId, CatalogStrong, RuntimeShape
  <2> QED BY <1>1, <2>1, IdleType DEF CatalogStrong, RuntimeShape, DoingInv, ReportInv, AnswerInv,
             FooterTrue, FailureWithdraws
<1>5. ASSUME NEW m \in Modules, ResolveInSnapshot(m) PROVE Goal
  <2>1. enabledIds' = enabledIds /\ answer' = NoAnswer /\ doing' \in Doing
        /\ doing'.at = "execute" /\ doing'.todo = {}
    BY <1>5 DEF ResolveInSnapshot, Doing, Serving
  <2> QED BY <1>1, <2>1, IdleType DEF CatalogStrong, RuntimeShape, DoingInv, ReportInv, AnswerInv,
             FooterTrue, FailureWithdraws
<1>6. ASSUME NEW m \in Modules, LmDoctor(m) PROVE Goal
  <2>1. enabledIds' = enabledIds /\ doing' \in Doing /\ doing'.at = "doctor" /\ doing'.todo = {}
    BY <1>6, IdleType DEF LmDoctor, Doing, Serving
  <2>2. StatusOf(m, index) \in {"Running", "Failed", "InstalledDisabled"}
        /\ (StatusOf(m, index) = "InstalledDisabled" => m \notin DOMAIN index /\ m \notin DOMAIN retained)
    BY StatusRead
  <2>3. answer' = [NoAnswer EXCEPT !.id = m, !.kind = "doctor", !.status = StatusOf(m, index)]
    BY <1>6 DEF LmDoctor, FreshRuntimeStatus
  <2>4. /\ answer' \in Answer /\ answer'.kind = "doctor" /\ answer'.status = StatusOf(m, index)
        /\ answer'.id = m /\ answer'.ran = answer'.named
    BY <2>2, <2>3, IdleType DEF Answer
  <2> QED BY <1>1, <2>1, <2>2, <2>4 DEF CatalogStrong, RuntimeShape, DoingInv, ReportInv, AnswerInv,
             FooterTrue, FailureWithdraws
<1>7. ASSUME NEW m \in Modules, LmInfo(m) PROVE Goal
  <2>1. enabledIds' = enabledIds /\ doing' \in Doing /\ doing'.at = "info" /\ doing'.todo = {}
    BY <1>7, IdleType DEF LmInfo, Doing, Serving
  <2>2. DiagnosticText(m) \in Nat /\ (DiagnosticText(m) # 0 => IsDown(m))
    BY StatusRead
  <2>3. answer' = [NoAnswer EXCEPT !.id = m, !.kind = "info", !.diagnostic = DiagnosticText(m)]
    BY <1>7 DEF LmInfo
  <2>4. /\ answer' \in Answer /\ answer'.kind = "info" /\ answer'.diagnostic = DiagnosticText(m)
        /\ answer'.id = m /\ answer'.ran = answer'.named
    BY <2>2, <2>3, IdleType DEF Answer
  <2> QED BY <1>1, <1>2, <2>1, <2>2, <2>4 DEF CatalogStrong, RuntimeShape, DoingInv, ReportInv,
             AnswerInv, FooterTrue, FailureWithdraws
<1>8. ASSUME DoctorDiagnostic PROVE Goal
  <2> DEFINE x == answer.id
  <2>1. enabledIds' = enabledIds /\ doing' = Idle /\ doing.at = "doctor"
    BY <1>8 DEF DoctorDiagnostic
  <2>2. DiagnosticText(x) \in Nat /\ (DiagnosticText(x) # 0 => IsDown(x))
    BY StatusRead
  <2>3. answer' = [answer EXCEPT !.diagnostic = DiagnosticText(x)]
    BY <1>8 DEF DoctorDiagnostic
  <2>4. /\ answer' \in Answer /\ answer'.kind = answer.kind /\ answer'.diagnostic = DiagnosticText(x)
        /\ answer'.id = x /\ answer'.ran = answer.ran /\ answer'.named = answer.named
        /\ answer'.status = answer.status
    BY <1>a, <2>2, <2>3 DEF Answer
  <2>5. /\ answer.kind = "doctor" /\ answer.status \in {"Running", "Failed", "InstalledDisabled"}
        /\ answer.status = "InstalledDisabled" => ~IsDown(x)
    BY <2>1 DEF CatalogStrong, ReportInv, IsDown
  <2> QED BY <1>1, <1>2, <2>1, <2>2, <2>4, <2>5, IdleType DEF CatalogStrong, RuntimeShape, DoingInv,
             ReportInv, AnswerInv, FooterTrue, FailureWithdraws
<1>9. ASSUME InfoStatus PROVE Goal
  <2> DEFINE x == answer.id
  <2>1. enabledIds' = enabledIds /\ doing' = Idle /\ doing.at = "info"
    BY <1>9 DEF InfoStatus
  <2>2. StatusOf(x, index) \in {"Running", "Failed", "InstalledDisabled"}
        /\ (IsDown(x) => StatusOf(x, index) = "Failed")
    BY StatusRead
  <2>3. answer' = [answer EXCEPT !.status = StatusOf(x, index)]
    BY <1>9 DEF InfoStatus, FreshRuntimeStatus
  <2>4. /\ answer' \in Answer /\ answer'.kind = answer.kind /\ answer'.diagnostic = answer.diagnostic
        /\ answer'.id = x /\ answer'.ran = answer.ran /\ answer'.named = answer.named
        /\ answer'.status = StatusOf(x, index)
    BY <1>a, <2>2, <2>3 DEF Answer
  <2>5. answer.kind = "info" /\ (answer.diagnostic # 0 => IsDown(x))
    BY <2>1 DEF CatalogStrong, ReportInv
  <2> QED BY <1>1, <1>2, <2>1, <2>2, <2>4, <2>5, IdleType DEF CatalogStrong, RuntimeShape, DoingInv,
             ReportInv, AnswerInv, FooterTrue, FailureWithdraws
<1>10. Goal
  BY <1>4, <1>5, <1>6, <1>7, <1>8, <1>9
<1> QED BY <1>2, <1>3, <1>10 DEF CatalogStrong

\* An installation or an update begins: nothing is being offered anew until it
\* ends with a refresh.
LEMMA InstallKeeps ==
  ASSUME CatalogStrong,
         \/ ReplaceDescriptorIfUpdated \/ ShutdownAll
         \/ \E m \in Modules : \/ StopModuleForUpdate(m)
                               \/ \E d \in Manifests : RegisterInstalledDescriptor(m, d)
  PROVE  CatalogStrong'
<1>s. /\ registered \in [DOMAIN registered -> Manifests] /\ DOMAIN registered \subseteq Modules
      /\ index \in [DOMAIN index -> Entry] /\ doing \in Doing
  BY DEF CatalogStrong, ManagerShape, RuntimeShape
<1>1. ASSUME NEW m \in Modules, NEW d \in Manifests, RegisterInstalledDescriptor(m, d)
      PROVE  CatalogStrong'
  <2>1. /\ UNCHANGED <<index, retained, attempts, enabledIds, externalSnapshot, warned>>
        /\ registered' = With(registered, m, d) /\ answer' = NoAnswer
        /\ doing' \in Doing /\ doing'.at = "start" /\ doing'.todo = {}
    BY <1>1 DEF RegisterInstalledDescriptor, Doing
  <2>2. DOMAIN registered' = DOMAIN registered \cup {m}
    BY <2>1, WithValue
  <2>3. registered' \in [DOMAIN registered' -> Manifests]
    BY <2>1, <1>s, WithType
  <2>4. ManagerShape' /\ RuntimeShape' /\ HistoryInv'
    BY <2>1, <2>2, <2>3, IdleType DEF CatalogStrong, ManagerShape, RuntimeShape, HistoryInv
  <2>5. DoingInv' /\ SnapInv' /\ ReportInv' /\ AnswerInv'
    BY <2>1, IdleType DEF DoingInv, SnapInv, ReportInv, AnswerInv, FooterTrue, FailureWithdraws, Serving
  <2> QED BY <2>4, <2>5 DEF CatalogStrong
<1>2. ASSUME NEW m \in Modules, StopModuleForUpdate(m) PROVE CatalogStrong'
  <2>1. /\ UNCHANGED <<registered, retained, attempts, enabledIds, externalSnapshot, warned>>
        /\ index' = Without(index, m) /\ answer' = NoAnswer /\ m \in DOMAIN registered
        /\ doing' \in Doing /\ doing'.at = "update" /\ doing'.id = m
        /\ doing'.todo = enabledIds \cap {m}
    BY <1>2 DEF StopModuleForUpdate, Doing
  <2>2. /\ DOMAIN index' = DOMAIN index \ {m} /\ index' \in [DOMAIN index' -> Entry]
        /\ \A x \in DOMAIN index : x # m => index'[x] = index[x]
    BY <2>1, <1>s DEF Without
  <2>3. ManagerShape' /\ RuntimeShape' /\ HistoryInv'
    BY <2>1, <2>2, IdleType DEF CatalogStrong, ManagerShape, RuntimeShape, HistoryInv
  <2>4. DoingInv' /\ SnapInv' /\ ReportInv' /\ AnswerInv'
    BY <2>1, <2>2, IdleType DEF DoingInv, SnapInv, ReportInv, AnswerInv, FooterTrue,
       FailureWithdraws, Serving
  <2> QED BY <2>3, <2>4 DEF CatalogStrong
<1>3. ASSUME ReplaceDescriptorIfUpdated PROVE CatalogStrong'
  <2>1. /\ UNCHANGED <<index, retained, attempts, enabledIds, externalSnapshot, warned, answer>>
        /\ doing.at = "update" /\ doing' = [doing EXCEPT !.at = "start"]
    BY <1>3 DEF ReplaceDescriptorIfUpdated
  <2>2. doing.id \in DOMAIN registered /\ answer = NoAnswer
    BY <2>1 DEF CatalogStrong, DoingInv
  <2>3. doing' \in Doing /\ doing'.at = "start" /\ doing'.todo = doing.todo
    BY <2>1, <1>s DEF Doing
  <2>4. DOMAIN registered' = DOMAIN registered /\ registered' \in [DOMAIN registered' -> Manifests]
    <3>1. CASE registered' = registered
      BY <3>1, <1>s
    <3>2. ASSUME NEW d \in Manifests, registered' = With(registered, doing.id, d)
          PROVE  /\ DOMAIN registered' = DOMAIN registered
                 /\ registered' \in [DOMAIN registered' -> Manifests]
      <4>1. DOMAIN registered' = DOMAIN registered \cup {doing.id}
        BY <3>2 DEF With
      <4>2. registered' \in [DOMAIN registered' -> Manifests]
        BY <3>2, <1>s, WithType
      <4> QED BY <2>2, <4>1, <4>2
    <3> QED BY <1>3, <3>1, <3>2 DEF ReplaceDescriptorIfUpdated
  <2>5. ManagerShape' /\ RuntimeShape' /\ HistoryInv'
    BY <2>1, <2>3, <2>4 DEF CatalogStrong, ManagerShape, RuntimeShape, HistoryInv
  <2>6. DoingInv' /\ SnapInv' /\ ReportInv' /\ AnswerInv'
    BY <2>1, <2>2, <2>3, <2>4, IdleType DEF CatalogStrong, DoingInv, SnapInv, ReportInv, AnswerInv,
       FooterTrue, FailureWithdraws, Serving
  <2> QED BY <2>5, <2>6 DEF CatalogStrong
<1>4. ASSUME ShutdownAll PROVE CatalogStrong'
  <2>1. /\ UNCHANGED <<registered, retained, attempts, enabledIds, externalSnapshot, warned, answer>>
        /\ doing' = [Idle EXCEPT !.at = "down"] /\ index' = Nothing
    BY <1>4 DEF ShutdownAll
  <2>2. doing' \in Doing /\ doing'.at = "down" /\ doing'.todo = {}
    BY <2>1, IdleType DEF Doing
  <2>3. DOMAIN index' = {} /\ index' \in [DOMAIN index' -> Entry]
    BY <2>1, NothingValue
  <2>4. ManagerShape' /\ RuntimeShape' /\ HistoryInv'
    BY <2>1, <2>2, <2>3 DEF CatalogStrong, ManagerShape, RuntimeShape, HistoryInv
  <2>5. DoingInv' /\ SnapInv' /\ ReportInv' /\ AnswerInv'
    BY <2>1, <2>2, <2>3 DEF CatalogStrong, DoingInv, SnapInv, ReportInv, AnswerInv,
       FooterTrue, FailureWithdraws, Serving
  <2> QED BY <2>4, <2>5 DEF CatalogStrong
<1> QED BY <1>1, <1>2, <1>3, <1>4

\* A module's command: the text is shown under the descriptor of the process that
\* wrote it, and an error withdraws what the process no longer offers.
LEMMA ExecuteKeeps ==
  ASSUME CatalogStrong, ExecuteExternal
  PROVE  CatalogStrong'
<1> DEFINE m == doing.id
<1>1. /\ UNCHANGED <<registered, retained, attempts, enabledIds>>
      /\ doing.at = "execute" /\ doing' = Idle
  BY DEF ExecuteExternal
<1>s. /\ index \in [DOMAIN index -> Entry] /\ doing \in Doing /\ m \in Modules \cup {NoCommand}
      /\ DOMAIN index \subseteq DOMAIN registered
  BY DEF CatalogStrong, ManagerShape, RuntimeShape, Doing
<1>v. externalSnapshot.descriptors = ViewedDescriptors(index)
  BY <1>1 DEF CatalogStrong, SnapInv, Serving
<1> DEFINE Reply(kind, ran, named) ==
             [NoAnswer EXCEPT !.id = m, !.kind = kind, !.ran = ran, !.named = named]
<1>r. ASSUME NEW kind \in {"silent", "result", "refused", "ended"},
             NEW ran \in Manifests \cup {Nothing}, NEW named \in Manifests \cup {Nothing}
      PROVE  LET a == Reply(kind, ran, named)
             IN  /\ a \in Answer /\ a.kind = kind /\ a.ran = ran /\ a.named = named
                 /\ a.diagnostic = 0 /\ a.id = m
  BY <1>s, IdleType DEF Answer
<1>n. Nothing \in Manifests \cup {Nothing}
  OBVIOUS
<1> HIDE DEF Reply
<1>2. CASE m \in Running(index) /\ ShowResult(m)
  <2>1. UNCHANGED <<index, externalSnapshot>>
    BY <1>2 DEF ShowResult
  <2>2. m \in DOMAIN index /\ m \in DOMAIN registered /\ index[m].descriptor \in Manifests
    BY <1>2, <1>s, EntryFields DEF Running, CatalogStrong
  <2>3. /\ m \in DOMAIN externalSnapshot.descriptors
        /\ externalSnapshot.descriptors[m] = index[m].descriptor
    BY <2>2, <1>v DEF ViewedDescriptors
  <2>4. \/ answer' = Reply("silent", Nothing, Nothing) /\ warned' = warned
        \/ /\ answer' = Reply("result", index[m].descriptor, index[m].descriptor)
           /\ warned' = warned \cup {m}
    BY <1>2, <2>3 DEF ShowResult, Replied, Reply
  <2>5. /\ answer' \in Answer /\ answer'.kind \in {"silent", "result"}
        /\ answer'.ran = answer'.named /\ answer'.diagnostic = 0
    BY <2>2, <2>4, <1>r, <1>n
  <2>6. warned' \subseteq DOMAIN registered
    BY <2>2, <2>4 DEF CatalogStrong, RuntimeShape
  <2> HIDE DEF m
  <2>7. ManagerShape' /\ RuntimeShape' /\ HistoryInv'
    BY <1>1, <2>1, <2>5, <2>6, IdleType DEF CatalogStrong, ManagerShape, RuntimeShape, HistoryInv
  <2>8. DoingInv' /\ ReportInv' /\ AnswerInv'
    BY <1>1, <2>5, IdleType DEF DoingInv, ReportInv, AnswerInv, FooterTrue, FailureWithdraws
  <2>9. SnapInv'
    <3>1. /\ ViewedDescriptors(index)' = ViewedDescriptors(index)
          /\ CommandRefs(index)' = CommandRefs(index)
          /\ \A r : Declared(r)' <=> Declared(r)
      BY <1>1, <2>1 DEF ViewedDescriptors, CommandRefs, Running, Declared
    <3> QED BY <1>1, <2>1, <3>1 DEF CatalogStrong, SnapInv, Serving
  <2> QED BY <2>7, <2>8, <2>9 DEF CatalogStrong
<1>3. ASSUME NEW kind \in {"refused", "ended"}, answer' = Reply(kind, Nothing, Nothing),
             externalSnapshot' = FromManager(index'), warned' = warned,
             \/ index' = index
             \/ m \in DOMAIN index /\ index' = [index EXCEPT ![m].status = "Crashed"],
             kind = "ended" => m \notin Running(index')
      PROVE  CatalogStrong'
  <2>1. /\ DOMAIN index' = DOMAIN index /\ index' \in [DOMAIN index' -> Entry]
        /\ \A x \in DOMAIN index : index'[x].generation = index[x].generation
        /\ \A x \in DOMAIN index : \/ index'[x] = index[x]
                                   \/ index'[x].status = "Crashed"
    <3>1. CASE index' = index
      BY <3>1, <1>s
    <3>2. CASE m \in DOMAIN index /\ index' = [index EXCEPT ![m].status = "Crashed"]
      <4> DEFINE k == [index[m] EXCEPT !.status = "Crashed"]
      <4>1. k \in Entry /\ k.generation = index[m].generation /\ k.status = "Crashed"
        BY <3>2, <1>s DEF Entry
      <4>2. index' = [index EXCEPT ![m] = k]
        BY <3>2, <1>s
      <4> HIDE DEF k
      <4> QED BY <3>2, <4>1, <4>2, <1>s
    <3> QED BY <1>3, <3>1, <3>2
  <2>2. /\ answer' \in Answer /\ answer'.kind = kind /\ answer'.ran = answer'.named
        /\ answer'.diagnostic = 0 /\ answer'.id = m
    BY <1>3, <1>r, <1>n
  <2> HIDE DEF m
  <2>3. ManagerShape' /\ RuntimeShape' /\ HistoryInv'
    BY <1>1, <1>3, <2>1, <2>2, IdleType DEF CatalogStrong, ManagerShape, RuntimeShape, HistoryInv
  <2>4. SnapInv' /\ \A r \in externalSnapshot'.refs : r[1] \in Running(index')
    <3>1. externalSnapshot' = FromManager(index)'
      BY <1>1, <1>3 DEF FromManager, CommandRefs, ViewedDescriptors, StatusOf, ActiveDefaults, Running
    <3> QED BY <2>3, <3>1, FreshSnapshot
  <2>5. AnswerInv'
    BY <1>3, <2>2, <2>4 DEF AnswerInv, FooterTrue, FailureWithdraws
  <2>6. DoingInv' /\ ReportInv'
    BY <1>1, <2>2, IdleType DEF DoingInv, ReportInv
  <2> QED BY <2>3, <2>4, <2>5, <2>6 DEF CatalogStrong
<1>4. \/ m \in Running(index) /\ ShowResult(m)
      \/ \E kind \in {"refused", "ended"} :
           /\ answer' = Reply(kind, Nothing, Nothing)
           /\ externalSnapshot' = FromManager(index') /\ warned' = warned
           /\ \/ index' = index
              \/ m \in DOMAIN index /\ index' = [index EXCEPT ![m].status = "Crashed"]
           /\ kind = "ended" => m \notin Running(index')
  <2>1. CASE m \in Running(index) /\ index' = [index EXCEPT ![m].status = "Crashed"]
    <3>1. m \in DOMAIN index /\ index[m] \in Entry
      BY <2>1, <1>s DEF Running
    <3>2. index'[m].status = "Crashed"
      BY <2>1, <3>1, <1>s DEF Entry
    <3>3. m \notin Running(index')
      BY <3>2 DEF Running
    <3> QED BY <2>1, <3>1, <3>3 DEF ExecuteExternal, Replied, AfterError, Reply
  <2> QED BY <2>1 DEF ExecuteExternal, Replied, AfterError, Reply
<1> QED BY <1>2, <1>3, <1>4

\* What the runtime offers, shows and reports of its modules, for any modules and
\* manifests: the snapshot lags behind deaths only, a failed command is withdrawn,
\* a text is shown under the descriptor of the process that wrote it, and reports
\* never show the crash of a module that is not down (manager.rs and runtime/).
THEOREM CatalogueIsCurrent == CatalogSpec => []CatalogInv
<1>1. CatalogInit => CatalogStrong
  <2> SUFFICES ASSUME CatalogInit PROVE CatalogStrong
    OBVIOUS
  <2>1. PICK f \in SUBSET Modules : registered \in [f -> Manifests]
    BY DEF CatalogInit
  <2>2. DOMAIN registered = f /\ registered \in [DOMAIN registered -> Manifests]
    BY <2>1
  <2>3. /\ DOMAIN index = {} /\ index \in [DOMAIN index -> Entry]
        /\ DOMAIN retained = {} /\ retained \in [DOMAIN retained -> Nat]
    BY NothingValue DEF CatalogInit
  <2>4. attempts \in [Modules -> 0 .. MaxStarts]
    BY CatalogAssumption DEF CatalogInit
  <2>5. /\ doing \in Doing /\ doing.at = "boot" /\ doing.todo \subseteq DOMAIN registered
        /\ answer = NoAnswer /\ warned = {} /\ enabledIds \subseteq Modules
    BY <2>1, <2>2 DEF CatalogInit, Doing
  <2>6. ManagerShape /\ RuntimeShape /\ HistoryInv
    BY <2>1, <2>2, <2>3, <2>4, <2>5, IdleType DEF ManagerShape, RuntimeShape, HistoryInv
  <2>7. DoingInv /\ SnapInv /\ ReportInv /\ AnswerInv
    BY <2>3, <2>5, IdleType DEF DoingInv, SnapInv, ReportInv, AnswerInv, FooterTrue,
       FailureWithdraws, Serving
  <2> QED BY <2>6, <2>7 DEF CatalogStrong
<1>2. CatalogStrong /\ [CatalogNext]_catalogVars => CatalogStrong'
  <2>1. ASSUME CatalogStrong, UNCHANGED catalogVars PROVE CatalogStrong'
    <3>1. UNCHANGED <<registered, index, retained, attempts, enabledIds, externalSnapshot, doing,
                      warned, answer>>
      BY <2>1 DEF catalogVars, managerVars
    <3>2. ManagerShape' /\ RuntimeShape' /\ HistoryInv' /\ DoingInv'
      BY <2>1, <3>1 DEF CatalogStrong, ManagerShape, RuntimeShape, HistoryInv, DoingInv
    <3>3. ReportInv' /\ AnswerInv'
      BY <2>1, <3>1 DEF CatalogStrong, ReportInv, IsDown, AnswerInv, FooterTrue, FailureWithdraws
    <3>4. SnapInv'
      BY <2>1, <3>1 DEF CatalogStrong, SnapInv, ViewedDescriptors, CommandRefs, Running, Declared
    <3> QED BY <3>2, <3>3, <3>4 DEF CatalogStrong
  <2> QED BY <2>1, EndsKeep, StartKeeps, RefreshKeeps, ReadsKeep, InstallKeeps, ExecuteKeeps
          DEF CatalogNext
<1>3. CatalogStrong => CatalogInv
  <2> SUFFICES ASSUME CatalogStrong PROVE CatalogInv
    OBVIOUS
  <2>1. CatalogTypeOK
    BY EntryFields DEF CatalogStrong, CatalogTypeOK, ManagerShape, RuntimeShape
  <2>2. CrashHistoryCurrent
    <3>1. \A m \in Running(index) : DiagnosticText(m) = 0
      BY DEF CatalogStrong, HistoryInv, Running, DiagnosticText
    <3> QED BY <3>1 DEF CatalogStrong, HistoryInv, CrashHistoryCurrent
  <2>3. SnapshotLagsBehindDeathsOnly
    <3> SUFFICES ASSUME doing.at \in Serving
                 PROVE  LET current == FromManager(index) IN
                        /\ externalSnapshot.descriptors = current.descriptors
                        /\ current.refs \subseteq externalSnapshot.refs
                        /\ \A r \in externalSnapshot.refs \ current.refs :
                             current.statuses[r[1]] = "Failed"
      BY DEF SnapshotLagsBehindDeathsOnly, Serving
    <3>1. /\ externalSnapshot.descriptors = ViewedDescriptors(index)
          /\ CommandRefs(index) \subseteq externalSnapshot.refs
          /\ \A r \in externalSnapshot.refs : Declared(r)
      BY DEF CatalogStrong, SnapInv
    <3>2. ASSUME NEW r \in externalSnapshot.refs \ CommandRefs(index)
          PROVE  r[1] \in DOMAIN registered /\ StatusOf(r[1], index) = "Failed"
      <4>1. PICK m \in DOMAIN index : r \in {m} \X index[m].descriptor.commands
        BY <3>1, <3>2 DEF Declared
      <4>2. r[1] = m
        BY <4>1
      <4>3. index[m].status = "Crashed"
        BY <3>2, <4>1, RefsRead, EntryFields DEF CatalogStrong, Running
      <4> QED BY <4>2, <4>3, StatusRead DEF IsDown, CatalogStrong, ManagerShape
    <3> QED BY <3>1, <3>2 DEF FromManager
  <2>4. ReportNotFalse
    BY StatusRead DEF CatalogStrong, ReportInv, ReportNotFalse, FreshRuntimeStatus
  <2> QED BY <2>1, <2>2, <2>3, <2>4 DEF CatalogInv, CatalogStrong, AnswerInv
<1> QED BY <1>1, <1>2, <1>3, PTL DEF CatalogSpec

-----------------------------------------------------------------------------
(* The upstream check.  UpstreamInv is about what is shown; what makes it    *)
(* inductive is what the messages still queued will make of it: each of them *)
(* is true, the last one of its kind says what was last resolved, and no     *)
(* version comes before a revision.                                          *)

KnownVersions == {None} \cup {c \in Commits : VersionOf[c] # <<>>}

Successes == UNION {{[type |-> "Success", revision |-> c, relation |-> r] : r \in Relations(c)} : c \in Commits}
Messages == Successes \cup [type : {"Version"}, version : KnownVersions] \cup [type : {"Failed"}]

ShownTrue ==
  /\ snapshot = [revision |-> snapshot.revision, relation |-> snapshot.relation,
                 version |-> snapshot.version, failed |-> snapshot.failed]
  /\ \/ snapshot.revision = None /\ snapshot.relation = Unavailable
     \/ snapshot.revision \in Commits /\ snapshot.relation \in Relations(snapshot.revision)
  /\ snapshot.version \in KnownVersions

\* No message of this type follows the i-th.
LastOf(type, i) ==
  /\ i \in DOMAIN inbox => inbox[i].type = type
  /\ \A j \in DOMAIN inbox : inbox[j].type = type => j <= i

LastKnown ==
  \A i \in 0 .. Len(inbox) :
    /\ LastOf("Success", i) => resolved.revision = IF i = 0 THEN snapshot.revision ELSE inbox[i].revision
    /\ LastOf("Version", i) => resolved.version = IF i = 0 THEN snapshot.version ELSE inbox[i].version

\* A revision is known before the i-th message is read.
RevisionBefore(i) ==
  snapshot.revision # None \/ \E j \in DOMAIN inbox : j < i /\ inbox[j].type = "Success"

VersionAfterRevision ==
  /\ \A i \in DOMAIN inbox : inbox[i].type = "Version" => RevisionBefore(i)
  /\ worker.at = "version" => RevisionBefore(Len(inbox) + 1)

Workers == [at : {"sleep", "version"}, succeeded : BOOLEAN, rate : Nat, transient : Nat,
            last : {"ok", "rate", "transient", "other"}, asked : Nat, delay : Nat]

UpstreamStrong ==
  /\ build \in Commits \cup {Unknown, Unpublished} /\ main \in Commits /\ worker \in Workers
  /\ inbox \in Seq(Messages) /\ resolved = [revision |-> resolved.revision, version |-> resolved.version]
  /\ ShownTrue /\ LastKnown /\ VersionAfterRevision /\ RetryPaced

\* A set of natural numbers that is not empty has a least element.
LEMMA LeastNatural ==
  ASSUME NEW T \in SUBSET Nat, T # {}
  PROVE  \E x \in T : \A y \in T : x <= y
<1> DEFINE R == OpToRel(<, Nat)
<1>1. IsWellFoundedOn(R, Nat)
  BY NatLessThanWellFounded, Zenon
<1>2. PICK x \in T : \A y \in T : ~(<<y, x>> \in R)
  <2> HIDE DEF R
  <2> QED BY <1>1, WFMin
<1>3. \A y \in T : ~(y < x)
  BY <1>2 DEF OpToRel
<1> QED BY <1>3

\* The commits are numbered, and parents are commits with lower numbers.
LEMMA CommitFacts ==
  /\ Commits \subseteq Nat \ {0} /\ Unknown \notin Commits /\ Unpublished \notin Commits /\ None \notin Commits
  /\ \A c \in Commits : Parents[c] \subseteq Commits /\ \A p \in Parents[c] : p < c
<1>1. Parents \in Seq(SUBSET Nat) /\ Len(Parents) < 100 /\ \A c \in Commits : Parents[c] \subseteq 1 .. c - 1
  BY GraphAssumption DEF Unpublished
<1>2. Commits = 1 .. Len(Parents) /\ Len(Parents) \in Nat
  BY <1>1, LenProperties DEF Commits
<1>3. ASSUME NEW c \in Commits
      PROVE  Parents[c] \subseteq Commits /\ \A p \in Parents[c] : p < c
  BY <1>1, <1>2, <1>3
<1> QED BY <1>1, <1>2, <1>3 DEF Unknown, Unpublished, None

\* The commits reached from c: in every set that holds c and the parents of its members.
Closed(S) == \A d \in S : Parents[d] \subseteq S
Reached(c) == {d \in Commits : \A S \in SUBSET Commits : c \in S /\ Closed(S) => d \in S}

LEMMA ReachedFacts ==
  ASSUME NEW c \in Commits
  PROVE  Reached(c) = {c} \cup UNION {Reached(p) : p \in Parents[c]}
<1>1. Parents[c] \subseteq Commits /\ \A d \in Commits : Parents[d] \subseteq Commits
  BY CommitFacts
<1> DEFINE T == {c} \cup UNION {Reached(p) : p \in Parents[c]}
<1>2. T \subseteq Reached(c)
  <2>1. c \in Reached(c)
    BY DEF Reached
  <2>2. ASSUME NEW p \in Parents[c], NEW d \in Reached(p)
        PROVE  d \in Reached(c)
    <3>1. ASSUME NEW S \in SUBSET Commits, c \in S, Closed(S)
          PROVE  d \in S
      <4>1. p \in S
        BY <3>1 DEF Closed
      <4> QED BY <2>2, <3>1, <4>1 DEF Reached
    <3> QED BY <2>2, <3>1 DEF Reached
  <2> QED BY <2>1, <2>2
<1>3. T \in SUBSET Commits /\ c \in T
  BY DEF Reached
<1>4. Closed(T)
  <2> SUFFICES ASSUME NEW d \in T, NEW q \in Parents[d]
               PROVE  q \in T
    BY DEF Closed
  <2>1. CASE d = c
    <3>1. q \in Commits /\ q \in Reached(q)
      BY <1>1, <2>1 DEF Reached
    <3> QED BY <2>1, <3>1
  <2>2. CASE d # c
    <3>1. PICK p \in Parents[c] : d \in Reached(p)
      BY <2>2
    <3>2. d \in Commits /\ q \in Commits
      BY <1>1, <3>1 DEF Reached
    <3>3. q \in Reached(p)
      BY <3>1, <3>2 DEF Reached, Closed
    <3> QED BY <3>1, <3>3
  <2> QED BY <2>1, <2>2
<1>5. Reached(c) \subseteq T
  <2> HIDE DEF T
  <2> QED BY <1>3, <1>4 DEF Reached
<1> QED BY <1>2, <1>5

\* The equation that defines the ancestors has a solution, so they satisfy it.
LEMMA AncestorsOf ==
  ASSUME NEW c \in Commits
  PROVE  Ancestors[c] = {c} \cup UNION {Ancestors[p] : p \in Parents[c]}
<1> DEFINE E(f) == [d \in Commits |-> {d} \cup UNION {f[p] : p \in Parents[d]}]
           g == [d \in Commits |-> Reached(d)]
<1>1. g = E(g)
  <2>1. ASSUME NEW d \in Commits
        PROVE  g[d] = {d} \cup UNION {g[p] : p \in Parents[d]}
    <3>1. \A p \in Parents[d] : g[p] = Reached(p)
      BY CommitFacts
    <3>2. {g[p] : p \in Parents[d]} = {Reached(p) : p \in Parents[d]}
      BY <3>1
    <3> QED BY <3>2, ReachedFacts
  <2>2. g = [d \in Commits |-> {d} \cup UNION {g[p] : p \in Parents[d]}]
    BY <2>1
  <2> QED BY <2>2
<1>2. Ancestors = CHOOSE f : f = E(f)
  BY DEF Ancestors
<1>3. Ancestors = E(Ancestors)
  <2> HIDE DEF g, E
  <2> QED BY <1>1, <1>2
<1> QED BY <1>3

\* An ancestor's ancestors are ancestors.
LEMMA AncestorsCompose ==
  ASSUME NEW c \in Commits, NEW d \in Ancestors[c]
  PROVE  Ancestors[d] \subseteq Ancestors[c]
<1> DEFINE T == {e \in Commits : \E a \in Ancestors[e] : ~(Ancestors[a] \subseteq Ancestors[e])}
<1> SUFFICES ASSUME T # {} PROVE FALSE
  OBVIOUS
<1>1. T \in SUBSET Nat
  BY CommitFacts
<1>2. PICK e \in T : \A x \in T : e <= x
  <2> HIDE DEF T
  <2> QED BY <1>1, LeastNatural
<1>3. PICK a \in Ancestors[e] : ~(Ancestors[a] \subseteq Ancestors[e])
  BY <1>2
<1>4. e \in Commits /\ Ancestors[e] = {e} \cup UNION {Ancestors[p] : p \in Parents[e]}
  BY AncestorsOf
<1>5. PICK p \in Parents[e] : a \in Ancestors[p]
  BY <1>3, <1>4
<1>6. p \in Commits /\ p < e /\ p \in Nat /\ e \in Nat
  BY <1>4, CommitFacts
<1>7. p \notin T
  BY <1>2, <1>6
<1>8. Ancestors[a] \subseteq Ancestors[p]
  BY <1>5, <1>6, <1>7
<1> QED BY <1>3, <1>4, <1>5, <1>8

TrueRelation(rev, r) ==
  r.kind # "Unavailable" =>
    /\ build \in Commits /\ rev \in Commits
    /\ Counts(r) = <<Cardinality(Beyond(rev, build)), Cardinality(Beyond(build, rev))>>

\* The merge base that is one of the two ends has nothing that the other end lacks.
LEMMA MergeBaseAtEnd ==
  ASSUME NEW a \in Commits, NEW b \in Commits, NEW first \in Compared(a, b)
  PROVE  /\ first.ahead = Cardinality(Beyond(a, b))
         /\ first.merge_base = a => Cardinality(Beyond(b, a)) = 0
         /\ first.merge_base = b => Cardinality(Beyond(a, b)) = 0
<1>1. first.ahead = Cardinality(Beyond(a, b)) /\ first.merge_base \in MergeBases(a, b) \cup {None}
  BY DEF Compared
<1>2. first.merge_base \in {a, b} => first.merge_base \in Ancestors[a] \cap Ancestors[b]
  BY <1>1, CommitFacts DEF MergeBases, Common
<1>3. ASSUME first.merge_base = a
      PROVE  Cardinality(Beyond(b, a)) = 0
  <2>1. Beyond(b, a) = {}
    BY <1>2, <1>3, AncestorsCompose DEF Beyond
  <2> QED BY <2>1, FS_EmptySet
<1>4. ASSUME first.merge_base = b
      PROVE  Cardinality(Beyond(a, b)) = 0
  <2>1. Beyond(a, b) = {}
    BY <1>2, <1>4, AncestorsCompose DEF Beyond
  <2> QED BY <2>1, FS_EmptySet
<1> QED BY <1>1, <1>3, <1>4

\* Whatever the two comparisons answer, the relation made of them is the true one.
LEMMA RelationsTrue ==
  ASSUME build \in Commits \cup {Unknown, Unpublished}, NEW c \in Commits, NEW r \in Relations(c)
  PROVE  TrueRelation(c, r)
<1>1. CASE build \in {Unknown, Unpublished}
  <2>1. build # c
    BY <1>1, CommitFacts
  <2>2. r = Unavailable
    BY <1>1, <2>1 DEF Relations, Unknown, Unpublished
  <2> QED BY <2>2 DEF TrueRelation, Unavailable
<1>2. CASE build = c
  <2>1. r = Current
    BY <1>2, CommitFacts DEF Relations
  <2>2. Beyond(c, c) = {}
    BY DEF Beyond
  <2>3. Counts(r) = <<0, 0>>
    BY <2>1 DEF Counts, Current
  <2> QED BY <1>2, <2>2, <2>3, FS_EmptySet DEF TrueRelation
<1>3. CASE build \in Commits /\ build # c
  <2>1. build # Unknown /\ build # Unpublished
    BY <1>3, CommitFacts
  <2>2. PICK first \in Compared(c, build) :
          r \in IF first.merge_base = c THEN {Ahead(first.ahead)}
                ELSE {RelationFromOrderedCompares(c, build, first, reverse) : reverse \in Compared(build, c)}
    BY <1>3, <2>1 DEF Relations
  <2>3. /\ first.ahead = Cardinality(Beyond(c, build))
        /\ first.merge_base = c => Cardinality(Beyond(build, c)) = 0
        /\ first.merge_base = build => Cardinality(Beyond(c, build)) = 0
    BY <1>3, MergeBaseAtEnd
  <2>4. CASE first.merge_base = c
    <3>1. r = Ahead(first.ahead)
      BY <2>2, <2>4
    <3>2. Counts(r) = <<first.ahead, 0>>
      BY <3>1 DEF Counts, Ahead
    <3> QED BY <1>3, <2>3, <2>4, <3>2 DEF TrueRelation
  <2>5. CASE first.merge_base # c
    <3>1. PICK reverse \in Compared(build, c) : r = RelationFromOrderedCompares(c, build, first, reverse)
      BY <2>2, <2>5
    <3>2. reverse.ahead = Cardinality(Beyond(build, c))
      BY <1>3, MergeBaseAtEnd
    <3>3. CASE first.merge_base = build
      <4>1. r = Behind(reverse.ahead)
        BY <2>5, <3>1, <3>3 DEF RelationFromOrderedCompares
      <4>2. Counts(r) = <<0, reverse.ahead>>
        BY <4>1 DEF Counts, Behind
      <4> QED BY <1>3, <2>3, <3>2, <3>3, <4>2 DEF TrueRelation
    <3>4. CASE first.merge_base # build
      <4>1. r = Diverged(first.ahead, reverse.ahead)
        BY <2>5, <3>1, <3>4 DEF RelationFromOrderedCompares
      <4>2. Counts(r) = <<first.ahead, reverse.ahead>>
        BY <4>1 DEF Counts, Diverged
      <4> QED BY <1>3, <2>3, <3>2, <4>2 DEF TrueRelation
    <3> QED BY <3>3, <3>4
  <2> QED BY <2>4, <2>5
<1> QED BY <1>1, <1>2, <1>3

\* A set of natural numbers with an upper bound has a greatest element.
LEMMA GreatestNatural ==
  ASSUME NEW U \in SUBSET Nat, U # {}, NEW n \in Nat, \A x \in U : x <= n
  PROVE  Max(U) \in U /\ \A x \in U : x <= Max(U)
<1> DEFINE T == {m \in Nat : \A x \in U : x <= m}
<1>1. T \in SUBSET Nat /\ n \in T
  OBVIOUS
<1>2. PICK m \in T : \A x \in T : m <= x
  <2> HIDE DEF T
  <2> QED BY <1>1, LeastNatural
<1>3. m \in Nat /\ \A x \in U : x <= m
  BY <1>2
<1>4. m \in U
  <2> SUFFICES ASSUME m \notin U PROVE FALSE
    OBVIOUS
  <2>1. PICK x \in U : x \in Nat
    OBVIOUS
  <2>2. m - 1 \in Nat /\ \A y \in U : y <= m - 1
    BY <1>3, <2>1
  <2> QED BY <1>2, <2>2
<1>5. \E x \in U : \A y \in U : x >= y
  BY <1>3, <1>4
<1>6. Max(U) \in U /\ \A y \in U : Max(U) >= y
  BY <1>5 DEF Max
<1> QED BY <1>6

\* A parsed version is the version up to its last part that is not zero.
LEMMA ParsedVersion ==
  ASSUME NEW v \in Seq(Nat), v # <<>>
  PROVE  \E n \in DOMAIN v :
           /\ DOMAIN ParseDottedVersion(v) = 1 .. n /\ Len(ParseDottedVersion(v)) = n
           /\ \A i \in 1 .. n : ParseDottedVersion(v)[i] = v[i]
           /\ n > 1 => v[n] # 0
           /\ \A i \in DOMAIN v : i > n => v[i] = 0
<1> DEFINE U == {i \in DOMAIN v : v[i] # 0} \cup {1}
<1>1. DOMAIN v = 1 .. Len(v) /\ Len(v) \in Nat /\ Len(v) >= 1
  BY LenProperties, EmptySeq
<1>2. U \in SUBSET Nat /\ U # {} /\ \A x \in U : x <= Len(v)
  BY <1>1
<1>3. Max(U) \in U /\ \A x \in U : x <= Max(U)
  <2> HIDE DEF U
  <2> QED BY <1>1, <1>2, GreatestNatural
<1>4. ParseDottedVersion(v) = SubSeq(v, 1, Max(U))
  BY DEF ParseDottedVersion
<1> DEFINE n == Max(U)
<1>5. n \in DOMAIN v /\ (n > 1 => v[n] # 0) /\ \A i \in DOMAIN v : i > n => v[i] = 0
  <2>1. n \in U /\ \A x \in U : x <= n
    BY <1>3
  <2> HIDE DEF n
  <2> QED BY <1>1, <2>1
<1>6. /\ DOMAIN SubSeq(v, 1, n) = 1 .. n /\ Len(SubSeq(v, 1, n)) = n
      /\ \A i \in 1 .. n : SubSeq(v, 1, n)[i] = v[i]
  <2> HIDE DEF n
  <2> QED BY <1>1, <1>5, SubSeqProperties
<1> QED BY <1>4, <1>5, <1>6

\* An update is announced exactly when the upstream version is the greater one.
LEMMA VersionOrder ==
  ASSUME NEW a \in Seq(Nat), NEW b \in Seq(Nat), a # <<>>, b # <<>>
  PROVE  VecLess(ParseDottedVersion(a), ParseDottedVersion(b)) <=> Greater(b, a)
<1> DEFINE x == ParseDottedVersion(a)
           y == ParseDottedVersion(b)
<1>1. PICK m \in DOMAIN a :
        /\ DOMAIN x = 1 .. m /\ Len(x) = m /\ (\A i \in 1 .. m : x[i] = a[i])
        /\ \A i \in DOMAIN a : i > m => a[i] = 0
  BY ParsedVersion
<1>2. PICK n \in DOMAIN b :
        /\ DOMAIN y = 1 .. n /\ Len(y) = n /\ (\A i \in 1 .. n : y[i] = b[i])
        /\ n > 1 => b[n] # 0
        /\ \A i \in DOMAIN b : i > n => b[i] = 0
  BY ParsedVersion
<1>3. /\ DOMAIN a = 1 .. Len(a) /\ Len(a) \in Nat /\ DOMAIN b = 1 .. Len(b) /\ Len(b) \in Nat
      /\ (\A i \in DOMAIN a : a[i] \in Nat) /\ \A i \in DOMAIN b : b[i] \in Nat
  BY LenProperties, ElementOfSeq
<1>4. m \in Nat /\ n \in Nat /\ m >= 1 /\ n >= 1 /\ m <= Len(a) /\ n <= Len(b)
  BY <1>1, <1>2, <1>3
<1>5. \A i \in Nat : i > m => Part(a, i) = 0
  BY <1>1 DEF Part
<1>6. \A i \in Nat : i > n => Part(b, i) = 0
  BY <1>2 DEF Part
<1>7. (\A i \in 1 .. m : x[i] = Part(a, i)) /\ \A i \in 1 .. n : y[i] = Part(b, i)
  BY <1>1, <1>2, <1>3, <1>4 DEF Part
<1>8. \A i \in Nat : Part(a, i) \in Nat /\ Part(b, i) \in Nat
  BY <1>3 DEF Part
<1> HIDE DEF x, y
<1>9. ASSUME VecLess(x, y)
      PROVE  Greater(b, a)
  <2>1. CASE \E i \in DOMAIN x \cap DOMAIN y : x[i] < y[i] /\ \A j \in 1 .. i - 1 : x[j] = y[j]
    <3>1. PICK i \in DOMAIN x \cap DOMAIN y : x[i] < y[i] /\ \A j \in 1 .. i - 1 : x[j] = y[j]
      BY <2>1
    <3>2. i \in 1 .. m /\ i \in 1 .. n /\ i \in DOMAIN b
      BY <1>1, <1>2, <1>3, <1>4, <3>1
    <3>3. Part(b, i) > Part(a, i)
      BY <1>7, <1>8, <3>1, <3>2
    <3>4. \A j \in 1 .. i - 1 : Part(b, j) = Part(a, j)
      BY <1>4, <1>7, <3>1, <3>2
    <3> QED BY <3>2, <3>3, <3>4 DEF Greater
  <2>2. CASE Len(x) < Len(y) /\ \A j \in DOMAIN x : x[j] = y[j]
    <3> DEFINE T == {i \in m + 1 .. n : Part(b, i) # 0}
    <3>1. m < n /\ n \in T
      BY <1>1, <1>2, <1>3, <1>4, <2>2 DEF Part
    <3>2. PICK i \in T : \A j \in T : i <= j
      <4>1. T \in SUBSET Nat
        BY <1>4
      <4> HIDE DEF T
      <4> QED BY <3>1, <4>1, LeastNatural
    <3>3. i \in Nat /\ i > m /\ i <= n /\ i \in DOMAIN b /\ Part(b, i) # 0
      BY <1>3, <1>4, <3>2
    <3>4. Part(b, i) > Part(a, i)
      BY <1>5, <1>8, <3>3
    <3>5. ASSUME NEW j \in 1 .. i - 1
          PROVE  Part(b, j) = Part(a, j)
      <4>1. CASE j <= m
        <5>1. j \in DOMAIN x /\ j \in 1 .. m /\ j \in 1 .. n
          BY <1>1, <1>4, <3>1, <3>3, <4>1
        <5> QED BY <1>7, <2>2, <5>1
      <4>2. CASE j > m
        <5>1. j \in Nat /\ j < i /\ j \in m + 1 .. n
          BY <1>4, <3>3, <4>2
        <5>2. j \notin T
          BY <3>2, <3>3, <5>1
        <5> QED BY <1>5, <4>2, <5>1, <5>2
      <4> QED BY <1>4, <4>1, <4>2
    <3> QED BY <3>3, <3>4, <3>5 DEF Greater
  <2> QED BY <1>9, <2>1, <2>2 DEF VecLess
<1>10. ASSUME Greater(b, a)
       PROVE  VecLess(x, y)
  <2>1. PICK i \in DOMAIN b : Part(b, i) > Part(a, i) /\ \A j \in 1 .. i - 1 : Part(b, j) = Part(a, j)
    BY <1>10 DEF Greater
  <2>2. i \in Nat /\ i >= 1
    BY <1>3
  <2>3. i <= n
    <3>1. Part(a, i) \in Nat /\ Part(b, i) > Part(a, i)
      BY <1>8, <2>1, <2>2
    <3>2. Part(b, i) # 0
      BY <1>8, <2>2, <3>1
    <3>3. ~(i > n)
      BY <1>6, <2>2, <3>2
    <3> QED BY <1>4, <2>2, <3>3
  <2>4. CASE i <= m
    <3>1. i \in DOMAIN x \cap DOMAIN y
      BY <1>1, <1>2, <1>4, <2>2, <2>3, <2>4
    <3>2. x[i] < y[i] /\ \A j \in 1 .. i - 1 : x[j] = y[j]
      BY <1>1, <1>2, <1>4, <1>7, <2>1, <2>2, <2>3, <2>4
    <3> QED BY <3>1, <3>2 DEF VecLess
  <2>5. CASE i > m
    <3>1. Len(x) < Len(y)
      BY <1>1, <1>2, <1>4, <2>2, <2>3, <2>5
    <3>2. \A j \in DOMAIN x : x[j] = y[j]
      BY <1>1, <1>2, <1>4, <1>7, <2>1, <2>2, <2>3, <2>5
    <3> QED BY <3>1, <3>2 DEF VecLess
  <2> QED BY <1>4, <2>2, <2>4, <2>5
<1> QED BY <1>9, <1>10 DEF x, y

\* The greater and the smaller of two numbers.
LEMMA TwoNumbers ==
  ASSUME NEW a \in Nat, NEW b \in Nat
  PROVE  /\ Max({a, b}) \in {a, b} /\ Max({a, b}) >= a /\ Max({a, b}) >= b
         /\ Min({a, b}) \in {a, b} /\ Min({a, b}) <= a /\ Min({a, b}) <= b
<1>1. \E x \in {a, b} : \A y \in {a, b} : x >= y
  OBVIOUS
<1>2. Max({a, b}) \in {a, b} /\ \A y \in {a, b} : Max({a, b}) >= y
  BY <1>1 DEF Max
<1>3. \E x \in {a, b} : \A y \in {a, b} : x =< y
  OBVIOUS
<1>4. Min({a, b}) \in {a, b} /\ \A y \in {a, b} : Min({a, b}) =< y
  BY <1>3 DEF Min
<1> QED BY <1>2, <1>4

\* Only a rate limit comes with a delay to keep.
LEMMA ResultFacts ==
  ASSUME NEW result \in ResolveUpstreamRelation
  PROVE  /\ result.after \in Nat /\ (result.after # 0 => IsRate(result))
         /\ IsRate(result) => ~IsTransient(result) /\ result.error # "ok"
         /\ IsTransient(result) => result.error # "ok"
         /\ result.error = "ok" =>
              result.revision = main /\ result.relation \in Relations(main)
<1>1. CASE result.error = "ok"
  BY <1>1 DEF ResolveUpstreamRelation, MainRevErrors, RelationErrors, CompareErrors, RequestError, RateLimited,
              HttpStatus, ReadBoundedBody, ParseTangledError, Failed, IsRate, IsTransient, None
<1>2. CASE result.error # "ok"
  <2>1. result \in MainRevErrors \cup CompareErrors(build) \cup {Failed("Deadline")}
    BY <1>2 DEF ResolveUpstreamRelation, RelationErrors
  <2>2. result.after \in {0, 90} /\ (result.after # 0 => result.error = "RateLimited")
    BY <2>1 DEF MainRevErrors, CompareErrors, RequestError, RateLimited, RetryAfter,
                HttpStatus, ReadBoundedBody, ParseTangledError, Failed, None
  <2> QED BY <1>2, <2>2 DEF IsRate, IsTransient
<1> QED BY <1>1, <1>2

Cadence(w) ==
  /\ w.last = "rate" => w.delay >= Max({60, w.asked})
  /\ w.last = "transient" /\ ~w.succeeded => w.delay \in 15 .. 301
  /\ w.succeeded /\ w.last # "rate" => w.delay = UPSTREAM_REFRESH_INTERVAL

\* The delay that follows a cycle.
LEMMA PacedFacts ==
  ASSUME NEW w \in Workers, NEW result \in ResolveUpstreamRelation, NEW jitter \in UpstreamRetryJitter
  PROVE  Paced(w, result, jitter) \in Workers /\ Cadence(Paced(w, result, jitter))
<1> DEFINE transient == IF IsTransient(result) THEN w.transient ELSE 0
           rate == IF IsRate(result) THEN w.rate + 1 ELSE 0
           succeeded == w.succeeded \/ result.error = "ok"
           late == IF IsTransient(result) \/ IsRate(result) THEN jitter ELSE 0
           delay == UpstreamRetryDelay(succeeded, transient, rate, result.after, IsTransient(result), late)
           local == (IF rate > 0 THEN RATE_LIMIT_DELAYS[Min({rate, 5})]
                     ELSE COLD_TRANSIENT_DELAYS[Min({transient + 1, 5})]) + late
<1>1. /\ w.transient \in Nat /\ w.rate \in Nat /\ w.succeeded \in BOOLEAN
      /\ transient \in Nat /\ rate \in Nat /\ late \in {0, 1} /\ (rate > 0 <=> IsRate(result)) /\ rate >= 0
  BY DEF Workers, UpstreamRetryJitter
<1>2. /\ result.after \in Nat /\ (result.after # 0 => IsRate(result))
      /\ IsRate(result) => ~IsTransient(result) /\ result.error # "ok"
      /\ IsTransient(result) => result.error # "ok"
  BY ResultFacts
<1>3. rate > 0 => Min({rate, 5}) \in 1 .. 5
  BY <1>1, TwoNumbers
<1>4. Min({transient + 1, 5}) \in 1 .. 5
  BY <1>1, TwoNumbers
<1>5. IF rate > 0 THEN local \in Nat /\ local >= 60 ELSE local \in 15 .. 301
  <2> HIDE DEF rate, transient, late
  <2>1. ASSUME NEW i \in 1 .. 5
        PROVE  RATE_LIMIT_DELAYS[i] \in {60, 120, 300, 900, 1800} /\ COLD_TRANSIENT_DELAYS[i] \in {15, 30, 60, 120, 300}
    <3>1. i = 1 \/ i = 2 \/ i = 3 \/ i = 4 \/ i = 5
      OBVIOUS
    <3> QED BY <3>1 DEF RATE_LIMIT_DELAYS, COLD_TRANSIENT_DELAYS
  <2>2. CASE rate > 0
    <3>1. RATE_LIMIT_DELAYS[Min({rate, 5})] \in {60, 120, 300, 900, 1800}
      BY <1>3, <2>1, <2>2
    <3> QED BY <1>1, <2>2, <3>1
  <2>3. CASE ~(rate > 0)
    <3>1. COLD_TRANSIENT_DELAYS[Min({transient + 1, 5})] \in {15, 30, 60, 120, 300}
      BY <1>4, <2>1
    <3> QED BY <1>1, <2>3, <3>1
  <2> QED BY <2>2, <2>3
<1>6. delay = IF rate = 0 /\ (succeeded \/ ~IsTransient(result)) THEN 7200 ELSE Max({result.after, local})
  BY DEF UpstreamRetryDelay, UPSTREAM_REFRESH_INTERVAL
<1>7. Max({result.after, local}) \in {result.after, local} /\ Max({result.after, local}) >= result.after
      /\ Max({result.after, local}) >= local /\ local \in Nat
  <2>1. local \in Nat
    <3> HIDE DEF local, rate
    <3> QED BY <1>5
  <2> HIDE DEF local
  <2> QED BY <1>2, <2>1, TwoNumbers
<1> DEFINE p == Paced(w, result, jitter)
<1>8. p = [at |-> "sleep", succeeded |-> succeeded, rate |-> rate,
           transient |-> IF IsTransient(result) THEN transient + 1 ELSE 0,
           last |-> Class(result), asked |-> result.after, delay |-> delay]
  BY DEF Paced
<1>9. /\ Class(result) \in {"ok", "rate", "transient", "other"}
      /\ Class(result) = "rate" <=> IsRate(result)
      /\ Class(result) = "transient" => IsTransient(result)
  BY <1>2 DEF Class
<1>10. delay \in Nat
  <2> HIDE DEF delay, local
  <2> QED BY <1>2, <1>6, <1>7
<1>11. p \in Workers
  <2> HIDE DEF delay, p, rate
  <2>1. (IF IsTransient(result) THEN transient + 1 ELSE 0) \in Nat /\ succeeded \in BOOLEAN
    BY <1>1
  <2> HIDE DEF transient, succeeded
  <2> QED BY <1>1, <1>2, <1>8, <1>9, <1>10, <2>1 DEF Workers
<1>12. Cadence(p)
  <2>1. p.last = Class(result) /\ p.delay = delay /\ p.asked = result.after /\ p.succeeded = succeeded
    BY <1>8
  <2> HIDE DEF p, delay, local, rate, succeeded, transient, late
  <2>2. ASSUME IsRate(result)
        PROVE  delay >= Max({60, result.after})
    <3>1. rate > 0 /\ delay = Max({result.after, local}) /\ local >= 60
      BY <1>1, <1>5, <1>6, <2>2
    <3>2. Max({60, result.after}) \in {60, result.after}
      BY <1>2, TwoNumbers
    <3> QED BY <1>2, <1>5, <1>7, <3>1, <3>2
  <2>3. ASSUME Class(result) = "transient", ~succeeded
        PROVE  delay \in 15 .. 301
    <3>1. IsTransient(result) /\ ~IsRate(result) /\ rate = 0 /\ result.after = 0
      BY <1>1, <1>2, <1>9, <2>3
    <3>2. delay = Max({0, local}) /\ local \in 15 .. 301
      BY <1>5, <1>6, <2>3, <3>1
    <3> QED BY <1>7, <3>1, <3>2
  <2>4. ASSUME succeeded, ~IsRate(result)
        PROVE  delay = 7200
    BY <1>1, <1>6, <2>4
  <2> QED BY <1>9, <2>1, <2>2, <2>3, <2>4 DEF Cadence, UPSTREAM_REFRESH_INTERVAL
<1> QED BY <1>11, <1>12

\* The messages sent are those of this build, which does not change.
LEMMA BuildStays ==
  ASSUME build' = build
  PROVE  Messages' = Messages /\ \A c : Relations(c)' = Relations(c)
<1>1. ASSUME NEW c
      PROVE  Relations(c)' = Relations(c)
  BY DEF Relations
<1> QED BY <1>1 DEF Messages, Successes

LEMMA MessageFacts ==
  ASSUME NEW m \in Messages
  PROVE  /\ m.type \in {"Success", "Version", "Failed"}
         /\ m.type = "Success" => m.revision \in Commits /\ m.relation \in Relations(m.revision)
         /\ m.type = "Version" => m.version \in KnownVersions
<1>1. CASE m \in Successes
  <2>1. PICK c \in Commits : \E r \in Relations(c) : m = [type |-> "Success", revision |-> c, relation |-> r]
    BY <1>1 DEF Successes
  <2> QED BY <2>1
<1>2. CASE m \in [type : {"Version"}, version : KnownVersions] \cup [type : {"Failed"}]
  BY <1>2
<1> QED BY <1>1, <1>2 DEF Messages

\* A message is queued: it is the last of its kind, and says what was last resolved.
LEMMA Sends ==
  ASSUME UpstreamStrong, UNCHANGED <<build, snapshot>>, NEW m \in Messages, inbox' = Append(inbox, m),
         m.type = "Success" => resolved' = [resolved EXCEPT !.revision = m.revision],
         m.type = "Version" => resolved' = [resolved EXCEPT !.version = m.version] /\ RevisionBefore(Len(inbox) + 1),
         m.type = "Failed" => resolved' = resolved,
         worker'.at = "version" => m.type = "Success"
  PROVE  /\ (inbox \in Seq(Messages))' /\ (resolved = [revision |-> resolved.revision, version |-> resolved.version])'
         /\ ShownTrue' /\ LastKnown' /\ VersionAfterRevision'
<1> DEFINE n == Len(inbox)
<1>1. /\ inbox \in Seq(Messages) /\ n \in Nat /\ DOMAIN inbox = 1 .. n
      /\ inbox' \in Seq(Messages) /\ Len(inbox') = n + 1 /\ DOMAIN inbox' = 1 .. n + 1
      /\ inbox'[n + 1] = m /\ \A i \in 1 .. n : inbox'[i] = inbox[i]
  BY DEF UpstreamStrong
<1>2. (inbox \in Seq(Messages))'
  BY <1>1, BuildStays
<1>3. resolved = [revision |-> resolved.revision, version |-> resolved.version]
  BY DEF UpstreamStrong
<1>4. m.type \in {"Success", "Version", "Failed"}
  BY MessageFacts
<1>5. resolved' = [revision |-> resolved'.revision, version |-> resolved'.version]
      /\ resolved'.revision = (IF m.type = "Success" THEN m.revision ELSE resolved.revision)
      /\ resolved'.version = (IF m.type = "Version" THEN m.version ELSE resolved.version)
  BY <1>3, <1>4
<1>6. ShownTrue'
  BY BuildStays DEF UpstreamStrong, ShownTrue, KnownVersions
<1>7. LastKnown'
  <2> SUFFICES ASSUME NEW i \in 0 .. n + 1
               PROVE  /\ LastOf("Success", i)' => resolved'.revision = IF i = 0 THEN snapshot.revision ELSE inbox'[i].revision
                      /\ LastOf("Version", i)' => resolved'.version = IF i = 0 THEN snapshot.version ELSE inbox'[i].version
    BY <1>1 DEF LastKnown
  <2> HIDE DEF n
  <2>1. CASE i = n + 1
    <3>1. inbox'[i] = m /\ i # 0 /\ i \in DOMAIN inbox'
      BY <1>1, <2>1
    <3> QED BY <1>5, <3>1 DEF LastOf
  <2>2. CASE i # n + 1
    <3>1. i \in 0 .. n /\ n + 1 \in DOMAIN inbox' /\ ~(n + 1 <= i)
      BY <1>1, <2>2
    <3>2. ASSUME NEW type \in {"Success", "Version"}, LastOf(type, i)'
          PROVE  LastOf(type, i) /\ m.type # type
      <4>1. (i \in DOMAIN inbox' => inbox'[i].type = type) /\ \A j \in DOMAIN inbox' : inbox'[j].type = type => j <= i
        BY <3>2 DEF LastOf
      <4>2. m.type # type
        BY <1>1, <3>1, <4>1
      <4>3. i \in DOMAIN inbox => inbox[i].type = type
        BY <1>1, <4>1
      <4>4. \A j \in DOMAIN inbox : inbox[j].type = type => j <= i
        BY <1>1, <4>1
      <4> QED BY <4>2, <4>3, <4>4 DEF LastOf
    <3>3. /\ LastOf("Success", i) => resolved.revision = IF i = 0 THEN snapshot.revision ELSE inbox[i].revision
          /\ LastOf("Version", i) => resolved.version = IF i = 0 THEN snapshot.version ELSE inbox[i].version
      BY <3>1 DEF UpstreamStrong, LastKnown, n
    <3>4. i # 0 => inbox'[i] = inbox[i]
      BY <1>1, <3>1
    <3> QED BY <1>5, <3>2, <3>3, <3>4
  <2> QED BY <2>1, <2>2
<1>8. VersionAfterRevision'
  <2> HIDE DEF n
  <2>1. ASSUME NEW i \in 1 .. n + 1, RevisionBefore(i)
        PROVE  RevisionBefore(i)'
    BY <1>1, <2>1 DEF RevisionBefore
  <2>2. ASSUME NEW i \in DOMAIN inbox', inbox'[i].type = "Version"
        PROVE  RevisionBefore(i)'
    <3>1. CASE i = n + 1
      BY <1>1, <2>1, <2>2, <3>1 DEF n
    <3>2. CASE i # n + 1
      <4>1. i \in DOMAIN inbox /\ inbox[i].type = "Version" /\ i \in 1 .. n + 1
        BY <1>1, <2>2, <3>2
      <4>2. RevisionBefore(i)
        BY <4>1 DEF UpstreamStrong, VersionAfterRevision
      <4> QED BY <2>1, <4>1, <4>2
    <3> QED BY <3>1, <3>2
  <2>3. ASSUME worker'.at = "version"
        PROVE  RevisionBefore(Len(inbox) + 1)'
    <3>1. n + 1 \in DOMAIN inbox' /\ inbox'[n + 1].type = "Success" /\ n + 1 < Len(inbox') + 1
      BY <1>1, <2>3
    <3> QED BY <3>1 DEF RevisionBefore
  <2> QED BY <2>2, <2>3 DEF VersionAfterRevision
<1> QED BY <1>2, <1>5, <1>6, <1>7, <1>8

LEMMA UpstreamInitially ==
  ASSUME CheckInit
  PROVE  UpstreamStrong
<1>1. inbox = <<>> /\ Len(inbox) = 0 /\ inbox \in Seq(Messages) /\ DOMAIN inbox = {}
  BY DEF CheckInit
<1>2. worker \in Workers /\ RetryPaced /\ worker.at = "sleep"
  BY DEF CheckInit, Workers, None, RetryPaced
<1>3. ShownTrue
  BY DEF CheckInit, ShownTrue, KnownVersions
<1>4. LastKnown
  BY <1>1 DEF CheckInit, LastKnown
<1>5. VersionAfterRevision
  BY <1>1, <1>2 DEF VersionAfterRevision
<1> QED BY <1>1, <1>2, <1>3, <1>4, <1>5 DEF UpstreamStrong, CheckInit

\* ResolveUpstreamRelation and the schedule.
LEMMA CycleKeeps ==
  ASSUME UpstreamStrong, Refresh
  PROVE  UpstreamStrong'
<1>1. PICK result \in ResolveUpstreamRelation, jitter \in UpstreamRetryJitter :
        IF result.error = "ok"
        THEN /\ inbox' = Append(inbox, [type |-> "Success", revision |-> result.revision, relation |-> result.relation])
             /\ resolved' = [resolved EXCEPT !.revision = result.revision]
             /\ worker' = [Paced(worker, result, jitter) EXCEPT !.at = "version"]
        ELSE /\ inbox' = Append(inbox, [type |-> "Failed"])
             /\ worker' = Paced(worker, result, jitter)
             /\ UNCHANGED resolved
  BY DEF Refresh
<1>2. UNCHANGED <<build, main, snapshot>>
  BY DEF Refresh
<1> DEFINE p == Paced(worker, result, jitter)
<1>3. p \in Workers /\ Cadence(p) /\ p.at = "sleep"
  <2>1. worker \in Workers
    BY DEF UpstreamStrong
  <2>2. p.at = "sleep"
    BY DEF Paced
  <2> QED BY <2>1, <2>2, PacedFacts
<1>4. worker' = p \/ worker' = [p EXCEPT !.at = "version"]
  BY <1>1
<1>5. worker' \in Workers /\ Cadence(worker')
  <2> HIDE DEF p
  <2>1. [p EXCEPT !.at = "version"] \in Workers
    BY <1>3 DEF Workers
  <2>2. /\ [p EXCEPT !.at = "version"].last = p.last /\ [p EXCEPT !.at = "version"].asked = p.asked
        /\ [p EXCEPT !.at = "version"].delay = p.delay /\ [p EXCEPT !.at = "version"].succeeded = p.succeeded
    BY <1>3 DEF Workers
  <2>3. Cadence([p EXCEPT !.at = "version"])
    BY <1>3, <2>2 DEF Cadence
  <2> QED BY <1>3, <1>4, <2>1, <2>3
<1>6. RetryPaced'
  BY <1>5 DEF RetryPaced, Cadence
<1>7. (inbox \in Seq(Messages))' /\ (resolved = [revision |-> resolved.revision, version |-> resolved.version])'
      /\ ShownTrue' /\ LastKnown' /\ VersionAfterRevision'
  <2>1. CASE result.error = "ok"
    <3> DEFINE m == [type |-> "Success", revision |-> result.revision, relation |-> result.relation]
    <3>1. result.revision = main /\ result.relation \in Relations(main) /\ main \in Commits
      BY <2>1, ResultFacts DEF UpstreamStrong
    <3>2. m \in Messages
      BY <3>1 DEF Messages, Successes
    <3>3. inbox' = Append(inbox, m) /\ m.type = "Success" /\ resolved' = [resolved EXCEPT !.revision = m.revision]
      BY <1>1, <2>1
    <3> HIDE DEF m
    <3> QED BY <1>2, <3>2, <3>3, Sends
  <2>2. CASE result.error # "ok"
    <3> DEFINE m == [type |-> "Failed"]
    <3>1. m \in Messages /\ m.type = "Failed" /\ inbox' = Append(inbox, m) /\ resolved' = resolved
      BY <1>1, <2>2 DEF Messages
    <3>2. worker'.at = "sleep"
      BY <1>1, <1>3, <2>2
    <3> HIDE DEF m
    <3> QED BY <1>2, <3>1, <3>2, Sends
  <2> QED BY <2>1, <2>2
<1>8. build' \in Commits \cup {Unknown, Unpublished} /\ main' \in Commits
  BY <1>2 DEF UpstreamStrong
<1> QED BY <1>5, <1>6, <1>7, <1>8 DEF UpstreamStrong

LEMMA RefreshVersionKeeps ==
  ASSUME UpstreamStrong, RefreshVersion
  PROVE  UpstreamStrong'
<1>1. UNCHANGED <<build, main, snapshot>> /\ worker.at = "version" /\ worker' = [worker EXCEPT !.at = "sleep"]
  BY DEF RefreshVersion
<1>2. worker \in Workers /\ RetryPaced
  BY DEF UpstreamStrong
<1>3. worker' \in Workers /\ worker'.at = "sleep"
  BY <1>1, <1>2 DEF Workers
<1>4. /\ worker'.last = worker.last /\ worker'.asked = worker.asked
      /\ worker'.delay = worker.delay /\ worker'.succeeded = worker.succeeded
  BY <1>1, <1>2 DEF Workers
<1>5. RetryPaced'
  BY <1>2, <1>4 DEF RetryPaced
<1>6. build' \in Commits \cup {Unknown, Unpublished} /\ main' \in Commits
  BY <1>1 DEF UpstreamStrong
<1>7. CASE inbox' = Append(inbox, [type |-> "Version", version |-> ParsePackageVersion])
           /\ resolved' = [resolved EXCEPT !.version = ParsePackageVersion]
  <2> DEFINE m == [type |-> "Version", version |-> ParsePackageVersion]
  <2>1. ParsePackageVersion \in KnownVersions
    BY DEF UpstreamStrong, ParsePackageVersion, KnownVersions
  <2>2. m \in Messages /\ m.type = "Version" /\ m.version = ParsePackageVersion
    BY <2>1 DEF Messages
  <2>3. inbox' = Append(inbox, m) /\ resolved' = [resolved EXCEPT !.version = m.version]
    BY <1>7
  <2>4. RevisionBefore(Len(inbox) + 1)
    BY <1>1 DEF UpstreamStrong, VersionAfterRevision
  <2> HIDE DEF m
  <2>5. (inbox \in Seq(Messages))' /\ (resolved = [revision |-> resolved.revision, version |-> resolved.version])'
        /\ ShownTrue' /\ LastKnown' /\ VersionAfterRevision'
    BY <1>1, <1>3, <2>2, <2>3, <2>4, Sends
  <2> QED BY <1>3, <1>5, <1>6, <2>5 DEF UpstreamStrong
<1>8. CASE UNCHANGED <<inbox, resolved>>
  <2>1. (inbox \in Seq(Messages))' /\ (resolved = [revision |-> resolved.revision, version |-> resolved.version])'
    BY <1>1, <1>8, BuildStays DEF UpstreamStrong
  <2>2. ShownTrue'
    BY <1>1, BuildStays DEF UpstreamStrong, ShownTrue, KnownVersions
  <2>3. LastKnown'
    BY <1>1, <1>8 DEF UpstreamStrong, LastKnown, LastOf
  <2>4. VersionAfterRevision'
    BY <1>1, <1>3, <1>8 DEF UpstreamStrong, VersionAfterRevision, RevisionBefore
  <2> QED BY <1>3, <1>5, <1>6, <2>1, <2>2, <2>3, <2>4 DEF UpstreamStrong
<1> QED BY <1>7, <1>8 DEF RefreshVersion

\* The update loop takes a message: the rest is as much to come as before.
LEMMA ReadKeeps ==
  ASSUME UpstreamStrong, ReceiveRefresh
  PROVE  UpstreamStrong'
<1> DEFINE m == Head(inbox)
           n == Len(inbox)
<1>1. /\ inbox \in Seq(Messages) /\ inbox # <<>> /\ n \in Nat /\ n >= 1 /\ DOMAIN inbox = 1 .. n
      /\ m \in Messages /\ m = inbox[1]
      /\ inbox' \in Seq(Messages) /\ Len(inbox') = n - 1 /\ DOMAIN inbox' = 1 .. n - 1
      /\ \A i \in 1 .. n - 1 : inbox'[i] = inbox[i + 1]
  <2>1. inbox \in Seq(Messages) /\ inbox # <<>> /\ inbox' = Tail(inbox)
    BY DEF UpstreamStrong, ReceiveRefresh
  <2> QED BY <2>1, HeadTailProperties, LenProperties, EmptySeq, ElementOfSeq
<1>2. UNCHANGED <<build, main, worker, resolved>>
  BY DEF ReceiveRefresh
<1>3. /\ m.type \in {"Success", "Version", "Failed"}
      /\ m.type = "Success" => m.revision \in Commits /\ m.relation \in Relations(m.revision)
      /\ m.type = "Version" => m.version \in KnownVersions
  BY <1>1, MessageFacts
<1>4. snapshot' = CASE m.type = "Success" -> PublishUpstreamRevision(m)
                   [] m.type = "Version" -> PublishUpstreamVersion(m)
                   [] m.type = "Failed"  -> PublishUpstreamFailure
  BY DEF ReceiveRefresh
<1> HIDE DEF m, n
<1>5. /\ snapshot = [revision |-> snapshot.revision, relation |-> snapshot.relation,
                     version |-> snapshot.version, failed |-> snapshot.failed]
      /\ \/ snapshot.revision = None /\ snapshot.relation = Unavailable
         \/ snapshot.revision \in Commits /\ snapshot.relation \in Relations(snapshot.revision)
      /\ snapshot.version \in KnownVersions
  BY DEF UpstreamStrong, ShownTrue
<1>6. m.type = "Version" => snapshot.revision # None
  <2> SUFFICES ASSUME m.type = "Version" PROVE snapshot.revision # None
    OBVIOUS
  <2>1. 1 \in DOMAIN inbox /\ inbox[1].type = "Version"
    BY <1>1
  <2>2. RevisionBefore(1)
    BY <2>1 DEF UpstreamStrong, VersionAfterRevision
  <2> QED BY <1>1, <2>2 DEF RevisionBefore
<1>7. /\ snapshot' = [revision |-> snapshot'.revision, relation |-> snapshot'.relation,
                      version |-> snapshot'.version, failed |-> snapshot'.failed]
      /\ snapshot'.revision = (IF m.type = "Success" THEN m.revision ELSE snapshot.revision)
      /\ snapshot'.relation = (IF m.type = "Success" THEN m.relation ELSE snapshot.relation)
      /\ snapshot'.version = (IF m.type = "Version" THEN m.version ELSE snapshot.version)
  <2>1. CASE m.type = "Success"
    BY <1>4, <2>1 DEF PublishUpstreamRevision
  <2>2. CASE m.type = "Version"
    BY <1>4, <1>5, <1>6, <2>2 DEF PublishUpstreamVersion
  <2>3. CASE m.type = "Failed"
    BY <1>4, <1>5, <2>3 DEF PublishUpstreamFailure
  <2> QED BY <1>3, <2>1, <2>2, <2>3
<1>8. ShownTrue'
  <2>1. \A c : Relations(c)' = Relations(c)
    BY <1>2, BuildStays
  <2>2. \/ snapshot'.revision = None /\ snapshot'.relation = Unavailable
        \/ snapshot'.revision \in Commits /\ snapshot'.relation \in Relations(snapshot'.revision)
    BY <1>3, <1>5, <1>7
  <2>3. snapshot'.version \in KnownVersions
    BY <1>3, <1>5, <1>7
  <2>4. snapshot'.relation \in Relations(snapshot'.revision) => (snapshot.relation \in Relations(snapshot.revision))'
    BY <1>2 DEF Relations
  <2> QED BY <1>7, <2>2, <2>3, <2>4 DEF ShownTrue, KnownVersions
<1>9. LastKnown'
  <2> SUFFICES ASSUME NEW i \in 0 .. n - 1
               PROVE  /\ LastOf("Success", i)' => resolved.revision = IF i = 0 THEN snapshot'.revision ELSE inbox'[i].revision
                      /\ LastOf("Version", i)' => resolved.version = IF i = 0 THEN snapshot'.version ELSE inbox'[i].version
    BY <1>1, <1>2 DEF LastKnown
  <2>1. ASSUME NEW type, LastOf(type, i)', NEW k \in 0 .. n, k = 0 \/ inbox[k].type = type,
               k = 0 => i = 0 /\ m.type # type, k # 0 => k = i + 1
        PROVE  LastOf(type, k)
    <3>1. \A j \in DOMAIN inbox' : inbox'[j].type = type => j <= i
      BY <2>1 DEF LastOf
    <3>2. ASSUME NEW j \in DOMAIN inbox, inbox[j].type = type
          PROVE  j <= k
      <4>1. CASE j = 1
        BY <1>1, <2>1, <3>2, <4>1
      <4>2. CASE j # 1
        <5>1. j - 1 \in DOMAIN inbox' /\ inbox'[j - 1] = inbox[j]
          BY <1>1, <4>2
        <5>2. j - 1 <= i
          BY <3>1, <3>2, <5>1
        <5> QED BY <1>1, <2>1, <5>1, <5>2
      <4> QED BY <4>1, <4>2
    <3>3. k \in DOMAIN inbox => inbox[k].type = type
      BY <1>1, <2>1
    <3> QED BY <3>2, <3>3 DEF LastOf
  <2>2. ASSUME NEW k \in 0 .. n
        PROVE  /\ LastOf("Success", k) => resolved.revision = IF k = 0 THEN snapshot.revision ELSE inbox[k].revision
               /\ LastOf("Version", k) => resolved.version = IF k = 0 THEN snapshot.version ELSE inbox[k].version
    BY DEF UpstreamStrong, LastKnown, n
  <2>3. 0 \in 0 .. n /\ i + 1 \in 1 .. n /\ i + 1 \in 0 .. n /\ (i # 0 => i \in 1 .. n - 1 /\ i \in DOMAIN inbox' /\ inbox'[i] = inbox[i + 1])
    BY <1>1
  <2>4. ASSUME LastOf("Success", i)'
        PROVE  resolved.revision = IF i = 0 THEN snapshot'.revision ELSE inbox'[i].revision
    <3>1. i # 0 => inbox[i + 1].type = "Success"
      BY <2>3, <2>4 DEF LastOf
    <3>2. CASE i = 0 /\ m.type # "Success"
      <4>1. LastOf("Success", 0)
        BY <2>1, <2>3, <2>4, <3>2
      <4> QED BY <1>7, <2>2, <2>3, <3>2, <4>1
    <3>3. CASE i # 0 \/ m.type = "Success"
      <4>1. inbox[i + 1].type = "Success"
        BY <1>1, <3>1, <3>3
      <4>2. LastOf("Success", i + 1)
        BY <2>1, <2>3, <2>4, <4>1
      <4>3. resolved.revision = inbox[i + 1].revision
        BY <2>2, <2>3, <4>2
      <4> QED BY <1>1, <1>7, <2>3, <3>3, <4>3
    <3> QED BY <3>2, <3>3
  <2>5. ASSUME LastOf("Version", i)'
        PROVE  resolved.version = IF i = 0 THEN snapshot'.version ELSE inbox'[i].version
    <3>1. i # 0 => inbox[i + 1].type = "Version"
      BY <2>3, <2>5 DEF LastOf
    <3>2. CASE i = 0 /\ m.type # "Version"
      <4>1. LastOf("Version", 0)
        BY <2>1, <2>3, <2>5, <3>2
      <4> QED BY <1>7, <2>2, <2>3, <3>2, <4>1
    <3>3. CASE i # 0 \/ m.type = "Version"
      <4>1. inbox[i + 1].type = "Version"
        BY <1>1, <3>1, <3>3
      <4>2. LastOf("Version", i + 1)
        BY <2>1, <2>3, <2>5, <4>1
      <4>3. resolved.version = inbox[i + 1].version
        BY <2>2, <2>3, <4>2
      <4> QED BY <1>1, <1>7, <2>3, <3>3, <4>3
    <3> QED BY <3>2, <3>3
  <2> QED BY <2>4, <2>5
<1>10. VersionAfterRevision'
  <2>1. ASSUME NEW i \in 1 .. n, RevisionBefore(i + 1)
        PROVE  RevisionBefore(i)'
    <3>1. CASE snapshot.revision # None \/ m.type = "Success"
      <4>1. snapshot'.revision # None
        BY <1>3, <1>7, <3>1, CommitFacts
      <4> QED BY <4>1 DEF RevisionBefore
    <3>2. CASE ~(snapshot.revision # None \/ m.type = "Success")
      <4>1. PICK j \in DOMAIN inbox : j < i + 1 /\ inbox[j].type = "Success"
        BY <2>1, <3>2 DEF RevisionBefore
      <4>2. j # 1 /\ j - 1 \in DOMAIN inbox' /\ inbox'[j - 1] = inbox[j] /\ j - 1 < i
        BY <1>1, <3>2, <4>1
      <4> QED BY <4>1, <4>2 DEF RevisionBefore
    <3> QED BY <3>1, <3>2
  <2>2. ASSUME NEW i \in DOMAIN inbox', inbox'[i].type = "Version"
        PROVE  RevisionBefore(i)'
    <3>1. i + 1 \in DOMAIN inbox /\ inbox[i + 1].type = "Version" /\ i \in 1 .. n
      BY <1>1, <2>2
    <3>2. RevisionBefore(i + 1)
      BY <3>1 DEF UpstreamStrong, VersionAfterRevision
    <3> QED BY <2>1, <3>1, <3>2
  <2>3. ASSUME worker'.at = "version"
        PROVE  RevisionBefore(Len(inbox) + 1)'
    <3>1. RevisionBefore(n + 1)
      BY <1>2, <2>3 DEF UpstreamStrong, VersionAfterRevision, n
    <3>2. n \in 1 .. n /\ n = Len(inbox') + 1
      BY <1>1
    <3> QED BY <2>1, <3>1, <3>2
  <2> QED BY <2>2, <2>3 DEF VersionAfterRevision
<1>11. (inbox \in Seq(Messages))' /\ (resolved = [revision |-> resolved.revision, version |-> resolved.version])'
       /\ worker' \in Workers /\ RetryPaced' /\ build' \in Commits \cup {Unknown, Unpublished} /\ main' \in Commits
  BY <1>1, <1>2, BuildStays DEF UpstreamStrong, RetryPaced
<1> QED BY <1>8, <1>9, <1>10, <1>11 DEF UpstreamStrong

LEMMA UpstreamStutters ==
  ASSUME UpstreamStrong, main' \in Commits, UNCHANGED <<build, worker, inbox, snapshot, resolved>>
  PROVE  UpstreamStrong'
<1>1. (inbox \in Seq(Messages))' /\ (resolved = [revision |-> resolved.revision, version |-> resolved.version])'
  BY BuildStays DEF UpstreamStrong
<1>2. ShownTrue'
  BY BuildStays DEF UpstreamStrong, ShownTrue, KnownVersions
<1>3. LastKnown'
  BY DEF UpstreamStrong, LastKnown, LastOf
<1>4. VersionAfterRevision' /\ RetryPaced'
  BY DEF UpstreamStrong, VersionAfterRevision, RevisionBefore, RetryPaced
<1> QED BY <1>1, <1>2, <1>3, <1>4 DEF UpstreamStrong, Workers

LEMMA UpstreamImplied ==
  ASSUME UpstreamStrong
  PROVE  UpstreamInv
<1>1. RelationTrue
  <2>1. CASE snapshot.revision = None /\ snapshot.relation = Unavailable
    BY <2>1 DEF RelationTrue, Unavailable
  <2>2. CASE snapshot.revision \in Commits /\ snapshot.relation \in Relations(snapshot.revision)
    <3>1. TrueRelation(snapshot.revision, snapshot.relation)
      BY <2>2, RelationsTrue DEF UpstreamStrong
    <3> QED BY <3>1 DEF RelationTrue, TrueRelation
  <2> QED BY <2>1, <2>2 DEF UpstreamStrong, ShownTrue
<1>2. ShownIsLastKnown
  <2> SUFFICES ASSUME inbox = <<>>
               PROVE  snapshot.revision = resolved.revision /\ snapshot.version = resolved.version
    BY DEF ShownIsLastKnown
  <2>1. 0 \in 0 .. Len(inbox) /\ DOMAIN inbox = {}
    OBVIOUS
  <2>2. LastOf("Success", 0) /\ LastOf("Version", 0)
    BY <2>1 DEF LastOf
  <2> QED BY <2>1, <2>2 DEF UpstreamStrong, LastKnown
<1>3. NoticeTrue
  <2> SUFFICES ASSUME build \in Commits, snapshot.version # None, VersionOf[build] # <<>>
               PROVE  VersionRelation(VersionOf[build], VersionOf[snapshot.version]) = "NewerAvailable"
                        <=> Greater(VersionOf[snapshot.version], VersionOf[build])
    BY DEF NoticeTrue
  <2>1. snapshot.version \in Commits /\ VersionOf[snapshot.version] # <<>>
    BY DEF UpstreamStrong, ShownTrue, KnownVersions
  <2>2. VersionOf[build] \in Seq(Nat) /\ VersionOf[snapshot.version] \in Seq(Nat)
    BY <2>1, GraphAssumption
  <2>3. VecLess(ParseDottedVersion(VersionOf[build]), ParseDottedVersion(VersionOf[snapshot.version]))
          <=> Greater(VersionOf[snapshot.version], VersionOf[build])
    BY <2>1, <2>2, VersionOrder
  <2> QED BY <2>1, <2>3 DEF VersionRelation
<1> QED BY <1>1, <1>2, <1>3 DEF UpstreamInv, UpstreamStrong

\* What the update loop shows of the upstream repository is true, for every commit graph,
\* history of versions, order of answers, failure and move of main: the relation counts
\* the commits between this build and the revision shown, a failed cycle loses nothing
\* that was known, an update is announced exactly when there is one, and retries keep
\* their pace (updates.rs, upstream.rs).
THEOREM UpstreamShownIsTrue == CheckSpec => []UpstreamInv
<1>1. CheckInit => UpstreamStrong
  BY UpstreamInitially
<1>2. UpstreamStrong /\ [CheckNext]_checkVars => UpstreamStrong'
  <2> SUFFICES ASSUME UpstreamStrong, [CheckNext]_checkVars PROVE UpstreamStrong'
    OBVIOUS
  <2>1. CASE Refresh
    BY <2>1, CycleKeeps
  <2>2. CASE RefreshVersion
    BY <2>2, RefreshVersionKeeps
  <2>3. CASE ReceiveRefresh
    BY <2>3, ReadKeeps
  <2>4. CASE MainMoves
    BY <2>4, UpstreamStutters DEF MainMoves
  <2>5. CASE UNCHANGED checkVars
    <3>1. main' \in Commits
      BY <2>5 DEF checkVars, UpstreamStrong
    <3> QED BY <2>5, <3>1, UpstreamStutters DEF checkVars
  <2> QED BY <2>1, <2>2, <2>3, <2>4, <2>5 DEF CheckNext
<1>3. UpstreamStrong => UpstreamInv
  BY UpstreamImplied
<1> QED BY <1>1, <1>2, <1>3, PTL DEF CheckSpec

-----------------------------------------------------------------------------
(* The run, which shows one of the four models in each behaviour.          *)

\* A behaviour of the run is one of each model: the models that rest take no step.
LEMMA OnlineShowsEachModel == OnlineSpec => HostSpec /\ CheckSpec /\ LogSpec /\ CatalogSpec
<1>1. OnlineInit => HostInit /\ CheckInit /\ LogInit /\ CatalogInit
  BY DEF OnlineInit
<1>2. [OnlineNext]_<<which, hostVars, checkVars, logVars, catalogVars>>
        => [HostNext]_hostVars /\ [CheckNext]_checkVars /\ [LogNext]_logVars /\ [CatalogNext]_catalogVars
  BY DEF OnlineNext
<1> QED BY <1>1, <1>2, PTL DEF OnlineSpec, HostSpec, CheckSpec, LogSpec, CatalogSpec

\* In every behaviour of the run: secrets stay private, what is shown of the upstream is true, each
\* event is forwarded once and the catalogue is current.
THEOREM OnlineIsSafe == OnlineSpec => [](HostInv /\ UpstreamInv /\ LogInv /\ CatalogInv)
BY OnlineShowsEachModel, SecretsStayPrivate, UpstreamShownIsTrue, LogsForwardedOnce, CatalogueIsCurrent, PTL

=============================================================================
