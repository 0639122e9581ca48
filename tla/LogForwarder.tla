------------------------------- MODULE LogForwarder -------------------------------
(***************************************************************************)
(* Warnings on their way to the companion group's Logs topic               *)
(* (log_forwarder.rs).  Any thread may log: the tracing layer filters the  *)
(* event and tries to put a line into a bounded channel; one worker finds  *)
(* the token, the chat and the topic and posts the line.  Meanwhile the    *)
(* setup flow writes the files the worker reads, and the owner may replace *)
(* the bot's token.                                                        *)
(*                                                                         *)
(* A line is the kind of event it came from; tokens are numbered in the    *)
(* order BotFather issues them, and only the last is valid.                *)
(*                                                                         *)
(* A definition X_Y that precedes X is a faulty variant of X.              *)
(***************************************************************************)
EXTENDS Integers, Sequences

CONSTANTS
  Capacity,     \* of the channel
  MaxEvents,    \* bound on events of the program
  MaxTokens     \* bound on tokens

ASSUME LogAssumption == Capacity \in Nat \ {0} /\ MaxEvents \in Nat /\ MaxTokens \in Nat \ {0}

\* "host": a WARN or ERROR of Lavis; "info": a lower level; "own": of the forwarder;
\* "box", "logged": of grammers' message box, through tracing or through the log
\* crate, which puts the target into a field; "bare": without a message.
EventKinds == {"host", "info", "own", "box", "logged", "bare"}

VARIABLES
  channel, dropped,            \* LogBridge
  sender,                      \* [at, count]: count is what the line in hand reports as lost
  token, chat, topic,          \* what the worker has found
  unavailable, attempted,      \* topic_unavailable, topic_creation_attempted
  files,                       \* [token, chat, topic]: the setup files
  issued,                      \* the valid token
  entered,                      \* events logged so far
  overflow, reported, created, rejectedAt   \* histories

bridge == <<channel, dropped, overflow, entered>>
found == <<token, chat, topic, unavailable, attempted>>
world == <<files, issued>>
histories == <<reported, created, rejectedAt>>
logVars == <<bridge, sender, found, world, histories>>

LogInit ==
  /\ channel = <<>> /\ dropped = 0 /\ overflow = 0 /\ entered = 0
  /\ sender = [at |-> "recv", count |-> 0]
  /\ token = 0 /\ chat = FALSE /\ topic = FALSE /\ unavailable = FALSE /\ attempted = FALSE
  /\ issued = 1 /\ files \in [token : {0, 1}, chat : BOOLEAN, topic : BOOLEAN]
  /\ reported = 0 /\ created = 0 /\ rejectedAt = 0

-----------------------------------------------------------------------------
(* The tracing layer.                                                        *)

ShouldForward(kind) == kind # "info"

SuppressedTarget(kind) == kind \in {"box", "logged"}

Forwarded(kind) == ShouldForward(kind) /\ kind \notin {"own", "bare"} /\ ~SuppressedTarget(kind)

ChannelFull == Len(channel) >= Capacity

\* on_event: try_send, or count the line.
OnEvent(kind) ==
  IF ~Forwarded(kind) THEN UNCHANGED <<channel, dropped, overflow>>
  ELSE IF ChannelFull THEN dropped' = dropped + 1 /\ overflow' = overflow + 1 /\ UNCHANGED channel
  ELSE channel' = Append(channel, kind) /\ UNCHANGED <<dropped, overflow>>

Log ==
  /\ entered < MaxEvents /\ entered' = entered + 1
  /\ \E kind \in EventKinds : OnEvent(kind)
  /\ UNCHANGED <<sender, found, world, histories>>

-----------------------------------------------------------------------------
(* The worker.                                                               *)

Goto(stage) == sender' = [sender EXCEPT !.at = stage]

Recv ==
  /\ sender.at = "recv" /\ channel # <<>> /\ channel' = Tail(channel) /\ Goto("token")
  /\ UNCHANGED <<dropped, overflow, entered, found, world, histories>>

\* load_token; without a token the line is given up.
LoadToken ==
  /\ sender.at = "token"
  /\ token' = IF token = 0 THEN files.token ELSE token
  /\ Goto(IF token' = 0 THEN "recv" ELSE "chat")
  /\ UNCHANGED <<bridge, chat, topic, unavailable, attempted, world, histories>>

\* load_companion_chat_id; without a chat the worker sleeps and gives the line up.
LoadCompanionChatId ==
  /\ sender.at = "chat"
  /\ chat' = (chat \/ files.chat)
  /\ Goto(IF chat' THEN "topic" ELSE "recv")
  /\ UNCHANGED <<bridge, token, topic, unavailable, attempted, world, histories>>

Creates == ~topic /\ ~files.topic /\ ~unavailable /\ ~attempted

\* The topic: persisted, or created once; a warning of its failure is the forwarder's own.
ResolveTopic ==
  /\ sender.at = "topic"
  /\ \/ /\ Creates /\ attempted' = TRUE
        /\ \/ /\ topic' = TRUE /\ created' = created + 1 /\ Goto("swap")
              /\ \/ files' = [files EXCEPT !.topic = TRUE]     \* persisted, or not
                 \/ UNCHANGED files
              /\ UNCHANGED <<channel, dropped, overflow, unavailable>>
           \/ /\ unavailable' = TRUE /\ Goto("recv") /\ OnEvent("own")
              /\ \/ created' = created + 1                     \* only the reply was lost
                 \/ UNCHANGED created
              /\ UNCHANGED <<topic, files>>
     \/ /\ ~Creates
        /\ topic' = (topic \/ (~unavailable /\ files.topic))
        /\ Goto(IF topic' THEN "swap" ELSE "recv")
        /\ UNCHANGED <<channel, dropped, overflow, unavailable, attempted, files, created>>
  /\ UNCHANGED <<entered, token, chat, issued, reported, rejectedAt>>

\* dropped.swap(0).
TakeDropped_Load == dropped

TakeDropped == 0

Swap ==
  /\ sender.at = "swap"
  /\ sender' = [at |-> "send", count |-> dropped] /\ dropped' = TakeDropped
  /\ UNCHANGED <<channel, overflow, entered, found, world, histories>>

AfterRejection == 0

\* send_message; a failure is logged with the forwarder's target, and a rejected
\* token is read again.  What the line would have reported is gone.
SendMessage ==
  /\ sender.at = "send" /\ sender' = [at |-> "recv", count |-> 0]
  /\ \/ /\ token = issued /\ reported' = reported + sender.count
        /\ UNCHANGED <<token, rejectedAt, channel, dropped, overflow>>
     \/ /\ token' = AfterRejection /\ rejectedAt' = files.token
        /\ OnEvent("own") /\ UNCHANGED reported
     \/ /\ OnEvent("own") /\ UNCHANGED <<token, rejectedAt>>     \* timeout or transport
        /\ \/ reported' = reported + sender.count                \* posted all the same
           \/ UNCHANGED reported
  /\ UNCHANGED <<entered, chat, topic, unavailable, attempted, world, created>>

-----------------------------------------------------------------------------
(* The setup flow and the owner.                                             *)

SetupWrites ==
  /\ files' \in {[files EXCEPT !.token = issued], [files EXCEPT !.chat = TRUE], [files EXCEPT !.topic = TRUE]}
  /\ files' # files
  /\ UNCHANGED <<bridge, sender, found, issued, histories>>

TokenReplaced ==
  /\ issued < MaxTokens /\ issued' = issued + 1
  /\ UNCHANGED <<bridge, sender, found, files, histories>>

LogNext ==
  \/ Log \/ Recv \/ LoadToken \/ LoadCompanionChatId \/ ResolveTopic \/ Swap \/ SendMessage
  \/ SetupWrites \/ TokenReplaced

LogSpec == LogInit /\ [][LogNext]_logVars

-----------------------------------------------------------------------------
(* Properties.                                                               *)

\* Types, and the bound of the channel.
LogTypeOK ==
  /\ channel \in Seq(EventKinds) /\ Len(channel) <= Capacity
  /\ dropped \in 0 .. MaxEvents /\ overflow \in 0 .. MaxEvents /\ entered \in 0 .. MaxEvents
  /\ sender \in [at : {"recv", "token", "chat", "topic", "swap", "send"}, count : 0 .. MaxEvents]
  /\ token \in 0 .. MaxTokens /\ issued \in 1 .. MaxTokens
  /\ chat \in BOOLEAN /\ topic \in BOOLEAN /\ unavailable \in BOOLEAN /\ attempted \in BOOLEAN
  /\ files \in [token : 0 .. MaxTokens, chat : BOOLEAN, topic : BOOLEAN]

\* The forwarder never feeds itself: neither its own warnings nor the library's routine
\* ones, by whichever crate they are logged, are put into the channel.
NoFeedback == \A i \in DOMAIN channel : channel[i] = "host"

\* A lost line is reported at most once, although lines are lost while the worker reads
\* the counter; what a failed post takes with it is never made up.
LossesReportedOnce == reported + sender.count + dropped <= overflow

\* The process asks for the Logs topic at most once, whatever becomes of the request.
OneTopicRequest == created <= 1

\* After a rejection the token is read again: a token older than the file was at the
\* last rejection is never used.
RejectedTokenReread == token = 0 \/ token >= rejectedAt

\* The invariant of the log forwarder: losses are reported once, delivery feeds nothing back, and
\* a rejected token is read anew.
LogInv == LogTypeOK /\ NoFeedback /\ LossesReportedOnce /\ OneTopicRequest /\ RejectedTokenReread

=============================================================================
