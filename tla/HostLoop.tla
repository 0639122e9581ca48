--------------------------------- MODULE HostLoop ---------------------------------
(***************************************************************************)
(* The update loop: Telegram updates handled one at a time, module event   *)
(* dispatches and one provisioning task running beside it, the setup       *)
(* dialogue it protects, stream errors, and the ways it ends.              *)
(*                                                                         *)
(* A text stands for its routing class (CommandRouting), the setup         *)
(* dialogue for whether it is active and has a deadline (CompanionSetup);  *)
(* updates that echo Lavis's own edits and menus are consumed before this  *)
(* point (MessageProvenance).  A definition X_Y that precedes X is a       *)
(* faulty variant of X.                                                    *)
(***************************************************************************)
EXTENDS Naturals, FiniteSets

CONSTANTS MAX_EVENT_DISPATCH_TASKS, UPDATE_STREAM_RESTART_AFTER,
          MaxUpdates   \* bound: updates and connection changes in a behaviour

ASSUME HostAssumption == MAX_EVENT_DISPATCH_TASKS \in Nat \ {0} /\ UPDATE_STREAM_RESTART_AFTER \in Nat \ {0}

VARIABLES loop,       \* running, closing or how run() returned
          reason,     \* what a closing loop will return
          errors,     \* consecutive_update_errors
          waiting,    \* the retry deadline has not passed
          outage,     \* the stream fails whenever it is polled
          failing,    \* history: failed polls since the last update
          setup,      \* the setup dialogue
          botfather,  \* BotFather's peer is resolved
          permitted,  \* external_projection_permitted
          handler,    \* the update being processed
          events,     \* event dispatch tasks
          provision,  \* the provisioning task runs
          refresh,    \* the upstream refresh task runs
          outbox,     \* setup notifications Telegram has and the stream has not delivered
          updates     \* updates taken and connection changes so far

hostVars == <<loop, reason, errors, waiting, outage, failing, setup, botfather, permitted, handler, events, provision, refresh, outbox, updates>>
streamVars == <<errors, waiting, outage, failing>>
taskVars == <<events, provision, refresh>>

Commands == {"ping", "setup", "module", "reboot"}
Prefixed == Commands \cup {"unknown"}      \* starts with the prefix, routes nowhere
Texts == Prefixed \cup {"plain"}
Peers == {"saved", "botfather", "chat"}

SetupIdle == [active |-> FALSE, deadline |-> FALSE]
SetupPhases == {SetupIdle, [active |-> TRUE, deadline |-> TRUE], [active |-> TRUE, deadline |-> FALSE]}
NoHandler == [step |-> "none"]

(***************************************************************************)
(* Classification of a message.                                            *)
(***************************************************************************)
\* Fields: peer, own (is_self_authored), text, edited, notice (a setup notification of Lavis).
Message == [peer : Peers, own : BOOLEAN, text : Texts, edited : BOOLEAN, notice : {FALSE}]
Route(m) == IF m.own /\ m.text \in Commands THEN m.text ELSE "none"

SetupProtectsMessage(m) == \/ botfather /\ m.peer = "botfather"
                           \/ m.own /\ m.peer = "saved" /\ setup.active
AuthoredActivePrefix(m) == m.own /\ m.text \in Prefixed
ShouldPrepareMessageEvent(edited, protected) == edited \/ ~protected

EventProtected(m, input) ==
  Route(m) # "none" \/ input \/ SetupProtectsMessage(m) \/ AuthoredActivePrefix(m)

\* Not code: what must stay private, judged when the update arrives.
Private(m) == \/ m.peer = "botfather"
              \/ m.own /\ m.text \in Prefixed
              \/ m.own /\ m.peer = "saved" /\ setup.active

(***************************************************************************)
(* Taking an update.                                                       *)
(***************************************************************************)
StreamOk == errors' = 0 /\ waiting' = FALSE /\ failing' = 0 /\ UNCHANGED outage
Polled == loop = "running" /\ handler = NoHandler /\ ~waiting

TakeUpdate(m) ==
  /\ Polled /\ ~outage /\ updates < MaxUpdates
  /\ updates' = updates + 1 /\ StreamOk
  /\ handler' = [step |-> "setup", m |-> m, hidden |-> Private(m), deadline |-> setup.deadline, input |-> FALSE]
  /\ UNCHANGED <<loop, reason, setup, botfather, permitted, taskVars, outbox>>

\* A registered notification is consumed; any other is a message in Saved Messages like every own one.
ConsumeSetupNotification(n) ==
  /\ Polled /\ ~outage /\ StreamOk
  /\ outbox' = outbox \ {n}
  /\ handler' = IF n.registered THEN NoHandler
                ELSE [step |-> "setup", hidden |-> Private([peer |-> "saved", own |-> TRUE, text |-> "plain"]),
                      m |-> [peer |-> "saved", own |-> TRUE, text |-> "plain", edited |-> FALSE, notice |-> TRUE],
                      deadline |-> setup.deadline, input |-> FALSE]
  /\ UNCHANGED <<loop, reason, setup, botfather, permitted, taskVars, updates>>

(***************************************************************************)
(* Processing it: the setup dialogue first, then the event, then the       *)
(* response or the command.                                                *)
(***************************************************************************)
TrySpawnProvision == provision' \in {provision, TRUE}

\* Everything sent to BotFather's chat is consumed; own words in Saved Messages answer the dialogue.
HandleSetupInput ==
  /\ handler.step = "setup"
  /\ LET m == handler.m IN
     \/ /\ Route(m) = "setup" \/ (~(botfather /\ m.peer = "botfather") /\ ~(m.own /\ m.peer = "saved" /\ setup.active))
        /\ handler' = [handler EXCEPT !.step = "project"] /\ UNCHANGED <<setup, provision, botfather, permitted>>
     \/ /\ Route(m) # "setup" /\ botfather /\ m.peer = "botfather"
        /\ IF m.own \/ m.edited
           THEN handler' = [handler EXCEPT !.step = "project"] /\ UNCHANGED <<setup, provision, permitted>>
           ELSE /\ \E response \in BOOLEAN : handler' = [handler EXCEPT !.step = "project", !.input = response]
                /\ setup' \in (IF setup.active THEN SetupPhases ELSE {setup}) /\ TrySpawnProvision
                /\ permitted' = TRUE
        /\ UNCHANGED botfather
     \/ /\ Route(m) # "setup" /\ m.own /\ m.peer = "saved" /\ setup.active
        /\ handler' = [handler EXCEPT !.step = "project", !.input = TRUE]
        /\ setup' \in SetupPhases /\ botfather' \in {botfather, TRUE} /\ UNCHANGED <<provision, permitted>>
  /\ UNCHANGED <<loop, reason, streamVars, events, refresh, outbox, updates>>

HasCapacity == Cardinality(events) < MAX_EVENT_DISPATCH_TASKS
PrepareMessageEventDispatch == permitted
Dispatch(m, protected) == [id |-> updates, notice |-> m.notice, hidden |-> handler.hidden,
                           edited |-> m.edited, text |-> IF protected THEN "" ELSE m.text]

ProjectEvent ==
  /\ handler.step = "project"
  /\ LET m == handler.m
         protected == EventProtected(m, handler.input) IN
     /\ \/ /\ ShouldPrepareMessageEvent(m.edited, protected) /\ HasCapacity /\ PrepareMessageEventDispatch
           /\ events' = events \cup {Dispatch(m, protected)}
        \/ UNCHANGED events      \* protected, no capacity, or no module subscribed
     /\ handler' = [handler EXCEPT !.step =
          IF handler.input THEN IF m.own THEN "respond" ELSE "notify"
          ELSE IF Route(m) # "none" THEN "execute" ELSE "end"]
  /\ UNCHANGED <<loop, reason, streamVars, setup, botfather, permitted, provision, refresh, outbox, updates>>

\* The answer to own setup input replaces the message; a failed edit is answered by a notification.
RespondSetupInput ==
  /\ handler.step = "respond"
  /\ handler' \in {[handler EXCEPT !.step = "end"], [handler EXCEPT !.step = "notify"]}
  /\ UNCHANGED <<loop, reason, streamVars, setup, botfather, permitted, taskVars, outbox, updates>>

\* send_message answers, fails, or fails after Telegram took the message.
SendSetupNotification ==
  \/ \E registered \in BOOLEAN : outbox' = outbox \cup {[id |-> updates, registered |-> registered]}
  \/ UNCHANGED outbox
Notify ==
  /\ handler.step = "notify" /\ SendSetupNotification
  /\ handler' = NoHandler
  /\ UNCHANGED <<loop, reason, streamVars, setup, botfather, permitted, taskVars, updates>>

\* The command runs and its response replaces the message.
Execute ==
  /\ handler.step = "execute"
  /\ \/ /\ handler.m.text = "setup" /\ handler.m.peer = "saved"
        /\ setup' \in SetupPhases /\ TrySpawnProvision
        /\ botfather' \in {botfather, TRUE} /\ permitted' = (permitted \/ botfather')
        /\ handler' = NoHandler /\ UNCHANGED <<loop, reason>>
     \/ /\ handler.m.text = "reboot" /\ ~handler.m.edited
        /\ loop' = "closing" /\ reason' = "restart"
        /\ handler' = NoHandler /\ UNCHANGED <<setup, provision, botfather, permitted>>
     \/ /\ handler.m.text # "setup" \/ handler.m.peer # "saved"
        /\ handler' = NoHandler /\ UNCHANGED <<loop, reason, setup, provision, botfather, permitted>>
  /\ UNCHANGED <<streamVars, events, refresh, outbox, updates>>

EndUpdate ==
  /\ handler.step = "end" /\ handler' = NoHandler
  /\ UNCHANGED <<loop, reason, streamVars, setup, botfather, permitted, taskVars, outbox, updates>>

(***************************************************************************)
(* Deadlines and tasks.                                                    *)
(***************************************************************************)
\* The setup deadline passes, between updates or while one is processed, which drops it.
HandleSetupTimeout ==
  /\ loop = "running"
  /\ IF handler = NoHandler THEN setup.deadline ELSE handler.deadline
  /\ handler' = NoHandler
  /\ IF setup.deadline THEN setup' = SetupIdle /\ SendSetupNotification ELSE UNCHANGED <<setup, outbox>>
  /\ UNCHANGED <<loop, reason, streamVars, botfather, permitted, taskVars, updates>>

HandleEventDispatch(e) ==
  /\ events' = events \ {e}
  /\ UNCHANGED <<loop, reason, streamVars, setup, botfather, permitted, handler, provision, refresh, outbox, updates>>

SendProvisionCompletion ==
  /\ loop = "running" /\ handler = NoHandler /\ provision /\ provision' = FALSE
  /\ SendSetupNotification
  /\ UNCHANGED <<loop, reason, streamVars, setup, botfather, permitted, handler, events, refresh, updates>>

(***************************************************************************)
(* Stream errors.                                                          *)
(***************************************************************************)
IsTemporary == BOOLEAN

StreamError_Forever ==
  /\ Polled /\ waiting' = TRUE
  /\ IF errors + 1 < UPDATE_STREAM_RESTART_AFTER THEN errors' = errors + 1 /\ failing' = failing + 1
     ELSE UNCHANGED <<errors, failing>>
  /\ UNCHANGED <<loop, reason, outage, setup, botfather, permitted, handler, taskVars, outbox, updates>>
StreamError ==
  /\ Polled
  /\ \E temporary \in IsTemporary :
       IF temporary
       THEN /\ errors' = errors + 1 /\ failing' = failing + 1
            /\ IF errors + 1 >= UPDATE_STREAM_RESTART_AFTER
               THEN loop' = "closing" /\ reason' = "restart" /\ UNCHANGED waiting
               ELSE waiting' = TRUE /\ UNCHANGED <<loop, reason>>
       ELSE loop' = "closing" /\ reason' = "failed" /\ UNCHANGED <<errors, failing, waiting>>
  /\ UNCHANGED <<outage, setup, botfather, permitted, handler, taskVars, outbox, updates>>

RetryElapsed ==
  /\ loop = "running" /\ waiting /\ waiting' = FALSE
  /\ UNCHANGED <<loop, reason, errors, outage, failing, setup, botfather, permitted, handler, taskVars, outbox, updates>>

\* External: the connection to Telegram goes and comes back.
ConnectionChanges ==
  /\ loop = "running" /\ updates < MaxUpdates /\ updates' = updates + 1 /\ outage' = ~outage
  /\ UNCHANGED <<loop, reason, errors, waiting, failing, setup, botfather, permitted, handler, taskVars, outbox>>

(***************************************************************************)
(* The end of the loop.                                                    *)
(***************************************************************************)
CtrlC ==
  /\ loop = "running" /\ loop' = "closing" /\ reason' = "exit" /\ handler' = NoHandler
  /\ UNCHANGED <<streamVars, setup, botfather, permitted, taskVars, outbox, updates>>

AbortAndDrain_EventsOnly == events' = {} /\ UNCHANGED provision
AbortAndDrain == events' = {} /\ provision' = FALSE

\* Tasks are aborted, the update state is synchronised unless the stream failed, run() returns.
Close ==
  /\ loop = "closing" /\ AbortAndDrain
  /\ refresh' = FALSE
  /\ loop' \in {reason, "failed"}
  /\ UNCHANGED <<reason, streamVars, setup, botfather, permitted, handler, outbox, updates>>

HostInit ==
  /\ loop = "running" /\ reason = "none" /\ errors = 0 /\ waiting = FALSE /\ outage = FALSE /\ failing = 0
  /\ setup = SetupIdle /\ botfather \in BOOLEAN /\ permitted = botfather /\ handler = NoHandler /\ events = {}
  /\ provision = FALSE /\ refresh = TRUE /\ outbox = {} /\ updates = 0

ProcessUpdate == HandleSetupInput \/ ProjectEvent \/ RespondSetupInput \/ Notify \/ Execute \/ EndUpdate
HostNext ==
  \/ \E m \in Message : TakeUpdate(m)
  \/ \E n \in outbox : ConsumeSetupNotification(n)
  \/ ProcessUpdate \/ HandleSetupTimeout \/ SendProvisionCompletion
  \/ \E e \in events : HandleEventDispatch(e)
  \/ StreamError \/ RetryElapsed \/ ConnectionChanges \/ CtrlC \/ Close

\* Awaited calls return, timers fire, a poll of a failing stream returns its error.
HostFairness == /\ WF_hostVars(ProcessUpdate) /\ WF_hostVars(RetryElapsed) /\ WF_hostVars(Close)
                /\ WF_hostVars(outage /\ StreamError)
HostSpec == HostInit /\ [][HostNext]_hostVars /\ HostFairness

(***************************************************************************)
(* Properties.                                                             *)
(***************************************************************************)
\* Types; the loop has one update at a time and bounded tasks.
HostTypeOK ==
  /\ loop \in {"running", "closing", "exit", "restart", "failed"}
  /\ errors \in 0 .. UPDATE_STREAM_RESTART_AFTER /\ setup \in SetupPhases
  /\ handler.step \in {"none", "setup", "project", "respond", "notify", "execute", "end"}
  /\ Cardinality(events) <= MAX_EVENT_DISPATCH_TASKS

\* Neither the owner's commands, nor the owner's answers to an active setup dialogue, nor anything in
\* BotFather's chat (tokens) is projected to a module; an edit of such a message is projected without
\* its text.  This holds whatever the dialogue did with the message before the event was prepared,
\* and before BotFather's peer is known.
ProtectedNeverProjected == \A e \in events : e.hidden => e.edited /\ e.text = ""

\* The loop restarts the process because of the stream exactly after the configured number of failed
\* polls in a row: never after failures that an update separated.
RestartCountsInARow == /\ failing <= UPDATE_STREAM_RESTART_AFTER
                       /\ loop = "running" => errors = failing

\* When run() has returned nothing that it started is left running.
NoTaskOutlivesLoop == loop \in {"exit", "restart", "failed"} => events = {} /\ ~provision /\ ~refresh

\* An outage that does not end makes the loop return, so that the process is restarted.
OutageEndsLoop == <>[]outage => <>(loop \in {"exit", "restart", "failed"})

\* The invariant of the run loop: setup secrets are kept from modules, restarts count errors in a
\* row, and no task outlives the loop.
HostInv == HostTypeOK /\ ProtectedNeverProjected /\ RestartCountsInARow /\ NoTaskOutlivesLoop

=============================================================================
