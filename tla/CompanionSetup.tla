---------------------------- MODULE CompanionSetup ----------------------------
(***************************************************************************)
(* The conversation that creates the companion bot: the phases of          *)
(* SetupCoordinator (runtime/setup.rs), the BotFather flows that a phase   *)
(* owns (setup_telegram.rs) and the two files that record the bot          *)
(* (setup_store.rs).  The run loop handles one update at a time, but the   *)
(* setup deadline may drop a handler that is waiting; a blocking write the *)
(* handler started then finishes on its own.  The program may be           *)
(* restarted at any point; the files and Telegram's queues survive.        *)
(*                                                                         *)
(* BotFather is external: it answers commands in order, and its answers    *)
(* are delivered in order, however late.  A bot is named by its username.  *)
(*                                                                         *)
(* A definition X_Y that precedes X is a faulty variant of X.              *)
(***************************************************************************)
EXTENDS Integers, Sequences, FiniteSets

CONSTANTS
  Usernames,     \* valid bot usernames
  None,
  MaxNames,   \* automatic names tried before the user is asked (10)
  MaxFlows,      \* bound on /newbot conversations
  MaxQueue,      \* a send waits until fewer commands and answers are under way
  MaxRestarts    \* bound on restarts of the program

ASSUME SetupAssumption ==
  /\ None \notin Usernames
  /\ MaxNames \in Nat \ {0} /\ MaxFlows \in Nat
  /\ MaxQueue \in Nat /\ MaxRestarts \in Nat

VARIABLES
  phase,      \* SetupPhase with the data of its flow
  known,      \* botfather_peer is resolved
  handler,    \* what the handler of the current update awaits
  writers,    \* running blocking writes: validate_and_persist
  disk,       \* setup state and token files
  provisioners,      \* bots named by the running provision task (at most one)
  inbox,      \* commands BotFather has not handled
  replies,    \* answers the run loop has not handled
  bf,         \* what BotFather expects next
  bots,       \* bots BotFather has created
  aside,      \* history: the identity file was written aside from the phase: by
              \* a closure whose handler was dropped, or by a repair during a phase
  limits       \* [flows, restarts]: bounded counters

setupVars == <<phase, known, handler, writers, disk, provisioners, inbox, replies, bf, bots, aside, limits>>
store == <<writers, disk>>
world == <<bf, bots>>

Msg(k, u) == [k |-> k, u |-> u]
Commands == {"/cancel", "/newbot", "name", "username", "/setinline", "/setuserpic",
             "pick", "text", "photo"}
Answers == {"cancelAck", "namePrompt", "usernamePrompt", "success", "occupied", "invalid",
            "limit", "flood", "unknown", "chooseBot", "noButton", "placeholder",
            "description", "photoPrompt", "done"}

Idle == [at |-> "Idle"]
Deadlined == {"AwaitingUsername", "AwaitingConfirmation", "Running"}
Names == Usernames \cup {None}

Phases ==
  {Idle}
  \cup [at : {"AwaitingUsername"}, auto : BOOLEAN]
  \cup [at : {"AwaitingConfirmation"}, u : Usernames, auto : BOOLEAN, n : 1 .. MaxNames]
  \cup [at : {"Running"}, u : Usernames, auto : BOOLEAN, n : 1 .. MaxNames,
        step : {"NewBot", "DisplayName", "Username"}]
  \cup [at : {"EnablingInline"}, u : Usernames,
        step : {"ChooseBot", "Placeholder", "Description", "Result"}]
  \cup [at : {"SettingUserpic"}, u : Usernames,
        step : {"ChooseBot", "PhotoAwait", "WaitConfirm"}]

Handlers ==
  {Idle} \cup [at : {"getMe", "persist", "repaired"}, u : Usernames]
         \cup [at : {"repair"}, u : Usernames, uid : BOOLEAN, token : Names]

\* A username is asked for, and a bot reported, by its name.
CommandMsgs == {m \in [k : Commands, u : Names] : m.k = "username" => m.u # None}
AnswerMsgs == {m \in [k : Answers, u : Names] : m.k = "success" => m.u # None}

SetupTypeOK ==
  /\ phase \in Phases
  /\ known \in BOOLEAN /\ aside \in BOOLEAN
  /\ handler \in Handlers
  /\ writers \subseteq [u : Usernames, pc : 1 .. 3]
  /\ disk \in [user : Names, uid : BOOLEAN, token : Names, validated : BOOLEAN]
  /\ provisioners \subseteq Usernames /\ Cardinality(provisioners) <= 1
  /\ inbox \in Seq(CommandMsgs) /\ replies \in Seq(AnswerMsgs)
  /\ bots \subseteq Usernames
  /\ limits \in [flows : 0 .. MaxFlows, restarts : 0 .. MaxRestarts]

\* No setup file, or one an earlier release left: it named the bot and not its id.
SetupInit ==
  /\ phase = Idle /\ known = FALSE /\ handler = Idle /\ writers = {} /\ provisioners = {}
  /\ \/ disk = [user |-> None, uid |-> FALSE, token |-> None, validated |-> FALSE] /\ bots = {}
     \/ \E u \in Usernames :
          /\ disk = [user |-> u, uid |-> FALSE, token |-> u, validated |-> TRUE]
          /\ bots = {u}
  /\ inbox = <<>> /\ replies = <<>> /\ bf = "none"
  /\ aside = FALSE /\ limits = [flows |-> 0, restarts |-> 0]

-----------------------------------------------------------------------------
(* BotFather (external).                                                     *)

Answer(k, u, next, made) ==
  /\ replies' = Append(replies, Msg(k, u))
  /\ bf' = next /\ bots' = bots \cup made

BotFather ==
  /\ inbox # <<>>
  /\ inbox' = Tail(inbox)
  /\ LET c == Head(inbox) IN
     CASE c.k = "/cancel" -> Answer("cancelAck", None, "none", {})
       [] c.k = "/newbot" -> \/ Answer("namePrompt", None, "name", {})
                             \/ Answer("limit", None, "none", {})
                             \/ Answer("flood", None, "none", {})
       [] c.k = "name" /\ bf = "name" -> Answer("usernamePrompt", None, "username", {})
       [] c.k = "username" /\ bf = "username" ->
            IF c.u \in bots THEN Answer("occupied", None, "username", {})
            ELSE \/ Answer("success", c.u, "none", {c.u})
                 \/ Answer("occupied", None, "username", {})
                 \/ Answer("invalid", None, "username", {})
       [] c.k \in {"/setinline", "/setuserpic"} ->
            \E k \in {"chooseBot", "noButton"} : Answer(k, None, c.k, {})
       [] c.k = "pick" /\ bf = "/setinline" -> Answer("placeholder", None, "inline", {})
       [] c.k = "text" /\ bf = "inline" -> \/ Answer("description", None, "inline", {})
                                           \/ Answer("done", None, "none", {})
       [] c.k = "pick" /\ bf = "/setuserpic" -> Answer("photoPrompt", None, "photo", {})
       [] c.k = "photo" /\ bf = "photo" -> Answer("done", None, "none", {})
       [] OTHER -> Answer("unknown", None, bf, {})
  /\ UNCHANGED <<phase, known, handler, store, provisioners, aside, limits>>

\* A send may fail or time out, and may have reached BotFather all the same.
Send(msgs) == inbox' = inbox \o msgs
Sent == Len(inbox) + Len(replies) < MaxQueue

-----------------------------------------------------------------------------
(* setup_store.rs: each save replaces one file as a whole or fails.          *)

HasCreatedBot == disk.user # None /\ disk.uid

\* The blocking closure of validate_and_persist: the identity, then the token,
\* then the validated state.  An error ends it.
PersistStep(w) ==
  CASE w.pc = 1 -> [disk EXCEPT !.user = w.u, !.uid = TRUE]
    [] w.pc = 2 -> [disk EXCEPT !.token = w.u]
    [] w.pc = 3 -> [disk EXCEPT !.user = w.u, !.uid = TRUE, !.validated = TRUE]

-----------------------------------------------------------------------------
(* Commands and replies of the user in Saved Messages.                       *)

Awaiting == handler = Idle
ConfirmOrStart(u, auto, n) ==
  phase' = [at |-> "AwaitingConfirmation", u |-> u, auto |-> auto, n |-> n]

\* .setup, .setup auto, .setup <username>: refused while a phase is active or
\* the state file names a created bot.
CreationAllowed_FlagOnly == phase = Idle /\ ~disk.validated
CreationAllowed == phase = Idle /\ ~HasCreatedBot

HandleCommand ==
  /\ Awaiting /\ CreationAllowed
  /\ \/ phase' = [at |-> "AwaitingUsername", auto |-> FALSE]
     \/ \E u \in Usernames, auto \in BOOLEAN : ConfirmOrStart(u, auto, 1)
  /\ UNCHANGED <<known, handler, store, provisioners, inbox, replies, world, aside, limits>>

\* .setup cancel, or "cancel" typed while a phase is active.
Cancel ==
  /\ Awaiting /\ phase # Idle /\ phase' = Idle
  /\ UNCHANGED <<known, handler, store, provisioners, inbox, replies, world, aside, limits>>

\* A name the user types, or asks to be generated; an invalid one changes nothing.
HandleUsernameInput ==
  /\ Awaiting /\ phase.at = "AwaitingUsername"
  /\ \E u \in Usernames, generated \in BOOLEAN : ConfirmOrStart(u, phase.auto \/ generated, 1)
  /\ UNCHANGED <<known, handler, store, provisioners, inbox, replies, world, aside, limits>>

\* start_flow with CompanionSetup::start: /cancel at best effort, then /newbot.
\* When BotFather cannot be resolved or /newbot fails the phase stays as it is.
StartFlow(before, u, auto, n) ==
  /\ limits.flows < MaxFlows /\ Sent
  /\ \/ /\ Send(<<Msg("/cancel", None), Msg("/newbot", None)>>)
        /\ phase' = [at |-> "Running", u |-> u, auto |-> auto, n |-> n, step |-> "NewBot"]
        /\ known' = TRUE
     \/ \E sent \in {<<>>, <<Msg("/cancel", None)>>,
                     <<Msg("/cancel", None), Msg("/newbot", None)>>} :
          Send(sent) /\ phase' = before /\ known' = known
  /\ limits' = [limits EXCEPT !.flows = @ + 1]

\* "yes" in the confirmation phase; any other text leaves the phase as it is.
Confirm ==
  /\ Awaiting /\ phase.at = "AwaitingConfirmation"
  /\ StartFlow(phase, phase.u, phase.auto, phase.n)
  /\ UNCHANGED <<handler, store, provisioners, replies, world, aside>>

-----------------------------------------------------------------------------
(* Replies from BotFather's peer: handle_botfather_reply.                    *)

\* What the matchers of setup_telegram.rs accept.  A success text speaks of the
\* "new bot", and refusals of a username contain the word "username".
IsDisplayNamePrompt(r) == r.k \in {"namePrompt", "success"}
IsUsernamePrompt(r) == r.k \in {"usernamePrompt", "occupied", "invalid"}
IsChooseBot(r) == r.k = "chooseBot"
IsSuccessText(r) == r.k = "done"

Stay == phase' = phase /\ inbox' = inbox
Quit == phase' = Idle /\ inbox' = inbox
\* An awaited send either goes out or fails; the error ends the phase.
SendOrQuit(k, u, step) ==
  /\ Sent
  /\ \/ Send(<<Msg(k, u)>>) /\ phase' = [phase EXCEPT !.step = step]
     \/ phase' = Idle /\ \E sent \in {<<>>, <<Msg(k, u)>>} : Send(sent)

NamesLeft == phase.auto /\ phase.n < MaxNames

\* CompanionSetup::on_botfather_reply up to the token, and what
\* handle_botfather_reply makes of its progress.
OnReplyRunning(r) ==
  IF r.k \in {"limit", "flood"} THEN Quit /\ UNCHANGED <<known, handler, limits>>
  ELSE
  CASE phase.step = "NewBot" ->
         /\ IF IsDisplayNamePrompt(r) THEN SendOrQuit("name", None, "DisplayName") ELSE Stay
         /\ UNCHANGED <<known, handler, limits>>
    [] phase.step = "DisplayName" ->
         /\ IF IsUsernamePrompt(r) THEN SendOrQuit("username", phase.u, "Username") ELSE Stay
         /\ UNCHANGED <<known, handler, limits>>
    [] phase.step = "Username" ->
         CASE r.k = "success" ->
                handler' = [at |-> "getMe", u |-> r.u] /\ Stay /\ UNCHANGED <<known, limits>>
           [] r.k = "occupied" /\ NamesLeft ->
                /\ \E u \in Usernames : StartFlow(Idle, u, TRUE, phase.n + 1)
                /\ UNCHANGED handler
           [] r.k \in {"occupied", "invalid"} /\ ~(r.k = "occupied" /\ NamesLeft) ->
                /\ phase' = [at |-> "AwaitingUsername", auto |-> FALSE]
                /\ UNCHANGED <<known, handler, inbox, limits>>
           [] OTHER -> Quit /\ UNCHANGED <<known, handler, limits>>

\* BotPhotoSetup::start after the inline conversation has settled.
StartPhoto ==
  /\ Sent
  /\ \/ /\ Send(<<Msg("/cancel", None), Msg("/setuserpic", None)>>)
        /\ phase' = [at |-> "SettingUserpic", u |-> phase.u, step |-> "ChooseBot"]
     \/ Send(<<Msg("/cancel", None)>>) /\ phase' = Idle

\* InlineEnableSetup::on_botfather_reply: a failed send counts as settled too.
OnReplyInline(r) ==
  LET Try(k, step) == /\ Sent
                      /\ \/ Send(<<Msg(k, phase.u)>>) /\ phase' = [phase EXCEPT !.step = step]
                         \/ StartPhoto
  IN CASE phase.step = "ChooseBot" /\ IsChooseBot(r) -> Try("pick", "Placeholder")
       [] phase.step = "ChooseBot" /\ r.k = "noButton" -> StartPhoto
       [] phase.step # "ChooseBot" /\ IsSuccessText(r) -> StartPhoto
       [] phase.step = "Placeholder" /\ r.k = "placeholder" -> Try("text", "Description")
       [] phase.step = "Description" /\ r.k = "description" -> Try("text", "Result")
       [] OTHER -> Stay

\* BotPhotoSetup::on_botfather_reply.
OnReplyPhoto(r) ==
  CASE phase.step = "ChooseBot" /\ IsChooseBot(r) -> SendOrQuit("pick", phase.u, "PhotoAwait")
    [] phase.step = "ChooseBot" /\ r.k = "noButton" -> Quit
    [] phase.step # "ChooseBot" /\ IsSuccessText(r) -> Quit
    [] phase.step = "PhotoAwait" /\ r.k = "photoPrompt" -> SendOrQuit("photo", phase.u, "WaitConfirm")
    [] OTHER -> Stay

\* Replies are handled only once this process has resolved BotFather's peer;
\* before that they pass by as ordinary messages.
HandleBotFatherReply ==
  /\ Awaiting /\ replies # <<>>
  /\ replies' = Tail(replies)
  /\ LET r == Head(replies) IN
     \/ known /\ phase.at = "Running" /\ OnReplyRunning(r)
     \/ known /\ phase.at = "EnablingInline" /\ OnReplyInline(r) /\ UNCHANGED <<known, handler, limits>>
     \/ known /\ phase.at = "SettingUserpic" /\ OnReplyPhoto(r) /\ UNCHANGED <<known, handler, limits>>
     \/ (~known \/ phase.at \notin {"Running", "EnablingInline", "SettingUserpic"})
        /\ Stay /\ UNCHANGED <<known, handler, limits>>
  /\ UNCHANGED <<store, provisioners, world, aside>>

-----------------------------------------------------------------------------
(* The token: getMe, the writes, and the provision request.                  *)

\* The identity the Bot API reports for the token must be the requested one.
IdentityMatches(u) == u = phase.u

GetMe ==
  /\ handler.at = "getMe"
  /\ \/ /\ IdentityMatches(handler.u)
        /\ writers' = writers \cup {[u |-> handler.u, pc |-> 1]}
        /\ handler' = [handler EXCEPT !.at = "persist"] /\ UNCHANGED phase
     \/ phase' = Idle /\ handler' = Idle /\ UNCHANGED writers
  /\ UNCHANGED <<known, disk, provisioners, inbox, replies, world, aside, limits>>

Write ==
  \E w \in writers :
    /\ \/ disk' = PersistStep(w) /\ w.pc = 3 /\ writers' = writers \ {w}
       \/ disk' = PersistStep(w) /\ w.pc < 3
          /\ writers' = (writers \ {w}) \cup {[w EXCEPT !.pc = @ + 1]}
    /\ UNCHANGED <<phase, known, handler, provisioners, inbox, replies, world, aside, limits>>

\* A failed save ends the closure, although the file may be in place and only its directory not
\* synchronised; the handler that waits for it reports the storage error and gives the flow up.
WriteFails ==
  \E w \in writers :
    /\ writers' = writers \ {w} /\ disk' \in {disk, PersistStep(w)}
    /\ IF handler = [at |-> "persist", u |-> w.u]
       THEN handler' = Idle /\ phase' = Idle ELSE UNCHANGED <<handler, phase>>
    /\ UNCHANGED <<known, provisioners, inbox, replies, world, aside, limits>>

\* At most one provision task runs; a further request is skipped.
TrySpawn(u) == provisioners' = IF provisioners = {} THEN {u} ELSE provisioners

StartInline(u) ==
  \/ /\ Send(<<Msg("/cancel", None), Msg("/setinline", None)>>)
     /\ phase' = [at |-> "EnablingInline", u |-> u, step |-> "ChooseBot"]
  \/ Send(<<Msg("/cancel", None)>>) /\ phase' = Idle

\* ProvisionReady: the closure has returned without an error.
ProvisionReady ==
  /\ handler.at = "persist" /\ ~\E w \in writers : w.u = handler.u
  /\ Sent /\ StartInline(phase.u) /\ TrySpawn(phase.u)
  /\ handler' = Idle
  /\ UNCHANGED <<known, store, replies, world, aside, limits>>

ProvisionEnds ==
  /\ provisioners # {} /\ provisioners' = {}
  /\ UNCHANGED <<phase, known, handler, store, inbox, replies, world, aside, limits>>

-----------------------------------------------------------------------------
(* .setup repair: not refused while a phase is active.                       *)

RepairLoad ==
  /\ Awaiting /\ disk.user # None /\ disk.token # None
  /\ handler' = [at |-> "repair", u |-> disk.user, uid |-> disk.uid, token |-> disk.token]
  /\ UNCHANGED <<phase, known, store, provisioners, inbox, replies, world, aside, limits>>

\* repair_preflight: the stored token must belong to the stored identity; an
\* identity without an id is completed, unless the file has changed meanwhile.
RepairAccepts(h) == h.token = h.u /\ (h.uid \/ (disk.user = h.u /\ ~disk.uid))

RepairPreflight ==
  /\ handler.at = "repair"
  /\ \/ /\ RepairAccepts(handler)
        /\ disk' = IF handler.uid THEN disk ELSE [disk EXCEPT !.uid = TRUE]
        /\ \/ handler' = [at |-> "repaired", u |-> handler.u]
           \/ ~handler.uid /\ handler' = Idle
        /\ aside' = (aside \/ (~handler.uid /\ phase # Idle))
     \/ handler' = Idle /\ UNCHANGED <<disk, aside>>
  /\ UNCHANGED <<phase, known, writers, provisioners, inbox, replies, world, limits>>

\* repair_with_api: the inline conversation replaces the phase if it starts.
RepairStart ==
  /\ handler.at = "repaired" /\ Sent
  /\ TrySpawn(handler.u)
  /\ \/ /\ Send(<<Msg("/cancel", None), Msg("/setinline", None)>>)
        /\ phase' = [at |-> "EnablingInline", u |-> handler.u, step |-> "ChooseBot"]
        /\ known' = TRUE
     \/ \E sent \in {<<>>, <<Msg("/cancel", None)>>} :
          Send(sent) /\ UNCHANGED <<phase, known>>
  /\ handler' = Idle
  /\ UNCHANGED <<store, replies, world, aside, limits>>

-----------------------------------------------------------------------------
(* Deadline and restart.                                                     *)

\* The run loop drops the pending handler at the deadline of the phase; the
\* blocking closure is not stopped.
HandleSetupTimeout ==
  /\ phase.at \in Deadlined
  /\ phase' = Idle /\ handler' = Idle
  /\ aside' = (aside \/ writers # {})
  /\ UNCHANGED <<known, store, provisioners, inbox, replies, world, limits>>

Restart ==
  /\ limits.restarts < MaxRestarts
  /\ limits' = [limits EXCEPT !.restarts = @ + 1]
  /\ phase' = Idle /\ known' = FALSE /\ handler' = Idle /\ writers' = {} /\ provisioners' = {}
  /\ UNCHANGED <<disk, inbox, replies, world, aside>>

SetupNext ==
  \/ BotFather \/ HandleCommand \/ Cancel \/ HandleUsernameInput \/ Confirm
  \/ HandleBotFatherReply \/ GetMe \/ Write \/ WriteFails \/ ProvisionReady \/ ProvisionEnds
  \/ RepairLoad \/ RepairPreflight \/ RepairStart \/ HandleSetupTimeout \/ Restart

SetupSpec == SetupInit /\ [][SetupNext]_setupVars

-----------------------------------------------------------------------------
\* A bot is recorded as validated only when a token is stored, whenever the
\* program stops (the order of the three writes in validate_and_persist).
ValidatedHasToken == disk.validated => disk.token # None

\* No BotFather conversation can create a bot while the state file names one,
\* except after a deadline that left an earlier write running or a repair that
\* completed an old file meanwhile (has_created_bot is checked when the command
\* arrives, not when the user confirms).
CreationOnlyWithoutBot ==
  phase.at \in {"AwaitingUsername", "AwaitingConfirmation", "Running"} /\ HasCreatedBot =>
    aside \/ handler.at = "persist"

\* A late token never becomes the companion's: what provisioning is started for
\* is the bot whose token is stored (getMe in the flow, getMe in the repair).
ProvisionOwnsToken ==
  [][\A u \in provisioners' \ provisioners : ~aside => disk.token = u /\ disk.user = u]_setupVars

\* The invariant of the setup dialogue: a validated companion has its token, and no second bot is
\* created beside it.
SetupInv == SetupTypeOK /\ ValidatedHasToken /\ CreationOnlyWithoutBot

=============================================================================
