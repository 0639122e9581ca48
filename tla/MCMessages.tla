--------------------------- MODULE MCMessages ---------------------------
(* Messages and what modules may do with them: the edit ledgers, the v6     *)
(* host calls and the companion bot's menus.  The three models share no     *)
(* variable; "which" chooses one of them for a whole behaviour and the      *)
(* other two stay in one initial state, so the run explores their union.    *)
EXTENDS MessageProvenance, HostCalls, CompanionBot

CONSTANTS m1, m2, hello, goodbye, photo, text1, text2, host1, menuForm, botEdit

VARIABLE which

\* A command answered with a photo, its text fallback and a second answer
\* after the user edits the command, while a module edits the same message.
EditKind == [o \in Ops |-> CASE o = photo -> "photo" [] o \in {text1, text2} -> "text"
                             [] o = host1 -> "host" [] o = menuForm -> "form"
                             [] o = botEdit -> "bot"]
\* A menu and the bot's edits of it are on a message of their own.
Targets == [o \in Ops |-> IF o \in {menuForm, botEdit} THEN m2 ELSE m1]
MixedTexts == [o \in Ops |-> IF o = text2 THEN goodbye ELSE hello]

\* Two commands in one chat, one of them not the user's own but a reply to
\* something, and a command or a message event in another.
MCKind == [c1 |-> {"command"}, c2 |-> {"command"}, c3 |-> {"command", "event"}]
MCPeer == [c1 |-> "p", c2 |-> "p", c3 |-> "q"]
FullGrant == [edit |-> TRUE, delete |-> TRUE, inline |-> TRUE, read |-> TRUE]
MCGrants == {FullGrant, [edit |-> TRUE, delete |-> FALSE, inline |-> FALSE, read |-> TRUE]}

\* Two menus, of one module or of two.
OneModule == [f1 |-> "m1", f2 |-> "m1"]
MCOwners == {OneModule, [f1 |-> "m1", f2 |-> "m2"]}

MessagesInit ==
  /\ which \in {"edits", "calls", "menus"}
  /\ Init /\ CallsInit /\ BotInit
  /\ which # "edits" => server = [m \in Msgs |-> Absent]
  /\ which # "calls" => grant = FullGrant
  /\ which # "menus" => ownerOf = OneModule

MessagesNext ==
  \/ which = "edits" /\ Next /\ UNCHANGED <<which, callVars, botVars>>
  \/ which = "calls" /\ CallsNext /\ UNCHANGED <<which, vars, botVars>>
  \/ which = "menus" /\ BotNext /\ UNCHANGED <<which, vars, callVars>>

\* BotFairness asks nothing of the other behaviours: no form has been asked for
\* in the bot's initial state.
MessagesSpec ==
  MessagesInit /\ [][MessagesNext]_<<which, vars, callVars, botVars>> /\ BotFairness
=============================================================================
