------------------------------ MODULE CommandRouting ------------------------------
(***************************************************************************)
(* From the text of a message to what Lavis does: the command table,       *)
(* argument parsing, aliases, module commands, the policy of sensitive     *)
(* commands, and the entities of a module command's argument.              *)
(*                                                                         *)
(* A text is its words after the prefix; names that normalise to each      *)
(* other are one word.  A definition X_Y that precedes X is a faulty       *)
(* variant of X.                                                           *)
(***************************************************************************)
EXTENDS Naturals, Sequences, FiniteSets, SequencesExt

NoAction == [kind |-> "none"]

(***************************************************************************)
(* Built-in commands.                                                      *)
(***************************************************************************)
Risk ==
  [start |-> "PersistentStateChange", language |-> "PersistentStateChange", help |-> "ReadOnly", reboot |-> "Privileged",
   modules |-> "ReadOnly", ping |-> "ReadOnly", prefix |-> "PersistentStateChange", setup |-> "Privileged",
   lm |-> "ExternalCodeInstall", stats |-> "ReadOnly", info |-> "ReadOnly", fastfetch |-> "RestrictedProcess",
   alias |-> "PersistentStateChange"]
IsBuiltin(name) == name \in DOMAIN Risk
AliasableCommand(name) == name \in {"help", "modules", "ping", "stats", "info", "fastfetch"}

ParseStartRequest(args) ==
  CASE args = <<>> -> "Begin" [] Len(args) > 1 -> "Invalid" [] args[1] = "skip" -> "Skip" [] args[1] = "bot" -> "Bot"
    [] args[1] \in {"en", "ru"} -> "Locale" [] OTHER -> "Invalid"
ParseLanguageRequest(args) ==
  CASE args = <<>> -> "Show" [] Len(args) = 1 /\ args[1] \in {"en", "ru"} -> "Set" [] OTHER -> "Invalid"
ParseSetupRequest(args) ==
  CASE args = <<>> -> "Start" [] Len(args) > 1 -> "Invalid"
    [] args[1] \in {"auto", "status", "repair", "cancel"} -> args[1] [] OTHER -> "Username"
IsCanonicalApprovalId(word) == word = "APPR-0000-0000-0001"
ParseLmId(tokens) == Len(tokens) = 1
ParseLmApproval(tokens) == Len(tokens) = 1 /\ IsCanonicalApprovalId(tokens[1])
ParseLmRequest(args) ==
  LET rest == Tail(args) IN
  CASE args = <<>> -> "Overview"
    [] args # <<>> /\ args[1] \in {"list", "install"} /\ rest = <<>> -> args[1]
    [] args # <<>> /\ args[1] \in {"confirm", "cancel"} /\ ParseLmApproval(rest) -> args[1]
    [] args # <<>> /\ args[1] \in {"info", "logs", "enable", "disable"} /\ ParseLmId(rest) -> args[1]
    [] args # <<>> /\ args[1] = "doctor" /\ Len(rest) <= 1 -> "doctor"
    [] OTHER -> "Invalid"
ParsePrefixRequest(args) ==
  CASE args = <<>> -> "Show" [] Len(args) > 1 -> "Invalid" [] args[1] = "reset" -> "Reset" [] OTHER -> "Set"
ParseAliasRequest(args) ==
  CASE args \in {<<>>, <<"list">>} -> "List"
    [] Len(args) >= 3 /\ args[1] = "add" -> "Add"
    [] Len(args) = 2 /\ args[1] \in {"del", "delete", "remove"} -> "Delete"
    [] Len(args) = 2 /\ args[1] = "show" -> "Show"
    [] OTHER -> "Invalid"
ParseHelpRequest(args) == CASE args = <<>> -> "Overview" [] Len(args) = 1 -> "Topic" [] OTHER -> "Invalid"
ParseModulesRequest(args) == IF args = <<>> THEN "Overview" ELSE "Invalid"

Request(name, args) ==
  CASE name = "start" -> ParseStartRequest(args) [] name = "language" -> ParseLanguageRequest(args)
    [] name = "setup" -> ParseSetupRequest(args) [] name = "lm" -> ParseLmRequest(args)
    [] name = "prefix" -> ParsePrefixRequest(args) [] name = "alias" -> ParseAliasRequest(args)
    [] name = "help" -> ParseHelpRequest(args) [] name = "modules" -> ParseModulesRequest(args)
    [] OTHER -> "Run"

\* info and reboot with arguments are not built-in commands.
DispatchCommand(name, args) ==
  IF IsBuiltin(name) /\ (name \in {"info", "reboot"} => args = <<>>)
  THEN [kind |-> "builtin", name |-> name, request |-> Request(name, args)] ELSE NoAction

(***************************************************************************)
(* Module commands and aliases.  A snapshot has the commands that are      *)
(* active ("id.command"), the default of each active module, and the       *)
(* modules it lists; aliases map a name to a target and arguments.         *)
(***************************************************************************)
ResolveExternal(snapshot, name) ==
  IF name \in snapshot.commands THEN [kind |-> "external", name |-> name] ELSE NoAction
ResolveExternalDefault(snapshot, name) ==
  IF name \in snapshot.defaults THEN [kind |-> "external", name |-> name] ELSE NoAction
HasExternalModule(snapshot, name) == name \in snapshot.modules

MAX_ALIAS_ARGS == 2
AliasAccepted(name, target, args) == ~IsBuiltin(name) /\ AliasableCommand(target) /\ Len(args) <= MAX_ALIAS_ARGS
Invocation(aliases, name, args) ==
  IF \E a \in aliases : a.name = name
  THEN LET a == CHOOSE a \in aliases : a.name = name IN
       IF Len(a.args \o args) <= MAX_ALIAS_ARGS THEN [target |-> a.target, args |-> a.args \o args] ELSE NoAction
  ELSE NoAction
ResolveAlias(aliases, name, args) ==
  LET i == Invocation(aliases, name, args) IN
  IF i = NoAction THEN NoAction ELSE DispatchCommand(i.target, i.args)

(***************************************************************************)
(* Routing.                                                                *)
(***************************************************************************)
\* The sender of a message in Saved Messages is "self"; elsewhere it is an account.
IsSelfAuthored(m) == IF m.sender = "self" THEN m.outgoing ELSE m.sender = "owner"
ParseCommand(m) == IF m.prefixed /\ m.words # <<>> THEN m.words ELSE <<>>

\* Built-in, then a module's command, then its default when a module has the name, else an alias.
RouteText(m, snapshot, aliases) ==
  IF ~IsSelfAuthored(m) \/ ParseCommand(m) = <<>> THEN NoAction
  ELSE LET name == m.words[1]
           args == Tail(m.words)
           candidates == <<DispatchCommand(name, args), ResolveExternal(snapshot, name),
                           IF HasExternalModule(snapshot, name) THEN ResolveExternalDefault(snapshot, name)
                           ELSE ResolveAlias(aliases, name, args)>>
           hits == {i \in DOMAIN candidates : candidates[i] # NoAction} IN
       IF hits = {} THEN NoAction ELSE candidates[CHOOSE i \in hits : \A j \in hits : i <= j]

(***************************************************************************)
(* Sensitive commands.                                                     *)
(***************************************************************************)
AuthorizeSensitiveMessage_EditsToo(policy, m) ==
  IsSelfAuthored(m) /\ m.id > 0 /\ (policy = "ModuleMutation" => m.peer = "saved")
AuthorizeSensitiveMessage(policy, m) ==
  ~m.edited /\ IsSelfAuthored(m) /\ m.id > 0 /\ (policy = "ModuleMutation" => m.peer = "saved")

LmRequestMutates(request) == request \in {"install", "confirm", "cancel", "enable", "disable"}
ExecuteLm(m, request) ==
  IF LmRequestMutates(request) /\ ~AuthorizeSensitiveMessage("ModuleMutation", m) THEN "denied" ELSE request
ExecuteReboot(m) == IF AuthorizeSensitiveMessage("Reboot", m) THEN "reboot" ELSE "denied"
ExecuteSetup(m, request) == IF m.peer = "saved" THEN request ELSE "denied"

\* What executing the action does: the operation, or "denied".
ExecuteAction(m, action) ==
  CASE action.kind # "builtin" -> action.kind
    [] action.kind = "builtin" /\ action.name = "lm" -> ExecuteLm(m, action.request)
    [] action.kind = "builtin" /\ action.name = "reboot" -> ExecuteReboot(m)
    [] action.kind = "builtin" /\ action.name = "setup" -> ExecuteSetup(m, action.request)
    [] OTHER -> action.request

(***************************************************************************)
(* Entities.  A text is a sequence of characters: "p" the prefix, "s"      *)
(* white space, "c" one UTF-16 unit, "e" two.                              *)
(***************************************************************************)
Utf16(text) == FoldLeft(LAMBDA n, ch : n + IF ch = "e" THEN 2 ELSE 1, 0, text)
ProjectCustomEmojiEntities(entities, start, end) ==
  {[offset |-> e.offset - start, length |-> e.length] :
     e \in {x \in entities : x.offset >= start /\ x.offset + x.length <= end /\ x.length > 0}}

FirstOf(text, from, space) ==
  LET at == {i \in from .. Len(text) : (text[i] = "s") = space} IN IF at = {} THEN 0 ELSE CHOOSE i \in at : \A j \in at : i <= j
LastWord(text) == LET at == {i \in DOMAIN text : text[i] # "s"} IN CHOOSE i \in at : \A j \in at : i >= j

\* First and last character of the argument, 0 when there is none.
ArgumentSpan(text) ==
  LET name == FirstOf(text, 2, FALSE)
      gap == IF name = 0 THEN 0 ELSE FirstOf(text, name, TRUE)
      first == IF gap = 0 THEN 0 ELSE FirstOf(text, gap, FALSE) IN
  <<first, IF first = 0 THEN 0 ELSE LastWord(text)>>
ArgumentText(text) == LET s == ArgumentSpan(text) IN IF s[1] = 0 THEN <<>> ELSE SubSeq(text, s[1], s[2])

CommandArgumentEntities(text, entities) ==
  LET s == ArgumentSpan(text)
      start == Utf16(SubSeq(text, 1, s[1] - 1)) IN
  IF s[1] = 0 THEN {} ELSE ProjectCustomEmojiEntities(entities, start, start + Utf16(ArgumentText(text)))
=============================================================================
