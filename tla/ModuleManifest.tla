------------------------------ MODULE ModuleManifest ------------------------------
(***************************************************************************)
(* Validation of a module's manifest, and the gates the running host puts  *)
(* in front of what the manifest was granted.                              *)
(*                                                                         *)
(* Capabilities, methods, subscriptions, actions and commands are          *)
(* sequences, because duplicates are refused; text is its length and       *)
(* whether it is one visible line; a file is its kind, permission bits and *)
(* size.  A definition X_Y that precedes X is a faulty variant of X.       *)
(***************************************************************************)
EXTENDS WireCodec

MAX_MANIFEST_BYTES == 64 * 1024
MAX_COMMANDS == 32
MAX_EXAMPLE_COUNT == 16

Capabilities ==
  {"host_information", "network", "persistent_state_read", "persistent_state_write",
   "message.read", "message.peer_id", "message.react", "telegram.account.status",
   "telegram.raw", "message.edit", "message.send_bot", "message.delete"}
Subscriptions == {"message.created", "message.edited", "bot.callback"}
V6Methods ==
  {"account.updateStatus", "contacts.getContacts", "messages.getHistory", "messages.getDialogs", "raw.invoke"}

RequiredCapability(method) ==
  CASE method = "account.updateStatus" -> {"telegram.account.status"}
    [] method = "raw.invoke" -> {"telegram.raw"}
    [] OTHER -> {}

ValidateModuleId(id) == id.len \in 1 .. 32 /\ id.lowerFirst /\ id.slug
ValidateCommandName(name) == name.len \in 1 .. 32 /\ name.lowerFirst /\ name.slug
ValidateDisplaySingleLine(text, limit) == text.line /\ text.len \in 1 .. limit
ValidateDescription(text) == text.len \in 1 .. 2000 /\ text.clean
UsageIsArgumentSyntax(usage, name) == usage.first # name.text

ValidateEntrypoint(e) ==
  CASE e.empty -> "InvalidEntrypoint"
    [] e.dotdot -> "PathEscape"
    [] e.absolute \/ e.url -> "InvalidEntrypoint"
    [] OTHER -> "ok"

\* Permission bits: any group or world write bit refuses the file.
Unsafe(file) == file.groupWrite \/ file.worldWrite
IsRegularFile(file) ==
  CASE file.kind = "absent" -> "NotReadable"
    [] file.kind = "symlink" -> "SymlinkEscape"
    [] file.kind # "file" -> "NotReadable"
    [] Unsafe(file) -> "UnsafePermissions"
    [] OTHER -> "ok"
IsRegularDirectory(dir) ==
  CASE dir.kind = "absent" -> "NotReadable"
    [] dir.kind = "symlink" -> "SymlinkEscape"
    [] dir.kind # "dir" -> "NotReadable"
    [] Unsafe(dir) -> "UnsafePermissions"
    [] OTHER -> "ok"

\* The first of a sequence of checks that fails; "ok" when none does.
FirstFailure(checks) ==
  LET failed == {i \in DOMAIN checks : checks[i] # "ok"} IN
  IF failed = {} THEN "ok" ELSE checks[Min(failed)]
Check(condition, error) == IF condition THEN "ok" ELSE error

ContractRevision(m) ==
  IF m.schema = 6 THEN (IF m.revision = 0 THEN V6_ALPHA_CONTRACT_REVISION ELSE m.revision) ELSE 0

CheckSchema(m) == FirstFailure(<<
  Check(m.schema <= 5 => ~m.hasMethods, "MalformedManifest"),
  Check(m.schema <= 5 => m.revision = 0, "MalformedManifest"),
  Check(m.schema = 6 => ValidateV6ContractRevision(ContractRevision(m)), "UnsupportedSchemaVersion"),
  Check(m.schema \in 2 .. 6, "UnsupportedSchemaVersion") >>)

CheckManifestFile(f) == FirstFailure(<<
  IsRegularDirectory(f.parent), IsRegularFile(f.manifest),
  Check(f.manifest.bytes <= MAX_MANIFEST_BYTES, "ManifestTooLarge"),
  Check(f.json, "MalformedManifest") >>)

CheckEntrypoint(f) == FirstFailure(<<
  ValidateEntrypoint(f.entrypoint), Check(f.entry.kind # "absent", "InvalidEntrypoint"),
  Check(f.entry.inside, "PathEscape"), IsRegularFile(f.entry), Check(f.entry.exec, "NotReadable") >>)

CheckMethods_NoCapability(m) == FirstFailure(<<
  Check(Range(m.capabilities) \subseteq Capabilities /\ IsInjective(m.capabilities), "InvalidCapability"),
  Check(Range(m.methods) \subseteq V6Methods /\ IsInjective(m.methods), "InvalidArgument") >>)

CheckMethods(m) == FirstFailure(<<
  Check(Range(m.capabilities) \subseteq Capabilities /\ IsInjective(m.capabilities), "InvalidCapability"),
  Check("telegram.raw" \in Range(m.capabilities) <=> "raw.invoke" \in Range(m.methods), "InvalidCapability"),
  Check(Len(m.methods) <= Cardinality(V6Methods), "InvalidCapability"),
  Check("telegram.raw" \in Range(m.capabilities) => m.schema = 6, "InvalidCapability"),
  Check(Range(m.methods) \subseteq V6Methods /\ IsInjective(m.methods), "InvalidArgument"),
  Check(\A x \in Range(m.methods) : RequiredCapability(x) \subseteq Range(m.capabilities), "InvalidCapability") >>)

CheckSubscription(m, s) == FirstFailure(<<
  Check(s \in Subscriptions, "InvalidArgument"),
  Check(s = "message.edited" => m.schema >= 4, "UnsupportedSchemaVersion"),
  Check(s = "bot.callback" => m.schema >= 6 /\ ContractRevision(m) >= V6_INLINE_SINCE, "UnsupportedSchemaVersion"),
  Check(s = "bot.callback" => "message.send_bot" \in Range(m.capabilities), "InvalidCapability") >>)

CheckEvents(m) == FirstFailure(<<
  Check(m.schema = 2 => m.default = "none" /\ m.subscriptions = <<>> /\ m.actions = <<>>, "UnsupportedSchemaVersion"),
  FirstFailure([i \in DOMAIN m.subscriptions |-> CheckSubscription(m, m.subscriptions[i])]),
  Check(IsInjective(m.subscriptions), "InvalidArgument"),
  Check(Range(m.actions) \subseteq {"message.react"} /\ IsInjective(m.actions), "InvalidArgument") >>)

CheckCommand(c) == FirstFailure(<<
  Check(ValidateCommandName(c.name), "InvalidCommandName"),
  Check(ValidateDisplaySingleLine(c.summary, 120) /\ ValidateDescription(c.description), "InvalidMetadata"),
  Check(ValidateDisplaySingleLine(c.usage, 256) /\ UsageIsArgumentSyntax(c.usage, c.name), "InvalidMetadata"),
  Check(Len(c.examples) <= MAX_EXAMPLE_COUNT, "InvalidMetadata"),
  Check(\A i \in DOMAIN c.examples : ValidateDisplaySingleLine(c.examples[i], 256), "InvalidMetadata") >>)

CheckCommands(m) == FirstFailure(<<
  Check(Len(m.commands) \in 1 .. MAX_COMMANDS, "InvalidCommandCount"),
  FirstFailure([i \in DOMAIN m.commands |-> CheckCommand(m.commands[i])]),
  Check(IsInjective([i \in DOMAIN m.commands |-> m.commands[i].name.text]), "DuplicateCommand"),
  Check(m.default = "none" \/ \E c \in Range(m.commands) : c.name.text = m.default, "InvalidArgument") >>)

\* Capabilities against the subscriptions, actions and revisions they are for.
CheckCapabilities(m) ==
  LET Has(capability) == capability \in Range(m.capabilities) IN FirstFailure(<<
  Check(Range(m.subscriptions) \cap {"message.created", "message.edited"} # {} => Has("message.read"), "InvalidCapability"),
  Check(Has("telegram.account.status") => m.schema >= 5, "InvalidCapability"),
  Check(Has("message.peer_id") => m.schema >= 4 /\ Has("message.read"), "InvalidCapability"),
  Check("message.react" \in Range(m.actions) => Has("message.react"), "InvalidCapability"),
  Check(Has("message.edit") => m.schema = 6 /\ ContractRevision(m) >= V6_HOST_CONTRACT_REVISION, "InvalidCapability") >>)

\* files: the directory, the manifest file and the entry point; expected: the directory's name, or "any".
ValidateManifestAt(m, files, expected) ==
  LET verdict == FirstFailure(<<
        CheckManifestFile(files), CheckSchema(m),
        Check(ValidateModuleId(m.id), "InvalidModuleId"),
        Check(expected \in {"any", m.id.text}, "IdMismatch"),
        Check(ValidateDisplaySingleLine(m.name, 64) /\ ValidateDisplaySingleLine(m.version, 32)
              /\ ValidateDisplaySingleLine(m.author, 128), "InvalidMetadata"),
        CheckEntrypoint(files), CheckMethods(m), CheckEvents(m), CheckCommands(m), CheckCapabilities(m) >>) IN
  IF verdict = "ok" THEN Accepted([m EXCEPT !.revision = ContractRevision(m)]) ELSE Refused(verdict)

\* Directories whose name is an id and whose manifest is accepted; a name that is not UTF-8 ends the scan.
DiscoverModules(entries) ==
  IF \E e \in entries : e.dir /\ ~e.utf8 THEN Refused("InvalidModuleId")
  ELSE Accepted({e \in entries : e.dir /\ ValidateModuleId(e.name) /\ ValidateManifestAt(e.manifest, e.files, e.name.text).ok})

(***************************************************************************)
(* The gates of the running host.                                          *)
(***************************************************************************)
ValidateInvoke(d, method, unique) ==
  CASE ~unique -> "protocol"
    [] method \notin V6Methods -> "validation"
    [] method \notin Range(d.methods) -> "capability"
    [] ~(RequiredCapability(method) \subseteq Range(d.capabilities)) -> "capability"
    [] OTHER -> "ok"

BotCallbackGate(d, running) ==
  /\ running /\ d.schema = 6
  /\ "message.send_bot" \in Range(d.capabilities) /\ "bot.callback" \in Range(d.subscriptions)

\* An event of this kind reaches the module: the dispatch gate, then the codec of its protocol.
Delivered(d, s) ==
  IF s = "bot.callback" THEN BotCallbackGate(d, TRUE)
  ELSE ModuleCanReceiveEvent(d, s) /\ (d.schema = 6 \/ SerializeFor(s, d.schema))

=============================================================================
