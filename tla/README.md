# Lavis: TLA+ models, model checking and proofs

Lavis is a Telegram userbot written in Rust. It follows the update stream of a
user's own account, answers commands by editing the command message, and runs
external modules as child processes that talk JSON lines over stdin and stdout
and may call back into Telegram through Lavis. A companion bot offers inline
menus.

This directory models Lavis where concurrency, failure and restart decide
correctness, and the codecs, validators and parsers at its boundaries. TLC checks
the models on small instances; TLAPS proves nearly all of the safety properties for
every instance. `PROJECT.json` relates every
definition to the lines it models, every property to a run, and every property
to a faulty variant of the code that it detects.

Paths below are relative to the repository's `src/` (Rust) directory unless they
start with `docs/` or `modules/`. Line numbers refer to the modelled commit.

## 1. Inventory

### What the program consists of

| Component | State it keeps | Operations | Hard behaviours | Model |
|---|---|---|---|---|
| v6 process supervisor (`external_modules/v6_process.rs`) | in-flight request, waiting queue, ids awaiting a flush, active call ids, workers, closing flag, deadlines, four bounded channels | request, shutdown, terminate, handles; the arms of `supervise`; `write_stdin`, `read_stdout`, call workers | five tasks and any number of callers interleave; acknowledgements race answers; everything is bounded; the child may die, hang or misbehave | `V6Process`, `V6Conformance` |
| legacy module process (`process.rs`) | child, one request in flight, deadlines, status | start, execute, event, nested call, shutdown, reap | dropped callers leave answers in the pipe; a nested call eats the parent's deadline | `LegacyProcess`, `SequentialService` |
| protocol codecs, RPC executor (`protocol.rs`, `events.rs`, `v6_executor.rs`) | none | parse, serialise, summarise, base64 | six versions and revisions on two sides; limits of several layers | `WireCodec` |
| manifests (`manifest.rs`) | none | validate, discover, gate | judged at installation and again at run time | `ModuleManifest` |
| source inspection (`acquisition.rs`, `source_inspection.rs`) | staging directory | acquire, inspect, extract, fingerprint | several spellings of a path; limits | `SourceInspection` |
| approval, installation, control (`approval.rs`, `installer.rs`, `state.rs`, `receipts.rs`, `control.rs`) | approvals, staged trees, backups, enabled flags | request, approve, install, update, enable, reconcile | crash between renames; removals that stop halfway; expiry; a process that outlives its files | `ModuleInstall` |
| handle registry, host executor (`v6_handles.rs`, `v6_host.rs`, parts of `manager.rs`) | handles with authority, peer cache, expiry | issue, resolve, release; edit, delete, inline form | overlapping, dropped and expiring invocations | `HostCalls`, `BotWire` |
| module manager and the runtime's snapshot (`manager.rs`, `runtime/external.rs`, `runtime/lm.rs`) | index of processes, retained diagnostics, start attempts; the snapshot commands are routed by | start, stop, replace, execute, refresh, report | processes die beside a snapshot that is taken anew in four places | `ModuleCatalog` |
| message provenance (`message_provenance.rs`, `updates.rs`) | ledger of expected self-edits (128), ring of menu messages | register, consume, remove | the update of an edit arrives before, after or without its result | `MessageProvenance` |
| companion bot (`bot_send.rs`, `bot_updates.rs`, `bot_api.rs`) | staged menus, publications, `getUpdates` offset | publish, answer, poll, close | answers before or after the caller gave up; lost polls; restart | `CompanionBot`, `BotWire` |
| companion setup (`setup*.rs`, `runtime/setup.rs`) | phase, identity and token files | dialogue steps, repair, cancel | deadline drops handlers whose writes go on; restart in the middle | `CompanionSetup`, `BotWire` |
| companion workspace (`setup_provision.rs`, `companion_forum.rs`) | state file of group, topics, folder | staged provisioning; topics on first use | several writers of one file; things created and not recorded | `CompanionWorkspace` |
| update run loop (`updates.rs`) | error counter, event tasks (32), provisioning and refresh tasks | process_update, retry, end | deadlines drop `process_update` at any await; five ways to end | `HostLoop` |
| reboot receipt (`reboot_receipt.rs`, parts of `updates.rs`, `app.rs`) | `pending-reboot.json`, temporaries, blocking closures | load, arm, remove, complete at start | crash and power loss between steps, a wall clock that moves | `RebootReceipt` |
| upstream check (`upstream.rs`, `updates.rs`) | published snapshot, retry delay | refresh, publish, notice | three requests that fail separately while `main` moves | `UpstreamCheck` |
| log forwarder (`log_forwarder.rs`) | bounded queue, cached token, chat, topic | enqueue, post | overflow, rotated token, feedback | `LogForwarder` |
| session and application (`app.rs`, `session.rs`, `auth.rs`, `client.rs`) | lock, session files, backups | run, auth, reset, logout, shut down | two processes, kills and failing file operations | `LocalSession` |
| settings, aliases, tutorial (`settings.rs`, `aliases.rs`, `runtime/mod.rs`) | memory and one file each | commands, tutorial pages | abandoned writes, leftover temporaries | `OwnerStores` |
| command parsing, routing, policy (`command*.rs`, `runtime/policy.rs`, `entities.rs`) | none | parse, resolve, authorise | aliases, edits and module names that reach sensitive commands | `CommandRouting` |
| presentation, configuration, packaging, Go modules | | | | section 6 |

### How they interact

The run loop takes one update at a time. It asks the ledgers whether the update
is Lavis's own edit, offers it to the setup dialogue, handles built-in commands
itself (`,reboot` among them), hands module commands to the manager and events
to tasks of their own. The manager calls the v6 or the legacy process with
handles it has issued. A v6 module's `telegram.invoke` and `host.invoke` frames
come back to the supervisor, which runs each in a worker; such a worker registers
its edits in the ledgers that the run loop reads, or publishes a menu through the
companion bot. Across starts the parts meet in files: the receipt, the setup
state and token, settings and aliases, installed modules and the session.

Where two models touch, one holds the other's effect as a small part of its
state. `V6Process` decides when a release may be put off and `HostCalls` allows
either; `HostLoop` keeps of the setup dialogue whether it is active and has a
deadline, and of a text its routing class; `CompanionWorkspace` starts where
`CompanionSetup` spawns the provisioner.

### What makes each part correct

- *Module processes:* one lifecycle request is with the module at a time; every
  caller is answered, with its own answer; nothing follows the shutdown frame;
  stops complete and report the truth; a call is answered once; a module that
  keeps the contract is not stopped.
- *Authority:* a handle gives a module authority over the owner's messages only,
  ends with its invocation and names its own chat; Lavis never routes its own
  edit as the user's command; sensitive commands need a fresh message of the
  owner; the menu guessed for a press that names no message is one of the pressing
  module; setup secrets are kept from modules.
- *Files:* whatever fails or crashes, the session, the settings and the receipt are
  found again whole, an installed module is found again, and whole unless a removal
  stopped halfway; and what was announced (restarted, not restarted, saved, approved)
  is true.
- *Boundaries:* what one side of a codec accepts the other can answer; a granted
  manifest is honoured; an approved archive is the one installed.
- *Progress:* requests, forms, handlers and outages end.

## 2. Modules

| Module | Role |
|---|---|
| `V6Process` | one v6 module's runtime, with its callers and an arbitrary child |
| `V6Conformance` | `V6Process` composed with a child that keeps the documented contract |
| `LegacyProcess` | a module of protocol 2 to 5, its callers and its clock |
| `SequentialService` | the abstract service: requests served one at a time, each ending once, none accepted after a failure or a stop |
| `HostCalls` | handles: issue, use, expiry, release |
| `MessageProvenance` | both ledgers, the editors, Telegram and the head of `process_update` |
| `CompanionBot` | inline menus and the poll loop |
| `CompanionSetup`, `CompanionWorkspace` | the BotFather dialogue; the provisioner and the other writers of its state |
| `HostLoop`, `UpstreamCheck`, `LogForwarder` | the running host |
| `ModuleCatalog` | the manager's index of module processes and the runtime's snapshot of it |
| `RebootReceipt`, `LocalSession`, `ModuleInstall`, `OwnerStores` | what lies on disk |
| `WireCodec`, `ModuleManifest`, `SourceInspection`, `CommandRouting`, `BotWire` | pure algorithms, as operators |
| `V6ProcessProofs` (with `QueueCounting`), `ProtocolProofs`, `CodecProofs`, `MessagesProofs`, `RestartsProofs`, `OnlineProofs`, `FilesProofs` | theorems and proofs about the modules above (section 4) |
| `MC*` | instances for TLC; `MCInputs` enumerates the inputs of the pure algorithms |

In every module a definition `X_Y` placed before `X` is a faulty variant of `X`.
No other definition uses it; it records a plausible bug that a property must
detect when it takes `X`'s place.

### V6Process and the code

- *Callers.* `Submit`, `SubmitClosed` and `Abandon` are `V6Process::request` and a
  dropped future. `StopBegin` and `StopForce` are `manager::shutdown_process`:
  graceful shutdown, then `terminate()`. `RegisterHandle`, `ReleaseLoad` and
  `ReleaseApply` are the handle operations; `release_handle` is two actions
  because it reads the counter and acts on it later.
- *Supervisor.* `ControlArm` (`HandleRequest`, `HandleShutdown`, `HandleForce`,
  `HandleControlClosed`), `ReaderArm` (`HandleTelegramInvoke`, `HandleHostInvoke`,
  `HandleTerminal`, `HandleLog`, `HandleInboundError`, `HandleEof`), `RpcArm` (completions,
  flushes, a failed writer), `ObserveExit` and the two deadlines are the arms of
  the `select!` in `supervise`; an arm is one action because it does not await.
  `Kill` and `Finish` are the code after the loop. `Fatal`, `FailLifecycle`,
  `DispatchLifecycle`, `StartShutdown`, `QueueResult` are the helpers of those names.
- *Other tasks.* `WriterWrite`, `WriterFail`, `WriterAck` are `write_stdin`;
  `WorkerComplete` and `WorkerAbort` the call workers. `Read…` are the child and
  `read_stdout` together; `ChildExit` is the child. The child writes any frame it
  likes, at most `MaxEmits` of them.
- *Data.* A frame is its type, id and method. Two ids, two methods per class and
  one kind of each error suffice, because the code branches on nothing else.
  `hostActive` keeps its width: it wraps modulo `UsizeModulus`, as the unpaired
  `fetch_sub` does.
- *Abstractions.* Sending a reply and setting the status, consecutive instructions
  without an await, are one step. The pipe from the child and the reader's queue
  are one queue. A failing write may or may not have delivered its frame. A call
  has its effect or not; only its completion matters here. Timers fire at any
  time after they are armed. `start_with_ledger` up to the supervisor's spawn is
  `Init`; a failed spawn leaves no supervisor.

`V6Conformance` conjoins the child's steps with the contract of
`docs/module-api-v6.md` as a module can observe it. `ReuseCallIds` chooses whether
the module reuses a call id once it holds the result, which the document allows.

### RebootReceipt and the code

`tasks` are closures in tokio's blocking pool. A future that is dropped (by the
setup deadline or the 4 s limit on the completion) leaves its closure running, so
closures overlap; `Slots` bounds how many. `Cleanup`, `LoadRead`, `Unlink`, `SyncRemoval`,
`ArmWrite`, `ArmSync`, `ArmLink`, `ArmCommit` are the system calls of
`load_at_blocking`, `arm_blocking`, `remove_blocking`, each of which may fail.
`Start`, `Consume…` are the completion at the beginning of `run_loop`; `Reboot`,
`LookedUp`, `Announce`, `Armed` are the command in `process_update`; `SetupTimeout` and
`ConsumeTimeout` drop them; `Exec` is `restart_current_process`. `Crash`, `PowerLoss`
and `SetClock` are the environment: `durable` is the directory entry that is certain
to survive, and bytes that were not synced may be torn.

Abstractions: a Telegram edit that fails ambiguously was applied at once or never;
each message carries one `,reboot`; "refused" stands for every answer given before
the restart is announced, and "failed" for `StartFailed` and `ReceiptArmFailed`.

### MessageProvenance and the code

An edit is registered and sent (`HostBegin`, `BotBegin`, `FormBegin`, or `Process` for
the run loop's own responses), applied by Telegram at any time (`Apply`), and
ends for its editor by success, rejection, ambiguity or cancellation (`Succeed`,
`Reject`, `GiveUp`, `Cancel`). `FailEdit` follows a failed photo edit with the text
edit of `deliver_media_with_suppression`. `Process` is `process_update`: it asks the
menu ring, then the ledger, then routes. The run loop processes nothing while it
awaits an edit; module calls run beside it.

Abstractions: updates arrive once and in order; the user never types exactly the
text of a response of Lavis (that edit would be indistinguishable and the code
swallows it); a form's message is not edited by the user.

### LegacyProcess and the code

`Ask`, `Send`, `Read`, `ReadDeadline`, `ReadEof`, `GatewayEnds`, `SendTelegramResult`
are the awaits of a request of `ModuleProcess` with `collect_reply_until`; between
two of them the caller may be dropped (`Drop`). `Fail` is `fail_and_terminate`. The module is
external: it follows the protocol until it commits one fault (silence, a wrong
id, kind or version, a second nested call, EOF). The id of a nested call whose caller
was dropped stays in `active_call_ids` (`abandoned`), so a later call that draws it is
refused. Time is a counter, so that "the remaining budget" is a number. `Service` instantiates `SequentialService`; its
state is computed from the process's status and the requests' outcomes.

### HostCalls, CompanionBot and the code

`HostCalls`: `issue_target` with the peer cache, `purge_expired`, `resolve`,
`release`, and the manager's registration around an invocation. A handle is a
fresh number. `HostExecute` yields what a host call through a handle would touch.
`CompanionBot`: `FormStep` is `inline.form` (stage, ask at most twice, send,
record, withdraw), `Poll` and `HandleUpdate` the `getUpdates` loop. Telegram numbers updates, keeps them until
confirmed, and loses requests or replies. The bounds are the code's (`MenuCap`,
`PubCap`); the registry is a set, as the map is, and `Oldest` goes by the time of
insertion; a staged menu expires at any time. `delete_bot_message` is two actions:
`DeleteAddressed`, by chat and message, deletes whatever message is named, and
`DeleteCorrelated`, by the inline id of a press, takes the module's latest publication.
Only the second looks at modules.

### CompanionSetup, CompanionWorkspace and the code

`CompanionSetup` has one action per phase transition of `SetupCoordinator`, per
BotFather answer and per write; `PersistStep` writes identity, token and mark in the
code's order, each of which may fail, before its rename or after it (`WriteFails`: the
sync of the directory), or be the last before a restart.
`CompanionWorkspace` has one action per stage of the provisioner (`Stage` does the
call, then saves the flag), the other two writers' load, create and save, and the
user who edits folders. A folder is its id, name and peers. The blocking closure of a save
outlives a run that is stopped: `Stop` lets it land at once or never. That it lands later
still, over what another writer stored meanwhile, is not modelled.

### HostLoop, UpstreamCheck, LogForwarder and the code

`HostLoop`: the arms of the `select!` in `run_loop`; `ProcessUpdate` goes through the
steps of `process_update`, and the setup deadline may drop it between any two.
`UpstreamCheck`: the repository is a small commit graph, each request of the refresh
worker an action, `PublishUpstreamFailure` keeps what was known. `LogForwarder`: the
layer's filter and `try_send`, the worker's token, chat, topic and post.

### ModuleCatalog and the code

`StartEnabled` is one module of `startup_enabled`, with the failures of both kinds of
process and the diagnostic that is or is not retained; `StopModuleForUpdate` and
`ReplaceDescriptorIfUpdated` are the manager's part of `confirm_update` (the files are
in `ModuleInstall`), `RegisterInstalledDescriptor` that of `confirm_fresh_install`,
`ResolveInSnapshot` and `ExecuteExternal` a module command from its routing to its
reply. A process dies at any time (`ProcessEnds`); a v6 supervisor records the
diagnostic later (`RecordDiagnostic`). `lm doctor` and `lm info` read status and
diagnostic under two locks and in opposite orders, so each is two actions.
`remove_crashed` and `remove_descriptor` have no caller outside the tests.

### ModuleInstall, OwnerStores, LocalSession and the code

Each file operation of the installer, of `write_settings`, `write_aliases` and of the
session backup is an action that may fail, and the process may die between any two. In `LocalSession`
two processes share the directory; the lock is given back when its holder dies, and a recovery
moves the files in any order, as `read_dir` lists them.

In `ModuleInstall` a directory is the generation it was extracted from, whether it is whole, and
its time of change. `remove_tree_no_follow` is `RemovePart` and then success or an error:
`DiscardInstalled` and `RemoveRejected` may leave the rejected generation, whole or in part
(`TargetCleanup`, `RestoreFailed`), the backups that `PruneModuleBackups` and the boot remove
may remain in part (`Remains`), and a crash may fall between any two of these steps and the
rename back (`RestoreOld`). `hist` records that a removal ended halfway (`cut`), that the
restoring rename failed (`broken`) and which rejected generation was left in place (`left`);
the properties speak of these cases by name.

### The pure algorithms

`WireCodec`, `ModuleManifest`, `SourceInspection`, `CommandRouting` and `BotWire` are
operators with the code's checks in the code's order and with its own limits.
Text is its length and character class, JSON its measures, a path its components.
`MCInputs` chooses one input, evaluates the code on it and states the property
against the other side: the parser against the serialiser, validation against
the run-time gates, conversion against its inverse.

## 3. Runs

`CHECK_DEADLOCK FALSE` is given where the system may stop: a process has ended and
every caller is served, a bound on the environment is used up, or the program has
shut down. Five runs explore several models that share no variable: `which`
chooses one for a whole behaviour, the others stay in one initial state with all
their actions disabled. The reachable states are the union of the models' own,
every invariant of a model is checked in all its states, and fairness conditions
of the resting models hold vacuously. `MCV6Scenarios` covers several
instances of `V6Process` in one run: callers and child may do what some scenario contains
(its requests, stoppers, calls and number of frames), and nothing limits Lavis itself.

| Run | Instance | Checks |
|---|---|---|
| `lifecycle` (6.1 million states) | 2 scenarios, 2 frames from the child, 1 waiting request: 3 requests, 2 sharing an id; and 1 request, 1 call, 2 stoppers | `SequentialContract`: one request at a time. `FlushDiscipline`: a response deadline runs only once the frame is written, and a late acknowledgement is never taken for a fault. `ShutdownBarrier`: the shutdown frame is last. `ClosingDrainsRequests`. `StopContract`: what stoppers and status report is true |
| `liveness` (0.5 million) | 3 scenarios, 1 frame, `Fairness`: 2 requests, 1 stopper; 1 request, 1 call, 1 stopper; 2 stoppers | `RequestsAnswered`, `StopsComplete`: whatever the child does or fails to do |
| `calls` (6 million) | 2 call ids, capacity 1, writer queue 1, 1 handle, 3 frames | `WorkersBounded`, `EveryCallAnsweredOnce`, `ReservedUntilFlushed` |
| `conforming` | contract-keeping child, 2 requests, 1 stopper, 1 call | `ConformingModuleNeverBlamed` |
| `protocols` (1.3 million) | legacy: 2 requests, versions 2, 4, 5, 5 units of time, pipe of 2; and some 170000 inputs | `ImplementsService` (refinement), `SentRequestEnds`, `LegacyInv`; `CodecInv`, `GrantsHonoured`, `SourceInv`, `RoutingInv` |
| `messages` (1.5 million) | 6 edits, ledger of 3, 2 user edits; 3 invocations, 3 handles; 2 forms of 2 modules, registry of 1, 2 lives | `OwnEditNeverRouted`, `ProvenanceInv`; `CallsInv`; `BotInv`, `MenuContract` |
| `restarts` (4.1 million) | 2 reboot commands, 2 overlapping closures, 3 starts, clock 0..2; 2 user names, 2 flows, 1 restart; 2 groups, 2 provision runs, 1 edit of a folder by the user | `TypeOK`, `CompletedMeansRestarted`, `FailedMeansNoReceipt`, `ReceiptInv`; `SetupInv`; `WorkspaceInv`; `RestartsSteps` |
| `online` (2.2 million) | 2 dispatch tasks, restart after 3 errors, 3 updates; 3 refresh cycles, 1 move of `main`; queue of 1, 5 events, 2 tokens; 2 modules, a v6 and a v3 manifest, 2 v6 starts of each | `HostInv`, `OutageEndsLoop`; `UpstreamInv`; `LogInv`; `CatalogInv` |
| `files` (2.8 million) | 3 commands, 1 crash; 3 generations, 2 approvals, TTL 1, 1 tick; 2 processes, 2 session files, 4 launches, 1 kill | `StoresInv`; `InstallInv`; `SessionInv`; `FilesSteps` |

A component's invariant is the conjunction of named parts:

| Invariant | Parts beside the types and bounds |
|---|---|
| `LegacyInv` | `ResultMatchesRequest` (no caller gets another's answer), `CrashHasCause`, `OneNestedCall`, `FullReplyWindow` (a nested call is made only if the reply still has its whole window), `CrashedIsReaped` |
| `CodecInv` | `ExchangesComplete` (what is accepted can be answered in the same version and revision), `RepliesDelivered` (a reply that passes one layer's limit passes the next), `Base64Exact`, `ReactionLayersAgree`; `PressRoundTrip`, `ChatIdRoundTrip`, `PressedMessageEdited`, `ReplyBounded`, `TokenWhole` |
| `SourceInv`, `RoutingInv` | `AcquiredWhole` (the acquirer and the command policy agree on the message, and the acquired bytes fit the inspection), `StagedTreeExact`, `FingerprintInjective`; `AuthorityKept`, `EntitiesAligned` (UTF-16 offsets) |
| `ProvenanceInv` | `LedgerExact` (one entry for each edit that may still come back) |
| `CallsInv` | `OwnMessagesOnly`, `AuthorityEnds`, `PeerHandleTrue` |
| `BotInv`, `MenuContract` | `HandledInOrder`, `BacklogSkipped`, `StagedIsAwaited`; `GuessesOwnMenu` (a guess is a menu of the module that asked), `FormEnds` |
| `ReceiptInv`, `RestartsSteps` | `InstalledReceiptIsWhole`, `RestartOnlyWhenLinked`; `NeverOverwritten`, `ProvisionOwnsToken`, `ForeignFoldersKept` |
| `SetupInv`, `WorkspaceInv` | `ValidatedHasToken`, `CreationOnlyWithoutBot`; `RecordedStagesHappened`, `SecondGroupOnlyIfLost` |
| `HostInv` | `ProtectedNeverProjected`, `RestartCountsInARow`, `NoTaskOutlivesLoop` |
| `UpstreamInv`, `LogInv` | `RelationTrue`, `ShownIsLastKnown`, `RetryPaced`, `NoticeTrue`; `NoFeedback`, `LossesReportedOnce`, `OneTopicRequest`, `RejectedTokenReread` |
| `CatalogInv` | `SnapshotLagsBehindDeathsOnly`, `FailureWithdraws`, `FooterTrue` (a reply names the generation that wrote it), `CrashHistoryCurrent`, `ReportNotFalse` |
| `StoresInv`, `InstallInv` | `MemoryDurable`, `FilesReload`, `TutorialNeverSkips`, `CollisionsBounded`; `ModuleNeverLost`, `RegisteredOnDisk` (until a restart, the registered generation is whole somewhere), `ProcessMatchesDisk`, `ApprovalHasStage` |
| `SessionInv` | `SessionNeverLost`, `ResetAllOrNothing`, `ModulesStopFirst`, `OneStagedSession` |
| `FilesSteps` | `HandlerEnds`, `RedeemedInTime`, `DeclarativeUntouched` |

Three runs show where the code and what the repository says of it disagree; each
has one property, which TLC finds violated:

| Run | Property | Disagreement |
|---|---|---|
| `message_delete` | `ConformingModuleNeverBlamed` | `message.delete` is implemented by the host executor and handles are issued for it (`manager.rs:721`), but the supervisor's allow-list (`v6_process.rs:853`) lacks it and stops the module. |
| `handle_release` | `ReleaseWaitsForHostCalls` | `docs/module-api-v6.md:323` defers a handle's release while a host call is active. `host_active`, which `release_handle` reads, is raised by `telegram.invoke` only (`v6_process.rs:810`) and lowered by `HostComplete` (`v6_process.rs:1191`): a release during a host call takes effect at once, and a completion at zero wraps the counter. |
| `reset_recovers` | `NextResetRecovers` | A reset whose rollback is incomplete leaves session files in its staging directory. If a new session is created before the next reset, its preflight (`app.rs:1129`) finds a live file and refuses, and so does every reset for as long as that file is there; the comment at `app.rs:912` and the warning at `app.rs:989` say that the next reset recovers the directory. |

### Known divergences without a run

The models contain these behaviours; the properties are stated so that they do
not exclude them.

- `docs/module-api-v6.md:210` allows a call id to be reused once its result was
  received. The id is active until the supervisor has processed the write's
  acknowledgement, which the module cannot observe (`ReuseCallIds` in `V6Conformance`).
- A menu is registered after its RPC returned (`bot_send.rs:293`), while the comment
  there relies on registration before the update.
- A bot edit named only by its inline id registers nothing (`v6_host.rs:567`).
- `message.editBot` takes back an entry of the ledger after any failure (`v6_host.rs:592`); if
  another editor writes the same text into the same message, that entry may be the
  other's, and the other's edit is routed as the user's. `OwnEditNeverRouted` and
  `LedgerExact` except such keys (`ArmedKey`).
- The menu ring is asked before the ledger (`updates.rs:884`) and claims every update of a
  menu's message, so an edit of it through `message.edit` leaves its entry behind for good.
- The second attempt of `inline.form` waits for a staged answer that the first query
  took, and can only fail (`bot_send.rs:208`).
- `confirm_update` takes the old generation to be back after every error (the comment at
  `runtime/install.rs:280`, and `installer.rs:290`). It is not when the rejected one cannot be
  removed or the backup cannot be renamed (`RestoreFailed`, `installer.rs:362` and `:367`).
  With a rejected tree left in place, in whole or in part, a process is started from it
  under the old descriptor, and the next boot deletes the backup of the old generation because the
  directory exists (`installer.rs:461`). A crash while the rejected tree is being removed
  ends the same way.
- The removal of a tree that holds a symbolic link always stops halfway; a boot may then
  restore that backup, being the newest (`installer.rs:442`), and the module is found but
  invalid.

### Why the bounds are enough

Queues of one or two entries reach "full" and "empty" at once, which is all the
code distinguishes. Two callers suffice for every pairwise race; a third request
adds one that waits behind a waiting one, and is refused. `V6Process` takes its
request ids from its callers and refuses a duplicate; the callers in the
repository draw fresh ones from a counter (`protocol.rs:1288`), so the shared id of
`lifecycle` is there to exercise that refusal. A child that emits two frames can
answer early, twice, late or wrongly; three frames use up the capacity, exceed it
and reuse an id. Two stoppers race each other, a request and a call in `lifecycle`. `liveness`
takes a request behind another, a call's worker with its full queues, and two stoppers
in three scenarios, because the graph of all together is too large for a temporal
check. In `protocols`, five units of time
let a nested call end before, at and after the moment at which the reply's window
would shrink; two requests leave the answer of a dropped one in the next one's
way. A closure abandoned by one command and one of the next are the overlap that
matters for the receipt; three starts allow a restart, a failed completion and its
repetition; clock values 0..2 with a TTL of 1 make a receipt fresh, expired, and
from the future. A ledger of 3 entries for six edits overflows; three invocations
of two chats share and lose a cached peer handle and exhaust a registry of 3. Two
provision runs and two topic writers overlap on one state file. Two processes
contend for the lock while a third launch follows a kill. Three generations are an old one, an
update that fails and one that replaces what the failure left; one tick expires an approval. The inputs of the pure
algorithms lie on both sides of every limit and take every kind and version.

The bounds on the environment are the constants `Max…` that each module comments
as bounds (`MaxEmits`, `MaxClock`, `MaxStarts`, `MaxUserEdits`, `MaxLives`, `MaxLaunches`,
`MaxKills`, `MaxCommands`, ...); the other numeric constants are the program's own
limits, reduced.

### Fairness

Only Lavis's own steps are fair, each because the code bounds or schedules it:

- `Fairness` (`V6Process`): the supervisor's arms, because `select!` without `biased` polls
  ready arms in random order; a write, which ends by `V6_WRITE_TIMEOUT`; a call, which
  ends by `V6_RPC_TIMEOUT`; the armed deadlines; the code after the loop; a stopper's
  fallback to `terminate()`; the second half of a release. The module, its exit and
  the callers owe nothing.
- `LegacyFairness`: time passes, the reader and the gateway return by their timeouts, the
  kill is followed by the reaping. Writing to the module's stdin is not fair: it has
  no deadline, so `SentRequestEnds` begins when the frame is written.
- `BotFairness`: the steps of a form, whose two requests have timeouts. The poll loop and
  Telegram owe nothing.
- `HostFairness`: the handler in hand, the back-off, the closing steps, and errors of the
  stream for as long as an outage lasts.
- `StoresFairness`: a blocking write that has begun, and the handler that waits for it.

## 4. Proofs

The theorems below hold for every value of the constants that satisfies the named
assumptions. TLC evaluates the assumptions in every run. They ask little: limits
and bounds are naturals (positive where the code's are), sentinels (`None`, `NoMsg`,
`NoOp`, `"free"`, ...) are not members of the sets they stand beside, ids of requests and
calls differ, the sets of edits, of invocations and of `inline.form` calls are finite, folder ids are
positive, commits are numbered and versions are sequences of naturals, and a session
has a sequence of distinct files with the database first.

Each theorem follows one pattern. A strengthened invariant names what the code
relies on beside the property; TLC checks it on a small instance; then `Init` implies it, every action preserves it (one lemma per
action, one step per conjunct that the action can disturb), and it implies the
property.

| Module | Theorems |
|---|---|
| `V6ProcessProofs` | `TypeCorrect`, `ClosingDrains`, `ShutdownIsBarrier`, `FlushesAreDisciplined`, `RequestsAreSequential`, `StopsAreTruthful`, `WorkersStayBounded`, `CallsStayReserved`, `CallsAnsweredOnce`, `HonestModulesAreNotBlamed` |
| `ProtocolProofs` | `LegacyCallsAreSound`, `LegacyImplementsService`; of the pure algorithms `GrantsAlwaysHonoured`, `AcceptedManifestsAreHonoured`, `DiscoveredModulesAreSound`, `RoutingAlwaysSound`, `CommandsAreAuthorised`, `EntitiesStayOnTheirCharacters`, `SourceAlwaysExact`, `DocumentsAcquiredWhole`, `ArchivesStagedExactly`, `FingerprintsDiffer` |
| `CodecProofs` | `CodecAlwaysSound`, `CallsAreAnswered`, `OtherHalvesAreRead`, `BytesComeBack`, `SpellingIsUnique`, `RepliesReachTheModule`, `RawBodiesAreDelivered`, `ReactionsAgree`, `PressesComeBack`, `ChatIdsComeBack`, `RepliesAreBounded`, `PressesEditTheirMessage`, `TokenIsTakenWhole`, `ProtocolsAreSafe` |
| `MessagesProofs` | `OwnEditsNeverRouted`, `LedgerStaysExact`, `HandlesCarryTheirAuthority`, `UpdatesHandledOnce`, `GuessedClosesAreOwn`, `MessagesAreSafe` |
| `RestartsProofs` | `RebootTypeCorrect`, `RestartClaimsAreTrue`, `FailureClaimsAreTrue`, `ReceiptsAreWhole`, `ReceiptsNeverOverwritten`, `SetupKeepsOneBot`, `ProvisioningOwnsItsToken`, `WorkspaceTellsTheTruth`, `FoldersOfTheUserKept`, `StepsOfRestartsAreSafe` |
| `OnlineProofs` | `LogsForwardedOnce`, `SecretsStayPrivate`, `CatalogueIsCurrent`, `UpstreamShownIsTrue`, `OnlineIsSafe` |
| `FilesProofs` | `ModulesAreNeverLost`, `ApprovalsRedeemedInTime`, `DeclaredModulesUntouched`, `StoresAreDurable`, `SessionsAreNeverLost`, `FilesAreSafe` |
| `QueueCounting` | lemmas on how often a message occurs in queues |

### V6Process

- *Types and the barrier.* `TypeCorrect` combines lemmas on the queues
  and on each helper arm by arm. `ShutdownBarrier` speaks of what was written followed by
  what is queued; nothing in it prevents a dispatch from queuing behind a shutdown
  frame. `BarrierInv` adds that a shutdown frame anywhere implies `closing`, that it is
  last in its queue, and that the queue is empty once it is written.
- *Flushes and requests.* The steps are first classified by what they
  do to the channels (`StepEnqueue`, `StepWrite`, `StepAck`, ...; lemma `ActionSteps`), so that each later
  invariant is proved once per class, not per action. `LifecycleInv` joins: ids in the
  pipeline are fresh (`FreshIds`); for each id the frame queued, the acknowledgement
  on its way and the expectation of it add up to one (`FlushInv`, by counting positions in the queues); an
  acknowledgement on its way is that of a written frame (`FlushedInv`); the response
  deadline is armed only once the frame of the request in flight was written
  (`DeadlineInv`).
- *Calls.* `CallInv` counts for each call its worker, completion, result frame and
  acknowledgement: at most one, and only while the id is active. `BusyInv` bounds the
  workers by the active calls, and `AnsweredInv` counts what was delivered, is queued
  or is owed against the calls accepted, as long as the writer works.
- *A module that keeps the contract.* `HonestModulesAreNotBlamed` relates what such a module
  knows, its inbox and its own answers, to what the supervisor believes while frames
  of both are under way. `HonestInv` says that a lifecycle frame not yet answered is that of
  the request in flight or, once closing, of the cancelled one (`CurrentInv`); that every
  frame still to be read is acceptable in whatever state the ones before it leave
  (`FramesInv`: no reply follows a terminal frame, no two calls share an id, an end of
  file only while closing); and that the child leaves only behind the shutdown frame
  (`LeavingInv`). It rests on `BarrierInv`, `OrderlyInv` and `LifecycleInv`. Three hypotheses: a
  `call_id` is used once and the host methods are those of the allow-list, which are
  the two divergences of section 3, and requests with one id expect one type of
  response, which holds because every id is fresh (`protocol.rs:1288`).

### LegacyProcess

`LegacyStrong` states who holds the process mutex at each await and what status and
child then are (`HolderInv`), that requests end in order (`NumberInv`), that a nested call
belongs to the request in service (`NestedInv`), how much time it may have taken
(`WindowInv`), and the conversation that a module which keeps to the protocol can be in
(`ConformInv`): without the last, a crash could not be traced to its cause. `LegacyImplementsService`
maps every step to a step of `SequentialService` or a stutter; the handshake, the lines
and the nested call are invisible there.

### MessageProvenance and HostCalls

`ProvenanceStrong` adds to the exact ledger that an update says what its edit wrote
(`TrueUpdates`), that the run loop awaits an edit under way (`AwaitedInv`), and that entries
cover what is owed even where the menu ring leaves some over (`LedgerCovers`). Entries and
updates are compared by counting positions; every step changes both sides by the
same number (`Balanced`). `CallsStrong` adds to `CallsInv` which handles an invocation
has at each stage (`StageInv`: an invocation mints three at most), that no handle is
known before it is minted (`MintedInv`), and that the peer cache names a handle for
that chat only (`CacheInv`).

### CompanionBot

Consecutive handling needs Telegram's side: `QueueInv` says that its queue ends with the
newest update and holds everything the offset does not confirm, `PollInv` that what was
handled followed by the batch in hand leads up to the offset. `CallInv` says what unstages
a menu: an answer under way has taken the menu of its call, and a call that is sending
has none, so the one that succeeds leaves nothing behind. `RingInv` (a publication ring
holds menus of its own module) carries `GuessedClosesAreOwn`; a menu that is recorded under
another module could be deleted in its place. Of a deletion by chat and message nothing is
claimed, since the code looks at no module there.

### RebootReceipt, CompanionSetup, CompanionWorkspace

- `RebootInv`: every receipt on disk, in memory or read by a closure was linked
  (`LinkInv`, `TasksRecorded`); a message that has not reached "restarting" was never
  linked (`TextInv`); each arm is for a message of its own that says "restarting" and
  has linked nothing before its commit point (`ArmInv`); the awaited arm is the current
  command's (`CommandInv`). The completion runs only before the new process has linked
  anything, and no arm exists then: the receipt it reads comes from an earlier
  start. `CommitInv` adds that a file which is linked was synced (`DiskSynced`) and that
  the outcome a command restarts on is of its own arm.
- `SetupInv` lacks why a late answer or an abandoned write does no harm. `Steady`
  adds that a token is written before the state that needs it (`TokenBeforeState`),
  that the handler, phase and writer belong to one flow (`FlowHeld`), and, as long as
  nothing was written aside from the phase, that there is one writer at most
  (`OneWriter`) and that a held identity is the one on disk (`HeldIdentity`).
- `WorkspaceInv` is not inductive because every copy of the state file must tell the
  truth about the same group, or a save of one would record what never was.
  `WorkspaceSteady` says so of the run (`RunHappened`) and of each topic task (`TasksSettled`),
  that run and file agree on a group once one is recorded (`GroupAgrees`, `GroupPending`,
  `OneGroup`, `GroupKnown`), and that the folder to be updated was planned from the folders as
  read (`FolderPlanned`). The order in which the stages save their flags gives the rest.

### LogForwarder, HostLoop, ModuleCatalog, UpstreamCheck

`LogStrong`: the token file never goes back, and the flag is set before the topic is
asked for. `HostStrong`: what the handler in hand knows of its update, which tasks run
and what has ended. `CatalogStrong`: a module still to be started has no process; the
snapshot offers only what processes in the index declared, alive or not; a running
process has no diagnostic; what a half-made report already knows (`ReportInv`) stays
true, since status and diagnostic are read under two locks. `UpstreamStrong`: what is
shown is true of its own revision whenever it was published (`ShownTrue`), the last
message of each kind that is still queued carries what the worker last resolved
(`LastKnown`), no version is queued before a revision (`VersionAfterRevision`), and the
delays asked for keep the pace (`RetryPaced`). `Ancestors` is a recursive function over the
numbered commits; the lemmas `AncestorsOf` (the commits reached along parents solve
its equation) and `AncestorsCompose` (an ancestor of an ancestor is one) are what lets
a relation read of two different heads be combined.

### ModuleInstall, OwnerStores, LocalSession

- `InstallStrong` says for each step of a command where the generations are (`PlaceInv`),
  that the registered one is whole on disk, and in a backup while its update is tried
  (`HeldInv`, `RegisteredOnDisk`'s strengthening), which process runs under which descriptor
  (`RunInv`), what a crash leaves (`DownInv`), that a tree which is not whole is being
  removed or was left by a removal that ended halfway (`WholeInv`), and that an approval is
  redeemed once (`ApprovedInv`, `InstalledInv`).
- `StoresStrong`: each blocking write has a temporary of its own and writes what a start
  accepts (`WritesInv`); the handler waits for its own write (`HandlerInv`); memory and
  files agree except between a replaced file and the handler that learns of it
  (`DurableInv`); each collision was with a file no write touches again (`CollisionInv`).
- `SessionStrong`: whoever is past the lock holds it (`HeldForm`); a recovery renames onto free
  paths only (`RecoverForm`); a backup being made holds exactly the files moved so far,
  each once (`BackupForm`); at most one staging directory has files (`SessionFiles`).

### The pure algorithms

`MCInputs` evaluates each algorithm on inputs that TLC enumerates. `ProtocolProofs` and, from the
exchanges on, `CodecProofs` prove the promise of an algorithm for every input, and then the run's
property from it:
`EvaluationInv`, and for the codecs and the bot's wire `WireInv`, say that `out`, once set, is the
algorithm's result on `job`; lemmas of the form `TextsTyped` say that the run's inputs are among those
of the theorem.

- *Manifests.* `validate_manifest_at` is a chain of checks that reports the first failure. An
  accepted manifest passed each of them (`FirstFailureOk`, `AcceptedChecks`), so it keeps within
  its protocol (`WithinProtocol`: schema and revision, known capabilities and subscriptions,
  a bounded number of distinct, valid command names); and the checks on methods,
  capabilities and subscriptions are those that `validate_invoke` and the dispatch gate
  repeat later (`Honoured`). `DiscoveredModulesAreSound` says both of everything a discovery finds, in
  directories of any number, and that no entry hides another.
- *Commands.* `RouteSources` lists where an action can come from: the message's own words,
  an alias the owner was allowed to define, or a module of the snapshot.
- *Entities.* The UTF-16 length of a text is a fold. `Utf16Counts` gives its closed form, by
  induction over the finite set of positions; hence the offset of a character grows with its
  position (`BeforeIncreases`) and moves with the beginning of the argument (`BeforeWithin`).
- *Folds.* A loop of the code over a sequence is a fold of the community modules, a
  recursive function on sets of positions. `FoldExists` shows that there is such a function,
  by induction on the size of the set; `FoldPrefixes` turns it into the values after 0, 1, ..., n
  steps, so that what a loop keeps is proved by induction on n.
- *The document* (`DocumentsAcquiredWhole`): the bytes counted so far are the sum of the chunks
  seen so far, unless one was broken or the limit was passed (`PushedPrefixes`).
- *The staged tree* (`ArchivesStagedExactly`): each step of the extraction keeps a tree that is
  closed under parents and adds directories, and a file only at a path that is free
  (`EntryStaged`); so the files of the entries seen so far stand at different paths
  (`ExtractedPrefixes`), and there are as many as were counted.
- *The fingerprint* (`FingerprintsDiffer`): a string begins with its length, a list with its count,
  so what was encoded first can be read back from the front, part by part (`SameString`,
  `SameList`), and the protocol decides whether revision and methods follow.
- *Exchanges* (`CallsAreAnswered`, `OtherHalvesAreRead`): a line with room to spare for its envelope
  (`Roomy`) passes the guards of both sides, so what was accepted can be answered at the same
  revision; for the events of each version, the fields Lavis demands are those its table lists.
- *Base64* (`BytesComeBack`, `SpellingIsUnique`): both directions are a concatenation of pieces, one
  for each quad, of equal length but for the last (`FlatEven`); a quad and its bytes determine each
  other (`QuadComesBack`), where the canonical tail is what makes the spelling unique.
- *Replies* (`RepliesReachTheModule`, `RawBodiesAreDelivered`): the measures of each summary are
  bounded by its caps (`SummariesDeliverable`), and those bounds lie inside the guards of
  `serialize_v6_core_result`; the chunks of a raw reply are counted from its length.
- *Reactions* (`ReactionsAgree`): each condition of `validate_reaction_action` on a well-formed action
  follows from what `parse_event_action` demands in the module's version.
- *The bot's wire*: callback data is split at the first separator, and no module id holds one
  (`PressesComeBack`); the three ranges of chat ids are disjoint for groups below
  `ChannelBase` (`ChatIdsComeBack`); a body's length is a fold that stays at -1 once it passed the
  bound (`BoundedBodyRead`, under `RepliesAreBounded`), and `PressesEditTheirMessage` follows the ids
  from the press to the edit and its ledger entry.
- *The token* (`TokenIsTakenWhole`): an answer is runs of characters, and cutting one at a byte limit
  keeps a prefix (`PrefixKeeps`). A stretch of token characters is a part of the answer that stands
  between others (`StretchIsPiece`), so text which ends apart from the token neither hides nor extends it.

### Only model-checked

- The liveness properties (`RequestsAnswered`, `StopsComplete`, `SentRequestEnds`, `OutageEndsLoop`,
  `MenuContract`'s `FormEnds`, `FilesSteps`' `HandlerEnds`): fairness and `ENABLED` are outside the
  prover's reach.

Every invariant of the passing runs is stated by a theorem, and so is the safety part of each
action property. A composed run shows one of several models in each behaviour; lemmas
(`RestartsShowEachModel`, `FilesShowEachModel`, `OnlineShowsEachModel`, `MessagesShowEachModel`,
`ProtocolsShowTheProcess`) say that such a behaviour is one of each model, since a resting model takes
no step, and `StepsOfRestartsAreSafe`, `FilesAreSafe`, `OnlineIsSafe`, `MessagesAreSafe` and
`ProtocolsAreSafe` carry the models' theorems to the specification that the run checks. That the
operators and actions are the code's is shown by neither: `PROJECT.json` names the lines to compare.

## 5. Hazards

`PROJECT.json` lists them by line with the properties that cover them. One is
described and not covered by a property: a removal, or the discard of an unusable
receipt, unlinks whatever the path names (`reboot_receipt.rs:544`). A closure
abandoned by a timeout can thereby unlink the receipt of a newer command; the
model contains the behaviour, and no line of the repository excludes it.

A v2-v5 module whose start fails leaves no diagnostic: `lm` calls it installed and
disabled, as if it had never been started (`manager.rs:269`).

Smaller ones that nothing in the repository promises to avoid: the cleanup of
temporaries looks at sixteen directory entries only (`reboot_receipt.rs:644`); the
phases of setup that wait for inline mode and the picture have no deadline
(`runtime/mod.rs:413`); the log forwarder keeps its chat and topic until the restart
(`log_forwarder.rs:183`); two onboarding dialogues at once overwrite each other's
credentials (`credentials.rs:175`); a start while `auth doctor` holds the lock is refused
(`session.rs:95`); one module directory whose name is not UTF-8 fails the discovery of
all (`manifest.rs:646`).

## 6. Not modelled

- Presentation (`help.rs`, `i18n.rs`, `info.rs`, `fastfetch.rs`, `response.rs`, `error.rs`): wording and layout.
- Configuration, read once from the environment; packaging.
- The Go modules and the conformance tool: programs of their own. The child of
  `V6Process` does whatever such a module could.
- Network and library code: transport of downloads, HTTP, the login dialogue, and the
  mapping of calls to MTProto types (`setup_grammers.rs`). They are the environment.
- JSON text: a frame is its fields and measures.
- More than two modules at once: every module has a process, handles and a directory of
  its own, and the models speak of one or two.

## 7. Running the checks

    tlc -workers 2 -config MCRestarts.cfg MCRestarts
    tlapm RestartsProofs.tla

`PROJECT.json` names the module of each configuration. The largest run takes about
four minutes.

## 8. Plan

Done: every component of section 1 but the last row, and the proofs of section 4.

Open: a text of BotFather with several candidates for a token, of which the first is taken
(`TokenIsTakenWhole` speaks of texts with one), and summaries of messages whose fields the executor
does not cap, of which the code has none today.
