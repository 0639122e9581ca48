------------------------------ MODULE ModuleCatalog ------------------------------
(***************************************************************************)
(* Which modules and commands Lavis believes it has: the manager's index   *)
(* of processes with the diagnostics it retains (manager.rs), and the      *)
(* snapshot of it that the runtime routes commands by (runtime/).          *)
(*                                                                         *)
(* The runtime runs one owner command at a time; processes die beside it,  *)
(* and the snapshot is taken anew only where the code says so.  The        *)
(* manager's lock is held for index operations alone, so a start is one    *)
(* step: nothing of it is visible before its result is.                    *)
(*                                                                         *)
(* A definition X_Y that precedes X is a faulty variant of X.              *)
(***************************************************************************)
EXTENDS Integers, FiniteSets

CONSTANTS
  Modules,       \* module ids
  Manifests,     \* descriptors: [protocol, commands, default]
  MaxStarts      \* bound on start attempts of a module

NoCommand == "none"

ASSUME CatalogAssumption ==
  /\ MaxStarts \in Nat
  /\ \A d \in Manifests : d.protocol \in 2 .. 6 /\ d.default \in d.commands \cup {NoCommand}

VARIABLES
  registered,    \* ExternalManager.descriptors, by id
  index,         \* ExternalManager.processes: [descriptor, status, diagnostic, generation]
  retained,      \* latest_diagnostics: the attempt each is of
  attempts,      \* restart_generations
  enabledIds,    \* the enabled set on disk
  externalSnapshot, \* RuntimeState.external_snapshot
  doing,         \* the runtime's command: [at, id, todo]
  warned,        \* external_warnings_announced
  answer         \* the last reply: what ran and what the footer named, or a report

managerVars == <<registered, index, retained, attempts>>
catalogVars == <<managerVars, enabledIds, externalSnapshot, doing, warned, answer>>

Without(f, m) == [x \in DOMAIN f \ {m} |-> f[x]]
With(f, m, v) == [x \in DOMAIN f \cup {m} |-> IF x = m THEN v ELSE f[x]]
Nothing == [x \in {} |-> 0]

Idle == [at |-> "idle", id |-> NoCommand, todo |-> {}]
NoAnswer == [id |-> NoCommand, kind |-> "none", ran |-> Nothing, named |-> Nothing,
             status |-> "none", diagnostic |-> 0]

-----------------------------------------------------------------------------
(* What is read off the manager.                                             *)

Running(ix) == {m \in DOMAIN ix : ix[m].status = "Running"}

\* statuses_from_views: a module without a process has failed if a diagnostic is kept.
StatusOf(m, ix) ==
  CASE m \in Running(ix) -> "Running"
    [] m \in DOMAIN ix /\ ix[m].status \in {"Failed", "Crashed"} -> "Failed"
    [] m \in DOMAIN ix /\ ix[m].status = "Terminated" -> "Terminated"
    [] m \notin DOMAIN ix /\ m \in DOMAIN retained -> "Failed"
    [] m \notin DOMAIN ix /\ m \notin DOMAIN retained -> "InstalledDisabled"

CommandRefs(ix) == UNION {{m} \X ix[m].descriptor.commands : m \in Running(ix)}

\* A process's own descriptor goes before the registered one.
ViewedDescriptors(ix) ==
  [m \in DOMAIN registered |-> IF m \in DOMAIN ix THEN ix[m].descriptor ELSE registered[m]]

ActiveDefaults(ix) ==
  [m \in {r \in Running(ix) : ix[r].descriptor.default # NoCommand} |-> ix[m].descriptor.default]

\* ExternalRuntimeSnapshot::from_manager.
FromManager(ix) ==
  [refs        |-> CommandRefs(ix),
   descriptors |-> ViewedDescriptors(ix),
   statuses    |-> [m \in DOMAIN registered |-> StatusOf(m, ix)],
   defaults    |-> ActiveDefaults(ix)]

\* diagnostic_text: the process's diagnostic, else the retained one; 0 is none.
DiagnosticText(m) ==
  IF m \in DOMAIN index /\ index[m].diagnostic # 0 THEN index[m].diagnostic
  ELSE IF m \in DOMAIN retained THEN retained[m] ELSE 0

RefreshSnapshot == externalSnapshot' = FromManager(index)

-----------------------------------------------------------------------------
(* Starting modules.                                                         *)

\* Lavis starts with what discovery found; the executor of v6 calls is always set.
CatalogInit ==
  /\ \E found \in SUBSET Modules : registered \in [found -> Manifests]
  /\ enabledIds \in SUBSET Modules
  /\ index = Nothing /\ retained = Nothing /\ attempts = [m \in Modules |-> 0]
  /\ externalSnapshot = [refs |-> {}, descriptors |-> Nothing, statuses |-> Nothing, defaults |-> Nothing]
  /\ doing = [at |-> "boot", id |-> NoCommand, todo |-> enabledIds \cap DOMAIN registered]
  /\ warned = {} /\ answer = NoAnswer

ProcessStartKind(d) == IF d.protocol \in 2 .. 5 THEN "legacy" ELSE "v6"

\* A process enters the index and clears the crash history of its id.
AfterStart(m) == Without(retained, m)

Published(m, d, generation) ==
  /\ index' = With(index, m, [descriptor |-> d, status |-> "Running", diagnostic |-> 0,
                              generation |-> generation])
  /\ retained' = AfterStart(m)

StartLegacy(m, d) ==
  /\ UNCHANGED attempts
  /\ \/ Published(m, d, 0)
     \/ UNCHANGED <<index, retained>>                 \* only logged

\* After a failed handshake the diagnostic is kept if the supervisor records it
\* in time.
RetainV6Diagnostic(m, attempt) == {retained, With(retained, m, attempt)}

\* A v6 start counts as an attempt before it is made; if it cannot be spawned
\* its diagnostic is kept.
StartV6(m, d) ==
  /\ attempts' = [attempts EXCEPT ![m] = @ + 1]
  /\ \/ Published(m, d, attempts'[m])
     \/ retained' = With(retained, m, attempts'[m]) /\ UNCHANGED index
     \/ retained' \in RetainV6Diagnostic(m, attempts'[m]) /\ UNCHANGED index

\* startup_enabled, one module of the set.
StartEnabled(m) ==
  /\ doing.at \in {"boot", "start"} /\ m \in doing.todo
  /\ attempts[m] < MaxStarts
  /\ LET d == registered[m]
     IN IF ProcessStartKind(d) = "v6" THEN StartV6(m, d) ELSE StartLegacy(m, d)
  /\ doing' = [doing EXCEPT !.todo = @ \ {m}]
  /\ UNCHANGED <<registered, enabledIds, externalSnapshot, warned, answer>>

\* set_external_manager at boot, refresh_snapshot at the end of an installation
\* or an update.
EndWithRefresh ==
  /\ doing.at \in {"boot", "start"} /\ doing.todo = {}
  /\ RefreshSnapshot /\ doing' = Idle
  /\ UNCHANGED <<managerVars, enabledIds, warned, answer>>

-----------------------------------------------------------------------------
(* Owner commands.                                                           *)

\* lm enable and lm disable change the file only.
SetEnabledId(m) ==
  /\ doing.at = "idle" /\ m \in DOMAIN registered
  /\ enabledIds' = IF m \in enabledIds THEN enabledIds \ {m} ELSE enabledIds \cup {m}
  /\ answer' = NoAnswer
  /\ UNCHANGED <<managerVars, externalSnapshot, doing, warned>>

FreshRuntimeStatus(m) == StatusOf(m, index)

\* lm doctor reads a module's status and then its diagnostic, lm info the other
\* way round; the lock is free in between.
LmDoctor(m) ==
  /\ doing.at = "idle" /\ m \in DOMAIN registered
  /\ answer' = [NoAnswer EXCEPT !.id = m, !.kind = "doctor", !.status = FreshRuntimeStatus(m)]
  /\ doing' = [Idle EXCEPT !.at = "doctor"]
  /\ UNCHANGED <<managerVars, enabledIds, externalSnapshot, warned>>

DoctorDiagnostic ==
  /\ doing.at = "doctor" /\ doing' = Idle
  /\ answer' = [answer EXCEPT !.diagnostic = DiagnosticText(answer.id)]
  /\ UNCHANGED <<managerVars, enabledIds, externalSnapshot, warned>>

LmInfo(m) ==
  /\ doing.at = "idle" /\ m \in DOMAIN registered
  /\ answer' = [NoAnswer EXCEPT !.id = m, !.kind = "info", !.diagnostic = DiagnosticText(m)]
  /\ doing' = [Idle EXCEPT !.at = "info"]
  /\ UNCHANGED <<managerVars, enabledIds, externalSnapshot, warned>>

InfoStatus ==
  /\ doing.at = "info" /\ doing' = Idle
  /\ answer' = [answer EXCEPT !.status = FreshRuntimeStatus(answer.id)]
  /\ UNCHANGED <<managerVars, enabledIds, externalSnapshot, warned>>

\* confirm_fresh_install: the id has no descriptor, so registration succeeds; a
\* new module is not started.
RegisterInstalledDescriptor(m, d) ==
  /\ doing.at = "idle" /\ m \notin DOMAIN registered
  /\ registered' = With(registered, m, d) /\ answer' = NoAnswer
  /\ doing' = [at |-> "start", id |-> m, todo |-> {}]
  /\ UNCHANGED <<index, retained, attempts, enabledIds, externalSnapshot, warned>>

\* confirm_update: the process leaves the index before it is shut down.
StopModuleForUpdate(m) ==
  /\ doing.at = "idle" /\ m \in DOMAIN registered /\ attempts[m] < MaxStarts
  /\ index' = Without(index, m) /\ answer' = NoAnswer
  /\ doing' = [at |-> "update", id |-> m, todo |-> enabledIds \cap {m}]
  /\ UNCHANGED <<registered, retained, attempts, enabledIds, externalSnapshot, warned>>

\* The files are replaced, and then the descriptor, or both are left as they
\* were; in either case an enabled module is started.
ReplaceDescriptorIfUpdated ==
  /\ doing.at = "update" /\ doing' = [doing EXCEPT !.at = "start"]
  /\ \/ \E d \in Manifests : registered' = With(registered, doing.id, d)
     \/ UNCHANGED registered
  /\ UNCHANGED <<index, retained, attempts, enabledIds, externalSnapshot, warned, answer>>

\* resolve_external and resolve_external_default look a command up in the snapshot.
ResolveInSnapshot(m) ==
  /\ doing.at = "idle"
  /\ m \in DOMAIN externalSnapshot.defaults \/ \E r \in externalSnapshot.refs : r[1] = m
  /\ doing' = [at |-> "execute", id |-> m, todo |-> {}] /\ answer' = NoAnswer
  /\ UNCHANGED <<managerVars, enabledIds, externalSnapshot, warned>>

Replied(kind, ran, named) ==
  answer' = [NoAnswer EXCEPT !.id = doing.id, !.kind = kind, !.ran = ran, !.named = named]

\* An error refreshes the snapshot.
AfterError_Keep(ix) == externalSnapshot
AfterError(ix) == FromManager(ix)

\* The text of a module is shown with the name and version the snapshot has for
\* it, and the first time with a warning; an empty text is no reply at all.
ShowResult(m) ==
  /\ UNCHANGED <<index, externalSnapshot>>
  /\ LET known == m \in DOMAIN externalSnapshot.descriptors
     IN \/ Replied("silent", Nothing, Nothing) /\ UNCHANGED warned
        \/ /\ Replied(IF known THEN "result" ELSE "missing", index[m].descriptor,
                      IF known THEN externalSnapshot.descriptors[m] ELSE Nothing)
           /\ warned' = IF known THEN warned \cup {m} ELSE warned

\* execute_external: the process is looked up in the index again.  It may refuse
\* the command and live on, or die of it; both kinds of process set their
\* status before they answer the request.
ExecuteExternal ==
  /\ doing.at = "execute" /\ doing' = Idle
  /\ LET m == doing.id
     IN \/ m \in Running(index) /\ ShowResult(m)
        \/ /\ m \in Running(index)
           /\ Replied("refused", Nothing, Nothing)
           /\ externalSnapshot' = AfterError(index) /\ UNCHANGED <<index, warned>>
        \/ /\ m \in Running(index)
           /\ Replied("ended", Nothing, Nothing)
           /\ index' = [index EXCEPT ![m].status = "Crashed"]
           /\ externalSnapshot' = AfterError(index') /\ UNCHANGED warned
        \/ /\ m \notin Running(index)
           /\ Replied("ended", Nothing, Nothing)
           /\ externalSnapshot' = AfterError(index) /\ UNCHANGED <<index, warned>>
  /\ UNCHANGED <<registered, retained, attempts, enabledIds>>

-----------------------------------------------------------------------------
(* Beside the runtime.                                                       *)

ProcessEnds(m) ==
  /\ m \in Running(index)
  /\ index' = [index EXCEPT ![m].status = "Crashed"]
  /\ UNCHANGED <<registered, retained, attempts, enabledIds, externalSnapshot, doing, warned, answer>>

\* A v6 supervisor builds its diagnostic at the end of its teardown.
RecordDiagnostic(m) ==
  /\ m \in DOMAIN index /\ index[m].status = "Crashed"
  /\ index[m].diagnostic # index[m].generation
  /\ index' = [index EXCEPT ![m].diagnostic = index[m].generation]
  /\ UNCHANGED <<registered, retained, attempts, enabledIds, externalSnapshot, doing, warned, answer>>

\* shutdown_all, after the run loop: the index is emptied before any process is
\* waited for.
ShutdownAll ==
  /\ doing.at = "idle" /\ doing' = [Idle EXCEPT !.at = "down"]
  /\ index' = Nothing
  /\ UNCHANGED <<registered, retained, attempts, enabledIds, externalSnapshot, warned, answer>>

CatalogNext ==
  \/ EndWithRefresh \/ ReplaceDescriptorIfUpdated \/ ExecuteExternal \/ ShutdownAll
  \/ DoctorDiagnostic \/ InfoStatus
  \/ \E m \in Modules :
       \/ StartEnabled(m) \/ SetEnabledId(m) \/ StopModuleForUpdate(m) \/ ResolveInSnapshot(m)
       \/ LmDoctor(m) \/ LmInfo(m) \/ ProcessEnds(m) \/ RecordDiagnostic(m)
       \/ \E d \in Manifests : RegisterInstalledDescriptor(m, d)

CatalogSpec == CatalogInit /\ [][CatalogNext]_catalogVars

-----------------------------------------------------------------------------
(* Properties.                                                               *)

\* Types.
CatalogTypeOK ==
  /\ DOMAIN registered \subseteq Modules /\ DOMAIN index \subseteq DOMAIN registered
  /\ \A m \in DOMAIN index : index[m].status \in {"Running", "Crashed"}
  /\ enabledIds \subseteq Modules /\ warned \subseteq DOMAIN registered
  /\ attempts \in [Modules -> 0 .. MaxStarts]

\* Between commands the snapshot lags behind the manager in one way only: it may
\* still offer commands of a process that has died since.  It misses no command
\* of a running module, and has every module under its present descriptor, so
\* capabilities and event subscriptions are judged by what is installed
\* (set_external_manager, confirm_update, confirm_fresh_install, execute_external).
SnapshotLagsBehindDeathsOnly ==
  doing.at \in {"idle", "execute", "doctor", "info"} =>
    LET current == FromManager(index) IN
    /\ externalSnapshot.descriptors = current.descriptors
    /\ current.refs \subseteq externalSnapshot.refs
    /\ \A r \in externalSnapshot.refs \ current.refs : current.statuses[r[1]] = "Failed"

\* A command that failed because its process had ended, or ended under it, is
\* not offered again (execute_external refreshes on error; the status is set
\* before the request is answered).
FailureWithdraws ==
  answer.kind = "ended" => \A r \in externalSnapshot.refs : r[1] # answer.id

\* A module's text is never shown without its origin, nor under the name or
\* version of another generation than the one that wrote it (execute_external
\* takes them from the snapshot, not from the process).
FooterTrue == answer.kind # "missing" /\ answer.ran = answer.named

\* The crash shown for a module is of its latest process: a running module shows
\* none, and a diagnostic is retained only while no process is in the index
\* (startup_enabled clears it, diagnostic_text falls back to it).
CrashHistoryCurrent ==
  /\ \A m \in Running(index) : DiagnosticText(m) = 0
  /\ DOMAIN retained \cap DOMAIN index = {}
  /\ \A m \in DOMAIN index : index[m].generation \in {0, attempts[m]}

\* A report never shows a crash of a module that is not down: lm info calls a
\* module with a diagnostic failed, and lm doctor calls it running only if it
\* has died since it was asked (lm_info and lm_doctor read in opposite orders).
ReportNotFalse ==
  doing.at = "idle" /\ answer.diagnostic # 0 =>
    /\ FreshRuntimeStatus(answer.id) = "Failed"
    /\ answer.status = "Running" => answer.kind = "doctor"
    /\ answer.status \in {"Running", "Failed"}

\* The invariant of the manager's index and the runtime's snapshot of it.
CatalogInv ==
  /\ CatalogTypeOK /\ SnapshotLagsBehindDeathsOnly /\ FailureWithdraws /\ FooterTrue
  /\ CrashHistoryCurrent /\ ReportNotFalse

=============================================================================
