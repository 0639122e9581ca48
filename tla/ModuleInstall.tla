------------------------------ MODULE ModuleInstall ------------------------------
(***************************************************************************)
(* The life of one external module on disk: acquired and inspected into a  *)
(* private staging wrapper, approved once, installed or updated by renames *)
(* with a backup of the old generation, enabled, started, and reconciled   *)
(* at the next boot.                                                       *)
(*                                                                         *)
(* Commands run one at a time; the process may die between any two file    *)
(* operations.  A generation is one inspected archive.  A definition X_Y   *)
(* that precedes X is a faulty variant of X.                               *)
(***************************************************************************)
EXTENDS Integers, FiniteSets

CONSTANTS
  MaxGen,        \* bound on the archives inspected
  MaxEntries,    \* ApprovalLimits.max_entries
  Ttl,           \* DEFAULT_APPROVAL_TTL, in ticks
  MaxTime,       \* bound on the clock
  RenameFails,   \* whether a rename, the final validation or a removal may fail
  CleanupFails   \* whether removing a staging wrapper may fail

ASSUME InstallAssumption ==
  /\ {MaxGen, MaxEntries, Ttl, MaxTime} \subseteq Nat /\ MaxGen > 0
  /\ {RenameFails, CleanupFails} \subseteq BOOLEAN

VARIABLES
  now,        \* the clock
  approvals,  \* ApprovalStore.entries: generation and expiry
  stage,      \* staging wrappers on disk: generations with a payload, or without
  target,     \* the module directory
  backups,    \* backup directories
  linked,     \* generations whose tree holds a symlink
  descriptor, \* the generation the manager has registered
  process,    \* the generation of the running process
  enabled,    \* the id is in the enabled set on disk
  declared,   \* the id is managed by NixOS
  receipt,    \* the generation the receipt names
  op,         \* the command in progress
  lavisUp,         \* Lavis is running
  hist        \* history: archives inspected, installs of each, last visible, a failed restore,
              \* a removal that ended halfway, the rejected generation a removal left in place

installVars == <<now, approvals, stage, target, backups, linked, descriptor, process, enabled,
                 declared, receipt, op, lavisUp, hist>>
disk == <<stage, target, backups, linked, enabled, receipt>>
inMemory == <<approvals, descriptor, process>>

Gens == 1 .. MaxGen
\* A directory is dated by the inspection that extracted it, or by what has changed it since.
Dir(g) == [gen |-> g, whole |-> TRUE, mtime |-> 2 * g]
Absent == [gen |-> 0, whole |-> TRUE, mtime |-> 0]
Moment == 2 * hist.gen + 1
Partial(d) == [d EXCEPT !.whole = FALSE, !.mtime = Moment]

IdleOp == [at |-> "idle", gen |-> 0, was |-> FALSE, kept |-> 0]
At(step) == lavisUp /\ op.at = step
Goto(step) == op' = [op EXCEPT !.at = step]

InstallTypeOK ==
  /\ now \in 0 .. MaxTime /\ target.gen \in 0 .. MaxGen /\ descriptor \in 0 .. MaxGen
  /\ \A a \in approvals : a.gen \in Gens
  /\ DOMAIN stage \subseteq Gens
  /\ \A b \in backups : b.gen \in Gens
  /\ process \in 0 .. MaxGen /\ receipt \in 0 .. MaxGen

\* No module; or one NixOS manages, whose id is declared, not yet or already in place.
InstallInit ==
  /\ now = 0 /\ approvals = {} /\ stage = [g \in {} |-> "payload"]
  /\ backups = {} /\ linked = {} /\ receipt = 0 /\ op = IdleOp /\ lavisUp = TRUE
  /\ declared \in BOOLEAN /\ enabled \in {FALSE, declared}
  /\ LET g == IF enabled THEN 1 ELSE 0 IN
     /\ target = IF enabled THEN Dir(1) ELSE Absent
     /\ descriptor = g /\ process = g
     /\ hist = [gen |-> g, seen |-> g, installs |-> [h \in Gens |-> 0], broken |-> FALSE,
                cut |-> FALSE, left |-> 0]

-----------------------------------------------------------------------------
(* Approvals.  Every operation of the store first purges what has expired.   *)

IsExpired(a) == now >= a.exp
Live == {a \in approvals : ~IsExpired(a)}

\* Removing a wrapper may fail; what is left is marked for the next boot.
Without(gs) == IF CleanupFails THEN {[g \in DOMAIN stage \ r |-> stage[g]] : r \in SUBSET gs}
               ELSE {[g \in DOMAIN stage \ gs |-> stage[g]]}
Generations(as) == {a.gen : a \in as}

Purge == approvals' = Live /\ stage' \in Without(Generations(approvals \ Live))

Tick == now < MaxTime /\ now' = now + 1
        /\ UNCHANGED <<inMemory, disk, declared, op, lavisUp, hist>>

\* lm and its read-only forms: the sweep is their only effect.
LmQuery ==
  /\ At("idle") /\ approvals # Live /\ Purge
  /\ UNCHANGED <<now, target, backups, linked, descriptor, process, enabled, declared, receipt, op, lavisUp, hist>>

WithPayload(s, g) == [h \in DOMAIN s \cup {g} |-> IF h = g THEN "payload" ELSE s[h]]

\* ApprovalStore::issue: a quota refuses the entry and removes its wrapper.
Issue(g, s) ==
  \/ /\ Cardinality(Live) < MaxEntries
     /\ approvals' = Live \cup {[gen |-> g, exp |-> now + Ttl]}
     /\ stage' = WithPayload(s, g)
  \/ /\ Cardinality(Live) >= MaxEntries /\ approvals' = Live
     /\ stage' \in {s} \cup (IF CleanupFails THEN {WithPayload(s, g)} ELSE {})

\* inspect_module_install: the archive is downloaded, inspected into a marked
\* wrapper and entered in the store, unless a quota refuses it.
InspectModuleInstall ==
  /\ At("idle") /\ hist.gen < MaxGen
  /\ hist' = [hist EXCEPT !.gen = @ + 1]
  /\ \E s \in Without(Generations(approvals \ Live)) : Issue(hist'.gen, s)
  /\ UNCHANGED <<now, target, backups, linked, descriptor, process, enabled, declared, receipt, op, lavisUp>>

CancelModuleInstall(a) ==
  /\ At("idle") /\ a \in Live
  /\ approvals' = Live \ {a} /\ stage' \in Without(Generations(approvals \ Live) \cup {a.gen})
  /\ UNCHANGED <<now, target, backups, linked, descriptor, process, enabled, declared, receipt, op, lavisUp, hist>>

-----------------------------------------------------------------------------
(* confirm_module_install.                                                   *)

\* Redeemed, and refused if the id is declarative.  The descriptor decides
\* between an installation and an update.
Redeemable_Unpurged == approvals
Redeemable == Live

ConfirmModuleInstall(a) ==
  /\ At("idle") /\ a \in Redeemable
  /\ approvals' = Live \ {a}
  /\ \/ /\ declared /\ stage' \in Without(Generations(approvals \ Live) \cup {a.gen}) /\ UNCHANGED op
     \/ /\ ~declared /\ stage' \in Without(Generations(approvals \ Live) \ {a.gen})
        /\ op' = [at |-> IF descriptor = 0 THEN "install" ELSE "stop", gen |-> a.gen,
                  was |-> enabled, kept |-> 0]
  /\ UNCHANGED <<now, target, backups, linked, descriptor, process, enabled, declared, receipt, lavisUp, hist>>

Visible(g) == [hist EXCEPT !.installs[g] = @ + 1, !.seen = g]

\* install_staged_module: rename without replacing, then validate what is
\* visible, else remove it.
InstallStagedModule ==
  /\ At("install")
  /\ \/ /\ target = Absent /\ target' = Dir(op.gen) /\ hist' = Visible(op.gen)
        /\ stage' = [stage EXCEPT ![op.gen] = "empty"] /\ Goto("validate")
     \/ /\ RenameFails \/ target # Absent
        /\ stage' \in Without({op.gen}) /\ op' = IdleOp /\ UNCHANGED <<target, hist>>
  /\ UNCHANGED <<now, inMemory, backups, linked, enabled, declared, receipt, lavisUp>>

ValidateInstalled ==
  /\ At("validate")
  /\ \/ stage' \in Without({op.gen}) /\ Goto("receipt")
     \/ RenameFails /\ Goto("discard") /\ UNCHANGED stage
  /\ UNCHANGED <<now, inMemory, target, backups, linked, enabled, declared, receipt, lavisUp, hist>>

\* remove_tree_no_follow takes one file after the other ...
RemovePart ==
  /\ At("discard") \/ At("remove")
  /\ target.whole /\ target' = Partial(target)
  /\ UNCHANGED <<now, inMemory, stage, backups, linked, enabled, declared, receipt, op, lavisUp, hist>>

\* ... and an error ends it, which leaves the rejected generation, whole or in part.
Rejected == [hist EXCEPT !.cut = @ \/ ~target.whole, !.left = target.gen]

\* The new target goes, or TargetCleanup reports that it did not.
DiscardInstalled ==
  /\ At("discard") /\ stage' \in Without({op.gen}) /\ op' = IdleOp
  /\ \/ target' = Absent /\ hist' = [hist EXCEPT !.seen = 0]
     \/ hist' = Rejected /\ UNCHANGED target
  /\ UNCHANGED <<now, inMemory, backups, linked, enabled, declared, receipt, lavisUp>>

\* The receipt is advisory: its failure is a warning.
WriteReceipt == receipt' \in {receipt, op.gen}

RegisterInstalled ==
  /\ At("receipt") /\ WriteReceipt
  /\ descriptor' = op.gen /\ op' = IdleOp
  /\ UNCHANGED <<now, approvals, stage, target, backups, linked, process, enabled, declared, lavisUp, hist>>

-----------------------------------------------------------------------------
(* confirm_update and update_staged_module.                                  *)

StopModule == At("stop") /\ process' = 0 /\ Goto("backup")
              /\ UNCHANGED <<now, approvals, descriptor, disk, declared, lavisUp, hist>>

\* The wrapper stays where it is when the update fails.
UpdateFailed ==
  /\ op' = IF op.was THEN [op EXCEPT !.at = "restart"] ELSE IdleOp
  /\ UNCHANGED stage

BackupOld ==
  /\ At("backup")
  /\ \/ /\ target # Absent /\ target' = Absent /\ backups' = backups \cup {target}
        /\ op' = [op EXCEPT !.at = "rename", !.kept = target.gen] /\ UNCHANGED stage
     \/ target = Absent /\ Goto("rename") /\ UNCHANGED <<target, backups, stage>>
     \/ RenameFails /\ UpdateFailed /\ UNCHANGED <<target, backups>>
  /\ UNCHANGED <<now, inMemory, linked, enabled, declared, receipt, lavisUp, hist>>

\* The backup this update made.
Kept == {b \in backups : b.gen = op.kept}

\* With the new generation out of the way, what was moved is moved back.
RollBack_Forget == UpdateFailed
RollBack == IF op.kept = 0 THEN UpdateFailed ELSE Goto("back") /\ UNCHANGED stage

RenameNew ==
  /\ At("rename")
  /\ \/ /\ target' = Dir(op.gen) /\ hist' = Visible(op.gen)
        /\ stage' = [stage EXCEPT ![op.gen] = "empty"] /\ Goto("check")
     \/ RenameFails /\ RollBack /\ UNCHANGED <<target, hist>>
  /\ UNCHANGED <<now, inMemory, backups, linked, enabled, declared, receipt, lavisUp>>

ValidateUpdated ==
  /\ At("check")
  /\ \/ stage' \in Without({op.gen}) /\ Goto("prune")
     \/ RenameFails /\ Goto("remove") /\ UNCHANGED stage
  /\ UNCHANGED <<now, inMemory, target, backups, linked, enabled, declared, receipt, lavisUp, hist>>

\* A failed removal ends the update at once: the backup stays where it is.
RemoveRejected ==
  /\ At("remove")
  /\ \/ target' = Absent /\ RollBack /\ UNCHANGED hist
     \/ hist' = Rejected /\ UpdateFailed /\ UNCHANGED target
  /\ UNCHANGED <<now, inMemory, backups, linked, enabled, declared, receipt, lavisUp>>

RestoreOld ==
  /\ At("back") /\ UpdateFailed
  /\ \E b \in Kept :
       \/ target' = b /\ backups' = backups \ {b} /\ hist' = [hist EXCEPT !.seen = b.gen]
       \/ RenameFails /\ hist' = [hist EXCEPT !.broken = TRUE] /\ UNCHANGED <<target, backups>>
  /\ UNCHANGED <<now, inMemory, linked, enabled, declared, receipt, lavisUp>>

\* What may be left of the backups ds after the removal of each: an error ends it,
\* and a symlink always is one.
Remains(ds) ==
  {rest \in SUBSET (ds \cup {Partial(d) : d \in ds}) :
     /\ \A x, y \in rest : x.gen = y.gen => x = y
     /\ \A d \in ds : d.gen \in linked => \E x \in rest : x.gen = d.gen
     /\ RenameFails \/ \A x \in rest : x.gen \in linked}

CutIn(rest) == \E d \in rest : ~d.whole

PruneModuleBackups ==
  /\ At("prune") /\ Goto("register")
  /\ \E rest \in Remains(backups \ Kept) :
       backups' = Kept \cup rest /\ hist' = [hist EXCEPT !.cut = @ \/ CutIn(rest)]
  /\ UNCHANGED <<now, inMemory, stage, target, linked, enabled, declared, receipt, lavisUp>>

ReplaceDescriptor == descriptor' = op.gen

RegisterUpdated ==
  /\ At("register") /\ ReplaceDescriptor
  /\ Goto(IF op.was THEN "start" ELSE "record")
  /\ UNCHANGED <<now, approvals, process, disk, declared, lavisUp, hist>>

\* startup_enabled starts what the directory holds under the registered
\* descriptor; a start may fail.
Started(g) == {0, g}

StartUpdated ==
  /\ At("start") \/ At("restart")
  /\ process' \in Started(target.gen)
  /\ IF op.at = "start" THEN Goto("record") ELSE op' = IdleOp
  /\ UNCHANGED <<now, approvals, descriptor, disk, declared, lavisUp, hist>>

RecordUpdate ==
  /\ At("record") /\ WriteReceipt /\ op' = IdleOp
  /\ UNCHANGED <<now, inMemory, stage, target, backups, linked, enabled, declared, lavisUp, hist>>

-----------------------------------------------------------------------------
(* Enabling, the module's own writes, the process's end and the next boot.   *)

\* list_modules and module_info: what lm, lm info and lm doctor say of the id.
Listed ==
  CASE target # Absent /\ target.whole -> "module" [] target # Absent /\ ~target.whole -> "invalid"
    [] target = Absent /\ enabled -> "missing" [] target = Absent /\ ~enabled -> "none"

CommitEnabled(v) == enabled # v /\ enabled' = v

\* enable_module and disable_module: a valid manifest and a manual id; the
\* running process is left alone.
SetEnabled(v) ==
  /\ At("idle") /\ ~declared /\ Listed = "module" /\ CommitEnabled(v)
  /\ UNCHANGED <<now, inMemory, stage, target, backups, linked, declared, receipt, op, lavisUp, hist>>

\* A running module may leave a symlink in its directory, and so modify it.
ModuleLeavesLink ==
  /\ lavisUp /\ process # 0 /\ process = target.gen /\ process \notin linked
  /\ linked' = linked \cup {process}
  /\ target' \in {target, [target EXCEPT !.mtime = Moment]}
  /\ UNCHANGED <<now, inMemory, stage, backups, enabled, declared, receipt, op, lavisUp, hist>>

\* An orderly stop cleans up the pending approvals' wrappers; a crash does not.
Shutdown ==
  /\ At("idle") /\ lavisUp' = FALSE
  /\ stage' \in Without(Generations(approvals))
  /\ approvals' = {} /\ descriptor' = 0 /\ process' = 0
  /\ UNCHANGED <<now, target, backups, linked, enabled, declared, receipt, op, hist>>

Crash ==
  /\ lavisUp /\ op.at # "idle" /\ lavisUp' = FALSE /\ op' = IdleOp
  /\ approvals' = {} /\ descriptor' = 0 /\ process' = 0
  /\ hist' = [hist EXCEPT !.cut = @ \/ ~target.whole]
  /\ UNCHANGED <<now, disk, declared>>

\* reconcile_module_backups: the newest backup replaces a missing target; if
\* the target is there, in whatever state, or was restored, the other backups go.
Newest == {b \in backups : \A c \in backups : c.mtime <= b.mtime}

ReconcileModuleBackups ==
  \/ backups = {} /\ UNCHANGED <<target, backups, hist>>
  \/ /\ backups # {} /\ target # Absent /\ UNCHANGED target
     /\ backups' \in Remains(backups) /\ hist' = [hist EXCEPT !.cut = @ \/ CutIn(backups')]
  \/ /\ backups # {} /\ target = Absent
     /\ \E b \in Newest :
          /\ target' = b /\ backups' \in Remains(backups \ {b})
          /\ hist' = [hist EXCEPT !.broken = FALSE, !.cut = @ \/ CutIn(backups')]
  \/ /\ backups # {} /\ target = Absent /\ RenameFails
     /\ UNCHANGED <<target, backups>> /\ hist' = [hist EXCEPT !.broken = TRUE]

\* Only wrappers whose marker is intact are removed; every wrapper keeps it
\* until its payload is gone.
CleanupAbandonedWrappers == stage' \in Without(DOMAIN stage)

\* cleanup_abandoned_wrappers, the backups, discovery, startup_enabled.
Boot ==
  /\ ~lavisUp /\ lavisUp' = TRUE /\ CleanupAbandonedWrappers
  /\ ReconcileModuleBackups
  /\ descriptor' = IF target'.whole THEN target'.gen ELSE 0
  /\ process' \in IF enabled THEN Started(descriptor') ELSE {0}
  /\ UNCHANGED <<now, approvals, linked, enabled, declared, receipt, op>>

InstallNext ==
  \/ Tick \/ LmQuery \/ InspectModuleInstall
  \/ \E a \in approvals : CancelModuleInstall(a) \/ ConfirmModuleInstall(a)
  \/ InstallStagedModule \/ ValidateInstalled \/ RemovePart \/ DiscardInstalled \/ RegisterInstalled
  \/ StopModule \/ BackupOld \/ RenameNew \/ ValidateUpdated \/ RemoveRejected \/ RestoreOld
  \/ PruneModuleBackups \/ RegisterUpdated
  \/ StartUpdated \/ RecordUpdate
  \/ \E v \in BOOLEAN : SetEnabled(v)
  \/ ModuleLeavesLink \/ Shutdown \/ Crash \/ Boot

InstallSpec == InstallInit /\ [][InstallNext]_installVars

-----------------------------------------------------------------------------
(* Properties.                                                               *)

\* A module once installed is found again whenever no command is in progress: its
\* directory is there, or the restoring rename failed and a backup waits for the next
\* boot; and the generation found is whole unless the removal of a tree ended halfway
\* (update_staged_module, reconcile_module_backups).
ModuleNeverLost ==
  lavisUp /\ op.at = "idle" /\ hist.seen # 0
    => \/ target # Absent /\ (target.whole \/ hist.cut)
       \/ hist.broken /\ \E b \in backups : b.whole \/ hist.cut

\* Until Lavis restarts, the generation it has registered is whole somewhere on disk,
\* whatever failed in an update: moved, rolled back or not restored, and whatever an
\* earlier failure left in the way.  Only the pruning behind an accepted generation may
\* take it, which is then registered (update_staged_module, prune_module_backups).
RegisteredOnDisk ==
  lavisUp /\ descriptor # 0 /\ op.at # "register"
    => \E d \in backups \cup {target} : d.gen = descriptor /\ d.whole

\* The process that runs was started from the generation on disk, under the
\* descriptor of that generation, so its capabilities are the ones approved
\* (confirm_update stops the old one first and registers before it starts), unless the
\* removal of a rejected generation failed and left that in the directory.
ProcessMatchesDisk ==
  lavisUp /\ op.at = "idle" /\ process # 0
    => process = target.gen /\ target.gen \in {descriptor, hist.left}

\* A live approval can be redeemed: its wrapper still holds the inspected
\* payload (purge, revoke and redeem take the entry and the wrapper together).
ApprovalHasStage ==
  lavisUp => \A a \in approvals : a.gen \in DOMAIN stage /\ stage[a.gen] = "payload"

\* An archive is made visible at most once, and only by an approval that had not
\* expired (ApprovalStore::redeem).
RedeemedInTime ==
  [][/\ \A a \in approvals : ConfirmModuleInstall(a) => now < a.exp
     /\ \A g \in Gens : hist'.installs[g] <= 1]_installVars

\* What NixOS manages is never changed by a command: not its directory, not its
\* enabled state (is_declaratively_managed, enable_module, disable_module).
DeclarativeUntouched ==
  [][declared /\ lavisUp /\ lavisUp'
       => target'.gen = target.gen /\ target'.whole = target.whole /\ enabled' = enabled]_installVars

\* The invariant of module installation: a generation is always found again, the process runs
\* what is on disk, and an approval has its stage.
InstallInv ==
  InstallTypeOK /\ ModuleNeverLost /\ RegisteredOnDisk /\ ProcessMatchesDisk /\ ApprovalHasStage

================================================================================
