---------------------------- MODULE RebootReceipt ----------------------------
(***************************************************************************)
(* The `,reboot` command across process restarts: the receipt file of      *)
(* reboot_receipt.rs, the command's steps in updates.rs::process_update,   *)
(* the completion at the next start, and what crashes, power losses and    *)
(* abandoned futures do to them.                                           *)
(*                                                                         *)
(* Every filesystem operation runs in tokio's blocking pool.  When the     *)
(* future that awaits it is dropped (the setup deadline, the 4 s limit on  *)
(* the completion) the blocking closure runs on: it becomes an orphan,     *)
(* which may overlap the operations of a later command.                    *)
(*                                                                         *)
(* A definition X_Y that precedes X is a faulty variant of X.              *)
(***************************************************************************)
EXTENDS Integers

CONSTANTS
  Msgs,         \* messages holding a `,reboot` command
  NoMsg,
  Slots,        \* blocking-pool threads: the operations that can overlap
  NoSlot,
  Ttl,          \* RECEIPT_TTL_MILLIS
  MaxFuture,    \* MAX_FUTURE_MILLIS
  MaxAttempts,  \* REBOOT_RECEIPT_MAX_ATTEMPTS
  MaxClock,     \* bound: the wall clock stays in 0..MaxClock
  MaxStarts     \* bound on process starts

ASSUME RebootAssumption ==
  /\ NoMsg \notin Msgs /\ NoSlot \notin Slots
  /\ Ttl \in Nat /\ MaxFuture \in Nat /\ MaxClock \in Nat
  /\ MaxAttempts \in Nat \ {0} /\ MaxStarts \in Nat

Clock == 0..MaxClock

\* PendingRebootReceipt, with what a power loss would leave of its bytes:
\* "synced" bytes stay, "cached" ones may be torn.
Receipt == [msg : Msgs \cup {NoMsg}, started : Clock, bytes : {"synced", "cached", "torn"}]
NoReceipt == [msg |-> NoMsg, started |-> 0, bytes |-> "synced"]

\* One blocking closure: load_at_blocking, arm_blocking or remove_blocking,
\* the step it is at, the receipt it read or installs, the time it was given,
\* and its temporary file; `out` is its result once `at` is "done".
Task == [op : {"free", "load", "arm", "remove"},
         at : {"cleanup", "read", "write", "sync", "link", "commit", "unlink",
               "syncdir", "done"},
         receipt : Receipt,
         now : Clock,
         temp : {"absent", "cached", "synced"},
         out : {"none", "absent", "pending", "discarded", "armed", "conflict",
                "unknown", "removed", "error"}]

Free == [op |-> "free", at |-> "done", receipt |-> NoReceipt, now |-> 0,
         temp |-> "absent", out |-> "none"]

Texts == {"unsent", "command", "restarting", "completed", "refused", "failed"}

VARIABLES
  pc,       \* where run_loop is (below), or "down"
  starts,   \* process starts so far
  now,      \* SystemClock
  file,     \* pending-reboot.json as the running system sees it
  durable,  \* the directory entry a power loss is certain to leave
  tasks,    \* [Slots -> Task]
  awaited,  \* the slot the run loop awaits, or NoSlot
  cmd,      \* the command message being processed
  held,     \* the receipt the completion loaded
  attempt,  \* edit attempts of this completion
  text,     \* [Msgs -> Texts]: what Telegram shows in each command message
  linked    \* history: [Msgs -> the start in which its receipt was linked, or 0]

diskVars == <<file, durable>>
loopVars == <<pc, awaited, cmd, held, attempt>>
vars == <<loopVars, starts, now, diskVars, tasks, text, linked>>

PC == {"down", "consume_load", "consume_edit", "consume_remove", "serve",
       "lookup", "announce", "arm", "restart"}

Init ==
  /\ pc = "down" /\ starts = 0 /\ now = 0
  /\ file = NoReceipt /\ durable = NoReceipt
  /\ tasks = [s \in Slots |-> Free] /\ awaited = NoSlot
  /\ cmd = NoMsg /\ held = NoReceipt /\ attempt = 0
  /\ text = [m \in Msgs |-> "unsent"]
  /\ linked = [m \in Msgs |-> 0]

-----------------------------------------------------------------------------
(* The blocking closures.                                                    *)

Running(s, op, at) == tasks[s].op = op /\ tasks[s].at = at

Goto(s, at) == tasks' = [tasks EXCEPT ![s].at = at]

Finish(s, out) == tasks' = [tasks EXCEPT ![s].at = "done", ![s].out = out]

\* After the cleanup a closure goes on, or ends with the error of a directory
\* listing that broke off.
Cleaned(k) == {[k EXCEPT !.at = IF k.op = "arm" THEN "write" ELSE "read"],
               [k EXCEPT !.at = "done", !.out = "error"]}

\* cleanup_stale_temporaries_blocking unlinks what it takes for leftovers; it
\* cannot tell them from the temporary of an arm in progress.  It looks at 16
\* directory entries and skips names of fewer than 32 digits, which
\* temporary_path also produces, so any subset may go.
Cleanup(s) ==
  /\ tasks[s].op \in {"load", "arm"} /\ tasks[s].at = "cleanup"
  /\ \E gone \in SUBSET (Slots \ {s}), k \in Cleaned(tasks[s]) :
       tasks' = [t \in Slots |->
                   IF t = s THEN k
                   ELSE [tasks[t] EXCEPT !.temp = IF t \in gone THEN "absent" ELSE @]]
  /\ UNCHANGED <<loopVars, starts, now, diskVars, text, linked>>

\* elapsed_millis refuses a start too far in the future; an elapsed time is
\* never negative (saturating_sub).
TooFarInFuture(r, t) == r.started > t + MaxFuture
Elapsed(r, t) == IF r.started > t THEN 0 ELSE t - r.started

\* What load_at_blocking does with the receipt it read.
Usable(r, t) == r.bytes # "torn" /\ ~TooFarInFuture(r, t) /\ Elapsed(r, t) <= Ttl

LoadRead(s) ==
  /\ Running(s, "load", "read")
  /\ \/ /\ file = NoReceipt
        /\ Finish(s, "absent")
     \/ /\ file # NoReceipt /\ Usable(file, tasks[s].now)
        /\ tasks' = [tasks EXCEPT ![s].at = "done", ![s].out = "pending",
                                  ![s].receipt = file]
     \/ /\ file # NoReceipt /\ ~Usable(file, tasks[s].now)
        /\ Goto(s, "unlink")
     \/ Finish(s, "error")
  /\ UNCHANGED <<loopVars, starts, now, diskVars, text, linked>>

\* remove_blocking, called by remove() and, through discard, by a load: the
\* path is unlinked whatever file it names by then.
Unlink(s) ==
  /\ tasks[s].op \in {"load", "remove"} /\ tasks[s].at = "unlink"
  /\ \/ /\ file # NoReceipt
        /\ file' = NoReceipt
        /\ Goto(s, "syncdir")
     \/ /\ file = NoReceipt
        /\ Finish(s, IF tasks[s].op = "load" THEN "discarded" ELSE "removed")
        /\ UNCHANGED file
     \/ Finish(s, "error") /\ UNCHANGED file
  /\ UNCHANGED <<loopVars, starts, now, durable, text, linked>>

SyncRemoval(s) ==
  /\ tasks[s].op \in {"load", "remove"} /\ tasks[s].at = "syncdir"
  /\ \/ /\ durable' = file
        /\ Finish(s, IF tasks[s].op = "load" THEN "discarded" ELSE "removed")
     \/ Finish(s, "error") /\ UNCHANGED durable      \* DeleteDurabilityUnknown
  /\ UNCHANGED <<loopVars, starts, now, file, text, linked>>

\* arm_blocking: create and write the temporary, sync it ...
ArmWrite_NoSync(s) ==
  /\ Running(s, "arm", "write")
  /\ \/ tasks' = [tasks EXCEPT ![s].at = "link", ![s].temp = "cached"]
     \/ Finish(s, "error")
  /\ UNCHANGED <<loopVars, starts, now, diskVars, text, linked>>

ArmWrite(s) ==
  /\ Running(s, "arm", "write")
  /\ \/ tasks' = [tasks EXCEPT ![s].at = "sync", ![s].temp = "cached"]
     \/ Finish(s, "error")
  /\ UNCHANGED <<loopVars, starts, now, diskVars, text, linked>>

ArmSync(s) ==
  /\ Running(s, "arm", "sync")
  /\ \/ tasks' = [tasks EXCEPT ![s].at = "link",
                               ![s].temp = IF @ = "absent" THEN @ ELSE "synced"]
     \/ Finish(s, "error")
  /\ UNCHANGED <<loopVars, starts, now, diskVars, text, linked>>

\* ... hard-link it to the receipt's path (the commit point), which fails when
\* the path exists or the temporary is gone ...
ArmLink(s) ==
  /\ Running(s, "arm", "link")
  /\ \/ /\ tasks[s].temp # "absent" /\ file = NoReceipt
        /\ file' = [tasks[s].receipt EXCEPT !.bytes = tasks[s].temp]
        /\ linked' = [linked EXCEPT ![tasks[s].receipt.msg] = starts]
        /\ Goto(s, "commit")
     \/ /\ tasks[s].temp # "absent" /\ file # NoReceipt
        /\ Finish(s, "conflict")
        /\ UNCHANGED <<file, linked>>
     \/ Finish(s, "error") /\ UNCHANGED <<file, linked>>
  /\ UNCHANGED <<loopVars, starts, now, durable, text>>

\* ... unlink the temporary and sync the directory.  A failure from here on is
\* ArmDurabilityUnknown, not an ordinary error.
ArmCommit(s) ==
  /\ Running(s, "arm", "commit")
  /\ \/ /\ durable' = file
        /\ Finish(s, "armed") \/ Finish(s, "unknown")
     \/ Finish(s, "unknown") /\ UNCHANGED durable
  /\ UNCHANGED <<loopVars, starts, now, file, text, linked>>

\* The result of a closure nobody awaits is dropped.
Reap(s) ==
  /\ tasks[s].op # "free" /\ tasks[s].at = "done" /\ s # awaited
  /\ tasks' = [tasks EXCEPT ![s] = Free]
  /\ UNCHANGED <<loopVars, starts, now, diskVars, text, linked>>

-----------------------------------------------------------------------------
(* The run loop.                                                             *)

\* Spawn a closure and await it.
Spawn(op, at, r) ==
  \E s \in Slots :
    /\ tasks[s].op = "free"
    /\ tasks' = [tasks EXCEPT ![s] = [op |-> op, at |-> at, receipt |-> r, now |-> now,
                                      temp |-> "absent", out |-> "none"]]
    /\ awaited' = s

\* The awaited closure has returned one of these results.
Returned(outs) ==
  /\ awaited # NoSlot
  /\ tasks[awaited].at = "done" /\ tasks[awaited].out \in outs

Collect == tasks' = [tasks EXCEPT ![awaited] = Free] /\ awaited' = NoSlot

\* An edit that failed may have reached Telegram all the same.
MaybeEdit(m, t) == text' \in {text, [text EXCEPT ![m] = t]}

\* When the process or the future ends while it awaits an edit, Telegram may
\* have applied that edit.
MaybeInFlight ==
  \/ UNCHANGED text
  \/ pc = "announce" /\ text' = [text EXCEPT ![cmd] = "restarting"]
  \/ /\ pc = "consume_edit" /\ ~TooFarInFuture(held, now)
     /\ text' = [text EXCEPT ![held.msg] = "completed"]

ToServe == pc' = "serve" /\ cmd' = NoMsg /\ held' = NoReceipt /\ attempt' = 0

\* run_loop begins with consume_pending_reboot_receipt: load the receipt, ...
BeginRun ==
  /\ starts < MaxStarts
  /\ starts' = starts + 1
  /\ pc' = "consume_load" /\ cmd' = NoMsg /\ held' = NoReceipt /\ attempt' = 0
  /\ UNCHANGED <<now, diskVars, text, linked>>

Start ==
  /\ pc = "down"
  /\ BeginRun
  /\ Spawn("load", "cleanup", NoReceipt)

ConsumeLoaded ==
  /\ pc = "consume_load"
  /\ \/ /\ Returned({"pending"})
        /\ pc' = "consume_edit"
        /\ held' = tasks[awaited].receipt
        /\ UNCHANGED <<cmd, attempt>>
     \/ /\ Returned({"absent", "discarded", "error"})
        /\ ToServe
  /\ Collect
  /\ UNCHANGED <<starts, now, diskVars, text, linked>>

\* ... edit its message, up to MaxAttempts times while the failures are
\* temporary (a temporary failure leaves the receipt in place) ...
RetryLeft_OffByOne == attempt < MaxAttempts

RetryLeft == attempt + 1 < MaxAttempts

ConsumeEdit ==
  /\ pc = "consume_edit"
  /\ \/ /\ TooFarInFuture(held, now)                    \* the clock went back
        /\ ToServe
        /\ UNCHANGED <<tasks, awaited, text>>
     \/ /\ ~TooFarInFuture(held, now)
        /\ \/ text' = [text EXCEPT ![held.msg] = "completed"]         \* Applied
           \/ MaybeEdit(held.msg, "completed")         \* AlreadyApplied, Terminal
        /\ Spawn("remove", "unlink", NoReceipt)
        /\ pc' = "consume_remove"
        /\ UNCHANGED <<cmd, held, attempt>>
     \/ /\ ~TooFarInFuture(held, now)
        /\ MaybeEdit(held.msg, "completed")                           \* Temporary
        /\ IF RetryLeft
           THEN attempt' = attempt + 1 /\ UNCHANGED <<pc, cmd, held>>
           ELSE ToServe
        /\ UNCHANGED <<tasks, awaited>>
  /\ UNCHANGED <<starts, now, diskVars, linked>>

\* ... and remove the receipt, whatever the removal reports.
ConsumeRemoved ==
  /\ pc = "consume_remove"
  /\ Returned({"removed", "error"})
  /\ Collect /\ ToServe
  /\ UNCHANGED <<starts, now, diskVars, text, linked>>

\* REBOOT_RECEIPT_COMPLETION_TIMEOUT: the completion is dropped; its closure,
\* if one runs, is not.
ConsumeTimeout ==
  /\ pc \in {"consume_load", "consume_edit", "consume_remove"}
  /\ ToServe /\ awaited' = NoSlot /\ MaybeInFlight
  /\ UNCHANGED <<starts, now, diskVars, tasks, linked>>

\* A qualifying `,reboot` arrives: look for a receipt first.
Reboot(m) ==
  /\ pc = "serve" /\ text[m] = "unsent"
  /\ pc' = "lookup" /\ cmd' = m
  /\ text' = [text EXCEPT ![m] = "command"]
  /\ Spawn("load", "cleanup", NoReceipt)
  /\ UNCHANGED <<held, attempt, starts, now, diskVars, linked>>

\* Where the command ends when it is refused.
AfterRefusal_Complete ==
  /\ pc' = "consume_edit" /\ held' = tasks[awaited].receipt
  /\ cmd' = NoMsg /\ attempt' = 0

AfterRefusal == ToServe

LookedUp ==
  /\ pc = "lookup"
  /\ \/ /\ Returned({"pending"})
        /\ MaybeEdit(cmd, "refused") /\ AfterRefusal
     \/ /\ Returned({"error"})
        /\ MaybeEdit(cmd, "refused") /\ ToServe
     \/ /\ Returned({"absent", "discarded"})
        /\ \/ pc' = "announce" /\ UNCHANGED <<cmd, held, attempt, text>>
           \/ MaybeEdit(cmd, "refused") /\ ToServe          \* peer_ref failed
  /\ Collect
  /\ UNCHANGED <<starts, now, diskVars, linked>>

\* Edit the message to "restarting" and, if that succeeded, arm a receipt.
Announce ==
  /\ pc = "announce"
  /\ \/ /\ text' = [text EXCEPT ![cmd] = "restarting"]
        /\ Spawn("arm", "cleanup", [msg |-> cmd, started |-> now, bytes |-> "cached"])
        /\ pc' = "arm"
        /\ UNCHANGED <<cmd, held, attempt>>
     \/ /\ text' \in {text, [text EXCEPT ![cmd] = "restarting"], [text EXCEPT ![cmd] = "failed"]}
        /\ ToServe                                         \* StartFailed
        /\ UNCHANGED <<tasks, awaited>>
  /\ UNCHANGED <<starts, now, diskVars, linked>>

\* Only an armed receipt, or one that may be armed, restarts the process.
RestartOutcomes_ArmedOnly == {"armed"}

RestartOutcomes == {"armed", "unknown"}

Armed ==
  /\ pc = "arm"
  /\ \/ /\ Returned(RestartOutcomes)
        /\ pc' = "restart"
        /\ UNCHANGED <<cmd, held, attempt, text>>
     \/ /\ Returned({"armed", "unknown", "conflict", "error"} \ RestartOutcomes)
        /\ MaybeEdit(cmd, "failed") /\ ToServe             \* ReceiptArmFailed
  /\ Collect
  /\ UNCHANGED <<starts, now, diskVars, linked>>

\* The setup deadline drops process_update at an await.
SetupTimeout ==
  /\ pc \in {"lookup", "announce", "arm"}
  /\ ToServe /\ awaited' = NoSlot /\ MaybeInFlight
  /\ UNCHANGED <<starts, now, diskVars, tasks, linked>>

\* restart_current_process execs: the closures die with the old image.  The
\* same path restarts on a persistent failure of the update stream.
Exec ==
  /\ pc \in {"restart", "serve"}
  /\ BeginRun
  /\ \E s \in Slots :
       /\ tasks' = [t \in Slots |->
                      IF t = s THEN [Free EXCEPT !.op = "load", !.at = "cleanup", !.now = now]
                               ELSE Free]
       /\ awaited' = s

\* The process ends anywhere: Ctrl-C, a failed shutdown or exec, a kill.
Crash ==
  /\ pc # "down"
  /\ pc' = "down" /\ awaited' = NoSlot /\ cmd' = NoMsg /\ held' = NoReceipt /\ attempt' = 0
  /\ tasks' = [s \in Slots |-> Free] /\ MaybeInFlight
  /\ UNCHANGED <<starts, now, diskVars, linked>>

\* The machine loses power: unsynced directory changes may be lost, unsynced
\* bytes torn.
Torn(r) == {r} \cup (IF r.bytes = "cached" THEN {[r EXCEPT !.bytes = "torn"]} ELSE {})

PowerLoss ==
  /\ pc' = "down" /\ awaited' = NoSlot /\ cmd' = NoMsg /\ held' = NoReceipt /\ attempt' = 0
  /\ tasks' = [s \in Slots |-> Free] /\ MaybeInFlight
  /\ \E r \in Torn(file) \cup Torn(durable) : file' = r /\ durable' = r
  /\ UNCHANGED <<starts, now, linked>>

\* Time passes; the wall clock may also be set, forwards or back.
SetClock ==
  /\ now' \in Clock \ {now}
  /\ UNCHANGED <<loopVars, starts, diskVars, tasks, text, linked>>

BlockingStep(s) ==
  \/ Cleanup(s) \/ LoadRead(s) \/ Unlink(s) \/ SyncRemoval(s)
  \/ ArmWrite(s) \/ ArmSync(s) \/ ArmLink(s) \/ ArmCommit(s) \/ Reap(s)

LoopStep ==
  \/ ConsumeLoaded \/ ConsumeEdit \/ ConsumeRemoved
  \/ LookedUp \/ Announce \/ Armed

Next ==
  \/ \E s \in Slots : BlockingStep(s)
  \/ LoopStep
  \/ Start \/ ConsumeTimeout \/ SetupTimeout \/ Exec \/ Crash \/ PowerLoss \/ SetClock
  \/ \E m \in Msgs : Reboot(m)

Spec == Init /\ [][Next]_vars

-----------------------------------------------------------------------------
(* Properties.                                                               *)

TypeOK ==
  /\ pc \in PC /\ starts \in 0..MaxStarts /\ now \in Clock
  /\ file \in Receipt /\ durable \in Receipt
  /\ tasks \in [Slots -> Task] /\ awaited \in Slots \cup {NoSlot}
  /\ cmd \in Msgs \cup {NoMsg} /\ held \in Receipt
  /\ attempt \in 0..(MaxAttempts - 1)
  /\ text \in [Msgs -> Texts]
  /\ linked \in [Msgs -> 0..MaxStarts]

\* A message says "restarted" only after its receipt was armed and a later
\* process start has happened: no sequence of abandoned operations, refusals
\* and crashes lets the process that took the command claim the restart.
CompletedMeansRestarted ==
  \A m \in Msgs : text[m] = "completed" => linked[m] # 0 /\ starts > linked[m]

\* A message that says the restart could not be started has no receipt on disk
\* and will never get one, so it is never turned into "restarted" later: the
\* commit point of arm_blocking and the outcomes process_update restarts on
\* agree.
FailedMeansNoReceipt ==
  \A m \in Msgs : text[m] = "failed" =>
    /\ file.msg # m /\ durable.msg # m /\ held.msg # m
    /\ \A s \in Slots : tasks[s].op = "arm" => tasks[s].receipt.msg # m

\* Whatever is lost by a crash or a power loss, the receipt at the final path
\* is never torn: its bytes are synced before it is linked.
InstalledReceiptIsWhole == file.bytes # "torn" /\ durable.bytes # "torn"

\* Outside a power loss an installed receipt is only ever removed: arming
\* never replaces the receipt of another command, even when an abandoned arm
\* overlaps a new one.
NeverOverwritten ==
  [][PowerLoss \/ file = NoReceipt \/ file' \in {file, NoReceipt}]_vars

\* The process goes down to restart for a command only if that command's own
\* receipt was linked by this very process: a conflict with the receipt of an
\* earlier command, or a failure before the commit point, keeps it running.
RestartOnlyWhenLinked == pc = "restart" => cmd \in Msgs /\ linked[cmd] = starts

\* The receipt on disk is whole, and a restart is asked for only by the command that linked it.
ReceiptInv == InstalledReceiptIsWhole /\ RestartOnlyWhenLinked

=============================================================================
