-------------------------- MODULE RestartsProofs --------------------------
(***************************************************************************)
(* What survives a restart.  What the messages of `,reboot` claim is true, *)
(* for every number of messages, overlapping blocking operations, starts   *)
(* and clock values; and the setup dialogue records at most one companion  *)
(* bot, provisioned with its own token, for every set of names and every   *)
(* number of flows, restarts and answers under way.  The record of the     *)
(* companion's workspace says only what Telegram has seen, and the user's  *)
(* own folders are kept, for every folder list and number of runs.         *)
(***************************************************************************)
EXTENDS MCRestarts, FiniteSetTheorems,
        SequenceTheorems, WellFoundedInduction, NaturalsInduction, TLAPS

Ats == {"cleanup", "read", "write", "sync", "link", "commit", "unlink", "syncdir", "done"}
Outs == {"none", "absent", "pending", "discarded", "armed", "conflict",
         "unknown", "removed", "error"}

\* Changing the step, the result or the temporary of one task keeps the type of
\* `tasks`.
LEMMA TaskUpdate ==
  ASSUME NEW f \in [Slots -> Task], NEW s \in Slots, NEW a \in Ats, NEW o \in Outs,
         NEW p \in {"absent", "cached", "synced"}, NEW r \in Receipt
  PROVE  /\ [f EXCEPT ![s].at = a] \in [Slots -> Task]
         /\ [f EXCEPT ![s].at = a, ![s].out = o] \in [Slots -> Task]
         /\ [f EXCEPT ![s].at = a, ![s].temp = p] \in [Slots -> Task]
         /\ [f EXCEPT ![s].at = a, ![s].out = o, ![s].receipt = r] \in [Slots -> Task]
<1>0. f[s] \in Task
  OBVIOUS
<1>1. [f[s] EXCEPT !.at = a] \in Task
  BY <1>0 DEF Task, Ats
<1>2. [f[s] EXCEPT !.at = a, !.out = o] \in Task
  BY <1>0 DEF Task, Ats, Outs
<1>3. [f[s] EXCEPT !.at = a, !.temp = p] \in Task
  BY <1>0 DEF Task, Ats
<1>4. [f[s] EXCEPT !.at = a, !.out = o, !.receipt = r] \in Task
  BY <1>0 DEF Task, Ats, Outs
<1>5. [f EXCEPT ![s].at = a] \in [Slots -> Task]
  BY <1>1
<1>6. [f EXCEPT ![s].at = a, ![s].out = o] \in [Slots -> Task]
  BY <1>2
<1>7. [f EXCEPT ![s].at = a, ![s].temp = p] \in [Slots -> Task]
  BY <1>3
<1>8. [f EXCEPT ![s].at = a, ![s].out = o, ![s].receipt = r] \in [Slots -> Task]
  BY <1>4
<1> QED BY <1>5, <1>6, <1>7, <1>8

\* The absent receipt is a receipt record.
LEMMA NoReceiptType == NoReceipt \in Receipt
BY RebootAssumption DEF NoReceipt, Receipt, Clock

\* An idle pool slot is a task record.
LEMMA FreeType == Free \in Task
BY RebootAssumption, NoReceiptType DEF Free, Task, Clock

\* Freeing a slot keeps the type of `tasks`.
LEMMA FreeUpdate ==
  ASSUME NEW f \in [Slots -> Task], NEW s
  PROVE  [f EXCEPT ![s] = Free] \in [Slots -> Task]
BY FreeType

\* A new task has the type of a task.
LEMMA NewTaskType ==
  ASSUME NEW op \in {"load", "arm", "remove"}, NEW a \in Ats, NEW r \in Receipt, now \in Clock
  PROVE  [op |-> op, at |-> a, receipt |-> r, now |-> now, temp |-> "absent", out |-> "none"]
           \in Task
BY DEF Task, Ats

\* Spawning a closure and awaiting it keeps the types of both.
LEMMA SpawnType ==
  ASSUME TypeOK, NEW op \in {"load", "arm", "remove"}, NEW a \in Ats, NEW r \in Receipt,
         Spawn(op, a, r)
  PROVE  tasks' \in [Slots -> Task] /\ awaited' \in Slots \cup {NoSlot}
<1>1. PICK s \in Slots :
        /\ tasks' = [tasks EXCEPT ![s] =
                       [op |-> op, at |-> a, receipt |-> r, now |-> now,
                        temp |-> "absent", out |-> "none"]]
        /\ awaited' = s
  BY DEF Spawn
<1>2. [op |-> op, at |-> a, receipt |-> r, now |-> now, temp |-> "absent", out |-> "none"]
        \in Task
  BY NewTaskType DEF TypeOK
<1> QED BY <1>1, <1>2 DEF TypeOK

\* Taking the awaited result keeps the types of both.
LEMMA CollectType ==
  ASSUME TypeOK, Collect
  PROVE  tasks' \in [Slots -> Task] /\ awaited' \in Slots \cup {NoSlot}
BY FreeUpdate DEF TypeOK, Collect

\* Returning to the update stream leaves the loop well-formed.
LEMMA ServeType ==
  ASSUME ToServe
  PROVE  pc' \in PC /\ cmd' \in Msgs \cup {NoMsg} /\ held' \in Receipt
         /\ attempt' \in 0..(MaxAttempts - 1)
BY RebootAssumption, NoReceiptType DEF ToServe, PC

\* A closure that returns keeps the type of `tasks`.
LEMMA FinishType ==
  ASSUME tasks \in [Slots -> Task], NEW s \in Slots, NEW o \in Outs, Finish(s, o)
  PROVE  tasks' \in [Slots -> Task]
<1>1. "done" \in Ats /\ "absent" \in {"absent", "cached", "synced"}
  BY DEF Ats
<1> QED BY <1>1, TaskUpdate, NoReceiptType DEF Finish

\* A closure that goes on keeps the type of `tasks`.
LEMMA GotoType ==
  ASSUME tasks \in [Slots -> Task], NEW s \in Slots, NEW a \in Ats, Goto(s, a)
  PROVE  tasks' \in [Slots -> Task]
<1>1. "none" \in Outs /\ "absent" \in {"absent", "cached", "synced"}
  BY DEF Outs
<1> QED BY <1>1, TaskUpdate, NoReceiptType DEF Goto

-----------------------------------------------------------------------------
(* Type correctness.                                                         *)

\* The file system steps change only the tasks, the two directory views and,
\* at the commit point, the history.
LEMMA BlockingType ==
  ASSUME TypeOK, NEW s \in Slots, BlockingStep(s)
  PROVE  TypeOK'
<1>t. tasks \in [Slots -> Task] /\ file \in Receipt /\ durable \in Receipt
      /\ linked \in [Msgs -> 0..MaxStarts] /\ starts \in 0..MaxStarts
  BY DEF TypeOK
<1>e. NoReceipt \in Receipt /\ tasks[s] \in Task /\ tasks[s].receipt \in Receipt
  BY <1>t, NoReceiptType DEF Task
<1>o. /\ "error" \in Outs /\ "absent" \in Outs /\ "pending" \in Outs /\ "discarded" \in Outs
      /\ "removed" \in Outs /\ "conflict" \in Outs /\ "armed" \in Outs /\ "unknown" \in Outs
      /\ "done" \in Ats /\ "unlink" \in Ats /\ "syncdir" \in Ats /\ "link" \in Ats
      /\ "commit" \in Ats /\ "sync" \in Ats
  BY DEF Ats, Outs
<1>f. SUFFICES /\ tasks' \in [Slots -> Task] /\ file' \in Receipt /\ durable' \in Receipt
               /\ linked' \in [Msgs -> 0..MaxStarts]
               /\ UNCHANGED <<loopVars, starts, now, text>>
  BY DEF TypeOK, loopVars
<1> USE DEF diskVars
<1>1. CASE Cleanup(s)
  <2>1. PICK gone \in SUBSET (Slots \ {s}), k \in Cleaned(tasks[s]) :
          tasks' = [t \in Slots |->
                      IF t = s THEN k
                      ELSE [tasks[t] EXCEPT !.temp = IF t \in gone THEN "absent" ELSE @]]
    BY <1>1 DEF Cleanup
  <2>2. \A t \in Slots : [tasks[t] EXCEPT !.temp = IF t \in gone THEN "absent" ELSE @] \in Task
    BY <1>t DEF Task
  <2>3. k \in Task
    BY <1>e DEF Cleaned, Task
  <2>4. tasks' \in [Slots -> Task]
    BY <2>1, <2>2, <2>3
  <2> QED BY <1>1, <2>4, <1>t DEF Cleanup
<1>2. CASE LoadRead(s)
  <2>1. CASE tasks' = [tasks EXCEPT ![s].at = "done", ![s].out = "pending",
                                    ![s].receipt = file]
    BY <1>2, <2>1, <1>t, <1>o, TaskUpdate DEF LoadRead
  <2>2. CASE Finish(s, "absent") \/ Finish(s, "error") \/ Goto(s, "unlink")
    BY <1>2, <2>2, <1>t, <1>o, FinishType, GotoType DEF LoadRead
  <2> QED BY <1>2, <2>1, <2>2 DEF LoadRead
<1>3. CASE Unlink(s)
  BY <1>3, <1>t, <1>e, <1>o, FinishType, GotoType DEF Unlink
<1>4. CASE SyncRemoval(s)
  BY <1>4, <1>t, <1>e, <1>o, FinishType DEF SyncRemoval
<1>5. CASE ArmWrite(s)
  <2>1. CASE tasks' = [tasks EXCEPT ![s].at = "sync", ![s].temp = "cached"]
    BY <1>5, <2>1, <1>t, <1>e, <1>o, TaskUpdate DEF ArmWrite
  <2> QED BY <1>5, <2>1, <1>t, <1>o, FinishType DEF ArmWrite
<1>6. CASE ArmSync(s)
  <2>1. (IF tasks[s].temp = "absent" THEN tasks[s].temp ELSE "synced")
          \in {"absent", "cached", "synced"}
    OBVIOUS
  <2>2. CASE tasks' = [tasks EXCEPT ![s].at = "link",
                               ![s].temp = IF @ = "absent" THEN @ ELSE "synced"]
    BY <1>6, <2>1, <2>2, <1>t, <1>e, <1>o, TaskUpdate DEF ArmSync
  <2> QED BY <1>6, <2>2, <1>t, <1>o, FinishType DEF ArmSync
<1>7. CASE ArmLink(s)
  <2>1. tasks[s].temp # "absent" => [tasks[s].receipt EXCEPT !.bytes = tasks[s].temp] \in Receipt
    <3>1. tasks[s].temp \in {"absent", "cached", "synced"}
      BY <1>e DEF Task
    <3> QED BY <3>1, <1>e DEF Receipt
  <2>2. [linked EXCEPT ![tasks[s].receipt.msg] = starts] \in [Msgs -> 0..MaxStarts]
    BY <1>t
  <2>3. UNCHANGED <<loopVars, starts, now, text, durable>>
    BY <1>7 DEF ArmLink
  <2>4. tasks' \in [Slots -> Task]
    BY <1>7, <1>t, <1>o, FinishType, GotoType DEF ArmLink
  <2>5. file' \in Receipt /\ linked' \in [Msgs -> 0..MaxStarts]
    BY <1>7, <1>t, <2>1, <2>2 DEF ArmLink
  <2> QED BY <2>3, <2>4, <2>5, <1>t
<1>8. CASE ArmCommit(s)
  <2>1. tasks' \in [Slots -> Task]
    BY <1>8, <1>t, <1>o, FinishType DEF ArmCommit
  <2>2. durable' \in {file, durable} /\ UNCHANGED <<loopVars, starts, now, file, text, linked>>
    BY <1>8 DEF ArmCommit
  <2> QED BY <2>1, <2>2, <1>t
<1>9. CASE Reap(s)
  BY <1>9, <1>t, FreeUpdate DEF Reap
<1> QED BY <1>1, <1>2, <1>3, <1>4, <1>5, <1>6, <1>7, <1>8, <1>9 DEF BlockingStep

\* An edit, certain or not, keeps the type of the messages.
LEMMA EditType ==
  ASSUME TypeOK, NEW m, NEW t \in Texts, text' \in {text, [text EXCEPT ![m] = t]}
  PROVE  text' \in [Msgs -> Texts]
BY DEF TypeOK

\* An edit applied while its editor ends writes a known text.
LEMMA InFlightType ==
  ASSUME TypeOK, MaybeInFlight
  PROVE  text' \in [Msgs -> Texts]
<1>1. "restarting" \in Texts /\ "completed" \in Texts
  BY DEF Texts
<1> QED BY <1>1, EditType DEF MaybeInFlight, TypeOK

\* Every step of the run loop and its environment.
LEMMA LoopType ==
  ASSUME TypeOK,
         LoopStep \/ Start \/ ConsumeTimeout \/ SetupTimeout \/ Exec \/ Crash \/ PowerLoss
           \/ SetClock \/ \E m \in Msgs : Reboot(m)
  PROVE  TypeOK'
<1>n. NoReceipt \in Receipt /\ tasks \in [Slots -> Task] /\ Free \in Task
  BY NoReceiptType, FreeType DEF TypeOK
<1>t. /\ "completed" \in Texts /\ "refused" \in Texts /\ "failed" \in Texts
      /\ "restarting" \in Texts /\ "command" \in Texts
  BY DEF Texts
<1>a. "cleanup" \in Ats /\ "unlink" \in Ats
  BY DEF Ats
<1>z. 0 \in 0..(MaxAttempts - 1)
  BY RebootAssumption
<1>1. CASE ConsumeLoaded
  <2>1. tasks' \in [Slots -> Task] /\ awaited' \in Slots \cup {NoSlot}
    BY <1>1, CollectType DEF ConsumeLoaded
  <2>2. UNCHANGED <<starts, now, file, durable, text, linked>>
    BY <1>1 DEF ConsumeLoaded, diskVars
  <2>3. CASE Returned({"pending"}) /\ pc' = "consume_edit" /\ held' = tasks[awaited].receipt
             /\ UNCHANGED <<cmd, attempt>>
    <3>1. held' \in Receipt
      BY <2>3, <1>n DEF Returned, Task, TypeOK
    <3> QED BY <2>1, <2>2, <2>3, <3>1 DEF TypeOK, PC
  <2>4. CASE ToServe
    BY <2>1, <2>2, <2>4, ServeType DEF TypeOK
  <2> QED BY <1>1, <2>3, <2>4 DEF ConsumeLoaded
<1>2. CASE ConsumeEdit
  <2>1. UNCHANGED <<starts, now, file, durable, linked>>
    BY <1>2 DEF ConsumeEdit, diskVars
  <2>2. text' \in [Msgs -> Texts]
    BY <1>2, <1>t, EditType DEF ConsumeEdit, MaybeEdit, TypeOK
  <2>3. tasks' \in [Slots -> Task] /\ awaited' \in Slots \cup {NoSlot}
    BY <1>2, <1>a, <1>n, SpawnType DEF ConsumeEdit, TypeOK
  <2>4. CASE ToServe
    BY <2>1, <2>2, <2>3, <2>4, ServeType DEF TypeOK
  <2>5. CASE pc' = "consume_remove" /\ UNCHANGED <<cmd, held, attempt>>
    BY <2>1, <2>2, <2>3, <2>5 DEF TypeOK, PC
  <2>6. CASE RetryLeft /\ attempt' = attempt + 1 /\ UNCHANGED <<pc, cmd, held>>
    BY <2>1, <2>2, <2>3, <2>6, RebootAssumption DEF TypeOK, RetryLeft
  <2> QED BY <1>2, <2>4, <2>5, <2>6 DEF ConsumeEdit
<1>3. CASE ConsumeRemoved
  BY <1>3, CollectType, ServeType DEF ConsumeRemoved, TypeOK, diskVars
<1>4. CASE LookedUp
  <2>1. tasks' \in [Slots -> Task] /\ awaited' \in Slots \cup {NoSlot}
    BY <1>4, CollectType DEF LookedUp
  <2>2. UNCHANGED <<starts, now, file, durable, linked>>
    BY <1>4 DEF LookedUp, diskVars
  <2>3. text' \in [Msgs -> Texts]
    BY <1>4, <1>t, EditType DEF LookedUp, MaybeEdit, TypeOK
  <2>4. CASE ToServe
    BY <2>1, <2>2, <2>3, <2>4, ServeType DEF TypeOK
  <2>5. CASE pc' = "announce" /\ UNCHANGED <<cmd, held, attempt, text>>
    BY <2>1, <2>2, <2>3, <2>5 DEF TypeOK, PC
  <2> QED BY <1>4, <2>4, <2>5 DEF LookedUp, AfterRefusal
<1>5. CASE Announce
  <2>2. UNCHANGED <<starts, now, file, durable, linked>>
    BY <1>5 DEF Announce, diskVars
  <2>3. text' \in [Msgs -> Texts]
    BY <1>5, <1>t DEF Announce, TypeOK
  <2>4. CASE ToServe /\ UNCHANGED <<tasks, awaited>>
    BY <2>2, <2>3, <2>4, ServeType DEF TypeOK
  <2>5. CASE /\ pc' = "arm" /\ UNCHANGED <<cmd, held, attempt>>
             /\ Spawn("arm", "cleanup", [msg |-> cmd, started |-> now, bytes |-> "cached"])
    <3>1. [msg |-> cmd, started |-> now, bytes |-> "cached"] \in Receipt
      BY DEF TypeOK, Receipt
    <3>2. tasks' \in [Slots -> Task] /\ awaited' \in Slots \cup {NoSlot}
      BY <2>5, <3>1, <1>a, SpawnType
    <3> QED BY <2>2, <2>3, <2>5, <3>2 DEF TypeOK, PC
  <2> QED BY <1>5, <2>4, <2>5 DEF Announce
<1>6. CASE Armed
  <2>1. tasks' \in [Slots -> Task] /\ awaited' \in Slots \cup {NoSlot}
    BY <1>6, CollectType DEF Armed
  <2>2. UNCHANGED <<starts, now, file, durable, linked>>
    BY <1>6 DEF Armed, diskVars
  <2>3. text' \in [Msgs -> Texts]
    BY <1>6, <1>t, EditType DEF Armed, MaybeEdit, TypeOK
  <2>4. CASE ToServe
    BY <2>1, <2>2, <2>3, <2>4, ServeType DEF TypeOK
  <2>5. CASE pc' = "restart" /\ UNCHANGED <<cmd, held, attempt, text>>
    BY <2>1, <2>2, <2>3, <2>5 DEF TypeOK, PC
  <2> QED BY <1>6, <2>4, <2>5 DEF Armed
<1>7. CASE Start
  <2>1. tasks' \in [Slots -> Task] /\ awaited' \in Slots \cup {NoSlot}
    BY <1>7, <1>a, <1>n, SpawnType DEF Start
  <2> QED BY <1>7, <2>1, <1>n, <1>z, RebootAssumption DEF Start, BeginRun, TypeOK, PC, diskVars
<1>8. CASE Exec
  <2>1. [Free EXCEPT !.op = "load", !.at = "cleanup", !.now = now] \in Task
    BY <1>n DEF Task, TypeOK
  <2>2. tasks' \in [Slots -> Task] /\ awaited' \in Slots \cup {NoSlot}
    BY <1>8, <2>1, <1>n DEF Exec
  <2> QED BY <1>8, <2>2, <1>n, <1>z, RebootAssumption DEF Exec, BeginRun, TypeOK, PC, diskVars
<1>9. CASE ConsumeTimeout \/ SetupTimeout
  BY <1>9, ServeType, InFlightType DEF ConsumeTimeout, SetupTimeout, TypeOK, diskVars
<1>10. CASE Crash
  BY <1>10, <1>n, <1>z, InFlightType DEF Crash, TypeOK, PC, diskVars
<1>11. CASE PowerLoss
  <2>1. \A r \in Receipt : Torn(r) \subseteq Receipt
    BY DEF Torn, Receipt
  <2>2. file' \in Receipt /\ durable' \in Receipt
    BY <1>11, <2>1 DEF PowerLoss, TypeOK
  <2> QED BY <1>11, <2>2, <1>n, <1>z, InFlightType DEF PowerLoss, TypeOK, PC
<1>12. CASE SetClock
  BY <1>12 DEF SetClock, TypeOK, loopVars, diskVars
<1>13. ASSUME NEW m \in Msgs, Reboot(m) PROVE TypeOK'
  <2>1. tasks' \in [Slots -> Task] /\ awaited' \in Slots \cup {NoSlot}
    BY <1>13, <1>a, <1>n, SpawnType DEF Reboot
  <2> QED BY <1>13, <2>1, <1>t DEF Reboot, TypeOK, PC, diskVars
<1> QED BY <1>1, <1>2, <1>3, <1>4, <1>5, <1>6, <1>7, <1>8, <1>9, <1>10, <1>11, <1>12, <1>13
        DEF LoopStep

\* Every step, or stutter, keeps the types.
LEMMA TypeStep ==
  ASSUME TypeOK, [Next]_vars
  PROVE  TypeOK'
<1>1. CASE UNCHANGED vars
  BY <1>1 DEF TypeOK, vars, loopVars, diskVars
<1> QED BY <1>1, BlockingType, LoopType DEF Next

\* The initial state is well-formed.
LEMMA TypeInit == Init => TypeOK
<1> SUFFICES ASSUME Init PROVE TypeOK
  OBVIOUS
<1>1. tasks \in [Slots -> Task]
  BY FreeType DEF Init
<1> QED BY <1>1, NoReceiptType, RebootAssumption DEF Init, TypeOK, PC, Clock, Texts

\* Every reachable state of the receipt, the tasks and the run loop is
\* well-formed.
THEOREM RebootTypeCorrect == Spec => []TypeOK
BY TypeInit, TypeStep, PTL DEF Spec

-----------------------------------------------------------------------------
(* The inductive invariant behind what the messages claim.  The receipt of a  *)
(* message is linked at most once, and only while the message says            *)
(* "restarting"; every receipt the process reads was linked; and a completion *)
(* runs only before the new process has linked anything.                      *)

\* The process has accepted no command since it started.
NoCommandYet == pc \in {"down", "consume_load", "consume_edit", "consume_remove"}

Recorded(r) == r.msg \in Msgs => linked[r.msg] # 0

\* An arm that has not linked its receipt, or failed to.
Unlinked(k) ==
  \/ k.at \in {"cleanup", "write", "sync", "link"}
  \/ k.at = "done" /\ k.out \in {"conflict", "error"}

LinkInv ==
  /\ \A m \in Msgs : linked[m] <= starts
  /\ pc # "down" => starts # 0
  /\ Recorded(file) /\ Recorded(durable) /\ Recorded(held)
  /\ pc \in {"consume_load", "consume_edit", "consume_remove"} => \A m \in Msgs : linked[m] < starts

TasksRecorded == \A s \in Slots : tasks[s].op # "arm" => Recorded(tasks[s].receipt)

TextInv ==
  \A m \in Msgs :
    /\ text[m] = "completed" => linked[m] # 0 /\ linked[m] < starts
    /\ text[m] \in {"unsent", "command", "refused", "failed"} => linked[m] = 0

\* Of the arms in a family of tasks: each is for a message of its own that says
\* "restarting", and has linked nothing before its commit point.
ArmsFor(ts, tx) ==
  \A s \in Slots : ts[s].op = "arm" =>
    /\ ts[s].receipt.msg \in Msgs
    /\ tx[ts[s].receipt.msg] = "restarting"
    /\ Unlinked(ts[s]) => linked[ts[s].receipt.msg] = 0
    /\ \A t \in Slots : t # s /\ ts[t].op = "arm" => ts[t].receipt.msg # ts[s].receipt.msg

ArmInv ==
  /\ ArmsFor(tasks, text)
  /\ NoCommandYet => \A s \in Slots : tasks[s].op # "arm"

CommandInv ==
  /\ pc \in {"lookup", "announce"} => cmd \in Msgs /\ text[cmd] = "command"
  /\ pc = "arm" => /\ awaited \in Slots /\ tasks[awaited].op = "arm"
                   /\ tasks[awaited].receipt.msg = cmd

RebootInv == TypeOK /\ LinkInv /\ TasksRecorded /\ TextInv /\ ArmInv /\ CommandInv

\* A slot's step that links nothing: what it holds afterwards is no arm and was
\* read from the file or held before, or is the same arm, no further back.
QuietSlot(t) ==
  \/ /\ tasks'[t].op # "arm"
     /\ \/ tasks'[t].receipt \in {NoReceipt, file}
        \/ tasks[t].op # "arm" /\ tasks'[t].receipt = tasks[t].receipt
  \/ /\ tasks[t].op = "arm" /\ tasks'[t].op = "arm"
     /\ tasks'[t].receipt = tasks[t].receipt
     /\ Unlinked(tasks'[t]) => Unlinked(tasks[t])

\* Quiet steps keep every receipt recorded and every arm where it was.
LEMMA QuietTasks ==
  ASSUME RebootInv, \A t \in Slots : QuietSlot(t), linked' = linked
  PROVE  TasksRecorded' /\ ArmsFor(tasks', text)
<1>1. Recorded(NoReceipt)
  BY RebootAssumption DEF Recorded, NoReceipt
<1>2. TasksRecorded'
  BY <1>1 DEF RebootInv, LinkInv, TasksRecorded, QuietSlot, Recorded
<1>3. ArmsFor(tasks', text)
  BY DEF RebootInv, ArmInv, ArmsFor, QuietSlot
<1> QED BY <1>2, <1>3

\* Setting the step and the result of one task, when that is no step back.
LEMMA QuietUpdate ==
  ASSUME TypeOK, NEW s \in Slots, NEW k, tasks' = [tasks EXCEPT ![s] = k],
         \/ /\ k.op # "arm"
            /\ \/ k.receipt \in {NoReceipt, file}
               \/ tasks[s].op # "arm" /\ k.receipt = tasks[s].receipt
         \/ /\ tasks[s].op = "arm" /\ k.op = "arm" /\ k.receipt = tasks[s].receipt
            /\ Unlinked(k) => Unlinked(tasks[s])
  PROVE  \A t \in Slots : QuietSlot(t)
<1> SUFFICES ASSUME NEW t \in Slots PROVE QuietSlot(t)
  OBVIOUS
<1>1. tasks \in [Slots -> Task]
  BY DEF TypeOK
<1>2. CASE t = s
  <2>1. tasks'[t] = k
    BY <1>1, <1>2
  <2> QED BY <2>1, <1>2 DEF QuietSlot
<1>3. CASE t # s
  <2>1. tasks'[t] = tasks[t]
    BY <1>1, <1>3
  <2> QED BY <2>1 DEF QuietSlot
<1> QED BY <1>2, <1>3

\* A finished task: it had not linked unless it reports so.
LEMMA QuietFinish ==
  ASSUME TypeOK, NEW s \in Slots, NEW o, Finish(s, o),
         tasks[s].op = "arm" /\ o \in {"conflict", "error"} => Unlinked(tasks[s])
  PROVE  \A t \in Slots : QuietSlot(t)
<1> DEFINE k == [tasks[s] EXCEPT !.at = "done", !.out = o]
<1>1. tasks \in [Slots -> Task] /\ tasks[s] \in Task
  BY DEF TypeOK
<1>2. tasks' = [tasks EXCEPT ![s] = k]
  BY <1>1 DEF Finish
<1>3. k.op = tasks[s].op /\ k.receipt = tasks[s].receipt /\ k.at = "done" /\ k.out = o
  BY <1>1 DEF Task
<1>4. tasks[s].op = "arm" /\ Unlinked(k) => Unlinked(tasks[s])
  BY <1>3 DEF Unlinked
<1> HIDE DEF k
<1> QED BY <1>2, <1>3, <1>4, QuietUpdate

\* A task that moves on, before its commit point if it is an arm.
LEMMA QuietGoto ==
  ASSUME TypeOK, NEW s \in Slots, NEW a, NEW p,
         \/ tasks' = [tasks EXCEPT ![s].at = a]
         \/ tasks' = [tasks EXCEPT ![s].at = a, ![s].temp = p],
         tasks[s].op = "arm" => Unlinked(tasks[s])
  PROVE  \A t \in Slots : QuietSlot(t)
<1>1. tasks \in [Slots -> Task] /\ tasks[s] \in Task
  BY DEF TypeOK
<1>2. CASE tasks' = [tasks EXCEPT ![s].at = a]
  <2> DEFINE k == [tasks[s] EXCEPT !.at = a]
  <2>1. tasks' = [tasks EXCEPT ![s] = k]
    BY <1>1, <1>2
  <2>2. k.op = tasks[s].op /\ k.receipt = tasks[s].receipt
    BY <1>1 DEF Task
  <2> HIDE DEF k
  <2> QED BY <2>1, <2>2, QuietUpdate
<1>3. CASE tasks' = [tasks EXCEPT ![s].at = a, ![s].temp = p]
  <2> DEFINE k == [tasks[s] EXCEPT !.at = a, !.temp = p]
  <2>1. tasks' = [tasks EXCEPT ![s] = k]
    BY <1>1, <1>3
  <2>2. k.op = tasks[s].op /\ k.receipt = tasks[s].receipt
    BY <1>1 DEF Task
  <2> HIDE DEF k
  <2> QED BY <2>1, <2>2, QuietUpdate
<1> QED BY <1>2, <1>3

\* Freeing a slot links nothing.
LEMMA QuietFree ==
  ASSUME TypeOK, NEW s, tasks' = [tasks EXCEPT ![s] = Free]
  PROVE  \A t \in Slots : QuietSlot(t)
<1> SUFFICES ASSUME NEW t \in Slots PROVE QuietSlot(t)
  OBVIOUS
<1>1. tasks'[t] = Free \/ tasks'[t] = tasks[t]
  BY DEF TypeOK
<1> QED BY <1>1 DEF QuietSlot, Free

\* Spawning a load or a removal links nothing.
LEMMA QuietSpawn ==
  ASSUME TypeOK, NEW op \in {"load", "remove"}, NEW a, Spawn(op, a, NoReceipt)
  PROVE  \A t \in Slots : QuietSlot(t)
<1>1. PICK s \in Slots :
        tasks' = [tasks EXCEPT ![s] = [op |-> op, at |-> a, receipt |-> NoReceipt,
                                       now |-> now, temp |-> "absent", out |-> "none"]]
  BY DEF Spawn
<1> QED BY <1>1, QuietUpdate

\* Every blocking step but a successful link is quiet, keeps the awaited task
\* an arm of the same receipt, and leaves on disk only what was there.
LEMMA BlockingQuiet ==
  ASSUME RebootInv, NEW s \in Slots, BlockingStep(s),
         ~(ArmLink(s) /\ linked' # linked)
  PROVE  /\ \A t \in Slots : QuietSlot(t)
         /\ linked' = linked
         /\ file' \in {file, NoReceipt} /\ durable' \in {file, durable}
         /\ awaited \in Slots /\ tasks[awaited].op = "arm"
              => /\ tasks'[awaited].op = "arm"
                 /\ tasks'[awaited].receipt = tasks[awaited].receipt
<1>t. TypeOK /\ tasks \in [Slots -> Task] /\ tasks[s] \in Task
  BY DEF RebootInv, TypeOK
<1> USE DEF diskVars
<1>a. ASSUME NEW k, tasks' = [tasks EXCEPT ![s] = k],
             tasks[s].op = "arm" => k.op = "arm" /\ k.receipt = tasks[s].receipt
      PROVE  awaited \in Slots /\ tasks[awaited].op = "arm"
               => /\ tasks'[awaited].op = "arm"
                  /\ tasks'[awaited].receipt = tasks[awaited].receipt
  BY <1>a, <1>t
<1>b. ASSUME NEW o, Finish(s, o)
      PROVE  awaited \in Slots /\ tasks[awaited].op = "arm"
               => /\ tasks'[awaited].op = "arm"
                  /\ tasks'[awaited].receipt = tasks[awaited].receipt
  BY <1>b, <1>t DEF Finish, Task
<1>c. ASSUME NEW a, NEW p,
             \/ tasks' = [tasks EXCEPT ![s].at = a]
             \/ tasks' = [tasks EXCEPT ![s].at = a, ![s].temp = p]
      PROVE  awaited \in Slots /\ tasks[awaited].op = "arm"
               => /\ tasks'[awaited].op = "arm"
                  /\ tasks'[awaited].receipt = tasks[awaited].receipt
  BY <1>c, <1>t DEF Task
<1>1. CASE Cleanup(s)
  <2>0. UNCHANGED <<linked, file, durable>>
    BY <1>1 DEF Cleanup
  <2>u. tasks[s].at = "cleanup" /\ Unlinked(tasks[s])
    BY <1>1 DEF Cleanup, Unlinked
  <2>1. PICK gone \in SUBSET (Slots \ {s}), k \in Cleaned(tasks[s]) :
          tasks' = [t \in Slots |->
                      IF t = s THEN k
                      ELSE [tasks[t] EXCEPT !.temp = IF t \in gone THEN "absent" ELSE @]]
    BY <1>1 DEF Cleanup
  <2>2. k.op = tasks[s].op /\ k.receipt = tasks[s].receipt
    BY <1>t DEF Cleaned, Task
  <2>3. ASSUME NEW t \in Slots
        PROVE  /\ tasks'[t].op = tasks[t].op
               /\ tasks'[t].receipt = tasks[t].receipt
               /\ Unlinked(tasks'[t]) => Unlinked(tasks[t])
    <3>0. tasks[t] \in Task
      BY <1>t
    <3>1. CASE t = s
      BY <2>1, <2>2, <2>u, <3>1
    <3>2. CASE t # s
      <4>1. tasks'[t] = [tasks[t] EXCEPT !.temp = IF t \in gone THEN "absent" ELSE @]
        BY <2>1, <3>2
      <4>2. /\ tasks'[t].op = tasks[t].op /\ tasks'[t].receipt = tasks[t].receipt
            /\ tasks'[t].at = tasks[t].at /\ tasks'[t].out = tasks[t].out
        BY <4>1, <3>0 DEF Task
      <4> QED BY <4>2 DEF Unlinked
    <3> QED BY <3>1, <3>2
  <2> QED BY <2>0, <2>3 DEF QuietSlot
<1>2. CASE LoadRead(s)
  <2>0. UNCHANGED <<linked, file, durable>> /\ tasks[s].op = "load"
    BY <1>2 DEF LoadRead, Running
  <2>1. CASE tasks' = [tasks EXCEPT ![s].at = "done", ![s].out = "pending",
                                    ![s].receipt = file]
    <3> DEFINE k == [tasks[s] EXCEPT !.at = "done", !.out = "pending", !.receipt = file]
    <3>1. tasks' = [tasks EXCEPT ![s] = k]
      BY <2>1, <1>t
    <3>2. k.op = "load" /\ k.receipt = file
      BY <2>0, <1>t DEF Task
    <3> HIDE DEF k
    <3> QED BY <2>0, <3>1, <3>2, <1>t, <1>a, QuietUpdate
  <2>2. CASE Finish(s, "absent") \/ Finish(s, "error")
    BY <2>0, <2>2, <1>t, <1>b, QuietFinish
  <2>3. CASE Goto(s, "unlink")
    BY <2>0, <2>3, <1>t, <1>c, QuietGoto DEF Goto
  <2> QED BY <1>2, <2>1, <2>2, <2>3 DEF LoadRead
<1>3. CASE Unlink(s)
  <2>0. UNCHANGED <<linked, durable>> /\ tasks[s].op # "arm" /\ file' \in {file, NoReceipt}
    BY <1>3 DEF Unlink
  <2>1. CASE Finish(s, "error") \/ Finish(s, IF tasks[s].op = "load" THEN "discarded" ELSE "removed")
    BY <2>0, <2>1, <1>t, <1>b, QuietFinish
  <2>2. CASE Goto(s, "syncdir")
    BY <2>0, <2>2, <1>t, <1>c, QuietGoto DEF Goto
  <2> QED BY <1>3, <2>1, <2>2 DEF Unlink
<1>4. CASE SyncRemoval(s)
  <2>0. UNCHANGED <<linked, file>> /\ tasks[s].op # "arm" /\ durable' \in {file, durable}
    BY <1>4 DEF SyncRemoval
  <2>1. CASE Finish(s, "error") \/ Finish(s, IF tasks[s].op = "load" THEN "discarded" ELSE "removed")
    BY <2>0, <2>1, <1>t, <1>b, QuietFinish
  <2> QED BY <1>4, <2>1 DEF SyncRemoval
<1>5. CASE ArmWrite(s)
  <2>0. UNCHANGED <<linked, file, durable>> /\ Unlinked(tasks[s])
    BY <1>5 DEF ArmWrite, Running, Unlinked
  <2>1. CASE Finish(s, "error")
    BY <2>0, <2>1, <1>t, <1>b, QuietFinish
  <2>2. CASE tasks' = [tasks EXCEPT ![s].at = "sync", ![s].temp = "cached"]
    BY <2>0, <2>2, <1>t, <1>c, QuietGoto
  <2> QED BY <1>5, <2>1, <2>2 DEF ArmWrite
<1>6. CASE ArmSync(s)
  <2>0. UNCHANGED <<linked, file, durable>> /\ Unlinked(tasks[s])
    BY <1>6 DEF ArmSync, Running, Unlinked
  <2>1. CASE Finish(s, "error")
    BY <2>0, <2>1, <1>t, <1>b, QuietFinish
  <2>2. CASE tasks' = [tasks EXCEPT ![s].at = "link",
                               ![s].temp = IF @ = "absent" THEN @ ELSE "synced"]
    <3>1. tasks' = [tasks EXCEPT ![s].at = "link",
             ![s].temp = IF tasks[s].temp = "absent" THEN tasks[s].temp ELSE "synced"]
      BY <2>2, <1>t
    <3> QED BY <2>0, <3>1, <1>t, <1>c, QuietGoto
  <2> QED BY <1>6, <2>1, <2>2 DEF ArmSync
<1>7. CASE ArmLink(s)
  <2>0. linked' = linked /\ durable' = durable /\ Unlinked(tasks[s])
    BY <1>7 DEF ArmLink, Running, Unlinked
  <2>1. CASE (Finish(s, "error") \/ Finish(s, "conflict")) /\ UNCHANGED file
    BY <2>0, <2>1, <1>t, <1>b, QuietFinish
  <2>2. CASE linked' = [linked EXCEPT ![tasks[s].receipt.msg] = starts]
    <3>0. tasks[s].op = "arm" /\ tasks[s].at = "link"
      BY <1>7 DEF ArmLink, Running
    <3>1. tasks[s].receipt.msg \in Msgs /\ linked[tasks[s].receipt.msg] = 0
      BY <2>0, <3>0 DEF RebootInv, ArmInv, ArmsFor
    <3>2. starts # 0
      BY <3>0 DEF RebootInv, ArmInv, NoCommandYet, LinkInv
    <3> QED BY <2>0, <2>2, <3>1, <3>2 DEF RebootInv, TypeOK
  <2> QED BY <1>7, <2>1, <2>2 DEF ArmLink
<1>8. CASE ArmCommit(s)
  <2>0. UNCHANGED <<linked, file>> /\ durable' \in {file, durable}
    BY <1>8 DEF ArmCommit
  <2>1. Finish(s, "armed") \/ Finish(s, "unknown")
    BY <1>8 DEF ArmCommit
  <2> QED BY <2>0, <2>1, <1>t, <1>b, QuietFinish
<1>9. CASE Reap(s)
  <2>0. UNCHANGED <<linked, file, durable>> /\ s # awaited
        /\ tasks' = [tasks EXCEPT ![s] = Free]
    BY <1>9 DEF Reap
  <2>1. awaited \in Slots => tasks'[awaited] = tasks[awaited]
    BY <2>0, <1>t
  <2> QED BY <2>0, <2>1, <1>t, QuietFree
<1> QED BY <1>1, <1>2, <1>3, <1>4, <1>5, <1>6, <1>7, <1>8, <1>9 DEF BlockingStep

\* A blocking closure touches neither the run loop nor any message.
LEMMA BlockingFrame ==
  ASSUME NEW s \in Slots, BlockingStep(s)
  PROVE  UNCHANGED <<pc, awaited, cmd, held, starts, text>>
BY DEF BlockingStep, Cleanup, LoadRead, Unlink, SyncRemoval, ArmWrite, ArmSync, ArmLink,
       ArmCommit, Reap, loopVars

\* A blocking step that links nothing keeps the invariant.
LEMMA BlockingKeeps ==
  ASSUME RebootInv, NEW s \in Slots, BlockingStep(s), ~(ArmLink(s) /\ linked' # linked)
  PROVE  RebootInv'
<1>1. TypeOK'
  BY BlockingType DEF RebootInv
<1>2. UNCHANGED <<pc, awaited, cmd, held, starts, text, linked>>
  BY BlockingFrame, BlockingQuiet
<1>3. TasksRecorded' /\ ArmsFor(tasks', text)
  BY <1>2, BlockingQuiet, QuietTasks
<1>4. LinkInv'
  <2>1. Recorded(NoReceipt)
    BY RebootAssumption DEF Recorded, NoReceipt
  <2> QED BY <1>2, <2>1, BlockingQuiet DEF RebootInv, LinkInv, Recorded
<1>5. TextInv'
  BY <1>2 DEF RebootInv, TextInv
<1>6. ArmInv'
  <2>1. ArmsFor(tasks, text)'
    BY <1>2, <1>3 DEF ArmsFor
  <2>2. NoCommandYet' => \A t \in Slots : tasks'[t].op # "arm"
    BY <1>2, BlockingQuiet DEF RebootInv, ArmInv, NoCommandYet, QuietSlot
  <2> QED BY <2>1, <2>2 DEF ArmInv
<1>7. CommandInv'
  BY <1>2, BlockingQuiet DEF RebootInv, CommandInv
<1> QED BY <1>1, <1>3, <1>4, <1>5, <1>6, <1>7 DEF RebootInv

\* The commit point: the receipt of a message that says "restarting", linked
\* nowhere before, appears; no other arm is for that message.
LEMMA LinkKeeps ==
  ASSUME RebootInv, NEW s \in Slots, ArmLink(s), linked' # linked
  PROVE  RebootInv'
<1> DEFINE m == tasks[s].receipt.msg
<1>t. TypeOK /\ tasks \in [Slots -> Task] /\ tasks[s] \in Task /\ tasks[s].receipt \in Receipt
      /\ linked \in [Msgs -> 0..MaxStarts]
  BY DEF RebootInv, TypeOK, Task
<1>0. /\ file' = [tasks[s].receipt EXCEPT !.bytes = tasks[s].temp]
      /\ linked' = [linked EXCEPT ![m] = starts]
      /\ Goto(s, "commit")
      /\ UNCHANGED <<pc, awaited, cmd, held, starts, text, durable>>
      /\ tasks[s].op = "arm" /\ tasks[s].at = "link"
  BY DEF ArmLink, Running, loopVars
<1>1. TypeOK'
  BY <1>t, BlockingType DEF BlockingStep
<1>2. /\ m \in Msgs /\ text[m] = "restarting" /\ linked[m] = 0
      /\ \A t \in Slots : t # s /\ tasks[t].op = "arm" => tasks[t].receipt.msg # m
      /\ ~NoCommandYet /\ starts # 0
  BY <1>0 DEF RebootInv, ArmInv, ArmsFor, Unlinked, NoCommandYet, LinkInv
<1>3. file'.msg = m
  BY <1>0, <1>t DEF Receipt
<1>4. linked'[m] = starts /\ \A n \in Msgs : n # m => linked'[n] = linked[n]
  BY <1>0, <1>2, <1>t
<1>5. \A r : Recorded(r) => (r.msg \in Msgs => linked'[r.msg] # 0)
  BY <1>2, <1>4 DEF Recorded
<1>6. /\ tasks'[s].op = "arm" /\ tasks'[s].receipt = tasks[s].receipt /\ tasks'[s].at = "commit"
      /\ \A t \in Slots : t # s => tasks'[t] = tasks[t]
  BY <1>0, <1>t DEF Goto, Task
<1> HIDE DEF m
<1>7. LinkInv'
  <2>1. starts \in Nat
    BY <1>t, RebootAssumption DEF TypeOK
  <2>2. \A n \in Msgs : linked'[n] <= starts'
    BY <1>0, <1>4, <2>1 DEF RebootInv, LinkInv
  <2>3. Recorded(file)' /\ Recorded(durable)' /\ Recorded(held)'
    BY <1>0, <1>2, <1>3, <1>4, <1>5 DEF RebootInv, LinkInv, Recorded
  <2> QED BY <1>0, <1>2, <2>2, <2>3 DEF LinkInv, NoCommandYet
<1>8. TasksRecorded'
  BY <1>5, <1>6 DEF RebootInv, TasksRecorded, Recorded
<1>9. TextInv'
  BY <1>0, <1>2, <1>4 DEF RebootInv, TextInv
<1>10. ArmInv'
  <2>1. \A t \in Slots : tasks'[t].op = tasks[t].op /\ tasks'[t].receipt = tasks[t].receipt
    BY <1>0, <1>6
  <2>2. \A t \in Slots : tasks[t].op = "arm" /\ Unlinked(tasks'[t])
                            => t # s /\ Unlinked(tasks[t]) /\ tasks[t].receipt.msg # m
    BY <1>2, <1>6 DEF Unlinked
  <2>3. ArmsFor(tasks, text)'
    BY <2>1, <2>2, <1>0, <1>4 DEF RebootInv, ArmInv, ArmsFor
  <2> QED BY <2>3, <1>0, <1>2 DEF ArmInv, NoCommandYet
<1>11. CommandInv'
  BY <1>0, <1>6 DEF RebootInv, CommandInv
<1> QED BY <1>1, <1>7, <1>8, <1>9, <1>10, <1>11 DEF RebootInv

\* What the history allows a message without an arm to say.
Sayable(n) ==
  /\ \A s \in Slots : tasks'[s].op = "arm" => tasks'[s].receipt.msg # n
  /\ text'[n] = "completed" => linked[n] # 0 /\ linked[n] < starts
  /\ text'[n] \in {"unsent", "command", "refused", "failed"} => linked[n] = 0

\* An edit that says only what is sayable keeps the claims of the messages
\* and of the arms.
LEMMA EditKeeps ==
  ASSUME TextInv, ArmsFor(tasks', text), UNCHANGED <<linked, starts>>,
         \A n \in Msgs : text'[n] = text[n] \/ Sayable(n)
  PROVE  TextInv' /\ ArmsFor(tasks, text)'
<1>1. TextInv'
  BY DEF TextInv, Sayable
<1>2. ArmsFor(tasks, text)'
  BY DEF ArmsFor, Sayable
<1> QED BY <1>1, <1>2

\* Nothing but a link adds to the history, so the receipts on disk and the
\* bound on the history are kept by steps that touch neither.
LEMMA ServeLinks ==
  ASSUME RebootInv, UNCHANGED <<linked, starts, file, durable>>,
         pc # "down", pc' # "down",
         held' = NoReceipt \/ held' = held,
         pc' \in {"consume_load", "consume_edit", "consume_remove"}
           => pc \in {"consume_load", "consume_edit", "consume_remove"}
  PROVE  LinkInv'
<1>1. Recorded(NoReceipt)
  BY RebootAssumption DEF Recorded, NoReceipt
<1> QED BY <1>1 DEF RebootInv, LinkInv, Recorded

\* The announcement of a command that has no arm yet.
LEMMA RestartingKeeps ==
  ASSUME RebootInv, ArmsFor(tasks', text), UNCHANGED <<linked, starts>>,
         pc = "announce", text' = [text EXCEPT ![cmd] = "restarting"]
  PROVE  TextInv' /\ ArmsFor(tasks, text)'
<1>1. cmd \in Msgs /\ text[cmd] = "command"
  BY DEF RebootInv, CommandInv
<1>2. \A s \in Slots : tasks'[s].op = "arm" => tasks'[s].receipt.msg # cmd
  BY <1>1 DEF ArmsFor
<1>3. \A n \in Msgs : text'[n] = text[n] \/ (n = cmd /\ text'[n] = "restarting")
  BY DEF RebootInv, TypeOK
<1>4. \A n \in Msgs : text'[n] = text[n] \/ Sayable(n)
  BY <1>2, <1>3 DEF Sayable
<1> QED BY <1>4, EditKeeps DEF RebootInv

\* The steps of the completion.  No arm exists while it runs.
LEMMA ConsumeKeeps ==
  ASSUME RebootInv, ConsumeLoaded \/ ConsumeEdit \/ ConsumeRemoved \/ ConsumeTimeout
  PROVE  RebootInv'
<1>t. TypeOK /\ TypeOK'
  BY LoopType DEF RebootInv, LoopStep
<1>u. UNCHANGED <<linked, starts, file, durable>>
  BY DEF ConsumeLoaded, ConsumeEdit, ConsumeRemoved, ConsumeTimeout, diskVars
<1>p. pc \in {"consume_load", "consume_edit", "consume_remove"}
  BY DEF ConsumeLoaded, ConsumeEdit, ConsumeRemoved, ConsumeTimeout
<1>n. \A s \in Slots : tasks[s].op # "arm"
  BY <1>p DEF RebootInv, ArmInv, NoCommandYet
<1>pn. pc' \in {"consume_load", "consume_edit", "consume_remove", "serve"}
  BY DEF ConsumeLoaded, ConsumeEdit, ConsumeRemoved, ConsumeTimeout, ToServe
<1>q. \A t \in Slots : QuietSlot(t)
  <2>1. CASE Collect
    BY <2>1, <1>t, QuietFree DEF Collect
  <2>2. CASE Spawn("remove", "unlink", NoReceipt)
    BY <2>2, <1>t, QuietSpawn
  <2>3. CASE tasks' = tasks
    BY <2>3 DEF QuietSlot
  <2> QED BY <2>1, <2>2, <2>3 DEF ConsumeLoaded, ConsumeEdit, ConsumeRemoved, ConsumeTimeout
<1>1. TasksRecorded' /\ ArmsFor(tasks', text)
  BY <1>q, <1>u, QuietTasks
<1>2. \A s \in Slots : tasks'[s].op # "arm"
  BY <1>n, <1>q DEF QuietSlot
<1>3. TextInv' /\ ArmsFor(tasks, text)'
  <2>1. text' \in {text, [text EXCEPT ![held.msg] = "completed"]}
    BY <1>p DEF ConsumeLoaded, ConsumeEdit, ConsumeRemoved, ConsumeTimeout, MaybeEdit, MaybeInFlight
  <2>2. held.msg \in Msgs => linked[held.msg] # 0 /\ linked[held.msg] < starts
    BY <1>p DEF RebootInv, LinkInv, Recorded
  <2>3. \A n \in Msgs : text'[n] = text[n] \/ (n = held.msg /\ text'[n] = "completed")
    BY <1>t, <2>1 DEF TypeOK
  <2>4. \A n \in Msgs : text'[n] = text[n] \/ Sayable(n)
    BY <1>2, <2>2, <2>3 DEF Sayable
  <2> QED BY <1>u, <1>1, <2>4, EditKeeps DEF RebootInv
<1>4. LinkInv'
  <2>1. CASE held' \in {NoReceipt, held}
    BY <1>p, <1>pn, <1>u, <2>1, ServeLinks
  <2>2. CASE Returned({"pending"}) /\ held' = tasks[awaited].receipt
    <3>1. awaited \in Slots
      BY <2>2, <1>t DEF Returned, TypeOK
    <3>2. Recorded(held')
      BY <2>2, <3>1, <1>n DEF RebootInv, TasksRecorded
    <3> QED BY <1>u, <1>p, <1>pn, <3>2 DEF RebootInv, LinkInv, Recorded
  <2> QED BY <2>1, <2>2 DEF ConsumeLoaded, ConsumeEdit, ConsumeRemoved, ConsumeTimeout, ToServe
<1>5. ArmInv'
  BY <1>2, <1>3 DEF ArmInv
<1>6. CommandInv'
  BY <1>pn DEF CommandInv
<1> QED BY <1>t, <1>1, <1>3, <1>4, <1>5, <1>6 DEF RebootInv

\* The steps of the command before an arm exists for it.
LEMMA CommandKeeps ==
  ASSUME RebootInv, LookedUp \/ (\E m \in Msgs : Reboot(m)) \/ SetupTimeout
  PROVE  RebootInv'
<1>t. TypeOK /\ TypeOK'
  BY LoopType DEF RebootInv, LoopStep
<1>u. UNCHANGED <<linked, starts, file, durable>>
  BY DEF LookedUp, Reboot, SetupTimeout, diskVars
<1>p. pc \notin {"down", "consume_load", "consume_edit", "consume_remove"}
  BY DEF LookedUp, Reboot, SetupTimeout
<1>pn. pc' \in {"lookup", "announce", "serve"}
  BY DEF LookedUp, Reboot, SetupTimeout, ToServe, AfterRefusal
<1>q. \A t \in Slots : QuietSlot(t)
  <2>1. CASE Collect
    BY <2>1, <1>t, QuietFree DEF Collect
  <2>2. CASE Spawn("load", "cleanup", NoReceipt)
    BY <2>2, <1>t, QuietSpawn
  <2>3. CASE tasks' = tasks
    BY <2>3 DEF QuietSlot
  <2> QED BY <2>1, <2>2, <2>3 DEF LookedUp, Reboot, SetupTimeout
<1>1. TasksRecorded' /\ ArmsFor(tasks', text)
  BY <1>q, <1>u, QuietTasks
<1>4. LinkInv'
  <2>1. held' \in {NoReceipt, held}
    BY DEF LookedUp, Reboot, SetupTimeout, ToServe, AfterRefusal
  <2> QED BY <2>1, <1>u, <1>p, <1>pn, ServeLinks
<1>3. TextInv' /\ ArmsFor(tasks, text)'
  <2>1. CASE LookedUp
    <3>1. text' \in {text, [text EXCEPT ![cmd] = "refused"]}
      BY <2>1 DEF LookedUp, MaybeEdit
    <3>2. cmd \in Msgs /\ text[cmd] = "command" /\ linked[cmd] = 0
      BY <2>1 DEF LookedUp, RebootInv, CommandInv, TextInv
    <3>3. \A s \in Slots : tasks'[s].op = "arm" => tasks'[s].receipt.msg # cmd
      BY <1>1, <3>2 DEF ArmsFor
    <3>4. \A n \in Msgs : text'[n] = text[n] \/ (n = cmd /\ text'[n] = "refused")
      BY <1>t, <3>1 DEF TypeOK
    <3>5. \A n \in Msgs : text'[n] = text[n] \/ Sayable(n)
      BY <3>2, <3>3, <3>4 DEF Sayable
    <3> QED BY <1>u, <1>1, <3>5, EditKeeps DEF RebootInv
  <2>2. ASSUME NEW m \in Msgs, Reboot(m) PROVE TextInv' /\ ArmsFor(tasks, text)'
    <3>1. text' \in {text, [text EXCEPT ![m] = "command"]} /\ text[m] = "unsent"
      BY <2>2 DEF Reboot
    <3>2. linked[m] = 0
      BY <3>1 DEF RebootInv, TextInv
    <3>3. \A s \in Slots : tasks'[s].op = "arm" => tasks'[s].receipt.msg # m
      BY <1>1, <3>1 DEF ArmsFor
    <3>4. \A n \in Msgs : text'[n] = text[n] \/ (n = m /\ text'[n] = "command")
      BY <1>t, <3>1 DEF TypeOK
    <3>5. \A n \in Msgs : text'[n] = text[n] \/ Sayable(n)
      BY <3>2, <3>3, <3>4 DEF Sayable
    <3> QED BY <1>u, <1>1, <3>5, EditKeeps DEF RebootInv
  <2>3. CASE SetupTimeout
    <3>1. CASE text' = text
      BY <3>1, <1>u, <1>1 DEF RebootInv, TextInv, ArmsFor
    <3>2. CASE pc = "announce" /\ text' = [text EXCEPT ![cmd] = "restarting"]
      BY <3>2, <1>t, <1>u, <1>1, RestartingKeeps DEF RebootInv
    <3> QED BY <2>3, <1>p, <3>1, <3>2 DEF SetupTimeout, MaybeInFlight
  <2> QED BY <2>1, <2>2, <2>3
<1>5. ArmInv'
  BY <1>3, <1>pn DEF ArmInv, NoCommandYet
<1>6. CommandInv'
  <2>1. CASE LookedUp
    <3>1. pc' = "serve" \/ (pc' = "announce" /\ UNCHANGED <<cmd, text>>)
      BY <2>1 DEF LookedUp, ToServe, AfterRefusal
    <3> QED BY <3>1, <2>1 DEF LookedUp, RebootInv, CommandInv
  <2>2. ASSUME NEW m \in Msgs, Reboot(m) PROVE CommandInv'
    BY <2>2, <1>t DEF Reboot, CommandInv, TypeOK
  <2>3. CASE SetupTimeout
    BY <2>3 DEF SetupTimeout, ToServe, CommandInv
  <2> QED BY <2>1, <2>2, <2>3
<1> QED BY <1>t, <1>1, <1>3, <1>4, <1>5, <1>6 DEF RebootInv

\* Announcing: the message becomes "restarting" together with its arm, or ends
\* without one.
LEMMA AnnounceKeeps ==
  ASSUME RebootInv, Announce
  PROVE  RebootInv'
<1>t. TypeOK /\ TypeOK'
  BY LoopType DEF RebootInv, LoopStep
<1>u. UNCHANGED <<linked, starts, file, durable>> /\ pc = "announce"
  BY DEF Announce, diskVars
<1>c. cmd \in Msgs /\ text[cmd] = "command" /\ linked[cmd] = 0
  BY <1>u DEF RebootInv, CommandInv, TextInv
<1>a. \A s \in Slots : tasks[s].op = "arm" => tasks[s].receipt.msg # cmd
  BY <1>c DEF RebootInv, ArmInv, ArmsFor
<1>1. CASE ToServe /\ UNCHANGED <<tasks, awaited>>
  <2>1. LinkInv'
    BY <1>u, <1>1, ServeLinks DEF ToServe
  <2>2. TasksRecorded' /\ ArmsFor(tasks', text)
    BY <1>1, <1>u DEF RebootInv, TasksRecorded, Recorded, ArmInv
  <2>3. \A n \in Msgs : text'[n] = text[n]
                        \/ (n = cmd /\ text'[n] \in {"restarting", "failed"})
    BY <1>t DEF Announce, TypeOK
  <2>4. \A n \in Msgs : text'[n] = text[n] \/ Sayable(n)
    BY <1>1, <1>c, <1>a, <2>3 DEF Sayable
  <2>5. TextInv' /\ ArmsFor(tasks, text)'
    BY <1>u, <2>2, <2>4, EditKeeps DEF RebootInv
  <2> QED BY <1>1, <1>t, <2>1, <2>2, <2>5 DEF RebootInv, ArmInv, CommandInv, ToServe, NoCommandYet
<1>2. CASE /\ text' = [text EXCEPT ![cmd] = "restarting"]
           /\ Spawn("arm", "cleanup", [msg |-> cmd, started |-> now, bytes |-> "cached"])
           /\ pc' = "arm"
           /\ UNCHANGED <<cmd, held, attempt>>
  <2>1. PICK s \in Slots :
          /\ tasks[s].op = "free"
          /\ tasks' = [tasks EXCEPT ![s] =
               [op |-> "arm", at |-> "cleanup",
                receipt |-> [msg |-> cmd, started |-> now, bytes |-> "cached"],
                now |-> now, temp |-> "absent", out |-> "none"]]
          /\ awaited' = s
    BY <1>2 DEF Spawn
  <2>2. /\ tasks'[s].op = "arm" /\ tasks'[s].receipt.msg = cmd
        /\ \A t \in Slots : t # s => tasks'[t] = tasks[t]
    BY <2>1, <1>t DEF TypeOK
  <2>3. LinkInv'
    BY <1>u, <1>2, ServeLinks
  <2>4. TasksRecorded'
    BY <1>u, <2>2 DEF RebootInv, TasksRecorded, Recorded
  <2>5. text'[cmd] = "restarting" /\ \A n \in Msgs : n # cmd => text'[n] = text[n]
    BY <1>2, <1>c, <1>t DEF TypeOK
  <2>6. TextInv'
    BY <1>u, <1>c, <2>5 DEF RebootInv, TextInv
  <2>7. ArmsFor(tasks, text)'
    BY <1>a, <1>c, <1>u, <2>2, <2>5 DEF RebootInv, ArmInv, ArmsFor
  <2>8. CommandInv'
    BY <1>2, <2>1, <2>2 DEF CommandInv
  <2> QED BY <1>t, <1>2, <2>3, <2>4, <2>6, <2>7, <2>8 DEF RebootInv, ArmInv, NoCommandYet
<1> QED BY <1>1, <1>2 DEF Announce

\* The command's end: "failed" is shown only for an arm that linked nothing.
LEMMA ArmedKeeps ==
  ASSUME RebootInv, Armed
  PROVE  RebootInv'
<1>t. TypeOK /\ TypeOK' /\ tasks \in [Slots -> Task]
  BY LoopType DEF RebootInv, LoopStep, TypeOK
<1>u. UNCHANGED <<linked, starts, file, durable>> /\ pc = "arm" /\ Collect
      /\ pc' \in {"restart", "serve"} /\ held' \in {held, NoReceipt}
  BY DEF Armed, diskVars, ToServe
<1>c. awaited \in Slots /\ tasks[awaited].op = "arm" /\ tasks[awaited].receipt.msg = cmd
  BY <1>u DEF RebootInv, CommandInv
<1>q. TasksRecorded' /\ ArmsFor(tasks', text)
  BY <1>t, <1>u, QuietFree, QuietTasks DEF Collect
<1>1. LinkInv'
  BY <1>u, ServeLinks
<1>2. \A s \in Slots : tasks'[s].op = "arm" => tasks'[s].receipt.msg # cmd
  <2>1. tasks'[awaited].op # "arm" /\ \A s \in Slots : s # awaited => tasks'[s] = tasks[s]
    BY <1>t, <1>u, <1>c DEF Collect, Free
  <2> QED BY <2>1, <1>c DEF RebootInv, ArmInv, ArmsFor
<1>3. TextInv' /\ ArmsFor(tasks, text)'
  <2>1. CASE text' = text
    BY <2>1, <1>u, <1>q DEF RebootInv, TextInv, ArmsFor
  <2>2. CASE /\ Returned({"armed", "unknown", "conflict", "error"} \ RestartOutcomes)
             /\ MaybeEdit(cmd, "failed")
    <3>1. Unlinked(tasks[awaited])
      BY <2>2 DEF Returned, RestartOutcomes, Unlinked
    <3>2. cmd \in Msgs => linked[cmd] = 0
      BY <1>c, <3>1 DEF RebootInv, ArmInv, ArmsFor
    <3>3. \A n \in Msgs : text'[n] = text[n] \/ (n = cmd /\ text'[n] = "failed")
      BY <1>t, <2>2 DEF TypeOK, MaybeEdit
    <3>4. \A n \in Msgs : text'[n] = text[n] \/ Sayable(n)
      BY <1>2, <3>2, <3>3 DEF Sayable
    <3> QED BY <1>u, <1>q, <3>4, EditKeeps DEF RebootInv
  <2> QED BY <2>1, <2>2 DEF Armed
<1> QED BY <1>t, <1>u, <1>q, <1>1, <1>3 DEF RebootInv, ArmInv, CommandInv, NoCommandYet

\* Process starts and ends, and the clock.
LEMMA ProcessKeeps ==
  ASSUME RebootInv, Start \/ Exec \/ Crash \/ PowerLoss \/ SetClock
  PROVE  RebootInv'
<1>t. TypeOK /\ TypeOK' /\ tasks \in [Slots -> Task]
  BY LoopType DEF RebootInv, TypeOK
<1>u. linked' = linked
  BY DEF Start, Exec, Crash, PowerLoss, SetClock, BeginRun
<1>n. starts \in Nat /\ \A m \in Msgs : linked[m] \in Nat
  BY <1>t, RebootAssumption DEF TypeOK
<1>0. Recorded(NoReceipt)
  BY RebootAssumption DEF Recorded, NoReceipt
<1>1. CASE SetClock
  BY <1>1, <1>t DEF SetClock, loopVars, diskVars, RebootInv, LinkInv, TasksRecorded, TextInv,
     ArmInv, ArmsFor, CommandInv, NoCommandYet, Recorded
<1>2. CASE Start \/ Exec \/ Crash \/ PowerLoss
  <2>1. \A s \in Slots : QuietSlot(s) /\ tasks'[s].op # "arm"
    <3>1. CASE Start
      <4>1. \A s \in Slots : tasks[s].op # "arm"
        BY <3>1 DEF Start, RebootInv, ArmInv, NoCommandYet
      <4>2. \A s \in Slots : QuietSlot(s)
        BY <3>1, <1>t, QuietSpawn DEF Start
      <4> QED BY <4>1, <4>2 DEF QuietSlot
    <3>2. CASE Exec
      <4>1. \A s \in Slots : tasks'[s].op # "arm" /\ tasks'[s].receipt = NoReceipt
        BY <3>2 DEF Exec, Free
      <4> QED BY <4>1 DEF QuietSlot
    <3>3. CASE Crash \/ PowerLoss
      <4>1. \A s \in Slots : tasks'[s].op # "arm" /\ tasks'[s].receipt = NoReceipt
        BY <3>3 DEF Crash, PowerLoss, Free
      <4> QED BY <4>1 DEF QuietSlot
    <3> QED BY <1>2, <3>1, <3>2, <3>3
  <2>2. TasksRecorded'
    BY <2>1, <1>u, QuietTasks
  <2>3. ArmInv'
    BY <2>1 DEF ArmInv, ArmsFor
  <2>4. Recorded(file)' /\ Recorded(durable)'
    <3>1. CASE file' = file /\ durable' = durable
      BY <3>1, <1>u DEF RebootInv, LinkInv, Recorded
    <3>2. CASE PowerLoss
      <4>1. \A r \in Receipt : \A q \in Torn(r) : q.msg = r.msg
        BY DEF Torn, Receipt
      <4>2. file'.msg \in {file.msg, durable.msg} /\ durable'.msg \in {file.msg, durable.msg}
        BY <3>2, <4>1, <1>t DEF PowerLoss, TypeOK
      <4> QED BY <4>2, <1>u DEF RebootInv, LinkInv, Recorded
    <3> QED BY <1>2, <3>1, <3>2 DEF Start, Exec, Crash, BeginRun, diskVars
  <2>5. held' = NoReceipt /\ starts' \in {starts, starts + 1}
        /\ (pc' = "down" \/ (pc' = "consume_load" /\ starts' = starts + 1))
    BY <1>2 DEF Start, Exec, Crash, PowerLoss, BeginRun
  <2>6. LinkInv'
    BY <1>0, <1>n, <1>u, <2>4, <2>5 DEF RebootInv, LinkInv, Recorded
  <2>7. TextInv'
    <3>1. CASE text' = text
      BY <3>1, <1>n, <1>u, <2>5 DEF RebootInv, TextInv
    <3>2. CASE MaybeInFlight /\ starts' = starts /\ text' # text
      <4>1. ArmsFor(tasks', text)
        BY <2>1, <1>u, QuietTasks
      <4>2. CASE pc = "announce" /\ text' = [text EXCEPT ![cmd] = "restarting"]
        BY <3>2, <4>1, <4>2, <1>u, RestartingKeeps
      <4>3. CASE pc = "consume_edit" /\ text' = [text EXCEPT ![held.msg] = "completed"]
        <5>1. held.msg \in Msgs => linked[held.msg] # 0 /\ linked[held.msg] < starts
          BY <4>3 DEF RebootInv, LinkInv, Recorded
        <5>2. \A n \in Msgs : text'[n] = text[n] \/ (n = held.msg /\ text'[n] = "completed")
          BY <1>t, <4>3 DEF TypeOK
        <5> QED BY <3>2, <5>1, <5>2, <1>u DEF RebootInv, TextInv
      <4> QED BY <3>2, <4>2, <4>3 DEF MaybeInFlight
    <3> QED BY <1>2, <3>1, <3>2 DEF Start, Exec, Crash, PowerLoss, BeginRun
  <2>8. CommandInv'
    BY <2>5 DEF CommandInv
  <2> QED BY <1>t, <2>2, <2>3, <2>6, <2>7, <2>8 DEF RebootInv
<1> QED BY <1>1, <1>2

\* Every step, or stutter, keeps the inductive invariant.
LEMMA RebootStep ==
  ASSUME RebootInv, [Next]_vars
  PROVE  RebootInv'
<1>1. CASE UNCHANGED vars
  BY <1>1 DEF vars, loopVars, diskVars, RebootInv, TypeOK, LinkInv, TasksRecorded, TextInv,
     ArmInv, ArmsFor, CommandInv, NoCommandYet, Recorded
<1> QED BY <1>1, BlockingKeeps, LinkKeeps, ConsumeKeeps, CommandKeeps, AnnounceKeeps, ArmedKeeps,
           ProcessKeeps DEF Next, LoopStep

\* The invariant holds before the first start.
LEMMA RebootInit == Init => RebootInv
<1> SUFFICES ASSUME Init PROVE RebootInv
  OBVIOUS
<1>1. TypeOK
  BY TypeInit
<1>2. \A s \in Slots : tasks[s] = Free
  BY DEF Init
<1>3. TasksRecorded /\ ArmInv
  BY <1>2, RebootAssumption DEF TasksRecorded, ArmInv, ArmsFor, Free, Recorded, NoReceipt
<1>4. LinkInv
  BY RebootAssumption DEF Init, LinkInv, Recorded, NoReceipt
<1>5. TextInv /\ CommandInv
  BY DEF Init, TextInv, CommandInv
<1> QED BY <1>1, <1>3, <1>4, <1>5 DEF RebootInv

\* The invariant holds for ever.
LEMMA RebootInductive == Spec => []RebootInv
BY RebootInit, RebootStep, PTL DEF Spec

\* A message says "restarted" only when its receipt was linked in an earlier
\* process: complete_pending_reboot_receipt edits only what a load found, and
\* runs before the new process arms anything.
THEOREM RestartClaimsAreTrue == Spec => []CompletedMeansRestarted
<1>1. RebootInv => CompletedMeansRestarted
  BY RebootAssumption DEF RebootInv, TextInv, TypeOK, CompletedMeansRestarted
<1> QED BY <1>1, RebootInductive, PTL

\* A message that reports a failed restart has no receipt anywhere, on disk, in
\* memory or in a closure still running: arm_blocking reports an ordinary error
\* only before its commit point.
THEOREM FailureClaimsAreTrue == Spec => []FailedMeansNoReceipt
<1>1. RebootInv => FailedMeansNoReceipt
  <2> SUFFICES ASSUME RebootInv, NEW m \in Msgs, text[m] = "failed"
               PROVE  /\ file.msg # m /\ durable.msg # m /\ held.msg # m
                      /\ \A s \in Slots : tasks[s].op = "arm" => tasks[s].receipt.msg # m
    BY DEF FailedMeansNoReceipt
  <2>1. linked[m] = 0
    BY DEF RebootInv, TextInv
  <2>2. file.msg # m /\ durable.msg # m /\ held.msg # m
    BY <2>1 DEF RebootInv, LinkInv, Recorded
  <2>3. \A s \in Slots : tasks[s].op = "arm" => tasks[s].receipt.msg # m
    BY DEF RebootInv, ArmInv, ArmsFor
  <2> QED BY <2>2, <2>3
<1> QED BY <1>1, RebootInductive, PTL

-----------------------------------------------------------------------------
(* The inductive invariant behind ReceiptInv.  Only synced bytes reach the    *)
(* path, because an arm that is about to link has synced its temporary or     *)
(* lost it to a cleanup; and an arm past its commit point has recorded the    *)
(* running process, which dies with its closures.                             *)

\* An arm that has linked its receipt.
Committed(k) == k.at = "commit" \/ (k.at = "done" /\ k.out \in {"armed", "unknown"})

\* What a slot may hold, given the history l and the number of starts n.
SlotOK(k, l, n) ==
  k.op = "arm" => /\ k.at = "link" => k.temp # "cached"
                  /\ Committed(k) => l[k.receipt.msg] = n

DiskSynced == file.bytes = "synced" /\ durable.bytes = "synced"

CommitInv ==
  /\ DiskSynced
  /\ \A s \in Slots : SlotOK(tasks[s], linked, starts)
  /\ RestartOnlyWhenLinked

\* One slot gets a new task and the history is kept: the others stay in order.
LEMMA SlotUpdate ==
  ASSUME TypeOK, NEW s, NEW k, tasks' = [tasks EXCEPT ![s] = k],
         \A t \in Slots : SlotOK(tasks[t], linked, starts), SlotOK(k, linked, starts)
  PROVE  \A t \in Slots : SlotOK(tasks'[t], linked, starts)
<1> SUFFICES ASSUME NEW t \in Slots PROVE SlotOK(tasks'[t], linked, starts)
  OBVIOUS
<1>1. tasks'[t] = k \/ tasks'[t] = tasks[t]
  BY DEF TypeOK
<1> QED BY <1>1

\* A task that finishes has linked if it says so.
LEMMA SlotFinish ==
  ASSUME TypeOK, NEW s \in Slots, NEW o, Finish(s, o),
         \A t \in Slots : SlotOK(tasks[t], linked, starts),
         tasks[s].op = "arm" /\ o \in {"armed", "unknown"} => tasks[s].at = "commit"
  PROVE  \A t \in Slots : SlotOK(tasks'[t], linked, starts)
<1> DEFINE k == [tasks[s] EXCEPT !.at = "done", !.out = o]
<1>1. tasks \in [Slots -> Task] /\ tasks[s] \in Task
  BY DEF TypeOK
<1>2. tasks' = [tasks EXCEPT ![s] = k]
  BY <1>1 DEF Finish
<1>3. k.op = tasks[s].op /\ k.receipt = tasks[s].receipt /\ k.at = "done" /\ k.out = o
  BY <1>1 DEF Task
<1> HIDE DEF k
<1>4. SlotOK(k, linked, starts)
  BY <1>3 DEF SlotOK, Committed
<1> QED BY <1>2, <1>4, SlotUpdate

\* A blocking step short of the commit point keeps every slot in order.
LEMMA BlockingSlots ==
  ASSUME RebootInv, NEW s \in Slots, BlockingStep(s), ~(ArmLink(s) /\ linked' # linked),
         \A t \in Slots : SlotOK(tasks[t], linked, starts)
  PROVE  \A t \in Slots : SlotOK(tasks'[t], linked, starts)
<1> DEFINE Goal == \A t \in Slots : SlotOK(tasks'[t], linked, starts)
<1>t. /\ TypeOK /\ tasks \in [Slots -> Task] /\ tasks[s] \in Task
      /\ linked \in [Msgs -> 0..MaxStarts]
  BY DEF RebootInv, TypeOK
<1>1. ASSUME Cleanup(s) PROVE Goal
  <2>1. PICK gone \in SUBSET (Slots \ {s}), k \in Cleaned(tasks[s]) :
          tasks' = [t \in Slots |->
                      IF t = s THEN k
                      ELSE [tasks[t] EXCEPT !.temp = IF t \in gone THEN "absent" ELSE @]]
    BY <1>1 DEF Cleanup
  <2>2. SlotOK(k, linked, starts)
    BY <1>t DEF Cleaned, SlotOK, Committed, Task
  <2>3. \A t \in Slots : t # s =>
          SlotOK([tasks[t] EXCEPT !.temp = IF t \in gone THEN "absent" ELSE @], linked, starts)
    BY <1>t DEF SlotOK, Committed, Task
  <2> QED BY <2>1, <2>2, <2>3
<1>2. ASSUME LoadRead(s) PROVE Goal
  <2>1. CASE Finish(s, "absent") \/ Finish(s, "error")
    BY <2>1, SlotFinish, <1>t
  <2>2. CASE Goto(s, "unlink")
    <3>1. tasks' = [tasks EXCEPT ![s] = [tasks[s] EXCEPT !.at = "unlink"]]
      BY <2>2, <1>t DEF Goto
    <3>2. SlotOK([tasks[s] EXCEPT !.at = "unlink"], linked, starts)
      BY <1>2, <1>t DEF SlotOK, LoadRead, Running, Task
    <3> QED BY <3>1, <3>2, SlotUpdate, <1>t
  <2>3. CASE tasks' = [tasks EXCEPT ![s].at = "done", ![s].out = "pending",
                                    ![s].receipt = file]
    <3> DEFINE k == [tasks[s] EXCEPT !.at = "done", !.out = "pending", !.receipt = file]
    <3>1. tasks' = [tasks EXCEPT ![s] = k]
      BY <2>3, <1>t
    <3>2. SlotOK(k, linked, starts)
      BY <1>2, <1>t DEF SlotOK, LoadRead, Running, Task
    <3> QED BY <3>1, <3>2, SlotUpdate, <1>t
  <2> QED BY <1>2, <2>1, <2>2, <2>3 DEF LoadRead
<1>3. ASSUME Unlink(s) \/ SyncRemoval(s) PROVE Goal
  <2>0. tasks[s].op # "arm"
    BY <1>3 DEF Unlink, SyncRemoval
  <2>1. CASE \E o \in {"discarded", "removed", "error"} : Finish(s, o)
    BY <2>0, <2>1, SlotFinish, <1>t
  <2>2. CASE Goto(s, "syncdir")
    <3>1. tasks' = [tasks EXCEPT ![s] = [tasks[s] EXCEPT !.at = "syncdir"]]
      BY <2>2, <1>t DEF Goto
    <3>2. SlotOK([tasks[s] EXCEPT !.at = "syncdir"], linked, starts)
      BY <2>0, <1>t DEF SlotOK, Task
    <3> QED BY <3>1, <3>2, SlotUpdate, <1>t
  <2> QED BY <1>3, <2>1, <2>2 DEF Unlink, SyncRemoval
<1>4. ASSUME ArmWrite(s) PROVE Goal
  <2>1. CASE Finish(s, "error")
    BY <2>1, SlotFinish, <1>t
  <2>2. CASE tasks' = [tasks EXCEPT ![s].at = "sync", ![s].temp = "cached"]
    <3> DEFINE k == [tasks[s] EXCEPT !.at = "sync", !.temp = "cached"]
    <3>1. tasks' = [tasks EXCEPT ![s] = k]
      BY <2>2, <1>t
    <3>2. SlotOK(k, linked, starts)
      BY <1>t DEF SlotOK, Committed, Task
    <3> QED BY <3>1, <3>2, SlotUpdate, <1>t
  <2> QED BY <1>4, <2>1, <2>2 DEF ArmWrite
<1>5. ASSUME ArmSync(s) PROVE Goal
  <2>1. CASE Finish(s, "error")
    BY <2>1, SlotFinish, <1>t
  <2>2. CASE tasks' = [tasks EXCEPT ![s].at = "link",
                                    ![s].temp = IF @ = "absent" THEN @ ELSE "synced"]
    <3> DEFINE k == [tasks[s] EXCEPT !.at = "link", !.temp = IF @ = "absent" THEN @ ELSE "synced"]
    <3>1. tasks' = [tasks EXCEPT ![s] = k]
      BY <2>2, <1>t
    <3>2. SlotOK(k, linked, starts)
      BY <1>t DEF SlotOK, Committed, Task
    <3> QED BY <3>1, <3>2, SlotUpdate, <1>t
  <2> QED BY <1>5, <2>1, <2>2 DEF ArmSync
<1>6. ASSUME ArmLink(s) PROVE Goal
  <2>1. CASE \E o \in {"conflict", "error"} : Finish(s, o)
    BY <2>1, SlotFinish, <1>t
  <2>2. CASE linked' = [linked EXCEPT ![tasks[s].receipt.msg] = starts] /\ Goto(s, "commit")
    \* The first link of its message changes the history, which is excluded here.
    <3>1. tasks[s].receipt.msg \in Msgs /\ linked[tasks[s].receipt.msg] = 0 /\ starts # 0
      BY <1>6 DEF ArmLink, Running, RebootInv, ArmInv, ArmsFor, Unlinked, NoCommandYet, LinkInv
    <3>2. linked'[tasks[s].receipt.msg] = starts
      BY <2>2, <3>1, <1>t
    <3> QED BY <1>6, <3>1, <3>2
  <2> QED BY <1>6, <2>1, <2>2 DEF ArmLink
<1>7. ASSUME ArmCommit(s) PROVE Goal
  <2>1. tasks[s].at = "commit" /\ \E o \in {"armed", "unknown"} : Finish(s, o)
    BY <1>7 DEF ArmCommit, Running
  <2> QED BY <2>1, SlotFinish, <1>t
<1>8. ASSUME Reap(s) PROVE Goal
  BY <1>8, SlotUpdate, <1>t DEF Reap, SlotOK, Free
<1> QED BY <1>1, <1>2, <1>3, <1>4, <1>5, <1>6, <1>7, <1>8 DEF BlockingStep

\* The commit point: synced bytes appear, and the history names this process.
LEMMA LinkCommits ==
  ASSUME RebootInv, CommitInv, NEW s \in Slots, ArmLink(s), linked' # linked
  PROVE  CommitInv'
<1> DEFINE m == tasks[s].receipt.msg
<1>t. /\ tasks \in [Slots -> Task] /\ tasks[s] \in Task /\ tasks[s].receipt \in Receipt
      /\ linked \in [Msgs -> 0..MaxStarts]
  BY DEF RebootInv, TypeOK, Task
<1>0. /\ file' = [tasks[s].receipt EXCEPT !.bytes = tasks[s].temp] /\ tasks[s].temp # "absent"
      /\ linked' = [linked EXCEPT ![m] = starts]
      /\ tasks' = [tasks EXCEPT ![s] = [tasks[s] EXCEPT !.at = "commit"]]
      /\ UNCHANGED <<pc, cmd, starts, durable>>
      /\ tasks[s].op = "arm" /\ tasks[s].at = "link"
  BY <1>t DEF ArmLink, Running, loopVars, Goto
<1>1. DiskSynced'
  <2>1. tasks[s].temp \in {"absent", "cached", "synced"} /\ tasks[s].temp # "cached"
    BY <1>0, <1>t DEF CommitInv, SlotOK, Task
  <2>2. file'.bytes = tasks[s].temp
    BY <1>0, <1>t DEF Receipt
  <2> QED BY <1>0, <2>1, <2>2 DEF CommitInv, DiskSynced
<1>2. \A n \in Msgs : linked'[n] = linked[n] \/ linked'[n] = starts
  BY <1>0, <1>t
<1>3. m \in Msgs /\ linked'[m] = starts
  BY <1>0, <1>t DEF RebootInv, ArmInv, ArmsFor
<1>4. /\ tasks'[s].op = "arm" /\ tasks'[s].receipt = tasks[s].receipt /\ tasks'[s].at = "commit"
      /\ \A t \in Slots : t # s => tasks'[t] = tasks[t]
  BY <1>0, <1>t DEF Task
<1> HIDE DEF m
<1>5. \A t \in Slots : SlotOK(tasks[t], linked, starts)'
  <2>1. SlotOK(tasks[s], linked, starts)'
    BY <1>0, <1>3, <1>4 DEF SlotOK, m
  <2>2. ASSUME NEW t \in Slots, t # s PROVE SlotOK(tasks[t], linked, starts)'
    <3>1. tasks[t].op = "arm" => tasks[t].receipt.msg \in Msgs
      BY DEF RebootInv, ArmInv, ArmsFor
    <3>2. SlotOK(tasks[t], linked, starts)
      BY DEF CommitInv
    <3> QED BY <3>1, <3>2, <2>2, <1>0, <1>2, <1>4 DEF SlotOK, Committed
  <2> QED BY <2>1, <2>2
<1>6. RestartOnlyWhenLinked'
  BY <1>0, <1>2 DEF CommitInv, RestartOnlyWhenLinked
<1> QED BY <1>1, <1>5, <1>6 DEF CommitInv

\* Every other blocking step: the disk gets nothing new.
LEMMA BlockingCommits ==
  ASSUME RebootInv, CommitInv, NEW s \in Slots, BlockingStep(s),
         ~(ArmLink(s) /\ linked' # linked)
  PROVE  CommitInv'
<1>1. UNCHANGED <<pc, awaited, cmd, held, starts, text, linked>>
  BY BlockingFrame, BlockingQuiet
<1>2. \A t \in Slots : SlotOK(tasks'[t], linked, starts)
  BY BlockingSlots DEF CommitInv
<1>3. file' \in {file, NoReceipt} /\ durable' \in {durable, file}
  <2>1. ~(tasks[s].receipt.msg \in Msgs /\ linked[tasks[s].receipt.msg] = 0 /\ starts # 0
          /\ linked' = [linked EXCEPT ![tasks[s].receipt.msg] = starts])
    BY <1>1 DEF RebootInv, TypeOK
  <2>2. ArmLink(s) => /\ tasks[s].receipt.msg \in Msgs
                      /\ linked[tasks[s].receipt.msg] = 0 /\ starts # 0
    BY DEF ArmLink, Running, RebootInv, ArmInv, ArmsFor, Unlinked, NoCommandYet, LinkInv
  <2>3. ASSUME ArmLink(s) PROVE file' = file /\ durable' = durable
    BY <2>1, <2>2, <2>3 DEF ArmLink
  <2> QED BY <2>3 DEF BlockingStep, Cleanup, LoadRead, Unlink, SyncRemoval, ArmWrite, ArmSync,
             ArmCommit, Reap, diskVars
<1>4. DiskSynced'
  BY <1>3 DEF CommitInv, DiskSynced, NoReceipt
<1>5. RestartOnlyWhenLinked'
  BY <1>1 DEF CommitInv, RestartOnlyWhenLinked
<1> QED BY <1>1, <1>2, <1>4, <1>5 DEF CommitInv

\* The run loop: a new closure has linked nothing, and only the result of an
\* arm that has linked sends the process into a restart.
LEMMA LoopCommits ==
  ASSUME RebootInv, CommitInv,
         LoopStep \/ ConsumeTimeout \/ SetupTimeout \/ \E m \in Msgs : Reboot(m)
  PROVE  CommitInv'
<1>t. TypeOK /\ tasks \in [Slots -> Task]
  BY DEF RebootInv, TypeOK
<1>1. UNCHANGED <<linked, starts, file, durable>>
  BY DEF LoopStep, ConsumeLoaded, ConsumeEdit, ConsumeRemoved, LookedUp, Announce, Armed,
     ConsumeTimeout, SetupTimeout, Reboot, diskVars
<1>2. \A t \in Slots : SlotOK(tasks'[t], linked, starts)
  <2>1. CASE tasks' = tasks
    BY <2>1 DEF CommitInv
  <2>2. CASE Collect
    <3>1. SlotOK(Free, linked, starts)
      BY DEF SlotOK, Free
    <3> QED BY <2>2, <3>1, <1>t, SlotUpdate DEF CommitInv, Collect
  <2>3. ASSUME NEW op, NEW a, NEW r, Spawn(op, a, r), a \in {"cleanup", "unlink"}
        PROVE  \A t \in Slots : SlotOK(tasks'[t], linked, starts)
    <3>1. PICK s \in Slots :
            tasks' = [tasks EXCEPT ![s] = [op |-> op, at |-> a, receipt |-> r,
                                           now |-> now, temp |-> "absent", out |-> "none"]]
      BY <2>3 DEF Spawn
    <3>2. SlotOK([op |-> op, at |-> a, receipt |-> r, now |-> now, temp |-> "absent",
                  out |-> "none"], linked, starts)
      BY <2>3 DEF SlotOK, Committed
    <3> QED BY <3>1, <3>2, <1>t, SlotUpdate DEF CommitInv
  <2> QED BY <2>1, <2>2, <2>3 DEF LoopStep, ConsumeLoaded, ConsumeEdit, ConsumeRemoved,
             LookedUp, Announce, Armed, ConsumeTimeout, SetupTimeout, Reboot
<1>3. RestartOnlyWhenLinked'
  <2>1. CASE Armed
    <3>1. awaited \in Slots /\ tasks[awaited].op = "arm" /\ tasks[awaited].receipt.msg = cmd
      BY <2>1 DEF Armed, RebootInv, CommandInv
    <3>2. cmd \in Msgs
      BY <3>1 DEF RebootInv, ArmInv, ArmsFor
    <3>3. CASE Returned(RestartOutcomes) /\ cmd' = cmd
      BY <3>1, <3>2, <3>3, <1>1 DEF Returned, RestartOutcomes, CommitInv, SlotOK, Committed,
         RestartOnlyWhenLinked
    <3>4. CASE pc' = "serve"
      BY <3>4 DEF RestartOnlyWhenLinked
    <3> QED BY <2>1, <3>3, <3>4 DEF Armed, ToServe
  <2>2. ASSUME ~Armed PROVE pc' # "restart"
    BY <2>2 DEF LoopStep, ConsumeLoaded, ConsumeEdit, ConsumeRemoved, LookedUp, Announce,
       ConsumeTimeout, SetupTimeout, Reboot, ToServe, AfterRefusal
  <2> QED BY <2>1, <2>2 DEF RestartOnlyWhenLinked
<1>4. DiskSynced'
  BY <1>1 DEF CommitInv, DiskSynced
<1> QED BY <1>1, <1>2, <1>3, <1>4 DEF CommitInv

\* Starts and ends of the process, and the clock: closures die with it, and a
\* power loss finds nothing to tear.
LEMMA ProcessCommits ==
  ASSUME RebootInv, CommitInv, Start \/ Exec \/ Crash \/ PowerLoss \/ SetClock
  PROVE  CommitInv'
<1>t. TypeOK /\ tasks \in [Slots -> Task]
  BY DEF RebootInv, TypeOK
<1>1. CASE SetClock
  BY <1>1 DEF SetClock, loopVars, diskVars, CommitInv, DiskSynced, RestartOnlyWhenLinked
<1>2. CASE Start \/ Exec \/ Crash \/ PowerLoss
  <2>1. \A s \in Slots : tasks'[s].op # "arm"
    <3>1. CASE Start
      <4>1. \A s \in Slots : tasks[s].op # "arm"
        BY <3>1 DEF Start, RebootInv, ArmInv, NoCommandYet
      <4>2. \A s \in Slots : QuietSlot(s)
        BY <3>1, <1>t, QuietSpawn DEF Start
      <4> QED BY <4>1, <4>2 DEF QuietSlot
    <3>2. CASE Exec
      BY <3>2 DEF Exec, Free
    <3>3. CASE Crash \/ PowerLoss
      BY <3>3 DEF Crash, PowerLoss, Free
    <3> QED BY <1>2, <3>1, <3>2, <3>3
  <2>2. pc' # "restart"
    BY <1>2 DEF Start, Exec, Crash, PowerLoss, BeginRun
  <2>3. DiskSynced'
    <3>1. CASE file' = file /\ durable' = durable
      BY <3>1 DEF CommitInv, DiskSynced
    <3>2. CASE PowerLoss
      <4>1. Torn(file) = {file} /\ Torn(durable) = {durable}
        BY DEF Torn, CommitInv, DiskSynced
      <4> QED BY <3>2, <4>1 DEF PowerLoss, CommitInv, DiskSynced
    <3> QED BY <1>2, <3>1, <3>2 DEF Start, Exec, Crash, BeginRun, diskVars
  <2> QED BY <2>1, <2>2, <2>3 DEF CommitInv, SlotOK, RestartOnlyWhenLinked
<1> QED BY <1>1, <1>2

\* The invariant holds for ever.
LEMMA CommitInductive == Spec => []CommitInv
<1>1. Init => CommitInv
  BY DEF Init, CommitInv, DiskSynced, RestartOnlyWhenLinked, SlotOK, Free, NoReceipt
<1>2. RebootInv /\ CommitInv /\ [Next]_vars => CommitInv'
  <2>1. ASSUME CommitInv, UNCHANGED vars PROVE CommitInv'
    BY <2>1 DEF vars, loopVars, diskVars, CommitInv, DiskSynced, RestartOnlyWhenLinked
  <2> QED BY <2>1, LinkCommits, BlockingCommits, LoopCommits, ProcessCommits DEF Next
<1> QED BY <1>1, <1>2, RebootInductive, PTL DEF Spec

\* No crash or power loss leaves a torn receipt at the path, and the process goes
\* down for a restart only on behalf of the command whose receipt it has linked
\* itself (arm_blocking's order of sync, link and directory sync, and the
\* outcomes process_update restarts on).
THEOREM ReceiptsAreWhole == Spec => []ReceiptInv
<1>1. CommitInv => ReceiptInv
  BY DEF CommitInv, DiskSynced, ReceiptInv, InstalledReceiptIsWhole
<1> QED BY <1>1, CommitInductive, PTL

\* Whatever closures overlap, a step other than a power loss that finds a receipt
\* at the path keeps it or removes it: arm_blocking links and never renames over.
THEOREM ReceiptsNeverOverwritten == Spec => NeverOverwritten
<1>1. [Next]_vars => [PowerLoss \/ file = NoReceipt \/ file' \in {file, NoReceipt}]_vars
  <2> SUFFICES ASSUME Next, ~PowerLoss, file # NoReceipt PROVE file' \in {file, NoReceipt}
    OBVIOUS
  <2>1. ASSUME NEW s \in Slots, BlockingStep(s) PROVE file' \in {file, NoReceipt}
    BY <2>1 DEF BlockingStep, Cleanup, LoadRead, Unlink, SyncRemoval, ArmWrite, ArmSync,
       ArmLink, ArmCommit, Reap, diskVars
  <2>2. ASSUME LoopStep \/ \E m \in Msgs : Reboot(m) PROVE file' = file
    BY <2>2 DEF LoopStep, ConsumeLoaded, ConsumeEdit, ConsumeRemoved, LookedUp, Announce,
       Armed, Reboot, diskVars
  <2>3. ASSUME Start \/ ConsumeTimeout \/ SetupTimeout \/ Exec \/ Crash \/ SetClock
        PROVE  file' = file
    BY <2>3 DEF Start, ConsumeTimeout, SetupTimeout, Exec, Crash, SetClock, BeginRun, diskVars
  <2> QED BY <2>1, <2>2, <2>3 DEF Next
<1> QED BY <1>1, PTL DEF Spec, NeverOverwritten

-----------------------------------------------------------------------------
(* The setup dialogue.  SetupInv is not inductive: that no creation goes on  *)
(* beside a recorded bot needs to know whose writes are running, and that    *)
(* the token and the identity agree when a provision starts needs to know    *)
(* how far the awaited write has come.                                       *)

Creating == {"AwaitingUsername", "AwaitingConfirmation", "Running"}

TokenBeforeState == \A w \in writers : w.pc = 3 => disk.token # None

\* A flow is held while its token is checked and written.
FlowHeld ==
  /\ handler.at \in {"getMe", "persist"} => phase.at = "Running"
  /\ handler.at = "persist" => handler.u = phase.u

\* Only the handler of the phase writes, and what it has written so far.
OneWriter ==
  /\ writers # {} => handler.at = "persist"
  /\ \A v, w \in writers : v = w
  /\ \A w \in writers : /\ w.u = handler.u
                        /\ w.pc \in {2, 3} => disk.user = w.u
                        /\ w.pc = 3 => disk.token = w.u

HeldIdentity ==
  /\ handler.at = "persist" /\ writers = {} => disk.user = handler.u /\ disk.token = handler.u
  /\ handler.at = "repair" => disk.user = handler.u /\ disk.token = handler.token /\ disk.uid = handler.uid
  /\ handler.at = "repaired" => disk.user = handler.u /\ disk.token = handler.u

-----------------------------------------------------------------------------
(* The forms of a phase and of a handler.                                    *)

LEMMA PhaseFields ==
  ASSUME NEW p \in Phases
  PROVE  /\ p.at \in {"Idle", "AwaitingUsername", "AwaitingConfirmation", "Running",
                      "EnablingInline", "SettingUserpic"}
         /\ p.at = "Idle" <=> p = Idle
         /\ p.at \in {"AwaitingUsername", "AwaitingConfirmation", "Running"} => p.auto \in BOOLEAN
         /\ p.at \in {"AwaitingConfirmation", "Running"} => p.u \in Usernames /\ p.n \in 1 .. MaxNames
         /\ p.at \in {"EnablingInline", "SettingUserpic"} => p.u \in Usernames
         /\ p.at = "Running" => p.step \in {"NewBot", "DisplayName", "Username"}
BY DEF Phases, Idle

LEMMA PhaseForms ==
  /\ Idle \in Phases /\ Idle.at = "Idle"
  /\ \A a \in BOOLEAN : LET p == [at |-> "AwaitingUsername", auto |-> a]
                        IN p \in Phases /\ p.at = "AwaitingUsername"
  /\ \A u \in Usernames, a \in BOOLEAN, n \in 1 .. MaxNames :
       LET p == [at |-> "AwaitingConfirmation", u |-> u, auto |-> a, n |-> n]
       IN p \in Phases /\ p.at = "AwaitingConfirmation"
  /\ \A u \in Usernames, a \in BOOLEAN, n \in 1 .. MaxNames :
       LET p == [at |-> "Running", u |-> u, auto |-> a, n |-> n, step |-> "NewBot"]
       IN p \in Phases /\ p.at = "Running"
  /\ \A u \in Usernames :
       /\ LET p == [at |-> "EnablingInline", u |-> u, step |-> "ChooseBot"]
          IN p \in Phases /\ p.at = "EnablingInline"
       /\ LET p == [at |-> "SettingUserpic", u |-> u, step |-> "ChooseBot"]
          IN p \in Phases /\ p.at = "SettingUserpic"
BY DEF Phases, Idle

LEMMA PhaseSteps ==
  ASSUME NEW p \in Phases, NEW s
  PROVE  /\ p.at = "Running" /\ s \in {"NewBot", "DisplayName", "Username"}
              => [p EXCEPT !.step = s] \in Phases /\ [p EXCEPT !.step = s].at = "Running"
         /\ p.at = "EnablingInline" /\ s \in {"ChooseBot", "Placeholder", "Description", "Result"}
              => [p EXCEPT !.step = s] \in Phases /\ [p EXCEPT !.step = s].at = "EnablingInline"
         /\ p.at = "SettingUserpic" /\ s \in {"ChooseBot", "PhotoAwait", "WaitConfirm"}
              => [p EXCEPT !.step = s] \in Phases /\ [p EXCEPT !.step = s].at = "SettingUserpic"
<1>1. p.at = "Running" /\ s \in {"NewBot", "DisplayName", "Username"}
              => [p EXCEPT !.step = s] \in Phases /\ [p EXCEPT !.step = s].at = "Running"
  BY DEF Phases, Idle
<1>2. p.at = "EnablingInline" /\ s \in {"ChooseBot", "Placeholder", "Description", "Result"}
              => [p EXCEPT !.step = s] \in Phases /\ [p EXCEPT !.step = s].at = "EnablingInline"
  BY DEF Phases, Idle
<1>3. p.at = "SettingUserpic" /\ s \in {"ChooseBot", "PhotoAwait", "WaitConfirm"}
              => [p EXCEPT !.step = s] \in Phases /\ [p EXCEPT !.step = s].at = "SettingUserpic"
  BY DEF Phases, Idle
<1> QED BY <1>1, <1>2, <1>3

LEMMA HandlerFields ==
  ASSUME NEW h \in Handlers
  PROVE  /\ h.at \in {"Idle", "getMe", "persist", "repaired", "repair"}
         /\ h.at = "Idle" <=> h = Idle
         /\ h.at # "Idle" => h.u \in Usernames
         /\ h.at = "repair" => h.uid \in BOOLEAN /\ h.token \in Names
         /\ \A u : h.at = "persist" /\ h.u = u => h = [at |-> "persist", u |-> u]
         /\ h.at = "getMe" => /\ [h EXCEPT !.at = "persist"] \in Handlers
                              /\ [h EXCEPT !.at = "persist"].at = "persist"
                              /\ [h EXCEPT !.at = "persist"].u = h.u
BY DEF Handlers, Idle

LEMMA HandlerForms ==
  /\ Idle \in Handlers /\ Idle.at = "Idle"
  /\ \A u \in Usernames :
       /\ [at |-> "getMe", u |-> u] \in Handlers
       /\ [at |-> "repaired", u |-> u] \in Handlers
  /\ \A u \in Usernames, d \in BOOLEAN, t \in Names :
       [at |-> "repair", u |-> u, uid |-> d, token |-> t] \in Handlers
BY DEF Handlers, Idle

-----------------------------------------------------------------------------
(* The part of the invariant that is about the phase, the handler, the       *)
(* writes and the files; most actions change little of it.                   *)

Steady ==
  /\ ValidatedHasToken /\ CreationOnlyWithoutBot /\ TokenBeforeState /\ FlowHeld
  /\ ~aside => OneWriter /\ HeldIdentity

\* An action that touches neither the handler, the writes nor the files keeps
\* it, if the phase it moves to could be entered before.
LEMMA SteadyPhase ==
  ASSUME Steady, SetupTypeOK, handler = Idle, UNCHANGED <<store, aside, handler>>,
         phase'.at \in Creating => phase.at \in Creating \/ ~HasCreatedBot
  PROVE  Steady'
<1>1. handler.at = "Idle" /\ handler'.at = "Idle"
  BY DEF Idle
<1> QED
  BY <1>1 DEF Steady, ValidatedHasToken, CreationOnlyWithoutBot, TokenBeforeState, FlowHeld, OneWriter,
     HeldIdentity, Creating, HasCreatedBot, store

LEMMA SteadyCommands ==
  ASSUME Steady, SetupTypeOK,
         HandleCommand \/ Cancel \/ HandleUsernameInput \/ Confirm
  PROVE  Steady'
<1>1. handler = Idle /\ UNCHANGED <<store, aside, handler>>
  BY DEF HandleCommand, Cancel, HandleUsernameInput, Confirm, Awaiting, store
<1>2. Idle.at = "Idle"
  BY DEF Idle
<1>3. phase'.at \in Creating => phase.at \in Creating \/ ~HasCreatedBot
  <2>1. CASE HandleCommand
    BY <2>1 DEF HandleCommand, CreationAllowed
  <2>2. CASE Cancel
    BY <2>2, <1>2 DEF Cancel, Creating
  <2>3. CASE HandleUsernameInput
    BY <2>3 DEF HandleUsernameInput, Creating
  <2>4. CASE Confirm
    BY <2>4 DEF Confirm, Creating
  <2> QED BY <2>1, <2>2, <2>3, <2>4
<1> QED BY <1>1, <1>3, SteadyPhase

LEMMA SteadyGetMe ==
  ASSUME Steady, SetupTypeOK, GetMe
  PROVE  Steady'
<1>1. handler \in Handlers /\ handler.at = "getMe" /\ handler.u \in Usernames /\ Idle.at = "Idle"
  BY HandlerFields DEF SetupTypeOK, GetMe, Idle
<1>2. CASE /\ IdentityMatches(handler.u)
           /\ writers' = writers \cup {[u |-> handler.u, pc |-> 1]}
           /\ handler' = [handler EXCEPT !.at = "persist"] /\ UNCHANGED phase
  <2>1. handler'.at = "persist" /\ handler'.u = handler.u
    BY <1>1, <1>2, HandlerFields
  <2>2. disk' = disk /\ aside' = aside /\ handler.u = phase.u
    BY <1>2 DEF GetMe, IdentityMatches
  <2>3. ~aside => writers = {}
    BY <1>1 DEF Steady, OneWriter
  <2>4. ValidatedHasToken' /\ CreationOnlyWithoutBot' /\ TokenBeforeState' /\ FlowHeld'
    BY <1>1, <1>2, <2>1, <2>2 DEF Steady, ValidatedHasToken, CreationOnlyWithoutBot, TokenBeforeState, FlowHeld
  <2>5. ASSUME ~aside PROVE OneWriter' /\ HeldIdentity'
    <3> DEFINE x == [u |-> handler.u, pc |-> 1]
    <3>1. writers' = {x}
      BY <1>2, <2>3, <2>5
    <3>2. x.u = handler'.u /\ x.pc = 1
      BY <2>1
    <3> HIDE DEF x
    <3> QED BY <3>1, <3>2, <2>1 DEF OneWriter, HeldIdentity
  <2> QED BY <2>2, <2>4, <2>5 DEF Steady
<1>3. CASE phase' = Idle /\ handler' = Idle /\ UNCHANGED writers
  BY <1>1, <1>3 DEF GetMe, Steady, ValidatedHasToken, CreationOnlyWithoutBot, TokenBeforeState, FlowHeld,
     OneWriter, HeldIdentity
<1> QED BY <1>2, <1>3 DEF GetMe

\* What one save of the closure leaves in the files.
LEMMA PersistFacts ==
  ASSUME SetupTypeOK, NEW w \in writers, disk' = PersistStep(w)
  PROVE  /\ w.u \in Usernames /\ w.pc \in {1, 2, 3}
         /\ disk' \in [user : Names, uid : BOOLEAN, token : Names, validated : BOOLEAN]
         /\ w.pc = 1 => disk'.user = w.u /\ disk'.token = disk.token /\ disk'.validated = disk.validated
         /\ w.pc = 2 => disk'.user = disk.user /\ disk'.uid = disk.uid /\ disk'.token = w.u
                        /\ disk'.validated = disk.validated
         /\ w.pc = 3 => disk'.user = w.u /\ disk'.token = disk.token
<1>1. w.u \in Usernames /\ w.u \in Names /\ w.pc \in {1, 2, 3}
  BY DEF SetupTypeOK, Names
<1>2. disk \in [user : Names, uid : BOOLEAN, token : Names, validated : BOOLEAN]
  BY DEF SetupTypeOK
<1>3. CASE w.pc = 1
  <2>1. disk' = [disk EXCEPT !.user = w.u, !.uid = TRUE]
    BY <1>3 DEF PersistStep
  <2>2. disk' \in [user : Names, uid : BOOLEAN, token : Names, validated : BOOLEAN]
    BY <1>1, <1>2, <2>1
  <2>3. disk'.user = w.u /\ disk'.token = disk.token /\ disk'.validated = disk.validated
    BY <1>2, <2>1
  <2> QED BY <1>1, <1>3, <2>2, <2>3
<1>4. CASE w.pc = 2
  <2>1. disk' = [disk EXCEPT !.token = w.u]
    BY <1>4 DEF PersistStep
  <2>2. disk' \in [user : Names, uid : BOOLEAN, token : Names, validated : BOOLEAN]
    BY <1>1, <1>2, <2>1
  <2>3. disk'.user = disk.user /\ disk'.uid = disk.uid /\ disk'.token = w.u /\ disk'.validated = disk.validated
    BY <1>2, <2>1
  <2> QED BY <1>1, <1>4, <2>2, <2>3
<1>5. CASE w.pc = 3
  <2>1. disk' = [disk EXCEPT !.user = w.u, !.uid = TRUE, !.validated = TRUE]
    BY <1>5 DEF PersistStep
  <2>2. disk' \in [user : Names, uid : BOOLEAN, token : Names, validated : BOOLEAN]
    BY <1>1, <1>2, <2>1
  <2>3. disk'.user = w.u /\ disk'.token = disk.token
    BY <1>2, <2>1
  <2> QED BY <1>1, <1>5, <2>2, <2>3
<1> QED BY <1>1, <1>3, <1>4, <1>5

LEMMA SteadyWrite ==
  ASSUME Steady, SetupTypeOK, Write
  PROVE  Steady'
<1> PICK w \in writers :
       /\ \/ disk' = PersistStep(w) /\ w.pc = 3 /\ writers' = writers \ {w}
          \/ disk' = PersistStep(w) /\ w.pc < 3
             /\ writers' = (writers \ {w}) \cup {[w EXCEPT !.pc = @ + 1]}
       /\ UNCHANGED <<phase, known, handler, provisioners, inbox, replies, world, aside, limits>>
  BY DEF Write
<1>1. /\ w.u \in Usernames /\ w.pc \in {1, 2, 3} /\ w.u # None
      /\ w.pc = 1 => disk'.user = w.u /\ disk'.token = disk.token /\ disk'.validated = disk.validated
      /\ w.pc = 2 => disk'.user = disk.user /\ disk'.uid = disk.uid /\ disk'.token = w.u
                     /\ disk'.validated = disk.validated
      /\ w.pc = 3 => disk'.user = w.u /\ disk'.token = disk.token
  BY PersistFacts, SetupAssumption
<1> DEFINE x == [w EXCEPT !.pc = @ + 1]
<1>2. x.u = w.u /\ x.pc = w.pc + 1
  BY DEF SetupTypeOK
<1>3. \/ w.pc = 3 /\ writers' = writers \ {w}
      \/ w.pc \in {1, 2} /\ writers' = (writers \ {w}) \cup {x}
  BY <1>1
<1> HIDE DEF x
<1>4. ValidatedHasToken' /\ TokenBeforeState'
  BY <1>1, <1>2, <1>3 DEF Steady, ValidatedHasToken, TokenBeforeState
<1>5. FlowHeld'
  BY DEF Steady, FlowHeld
<1>6. ASSUME ~aside PROVE OneWriter' /\ HeldIdentity' /\ handler'.at = "persist"
  <2>1. /\ handler.at = "persist" /\ writers = {w} /\ w.u = handler.u
        /\ w.pc \in {2, 3} => disk.user = w.u
        /\ w.pc = 3 => disk.token = w.u
    BY <1>6 DEF Steady, OneWriter
  <2>2. handler'.at = "persist" /\ handler'.u = handler.u
    BY <2>1
  <2>3. CASE w.pc = 3
    <3>1. writers' = {} /\ disk'.user = handler.u /\ disk'.token = handler.u
      BY <1>1, <1>3, <2>1, <2>3
    <3> QED BY <3>1, <2>2 DEF OneWriter, HeldIdentity
  <2>4. CASE w.pc \in {1, 2}
    <3>1. writers' = {x} /\ x.u = handler.u /\ x.pc \in {2, 3}
      BY <1>2, <1>3, <2>1, <2>4
    <3>2. disk'.user = x.u /\ (x.pc = 3 => disk'.token = x.u)
      BY <1>1, <1>2, <2>1, <2>4
    <3> QED BY <3>1, <3>2, <2>2 DEF OneWriter, HeldIdentity
  <2> QED BY <1>1, <2>2, <2>3, <2>4
<1>7. CreationOnlyWithoutBot'
  BY <1>6 DEF CreationOnlyWithoutBot
<1> QED BY <1>4, <1>5, <1>6, <1>7 DEF Steady

LEMMA SteadyWriteFails ==
  ASSUME Steady, SetupTypeOK, WriteFails
  PROVE  Steady'
<1> PICK w \in writers :
       /\ writers' = writers \ {w} /\ disk' \in {disk, PersistStep(w)}
       /\ IF handler = [at |-> "persist", u |-> w.u]
          THEN handler' = Idle /\ phase' = Idle ELSE UNCHANGED <<handler, phase>>
       /\ UNCHANGED <<known, provisioners, inbox, replies, world, aside, limits>>
  BY DEF WriteFails
<1>1. Idle.at = "Idle"
  BY DEF Idle
<1>2. w.u # None /\ w.pc \in {1, 2, 3}
  BY SetupAssumption DEF SetupTypeOK
<1>3. disk'.token # disk.token => disk'.token = w.u
  BY PersistFacts
<1>4. disk'.validated # disk.validated => w.pc = 3
  BY PersistFacts
<1>5. ValidatedHasToken' /\ TokenBeforeState'
  BY <1>2, <1>3, <1>4 DEF Steady, ValidatedHasToken, TokenBeforeState
<1>6. CASE handler = [at |-> "persist", u |-> w.u]
  <2>1. handler' = Idle /\ phase' = Idle
    BY <1>6
  <2>2. ~aside => writers' = {}
    BY DEF Steady, OneWriter
  <2> QED BY <1>1, <1>5, <2>1, <2>2 DEF Steady, CreationOnlyWithoutBot, FlowHeld, OneWriter, HeldIdentity
<1>7. CASE handler # [at |-> "persist", u |-> w.u]
  <2>1. UNCHANGED <<handler, phase>>
    BY <1>7
  <2>2. aside
    <3>1. handler \in Handlers
      BY DEF SetupTypeOK
    <3>2. ~(handler.at = "persist" /\ handler.u = w.u)
      BY <1>7, <3>1, HandlerFields
    <3> QED BY <3>2 DEF Steady, OneWriter
  <2> QED BY <1>5, <2>1, <2>2 DEF Steady, CreationOnlyWithoutBot, FlowHeld
<1> QED BY <1>6, <1>7

\* The closure that a provision waits for has returned, so no write runs
\* unless one was left behind.
LEMMA SteadyProvisionReady ==
  ASSUME Steady, SetupTypeOK, ProvisionReady
  PROVE  /\ Steady'
         /\ phase.u = handler.u /\ handler.u \in Usernames
         /\ ~aside => disk.user = handler.u /\ disk.token = handler.u
<1>1. handler.at = "persist" /\ handler.u \in Usernames /\ phase.u = handler.u
  <2>1. handler.at = "persist" /\ handler \in Handlers
    BY DEF ProvisionReady, SetupTypeOK
  <2> QED BY <2>1, HandlerFields DEF Steady, FlowHeld
<1>2. ~aside => writers = {}
  BY DEF Steady, OneWriter, ProvisionReady
<1>3. ~aside => disk.user = handler.u /\ disk.token = handler.u
  BY <1>1, <1>2 DEF Steady, HeldIdentity
<1>4. /\ handler'.at = "Idle" /\ disk' = disk /\ writers' = writers /\ aside' = aside
      /\ phase'.at \notin Creating
  <2>1. Idle.at = "Idle" /\ phase.u \in Usernames
    BY <1>1 DEF Idle
  <2> QED BY <2>1 DEF ProvisionReady, StartInline, store, Creating
<1>5. Steady'
  BY <1>2, <1>4 DEF Steady, ValidatedHasToken, CreationOnlyWithoutBot, TokenBeforeState, FlowHeld, OneWriter,
     HeldIdentity, Creating
<1> QED BY <1>1, <1>3, <1>5

LEMMA SteadyRepairLoad ==
  ASSUME Steady, SetupTypeOK, RepairLoad
  PROVE  Steady'
<1> DEFINE h == [at |-> "repair", u |-> disk.user, uid |-> disk.uid, token |-> disk.token]
<1>1. handler.at = "Idle"
  BY DEF RepairLoad, Awaiting, Idle
<1>2. handler'.at = "repair" /\ handler'.u = disk.user /\ handler'.uid = disk.uid /\ handler'.token = disk.token
  BY DEF RepairLoad
<1>3. UNCHANGED <<phase, writers, disk, aside>>
  BY DEF RepairLoad, store
<1> QED
  BY <1>1, <1>2, <1>3 DEF Steady, ValidatedHasToken, CreationOnlyWithoutBot, TokenBeforeState, FlowHeld,
     OneWriter, HeldIdentity, HasCreatedBot

LEMMA SteadyRepairPreflight ==
  ASSUME Steady, SetupTypeOK, RepairPreflight
  PROVE  Steady'
<1>1. handler \in Handlers /\ handler.at = "repair" /\ handler.uid \in BOOLEAN /\ Idle.at = "Idle"
  <2>1. handler \in Handlers /\ handler.at = "repair"
    BY DEF RepairPreflight, SetupTypeOK
  <2> QED BY <2>1, HandlerFields DEF Idle
<1>2. UNCHANGED <<phase, writers>>
  BY DEF RepairPreflight
<1>3. CASE handler' = Idle /\ UNCHANGED <<disk, aside>>
  BY <1>1, <1>2, <1>3 DEF Steady, ValidatedHasToken, CreationOnlyWithoutBot, TokenBeforeState, FlowHeld,
     OneWriter, HeldIdentity, HasCreatedBot
<1>4. CASE /\ RepairAccepts(handler)
           /\ disk' = IF handler.uid THEN disk ELSE [disk EXCEPT !.uid = TRUE]
           /\ \/ handler' = [at |-> "repaired", u |-> handler.u]
              \/ ~handler.uid /\ handler' = Idle
           /\ aside' = (aside \/ (~handler.uid /\ phase # Idle))
  <2>1. \/ handler'.at = "repaired" /\ handler'.u = handler.u
        \/ ~handler.uid /\ handler'.at = "Idle"
    BY <1>1, <1>4
  <2>2. /\ disk'.user = disk.user /\ disk'.token = disk.token /\ disk'.validated = disk.validated
        /\ handler.uid => disk'.uid = disk.uid
    <3>1. disk \in [user : Names, uid : BOOLEAN, token : Names, validated : BOOLEAN]
      BY DEF SetupTypeOK
    <3> QED BY <3>1, <1>4
  <2>3. handler.token = handler.u
    BY <1>4 DEF RepairAccepts
  <2>4. ValidatedHasToken' /\ TokenBeforeState' /\ FlowHeld'
    BY <1>2, <2>1, <2>2 DEF Steady, ValidatedHasToken, TokenBeforeState, FlowHeld
  <2>5. ~aside' => OneWriter' /\ HeldIdentity'
    BY <1>1, <1>2, <1>4, <2>1, <2>2, <2>3 DEF Steady, OneWriter, HeldIdentity
  <2>6. CreationOnlyWithoutBot'
    <3>1. CASE handler.uid
      BY <3>1, <1>1, <1>2, <1>4, <2>1, <2>2 DEF Steady, CreationOnlyWithoutBot, HasCreatedBot
    <3>2. CASE ~handler.uid
      <4>1. phase.at \in Creating => phase # Idle
        BY DEF Idle, Creating
      <4> QED BY <3>2, <1>2, <1>4, <4>1 DEF CreationOnlyWithoutBot, Creating
    <3> QED BY <3>1, <3>2
  <2> QED BY <2>4, <2>5, <2>6 DEF Steady
<1> QED BY <1>3, <1>4 DEF RepairPreflight

LEMMA SteadyRepairStart ==
  ASSUME Steady, SetupTypeOK, RepairStart
  PROVE  /\ Steady'
         /\ handler.u \in Usernames
         /\ ~aside => disk.user = handler.u /\ disk.token = handler.u
<1>1. handler \in Handlers /\ handler.at = "repaired" /\ handler.u \in Usernames /\ Idle.at = "Idle"
  <2>1. handler \in Handlers /\ handler.at = "repaired"
    BY DEF RepairStart, SetupTypeOK
  <2> QED BY <2>1, HandlerFields DEF Idle
<1>2. handler' = Idle /\ UNCHANGED <<disk, writers, aside>>
  BY DEF RepairStart, store
<1>3. phase'.at \in Creating => phase.at \in Creating
  BY DEF RepairStart, Creating
<1> QED
  BY <1>1, <1>2, <1>3 DEF Steady, ValidatedHasToken, CreationOnlyWithoutBot, TokenBeforeState, FlowHeld,
     OneWriter, HeldIdentity, HasCreatedBot, Creating

LEMMA SteadyInterruptions ==
  ASSUME Steady, SetupTypeOK, HandleSetupTimeout \/ Restart
  PROVE  Steady'
<1>1. /\ phase' = Idle /\ handler' = Idle /\ disk' = disk /\ Idle.at = "Idle"
      /\ aside => aside'
      /\ writers' \subseteq writers
      /\ ~aside' => writers' = {}
  BY DEF HandleSetupTimeout, Restart, store, Idle, SetupTypeOK
<1> QED
  BY <1>1 DEF Steady, ValidatedHasToken, CreationOnlyWithoutBot, TokenBeforeState, FlowHeld,
     OneWriter, HeldIdentity, HasCreatedBot

-----------------------------------------------------------------------------
(* Types.                                                                    *)

QueueTypes ==
  /\ inbox \in Seq(CommandMsgs) /\ replies \in Seq(AnswerMsgs)
  /\ bots \subseteq Usernames

FormTypes == phase \in Phases /\ handler \in Handlers /\ known \in BOOLEAN

LEMMA CommandFacts ==
  ASSUME NEW k \in Commands, NEW u \in Names, k = "username" => u \in Usernames
  PROVE  Msg(k, u) \in CommandMsgs
BY SetupAssumption DEF Msg, CommandMsgs

LEMMA SendTypes ==
  ASSUME NEW ms \in Seq(CommandMsgs), inbox \in Seq(CommandMsgs), Send(ms)
  PROVE  inbox' \in Seq(CommandMsgs)
BY DEF Send

LEMMA SeqOne ==
  ASSUME NEW S, NEW a \in S
  PROVE  <<a>> \in Seq(S)
OBVIOUS

LEMMA SeqTwo ==
  ASSUME NEW S, NEW a \in S, NEW b \in S
  PROVE  <<a, b>> \in Seq(S)
OBVIOUS

LEMMA StartCommands ==
  /\ <<>> \in Seq(CommandMsgs)
  /\ \A k \in {"/newbot", "/setinline", "/setuserpic"} :
       <<Msg("/cancel", None)>> \in Seq(CommandMsgs) /\ <<Msg("/cancel", None), Msg(k, None)>> \in Seq(CommandMsgs)
<1>1. None \in Names
  BY DEF Names
<1>2. Msg("/cancel", None) \in CommandMsgs
  BY <1>1, CommandFacts DEF Commands
<1>3. \A k \in {"/newbot", "/setinline", "/setuserpic"} : Msg(k, None) \in CommandMsgs
  BY <1>1, CommandFacts DEF Commands
<1>4. <<Msg("/cancel", None)>> \in Seq(CommandMsgs)
  BY <1>2, SeqOne
<1>5. \A k \in {"/newbot", "/setinline", "/setuserpic"} : <<Msg("/cancel", None), Msg(k, None)>> \in Seq(CommandMsgs)
  <2> TAKE k \in {"/newbot", "/setinline", "/setuserpic"}
  <2> QED BY <1>2, <1>3, SeqTwo
<1> QED BY <1>4, <1>5

LEMMA AnswerTypes ==
  ASSUME NEW k \in Answers, NEW u \in Names, NEW next, NEW made,
         k = "success" => u \in Usernames, made \subseteq Usernames,
         QueueTypes, Answer(k, u, next, made)
  PROVE  replies' \in Seq(AnswerMsgs) /\ bots' \subseteq Usernames
<1>1. Msg(k, u) \in AnswerMsgs
  BY SetupAssumption DEF Msg, AnswerMsgs
<1> QED BY <1>1 DEF QueueTypes, Answer

LEMMA BotFatherTypes ==
  ASSUME SetupTypeOK, BotFather
  PROVE  QueueTypes'
<1> DEFINE c == Head(inbox)
<1>1. c \in CommandMsgs /\ inbox' \in Seq(CommandMsgs) /\ QueueTypes
  BY HeadTailProperties DEF SetupTypeOK, BotFather, QueueTypes
<1>2. /\ c.k \in Commands /\ c.u \in Names /\ None \in Names
      /\ c.k = "username" => c.u \in Usernames
  BY <1>1 DEF CommandMsgs, Names
<1>3. \/ \E k \in Answers \ {"success"} : \E next : Answer(k, None, next, {})
      \/ c.u \in Usernames /\ Answer("success", c.u, "none", {c.u})
  <2> HIDE DEF c
  <2>1. CASE c.k = "/cancel"
    BY <2>1 DEF BotFather, Answers, c
  <2>2. CASE c.k = "/newbot"
    BY <2>2 DEF BotFather, Answers, c
  <2>3. CASE c.k = "name" /\ bf = "name"
    BY <2>3 DEF BotFather, Answers, c
  <2>4. CASE c.k = "username" /\ bf = "username"
    BY <2>4, <1>2 DEF BotFather, Answers, c
  <2>5. CASE c.k \in {"/setinline", "/setuserpic"}
    BY <2>5 DEF BotFather, Answers, c
  <2>6. CASE c.k = "pick" /\ bf = "/setinline"
    BY <2>6 DEF BotFather, Answers, c
  <2>7. CASE c.k = "text" /\ bf = "inline"
    BY <2>7 DEF BotFather, Answers, c
  <2>8. CASE c.k = "pick" /\ bf = "/setuserpic"
    BY <2>8 DEF BotFather, Answers, c
  <2>9. CASE c.k = "photo" /\ bf = "photo"
    BY <2>9 DEF BotFather, Answers, c
  <2>10. CASE ~(\/ c.k \in {"/cancel", "/newbot", "/setinline", "/setuserpic"}
                \/ c.k = "name" /\ bf = "name"
                \/ c.k = "username" /\ bf = "username"
                \/ c.k = "pick" /\ bf = "/setinline"
                \/ c.k = "text" /\ bf = "inline"
                \/ c.k = "pick" /\ bf = "/setuserpic"
                \/ c.k = "photo" /\ bf = "photo")
    BY <2>10 DEF BotFather, Answers, c
  <2> QED BY <2>1, <2>2, <2>3, <2>4, <2>5, <2>6, <2>7, <2>8, <2>9, <2>10
<1>4. replies' \in Seq(AnswerMsgs) /\ bots' \subseteq Usernames
  <2>1. CASE \E k \in Answers \ {"success"} : \E next : Answer(k, None, next, {})
    BY <2>1, <1>1, <1>2, AnswerTypes
  <2>2. CASE c.u \in Usernames /\ Answer("success", c.u, "none", {c.u})
    <3>1. "success" \in Answers /\ {c.u} \subseteq Usernames
      BY <2>2 DEF Answers
    <3> QED BY <2>2, <3>1, <1>1, <1>2, AnswerTypes
  <2> QED BY <1>3, <2>1, <2>2
<1> QED BY <1>1, <1>4 DEF QueueTypes

\* Starting a creation, from a confirmation or for the next automatic name.
LEMMA StartFlowFacts ==
  ASSUME SetupTypeOK, NEW before \in Phases, NEW u \in Usernames, NEW auto \in BOOLEAN, NEW n \in 1 .. MaxNames,
         StartFlow(before, u, auto, n)
  PROVE  /\ inbox' \in Seq(CommandMsgs)
         /\ phase' \in Phases
         /\ phase' = before \/ phase'.at = "Running"
         /\ known' \in BOOLEAN
         /\ limits' \in [flows : 0 .. MaxFlows, restarts : 0 .. MaxRestarts]
<1>1. inbox \in Seq(CommandMsgs) /\ known \in BOOLEAN
      /\ limits \in [flows : 0 .. MaxFlows, restarts : 0 .. MaxRestarts]
  BY DEF SetupTypeOK
<1>2. limits' \in [flows : 0 .. MaxFlows, restarts : 0 .. MaxRestarts]
  <2>1. limits.flows \in 0 .. MaxFlows /\ limits.flows < MaxFlows /\ limits' = [limits EXCEPT !.flows = @ + 1]
    BY <1>1 DEF StartFlow
  <2>2. limits.flows + 1 \in 0 .. MaxFlows
    BY <2>1, SetupAssumption
  <2> QED BY <1>1, <2>1, <2>2
<1> DEFINE p == [at |-> "Running", u |-> u, auto |-> auto, n |-> n, step |-> "NewBot"]
<1>3. p \in Phases /\ p.at = "Running"
  BY PhaseForms
<1> HIDE DEF p
<1>4. (phase' = p /\ known' = TRUE) \/ (phase' = before /\ known' = known)
  BY DEF StartFlow, p
<1>5. inbox' \in Seq(CommandMsgs)
  <2>1. \E ms \in {<<>>, <<Msg("/cancel", None)>>, <<Msg("/cancel", None), Msg("/newbot", None)>>} : Send(ms)
    BY DEF StartFlow
  <2>2. \A ms \in {<<>>, <<Msg("/cancel", None)>>, <<Msg("/cancel", None), Msg("/newbot", None)>>} :
          ms \in Seq(CommandMsgs)
    BY StartCommands
  <2> QED BY <1>1, <2>1, <2>2, SendTypes
<1> QED BY <1>1, <1>2, <1>3, <1>4, <1>5

LEMMA SendOrQuitFacts ==
  ASSUME SetupTypeOK, NEW k \in Commands, NEW u \in Names, k = "username" => u \in Usernames, NEW step,
         [phase EXCEPT !.step = step] \in Phases, SendOrQuit(k, u, step)
  PROVE  /\ inbox' \in Seq(CommandMsgs)
         /\ phase' \in {[phase EXCEPT !.step = step], Idle}
         /\ phase' \in Phases
<1>1. <<>> \in Seq(CommandMsgs) /\ <<Msg(k, u)>> \in Seq(CommandMsgs) /\ Idle \in Phases
  <2>1. Msg(k, u) \in CommandMsgs
    BY CommandFacts
  <2> QED BY <2>1, SeqOne, StartCommands, PhaseForms
<1>2. \E ms \in {<<>>, <<Msg(k, u)>>} : Send(ms)
  BY DEF SendOrQuit
<1>3. inbox' \in Seq(CommandMsgs)
  BY <1>1, <1>2, SendTypes DEF SetupTypeOK
<1> QED BY <1>1, <1>3 DEF SendOrQuit

\* What a reply of BotFather's makes of the phase and the handler.
ReplyOutcome ==
  /\ inbox' \in Seq(CommandMsgs) /\ FormTypes'
  /\ limits' \in [flows : 0 .. MaxFlows, restarts : 0 .. MaxRestarts]
  /\ phase'.at \in Creating => phase.at \in Creating
  /\ \/ handler' = handler
     \/ handler'.at = "getMe" /\ phase' = phase /\ phase.at = "Running"

LEMMA PhaseOnly ==
  ASSUME SetupTypeOK, UNCHANGED <<known, handler, limits>>, inbox' \in Seq(CommandMsgs), phase' \in Phases,
         phase'.at \in Creating => phase.at \in Creating
  PROVE  ReplyOutcome
BY DEF SetupTypeOK, ReplyOutcome, FormTypes

LEMMA QuitOutcome ==
  ASSUME SetupTypeOK, UNCHANGED <<known, handler, limits>>, Stay \/ Quit
  PROVE  ReplyOutcome
<1>1. Idle \in Phases /\ Idle.at = "Idle" /\ Idle.at \notin Creating
  BY PhaseForms DEF Creating
<1>2. inbox' \in Seq(CommandMsgs) /\ phase' \in Phases /\ (phase'.at \in Creating => phase.at \in Creating)
  BY <1>1 DEF SetupTypeOK, Stay, Quit
<1> QED BY <1>2, PhaseOnly

LEMMA SendOutcome ==
  ASSUME SetupTypeOK, UNCHANGED <<known, handler, limits>>,
         NEW k \in Commands, NEW u \in Names, k = "username" => u \in Usernames, NEW step,
         [phase EXCEPT !.step = step] \in Phases, [phase EXCEPT !.step = step].at = phase.at,
         SendOrQuit(k, u, step)
  PROVE  ReplyOutcome
<1>1. Idle.at = "Idle" /\ Idle.at \notin Creating
  BY DEF Idle, Creating
<1>2. inbox' \in Seq(CommandMsgs) /\ phase' \in {[phase EXCEPT !.step = step], Idle} /\ phase' \in Phases
  BY SendOrQuitFacts
<1> QED BY <1>1, <1>2, PhaseOnly

LEMMA RunningOutcome ==
  ASSUME SetupTypeOK, NEW r \in AnswerMsgs, phase.at = "Running", OnReplyRunning(r)
  PROVE  ReplyOutcome
<1> DEFINE Same == UNCHANGED <<known, handler, limits>>
<1>1. /\ phase \in Phases /\ phase.u \in Usernames /\ phase.auto \in BOOLEAN /\ phase.n \in 1 .. MaxNames
      /\ phase.step \in {"NewBot", "DisplayName", "Username"}
  BY PhaseFields DEF SetupTypeOK
<1>2. None \in Names /\ phase.u \in Names /\ "name" \in Commands /\ "username" \in Commands
  BY <1>1 DEF Names, Commands
<1>3. CASE Same /\ (Stay \/ Quit)
  BY <1>3, QuitOutcome
<1>4. CASE Same /\ SendOrQuit("name", None, "DisplayName")
  BY <1>1, <1>2, <1>4, PhaseSteps, SendOutcome
<1>5. CASE Same /\ SendOrQuit("username", phase.u, "Username")
  BY <1>1, <1>2, <1>5, PhaseSteps, SendOutcome
<1>6. CASE r.k = "success" /\ handler' = [at |-> "getMe", u |-> r.u] /\ Stay /\ UNCHANGED <<known, limits>>
  <2>1. r.u \in Usernames
    BY <1>6 DEF AnswerMsgs, Names
  <2>2. handler' \in Handlers /\ handler'.at = "getMe"
    BY <1>6, <2>1, HandlerForms
  <2> QED BY <1>6, <2>2 DEF SetupTypeOK, ReplyOutcome, FormTypes, Stay
<1>7. CASE NamesLeft /\ UNCHANGED handler /\ \E u \in Usernames : StartFlow(Idle, u, TRUE, phase.n + 1)
  <2>1. PICK u \in Usernames : StartFlow(Idle, u, TRUE, phase.n + 1)
    BY <1>7
  <2>2. phase.n + 1 \in 1 .. MaxNames /\ Idle \in Phases
    BY <1>1, <1>7, SetupAssumption, PhaseForms DEF NamesLeft
  <2>3. /\ inbox' \in Seq(CommandMsgs) /\ phase' \in Phases /\ known' \in BOOLEAN
        /\ limits' \in [flows : 0 .. MaxFlows, restarts : 0 .. MaxRestarts]
    BY <2>1, <2>2, StartFlowFacts
  <2>4. handler' \in Handlers /\ handler' = handler
    BY <1>7 DEF SetupTypeOK
  <2> QED BY <2>3, <2>4 DEF ReplyOutcome, FormTypes, Creating
<1>8. CASE phase' = [at |-> "AwaitingUsername", auto |-> FALSE] /\ UNCHANGED <<known, handler, inbox, limits>>
  <2>1. phase' \in Phases
    BY <1>8, PhaseForms
  <2> QED BY <1>8, <2>1 DEF SetupTypeOK, ReplyOutcome, FormTypes, Creating
<1> QED
  <2> HIDE DEF Same
  <2>1. CASE r.k \in {"limit", "flood"}
    BY <2>1, <1>3 DEF OnReplyRunning, Same
  <2>2. CASE r.k \notin {"limit", "flood"} /\ phase.step = "NewBot"
    BY <2>2, <1>3, <1>4 DEF OnReplyRunning, Same
  <2>3. CASE r.k \notin {"limit", "flood"} /\ phase.step = "DisplayName"
    BY <2>3, <1>3, <1>5 DEF OnReplyRunning, Same
  <2>4. CASE r.k \notin {"limit", "flood"} /\ phase.step = "Username"
    <3>1. CASE r.k = "success"
      BY <2>4, <3>1, <1>6 DEF OnReplyRunning
    <3>2. CASE r.k = "occupied" /\ NamesLeft
      BY <2>4, <3>2, <1>7 DEF OnReplyRunning
    <3>3. CASE r.k \in {"occupied", "invalid"} /\ ~(r.k = "occupied" /\ NamesLeft)
      BY <2>4, <3>3, <1>8 DEF OnReplyRunning
    <3>4. CASE r.k \notin {"success", "occupied", "invalid"}
      BY <2>4, <3>4, <1>3 DEF OnReplyRunning, Same
    <3> QED BY <3>1, <3>2, <3>3, <3>4
  <2> QED BY <1>1, <2>1, <2>2, <2>3, <2>4

LEMMA StartPhotoOutcome ==
  ASSUME SetupTypeOK, UNCHANGED <<known, handler, limits>>, phase.at = "EnablingInline", StartPhoto
  PROVE  ReplyOutcome
<1> DEFINE p == [at |-> "SettingUserpic", u |-> phase.u, step |-> "ChooseBot"]
<1>1. phase.u \in Usernames
  BY PhaseFields DEF SetupTypeOK
<1>2. p \in Phases /\ p.at = "SettingUserpic" /\ Idle \in Phases /\ Idle.at = "Idle"
  BY <1>1, PhaseForms
<1>3. phase' \in {p, Idle}
  BY DEF StartPhoto
<1> HIDE DEF p
<1>4. phase' \in Phases /\ phase'.at \notin Creating
  BY <1>2, <1>3 DEF Creating
<1>5. inbox' \in Seq(CommandMsgs)
  <2>1. \E ms \in {<<Msg("/cancel", None)>>, <<Msg("/cancel", None), Msg("/setuserpic", None)>>} : Send(ms)
    BY DEF StartPhoto
  <2>2. \A ms \in {<<Msg("/cancel", None)>>, <<Msg("/cancel", None), Msg("/setuserpic", None)>>} :
          ms \in Seq(CommandMsgs)
    BY StartCommands
  <2>3. inbox \in Seq(CommandMsgs)
    BY DEF SetupTypeOK
  <2> QED BY <2>1, <2>2, <2>3, SendTypes
<1> QED BY <1>4, <1>5, PhaseOnly

LEMMA InlineOutcome ==
  ASSUME SetupTypeOK, UNCHANGED <<known, handler, limits>>, NEW r \in AnswerMsgs,
         phase.at = "EnablingInline", OnReplyInline(r)
  PROVE  ReplyOutcome
<1> DEFINE Try(k, step) ==
             /\ Sent
             /\ \/ Send(<<Msg(k, phase.u)>>) /\ phase' = [phase EXCEPT !.step = step]
                \/ StartPhoto
<1>1. phase \in Phases /\ phase.u \in Usernames /\ phase.u \in Names
  BY PhaseFields DEF SetupTypeOK, Names
<1>2. ASSUME NEW k \in {"pick", "text"}, NEW step \in {"Placeholder", "Description", "Result"}, Try(k, step)
      PROVE  ReplyOutcome
  <2>1. CASE StartPhoto
    BY <2>1, StartPhotoOutcome
  <2>2. CASE Send(<<Msg(k, phase.u)>>) /\ phase' = [phase EXCEPT !.step = step]
    <3>1. k \in Commands /\ k # "username"
      BY DEF Commands
    <3>2. <<Msg(k, phase.u)>> \in Seq(CommandMsgs)
      BY <3>1, <1>1, CommandFacts, SeqOne
    <3>3. inbox' \in Seq(CommandMsgs)
      BY <2>2, <3>2, SendTypes DEF SetupTypeOK
    <3>4. phase' \in Phases /\ phase'.at = "EnablingInline"
      BY <1>1, <2>2, PhaseSteps
    <3> QED BY <3>3, <3>4, PhaseOnly DEF Creating
  <2> QED BY <1>2, <2>1, <2>2
<1>3. \/ StartPhoto \/ Stay
      \/ Try("pick", "Placeholder") \/ Try("text", "Description") \/ Try("text", "Result")
  BY DEF OnReplyInline
<1> HIDE DEF Try
<1> QED BY <1>2, <1>3, StartPhotoOutcome, QuitOutcome

LEMMA PhotoOutcome ==
  ASSUME SetupTypeOK, UNCHANGED <<known, handler, limits>>, NEW r \in AnswerMsgs,
         phase.at = "SettingUserpic", OnReplyPhoto(r)
  PROVE  ReplyOutcome
<1>1. phase \in Phases /\ phase.u \in Usernames /\ phase.u \in Names /\ "pick" \in Commands /\ "photo" \in Commands
  BY PhaseFields DEF SetupTypeOK, Names, Commands
<1>2. Stay \/ Quit \/ SendOrQuit("pick", phase.u, "PhotoAwait") \/ SendOrQuit("photo", phase.u, "WaitConfirm")
  BY DEF OnReplyPhoto
<1>3. CASE SendOrQuit("pick", phase.u, "PhotoAwait")
  BY <1>1, <1>3, PhaseSteps, SendOutcome
<1>4. CASE SendOrQuit("photo", phase.u, "WaitConfirm")
  BY <1>1, <1>4, PhaseSteps, SendOutcome
<1> QED BY <1>2, <1>3, <1>4, QuitOutcome

LEMMA ReplyFacts ==
  ASSUME SetupTypeOK, HandleBotFatherReply
  PROVE  ReplyOutcome /\ replies' \in Seq(AnswerMsgs)
<1> DEFINE r == Head(replies)
<1>1. r \in AnswerMsgs /\ replies' \in Seq(AnswerMsgs)
  BY HeadTailProperties DEF SetupTypeOK, HandleBotFatherReply
<1> HIDE DEF r
<1>2. \/ phase.at = "Running" /\ OnReplyRunning(r)
      \/ phase.at = "EnablingInline" /\ OnReplyInline(r) /\ UNCHANGED <<known, handler, limits>>
      \/ phase.at = "SettingUserpic" /\ OnReplyPhoto(r) /\ UNCHANGED <<known, handler, limits>>
      \/ Stay /\ UNCHANGED <<known, handler, limits>>
  BY DEF HandleBotFatherReply, r
<1> QED BY <1>1, <1>2, RunningOutcome, InlineOutcome, PhotoOutcome, QuitOutcome

LEMMA SteadyReply ==
  ASSUME Steady, SetupTypeOK, HandleBotFatherReply
  PROVE  Steady'
<1>1. ReplyOutcome /\ handler = Idle /\ handler.at = "Idle" /\ UNCHANGED <<store, aside>>
  BY ReplyFacts DEF HandleBotFatherReply, Awaiting, Idle, store
<1>2. CASE handler' = handler
  BY <1>1, <1>2, SteadyPhase DEF ReplyOutcome
<1>3. CASE handler'.at = "getMe" /\ phase' = phase /\ phase.at = "Running"
  BY <1>1, <1>3 DEF Steady, ValidatedHasToken, CreationOnlyWithoutBot, TokenBeforeState, FlowHeld,
     OneWriter, HeldIdentity, HasCreatedBot, store
<1> QED BY <1>1, <1>2, <1>3 DEF ReplyOutcome

-----------------------------------------------------------------------------
(* The invariant, action by action.                                          *)

LEMMA SetupInitStrong ==
  ASSUME SetupInit
  PROVE  SetupTypeOK /\ Steady
<1>1. Idle \in Phases /\ Idle \in Handlers /\ Idle.at = "Idle"
  BY PhaseForms, HandlerForms
<1>2. disk \in [user : Names, uid : BOOLEAN, token : Names, validated : BOOLEAN] /\ bots \subseteq Usernames
  <2>1. CASE disk = [user |-> None, uid |-> FALSE, token |-> None, validated |-> FALSE] /\ bots = {}
    BY <2>1 DEF Names
  <2>2. ASSUME NEW u \in Usernames,
               disk = [user |-> u, uid |-> FALSE, token |-> u, validated |-> TRUE], bots = {u}
        PROVE  disk \in [user : Names, uid : BOOLEAN, token : Names, validated : BOOLEAN] /\ bots \subseteq Usernames
    <3>1. u \in Names
      BY DEF Names
    <3> QED BY <2>2, <3>1
  <2> QED BY <2>1, <2>2 DEF SetupInit
<1>3. provisioners \subseteq Usernames /\ Cardinality(provisioners) <= 1
  BY FS_EmptySet DEF SetupInit
<1>4. limits \in [flows : 0 .. MaxFlows, restarts : 0 .. MaxRestarts]
  BY SetupAssumption DEF SetupInit
<1>5. SetupTypeOK
  <2>1. inbox \in Seq(CommandMsgs) /\ replies \in Seq(AnswerMsgs)
    BY DEF SetupInit
  <2>2. writers \subseteq [u : Usernames, pc : 1 .. 3] /\ aside \in BOOLEAN /\ known \in BOOLEAN
        /\ phase \in Phases /\ handler \in Handlers
    BY <1>1 DEF SetupInit
  <2> QED BY <1>2, <1>3, <1>4, <2>1, <2>2 DEF SetupTypeOK
<1>6. ValidatedHasToken
  BY SetupAssumption DEF SetupInit, ValidatedHasToken
<1> QED
  BY <1>1, <1>5, <1>6 DEF SetupInit, Steady, CreationOnlyWithoutBot, TokenBeforeState, FlowHeld, OneWriter,
     HeldIdentity

StoreTypes ==
  /\ aside \in BOOLEAN
  /\ writers \subseteq [u : Usernames, pc : 1 .. 3]
  /\ disk \in [user : Names, uid : BOOLEAN, token : Names, validated : BOOLEAN]

TaskTypes == provisioners \subseteq Usernames /\ Cardinality(provisioners) <= 1

CounterTypes == limits \in [flows : 0 .. MaxFlows, restarts : 0 .. MaxRestarts]

LEMMA TypeParts ==
  /\ SetupTypeOK <=> FormTypes /\ StoreTypes /\ QueueTypes /\ TaskTypes /\ CounterTypes
  /\ SetupTypeOK' <=> FormTypes' /\ StoreTypes' /\ QueueTypes' /\ TaskTypes' /\ CounterTypes'
BY DEF SetupTypeOK, FormTypes, StoreTypes, QueueTypes, TaskTypes, CounterTypes

LEMMA StoreTypesKept ==
  ASSUME StoreTypes, UNCHANGED <<store, aside>>
  PROVE  StoreTypes'
BY DEF StoreTypes, store

LEMMA QueueTypesKept ==
  ASSUME QueueTypes, UNCHANGED <<inbox, replies, world>>
  PROVE  QueueTypes'
BY DEF QueueTypes, world

LEMMA TaskTypesKept ==
  ASSUME TaskTypes, \/ UNCHANGED provisioners
                    \/ provisioners' = {}
                    \/ \E u \in Usernames : TrySpawn(u)
  PROVE  TaskTypes'
<1>1. Cardinality({}) = 0 /\ \A u \in Usernames : Cardinality({u}) = 1
  BY FS_EmptySet, FS_Singleton
<1> QED BY <1>1 DEF TaskTypes, TrySpawn

LEMMA TypesOfCommands ==
  ASSUME SetupTypeOK, HandleCommand \/ Cancel \/ HandleUsernameInput \/ Confirm
  PROVE  SetupTypeOK'
<1>1. 1 \in 1 .. MaxNames
  BY SetupAssumption
<1>2. CASE HandleCommand \/ Cancel \/ HandleUsernameInput
  <2>1. phase' \in Phases
    <3>1. CASE HandleCommand
      BY <3>1, <1>1, PhaseForms DEF HandleCommand, ConfirmOrStart
    <3>2. CASE Cancel
      BY <3>2, PhaseForms DEF Cancel
    <3>3. CASE HandleUsernameInput
      <4>1. phase.auto \in BOOLEAN
        BY <3>3, PhaseFields DEF HandleUsernameInput, SetupTypeOK
      <4> PICK u \in Usernames, generated \in BOOLEAN : ConfirmOrStart(u, phase.auto \/ generated, 1)
        BY <3>3 DEF HandleUsernameInput
      <4> DEFINE a == phase.auto \/ generated
      <4>2. a \in BOOLEAN
        BY <4>1
      <4>3. phase' = [at |-> "AwaitingConfirmation", u |-> u, auto |-> a, n |-> 1]
        BY DEF ConfirmOrStart
      <4> HIDE DEF a
      <4> QED BY <4>2, <4>3, <1>1, PhaseForms
    <3> QED BY <1>2, <3>1, <3>2, <3>3
  <2>2. UNCHANGED <<known, handler, store, provisioners, inbox, replies, world, aside, limits>>
    BY <1>2 DEF HandleCommand, Cancel, HandleUsernameInput
  <2> QED BY <2>1, <2>2, TypeParts, StoreTypesKept, QueueTypesKept, TaskTypesKept DEF FormTypes, CounterTypes
<1>3. CASE Confirm
  <2>1. /\ phase \in Phases /\ phase.u \in Usernames /\ phase.auto \in BOOLEAN /\ phase.n \in 1 .. MaxNames
        /\ StartFlow(phase, phase.u, phase.auto, phase.n)
    BY <1>3, PhaseFields DEF Confirm, SetupTypeOK
  <2>2. inbox' \in Seq(CommandMsgs) /\ phase' \in Phases /\ known' \in BOOLEAN /\ CounterTypes'
    BY <2>1, StartFlowFacts DEF CounterTypes
  <2>3. UNCHANGED <<handler, store, provisioners, replies, world, aside>>
    BY <1>3 DEF Confirm
  <2>4. QueueTypes' /\ FormTypes'
    BY <2>2, <2>3 DEF SetupTypeOK, QueueTypes, FormTypes, world
  <2> QED BY <2>2, <2>3, <2>4, TypeParts, StoreTypesKept, TaskTypesKept
<1> QED BY <1>2, <1>3

LEMMA TypesOfReply ==
  ASSUME SetupTypeOK, HandleBotFatherReply
  PROVE  SetupTypeOK'
<1>1. ReplyOutcome /\ replies' \in Seq(AnswerMsgs)
  BY ReplyFacts
<1>2. UNCHANGED <<store, provisioners, world, aside>>
  BY DEF HandleBotFatherReply
<1>3. QueueTypes' /\ FormTypes' /\ CounterTypes'
  BY <1>1, <1>2 DEF ReplyOutcome, SetupTypeOK, QueueTypes, CounterTypes, world
<1> QED BY <1>2, <1>3, TypeParts, StoreTypesKept, TaskTypesKept

LEMMA TypesOfWrites ==
  ASSUME SetupTypeOK, GetMe \/ Write \/ WriteFails
  PROVE  SetupTypeOK'
<1>1. UNCHANGED <<known, provisioners, inbox, replies, world, aside, limits>>
  BY DEF GetMe, Write, WriteFails
<1>2. Idle \in Phases /\ Idle \in Handlers
  BY PhaseForms, HandlerForms
<1>3. FormTypes' /\ StoreTypes'
  <2>1. CASE GetMe
    <3>1. handler \in Handlers /\ handler.u \in Usernames /\ [handler EXCEPT !.at = "persist"] \in Handlers
      BY <2>1, HandlerFields DEF GetMe, SetupTypeOK
    <3>2. [u |-> handler.u, pc |-> 1] \in [u : Usernames, pc : 1 .. 3]
      BY <3>1
    <3>3. phase' \in Phases /\ handler' \in Handlers
      BY <2>1, <1>2, <3>1 DEF GetMe, SetupTypeOK
    <3>4. writers' \subseteq [u : Usernames, pc : 1 .. 3] /\ disk' = disk
      BY <2>1, <3>2 DEF GetMe, SetupTypeOK
    <3> QED BY <1>1, <3>3, <3>4 DEF SetupTypeOK, FormTypes, StoreTypes
  <2>2. CASE Write
    <3> PICK w \in writers :
           /\ \/ disk' = PersistStep(w) /\ w.pc = 3 /\ writers' = writers \ {w}
              \/ disk' = PersistStep(w) /\ w.pc < 3
                 /\ writers' = (writers \ {w}) \cup {[w EXCEPT !.pc = @ + 1]}
           /\ UNCHANGED <<phase, known, handler, provisioners, inbox, replies, world, aside, limits>>
      BY <2>2 DEF Write
    <3>1. disk' \in [user : Names, uid : BOOLEAN, token : Names, validated : BOOLEAN]
      BY PersistFacts
    <3>2. w.pc < 3 => [w EXCEPT !.pc = @ + 1] \in [u : Usernames, pc : 1 .. 3]
      BY DEF SetupTypeOK
    <3>3. writers' \subseteq [u : Usernames, pc : 1 .. 3]
      BY <3>2 DEF SetupTypeOK
    <3> QED BY <3>1, <3>3 DEF SetupTypeOK, FormTypes, StoreTypes
  <2>3. CASE WriteFails
    <3>1. phase' \in Phases /\ handler' \in Handlers
      BY <2>3, <1>2 DEF WriteFails, SetupTypeOK
    <3>2. writers' \subseteq [u : Usernames, pc : 1 .. 3]
      BY <2>3 DEF WriteFails, SetupTypeOK
    <3>3. disk' \in [user : Names, uid : BOOLEAN, token : Names, validated : BOOLEAN]
      <4> PICK w \in writers : disk' \in {disk, PersistStep(w)}
        BY <2>3 DEF WriteFails
      <4> QED BY PersistFacts DEF SetupTypeOK
    <3> QED BY <1>1, <3>1, <3>2, <3>3 DEF SetupTypeOK, FormTypes, StoreTypes
  <2> QED BY <2>1, <2>2, <2>3
<1> QED BY <1>1, <1>3, TypeParts, QueueTypesKept, TaskTypesKept DEF CounterTypes

LEMMA InlineTypes ==
  ASSUME inbox \in Seq(CommandMsgs),
         \E ms \in {<<>>, <<Msg("/cancel", None)>>, <<Msg("/cancel", None), Msg("/setinline", None)>>} : Send(ms)
  PROVE  inbox' \in Seq(CommandMsgs)
<1>1. \A ms \in {<<>>, <<Msg("/cancel", None)>>, <<Msg("/cancel", None), Msg("/setinline", None)>>} :
        ms \in Seq(CommandMsgs)
  BY StartCommands
<1> QED BY <1>1, SendTypes

LEMMA TypesOfProvision ==
  ASSUME Steady, SetupTypeOK, ProvisionReady \/ ProvisionEnds
  PROVE  SetupTypeOK'
<1>1. CASE ProvisionReady
  <2>1. phase.u \in Usernames
    BY <1>1, SteadyProvisionReady
  <2> DEFINE p == [at |-> "EnablingInline", u |-> phase.u, step |-> "ChooseBot"]
  <2>2. p \in Phases /\ Idle \in Phases /\ Idle \in Handlers
    BY <2>1, PhaseForms, HandlerForms
  <2>3. phase' \in {p, Idle} /\ handler' = Idle
    BY <1>1 DEF ProvisionReady, StartInline
  <2> HIDE DEF p
  <2>4. inbox' \in Seq(CommandMsgs)
    <3>1. \E ms \in {<<>>, <<Msg("/cancel", None)>>, <<Msg("/cancel", None), Msg("/setinline", None)>>} : Send(ms)
      BY <1>1 DEF ProvisionReady, StartInline
    <3> QED BY <3>1, InlineTypes DEF SetupTypeOK
  <2>5. UNCHANGED <<known, store, replies, world, aside, limits>> /\ TrySpawn(phase.u)
    BY <1>1 DEF ProvisionReady
  <2>6. FormTypes' /\ QueueTypes' /\ CounterTypes'
    BY <2>2, <2>3, <2>4, <2>5 DEF SetupTypeOK, FormTypes, QueueTypes, CounterTypes, world
  <2> QED BY <2>1, <2>5, <2>6, TypeParts, StoreTypesKept, TaskTypesKept
<1>2. CASE ProvisionEnds
  <2>1. UNCHANGED <<phase, known, handler, store, inbox, replies, world, aside, limits>> /\ provisioners' = {}
    BY <1>2 DEF ProvisionEnds
  <2> QED BY <2>1, TypeParts, StoreTypesKept, QueueTypesKept, TaskTypesKept DEF FormTypes, CounterTypes
<1> QED BY <1>1, <1>2

LEMMA TypesOfRepair ==
  ASSUME Steady, SetupTypeOK, RepairLoad \/ RepairPreflight \/ RepairStart
  PROVE  SetupTypeOK'
<1>1. Idle \in Phases /\ Idle \in Handlers
  BY PhaseForms, HandlerForms
<1>2. CASE RepairLoad
  <2>1. disk.user \in Usernames /\ disk.uid \in BOOLEAN /\ disk.token \in Names
    BY <1>2 DEF RepairLoad, SetupTypeOK, Names
  <2>2. handler' \in Handlers
    BY <1>2, <2>1, HandlerForms DEF RepairLoad
  <2>3. UNCHANGED <<phase, known, store, provisioners, inbox, replies, world, aside, limits>>
    BY <1>2 DEF RepairLoad
  <2> QED BY <2>2, <2>3, TypeParts, StoreTypesKept, QueueTypesKept, TaskTypesKept DEF FormTypes, CounterTypes
<1>3. CASE RepairPreflight
  <2>1. handler \in Handlers /\ handler.u \in Usernames /\ handler.uid \in BOOLEAN
    BY <1>3, HandlerFields DEF RepairPreflight, SetupTypeOK
  <2>2. handler' \in Handlers
    BY <1>1, <1>3, <2>1, HandlerForms DEF RepairPreflight
  <2>3. UNCHANGED <<phase, known, writers, provisioners, inbox, replies, world, limits>>
    BY <1>3 DEF RepairPreflight
  <2>4. disk' \in [user : Names, uid : BOOLEAN, token : Names, validated : BOOLEAN] /\ aside' \in BOOLEAN
    <3>1. disk \in [user : Names, uid : BOOLEAN, token : Names, validated : BOOLEAN] /\ aside \in BOOLEAN
      BY DEF SetupTypeOK
    <3>2. disk' \in {disk, [disk EXCEPT !.uid = TRUE]}
      BY <1>3 DEF RepairPreflight
    <3>3. aside' \in BOOLEAN
      <4>1. aside' = aside \/ aside' = (aside \/ (~handler.uid /\ phase # Idle))
        BY <1>3 DEF RepairPreflight
      <4> QED BY <4>1, <3>1
    <3> QED BY <3>1, <3>2, <3>3
  <2>5. StoreTypes'
    BY <2>3, <2>4 DEF SetupTypeOK, StoreTypes
  <2> QED BY <2>2, <2>3, <2>5, TypeParts, QueueTypesKept, TaskTypesKept DEF FormTypes, CounterTypes
<1>4. CASE RepairStart
  <2>1. handler.u \in Usernames
    BY <1>4, SteadyRepairStart
  <2>2. TrySpawn(handler.u) /\ handler' = Idle /\ UNCHANGED <<store, replies, world, aside, limits>>
    BY <1>4 DEF RepairStart
  <2>3. inbox' \in Seq(CommandMsgs)
    <3>1. \E ms \in {<<>>, <<Msg("/cancel", None)>>, <<Msg("/cancel", None), Msg("/setinline", None)>>} : Send(ms)
      BY <1>4 DEF RepairStart
    <3> QED BY <3>1, InlineTypes DEF SetupTypeOK
  <2>4. phase' \in Phases /\ known' \in BOOLEAN
    <3> DEFINE p == [at |-> "EnablingInline", u |-> handler.u, step |-> "ChooseBot"]
    <3>1. p \in Phases
      BY <2>1, PhaseForms
    <3>2. phase' \in {p, phase} /\ known' \in {TRUE, known}
      BY <1>4 DEF RepairStart
    <3> QED BY <3>1, <3>2 DEF SetupTypeOK
  <2>5. FormTypes' /\ QueueTypes' /\ CounterTypes'
    BY <1>1, <2>2, <2>3, <2>4 DEF SetupTypeOK, FormTypes, QueueTypes, CounterTypes, world
  <2> QED BY <2>1, <2>2, <2>5, TypeParts, StoreTypesKept, TaskTypesKept
<1> QED BY <1>2, <1>3, <1>4

LEMMA TypesOfInterruptions ==
  ASSUME SetupTypeOK, HandleSetupTimeout \/ Restart
  PROVE  SetupTypeOK'
<1>1. Idle \in Phases /\ Idle \in Handlers
  BY PhaseForms, HandlerForms
<1>2. CASE HandleSetupTimeout
  <2>1. /\ phase' = Idle /\ handler' = Idle
        /\ UNCHANGED <<known, store, provisioners, inbox, replies, world, limits>>
        /\ aside' = (aside \/ writers # {})
    BY <1>2 DEF HandleSetupTimeout
  <2>2. StoreTypes'
    BY <2>1 DEF SetupTypeOK, StoreTypes, store
  <2> QED BY <1>1, <2>1, <2>2, TypeParts, QueueTypesKept, TaskTypesKept DEF FormTypes, CounterTypes
<1>3. CASE Restart
  <2>1. /\ phase' = Idle /\ known' = FALSE /\ handler' = Idle /\ writers' = {} /\ provisioners' = {}
        /\ UNCHANGED <<disk, inbox, replies, world, aside>>
        /\ limits.restarts < MaxRestarts /\ limits' = [limits EXCEPT !.restarts = @ + 1]
    BY <1>3 DEF Restart
  <2>2. CounterTypes'
    <3>1. limits \in [flows : 0 .. MaxFlows, restarts : 0 .. MaxRestarts]
      BY DEF SetupTypeOK
    <3>2. limits.restarts + 1 \in 0 .. MaxRestarts
      BY <3>1, <2>1, SetupAssumption
    <3> QED BY <3>1, <3>2, <2>1 DEF CounterTypes
  <2>3. StoreTypes' /\ FormTypes'
    BY <1>1, <2>1 DEF SetupTypeOK, StoreTypes, FormTypes
  <2> QED BY <2>1, <2>2, <2>3, TypeParts, QueueTypesKept, TaskTypesKept
<1> QED BY <1>2, <1>3

LEMMA SetupStep ==
  ASSUME SetupTypeOK, Steady, SetupNext
  PROVE  SetupTypeOK' /\ Steady'
<1>1. CASE BotFather
  <2>1. UNCHANGED <<phase, known, handler, store, provisioners, aside, limits>>
    BY <1>1 DEF BotFather
  <2>2. SetupTypeOK'
    BY <1>1, <2>1, BotFatherTypes, TypeParts, StoreTypesKept, TaskTypesKept DEF FormTypes, CounterTypes
  <2>3. Steady'
    BY <2>1 DEF Steady, ValidatedHasToken, CreationOnlyWithoutBot, TokenBeforeState, FlowHeld, OneWriter,
       HeldIdentity, HasCreatedBot, store
  <2> QED BY <2>2, <2>3
<1>2. CASE HandleCommand \/ Cancel \/ HandleUsernameInput \/ Confirm
  BY <1>2, TypesOfCommands, SteadyCommands
<1>3. CASE HandleBotFatherReply
  BY <1>3, TypesOfReply, SteadyReply
<1>4. CASE GetMe \/ Write \/ WriteFails
  BY <1>4, TypesOfWrites, SteadyGetMe, SteadyWrite, SteadyWriteFails
<1>5. CASE ProvisionReady
  BY <1>5, TypesOfProvision, SteadyProvisionReady
<1>6. CASE ProvisionEnds
  <2>1. Steady'
    BY <1>6 DEF ProvisionEnds, Steady, ValidatedHasToken, CreationOnlyWithoutBot, TokenBeforeState, FlowHeld,
       OneWriter, HeldIdentity, HasCreatedBot, store
  <2> QED BY <1>6, <2>1, TypesOfProvision
<1>7. CASE RepairLoad \/ RepairPreflight \/ RepairStart
  BY <1>7, TypesOfRepair, SteadyRepairLoad, SteadyRepairPreflight, SteadyRepairStart
<1>8. CASE HandleSetupTimeout \/ Restart
  BY <1>8, TypesOfInterruptions, SteadyInterruptions
<1> QED BY <1>1, <1>2, <1>3, <1>4, <1>5, <1>6, <1>7, <1>8 DEF SetupNext

LEMMA SetupStutter ==
  ASSUME SetupTypeOK, Steady, UNCHANGED setupVars
  PROVE  SetupTypeOK' /\ Steady'
<1>1. UNCHANGED <<phase, known, handler, writers, disk, provisioners, inbox, replies, bf, bots, aside, limits>>
  BY DEF setupVars
<1>2. SetupTypeOK'
  BY <1>1 DEF SetupTypeOK
<1>3. Steady'
  BY <1>1 DEF Steady, ValidatedHasToken, CreationOnlyWithoutBot, TokenBeforeState, FlowHeld, OneWriter,
     HeldIdentity, HasCreatedBot
<1> QED BY <1>2, <1>3

\* The setup dialogue for any set of names and any number of flows, restarts and
\* queued answers: a recorded bot that was validated has its token, whatever write
\* the program stopped in, and no conversation that creates a bot runs beside a
\* recorded one but in the two ways the source leaves open.
THEOREM SetupKeepsOneBot == SetupSpec => []SetupInv
<1> DEFINE Inv == SetupTypeOK /\ Steady
<1>1. SetupInit => Inv
  BY SetupInitStrong
<1>2. Inv /\ [SetupNext]_setupVars => Inv'
  BY SetupStep, SetupStutter
<1>3. Inv => SetupInv
  BY DEF SetupInv, Steady
<1> QED BY <1>1, <1>2, <1>3, PTL DEF SetupSpec

LEMMA ProvisionStep ==
  ASSUME SetupTypeOK, Steady, [SetupNext]_setupVars,
         NEW u \in provisioners' \ provisioners, ~aside
  PROVE  disk.token = u /\ disk.user = u
<1>1. CASE ProvisionReady
  <2>1. u = phase.u
    BY <1>1 DEF ProvisionReady, TrySpawn
  <2> QED BY <1>1, <2>1, SteadyProvisionReady
<1>2. CASE RepairStart
  <2>1. u = handler.u
    BY <1>2 DEF RepairStart, TrySpawn
  <2> QED BY <1>2, <2>1, SteadyRepairStart
<1>3. CASE ~(ProvisionReady \/ RepairStart)
  <2>1. \/ UNCHANGED setupVars \/ BotFather \/ HandleCommand \/ Cancel \/ HandleUsernameInput \/ Confirm
        \/ HandleBotFatherReply \/ GetMe \/ Write \/ WriteFails \/ ProvisionEnds
        \/ RepairLoad \/ RepairPreflight \/ HandleSetupTimeout \/ Restart
    BY <1>3 DEF SetupNext
  <2>2. provisioners' \subseteq provisioners
    BY <2>1 DEF setupVars, BotFather, HandleCommand, Cancel, HandleUsernameInput, Confirm, HandleBotFatherReply,
       GetMe, Write, WriteFails, ProvisionEnds, RepairLoad, RepairPreflight, HandleSetupTimeout, Restart
  <2> QED BY <2>2
<1> QED BY <1>1, <1>2, <1>3

\* Whichever answers arrive late and in whichever order, the bot a provision
\* starts with is the one whose identity and token are stored, unless a write was
\* left behind by a deadline or made by a repair beside the phase.
THEOREM ProvisioningOwnsItsToken == SetupSpec => ProvisionOwnsToken
<1> DEFINE Inv == SetupTypeOK /\ Steady
           Owns == \A u \in provisioners' \ provisioners : ~aside => disk.token = u /\ disk.user = u
<1>1. SetupInit => Inv
  BY SetupInitStrong
<1>2. Inv /\ [SetupNext]_setupVars => Inv'
  BY SetupStep, SetupStutter
<1>3. Inv /\ [SetupNext]_setupVars => Owns
  BY ProvisionStep
<1>4. Inv /\ [SetupNext]_setupVars => [Owns]_setupVars
  BY <1>3
<1> QED BY <1>1, <1>2, <1>4, PTL DEF SetupSpec, ProvisionOwnsToken

-----------------------------------------------------------------------------
(* The workspace.  WorkspaceInv is not inductive: every copy of the state    *)
(* file, the run's and the tasks', must tell the truth about the same group, *)
(* or a save of one of them would record what never was.                     *)

\* From the topics on a run has its group.
Late == {"topics", "invite", "rights", "community", "join", "plan", "update", "verify", "end"}

RunHappened == run # Stopped => Happened(run.st, tg)

\* A task that has started works on the group of the state file, which is then
\* settled for good.
TaskSettled(t, k, g, telegram) ==
  /\ k.at \in {"create", "load", "save"} => g # 0
  /\ k.at = "create" => k.group = g
  /\ k.at = "load" => k.id <= telegram.topics[g][NameOf(t)]
  /\ k.at = "save" => k.st.group = g /\ Happened(k.st, telegram)

TasksSettled == \A t \in Topics : TaskSettled(t, task[t], stateFile.group, tg)

GroupAgrees == run # Stopped /\ stateFile.group # 0 => run.st.group = stateFile.group

GroupKnown(r) ==
  /\ r.at \in Late => r.st.group # 0
  /\ r.at = "save" /\ r.next \in Late => r.st.group # 0

\* A group that the file does not name is about to be recorded.
GroupPending ==
  run # Stopped /\ run.st.group # stateFile.group => run.at = "save" /\ run.next = "topics"

OneGroup ==
  ~lost => /\ tg.groups <= 1
           /\ tg.groups = 1 => stateFile.group = 1 \/ (run # Stopped /\ run.st.group = 1)

\* The folder to be updated is the companion's, as it was read, or a new one.
FolderPlanned(r) ==
  (r.at = "save" /\ r.next = "update") \/ r.at \in {"update", "verify"} =>
    /\ r.folder.plan = "use"
    /\ r.folder.id \in DOMAIN r.seen =>
         r.seen[r.folder.id] = r.folder.folder /\ r.folder.folder.title = "lavis"

WorkspaceSteady ==
  /\ RecordedStagesHappened /\ RunHappened /\ TasksSettled
  /\ GroupAgrees /\ GroupPending /\ OneGroup
  /\ run # Stopped => GroupKnown(run) /\ FolderPlanned(run)

-----------------------------------------------------------------------------
(* The order of the stages.                                                  *)

LEMMA LeastNatural ==
  ASSUME NEW T \in SUBSET Nat, T # {}
  PROVE  \E x \in T : \A y \in T : x <= y
<1> DEFINE R == OpToRel(<, Nat)
<1>1. IsWellFoundedOn(R, Nat)
  BY NatLessThanWellFounded, Zenon
<1>2. PICK x \in T : \A y \in T : ~(<<y, x>> \in R)
  <2> HIDE DEF R
  <2> QED BY <1>1, WFMin
<1>3. \A y \in T : ~(y < x)
  BY <1>2 DEF OpToRel
<1> QED BY <1>3

LEMMA MinFacts ==
  ASSUME NEW T \in SUBSET Nat, T # {}
  PROVE  Min(T) \in T /\ \A y \in T : Min(T) <= y
BY LeastNatural DEF Min

LEMMA OrderFacts ==
  /\ Len(Order) = 10
  /\ Order[1] = "bot" /\ Order[2] = "start" /\ Order[3] = "config" /\ Order[4] = "group" /\ Order[5] = "topics"
  /\ Order[6] = "invite" /\ Order[7] = "rights" /\ Order[8] = "community" /\ Order[9] = "join"
  /\ Order[10] = "plan"
BY DEF Order

LEMMA StageIndex ==
  ASSUME NEW i \in 1 .. 10
  PROVE  Order[i] \in Stages /\ IndexOf(Order[i]) = i
<1>1. \A j \in 1 .. 10 : Order[j] = Order[i] => j = i
  BY OrderFacts
<1>2. 1 .. Len(Order) = 1 .. 10
  BY OrderFacts
<1>3. IndexOf(Order[i]) = i
  BY <1>1, <1>2 DEF IndexOf
<1>4. Order[i] \in Stages
  BY OrderFacts DEF Stages
<1> QED BY <1>3, <1>4

\* The group, the topics and the folder are looked at in every run.
LEMMA NeverDone ==
  ASSUME NEW st
  PROVE  ~Done(st, "group") /\ ~Done(st, "topics") /\ ~Done(st, "plan")
BY DEF Done

LEMMA AfterFacts ==
  ASSUME NEW st, NEW i \in 0 .. 9
  PROVE  /\ After(st, i) \in Stages
         /\ i <= 3 => After(st, i) \in {"bot", "start", "config", "group"}
         /\ i = 4 => After(st, i) = "topics"
<1> DEFINE T == {j \in i + 1 .. Len(Order) : ~Done(st, Order[j])}
           m == Min(T)
<1>1. i + 1 .. Len(Order) = i + 1 .. 10
  BY OrderFacts
<1>2. 10 \in T /\ (i <= 3 => 4 \in T) /\ (i = 4 => 5 \in T) /\ T \subseteq i + 1 .. 10
  BY <1>1, OrderFacts, NeverDone
<1>3. T \in SUBSET Nat /\ T # {}
  BY <1>2
<1> HIDE DEF T
<1>4. m \in T /\ m <= 10 /\ (i <= 3 => m <= 4) /\ (i = 4 => m <= 5)
  BY <1>2, <1>3, MinFacts
<1>5. m \in 1 .. 10 /\ i < m
  <2>1. m \in i + 1 .. 10
    BY <1>2, <1>4
  <2> HIDE DEF m
  <2> QED BY <2>1
<1>6. After(st, i) = Order[m]
  BY DEF After, T
<1> HIDE DEF m
<1>7. Order[m] \in Stages
  BY <1>5, StageIndex
<1>8. i <= 3 => Order[m] \in {"bot", "start", "config", "group"}
  <2>1. i <= 3 => m \in {1, 2, 3, 4}
    BY <1>4, <1>5
  <2> QED BY <2>1, OrderFacts
<1>9. i = 4 => Order[m] = "topics"
  <2>1. i = 4 => m = 5
    BY <1>4, <1>5
  <2> QED BY <2>1, OrderFacts
<1> QED BY <1>6, <1>7, <1>8, <1>9

Early == {"bot", "start", "config", "group"}

\* What follows a stage.
LEMMA NextStage ==
  ASSUME NEW st, NEW s \in Stages \ {"plan"}
  PROVE  /\ After(st, IndexOf(s)) \in Stages
         /\ s \in {"bot", "start", "config"} => After(st, IndexOf(s)) \in Early
         /\ s = "group" => After(st, IndexOf(s)) = "topics"
<1>1. \E i \in 1 .. 9 : Order[i] = s /\ (s \in {"bot", "start", "config"} => i <= 3) /\ (s = "group" => i = 4)
  BY OrderFacts DEF Stages
<1>2. PICK i \in 1 .. 9 : Order[i] = s /\ (s \in {"bot", "start", "config"} => i <= 3) /\ (s = "group" => i = 4)
  BY <1>1
<1>3. IndexOf(s) = i
  BY <1>2, StageIndex
<1> QED BY <1>2, <1>3, AfterFacts DEF Early

-----------------------------------------------------------------------------
(* Copies of the state file, runs and what Telegram has.                     *)

LEMMA WithFacts ==
  ASSUME NEW st \in States, NEW flag \in Flags
  PROVE  /\ With(st, flag) \in States
         /\ With(st, flag).flags = st.flags \cup {flag} /\ With(st, flag).group = st.group
         /\ With(st, flag).logs = st.logs
BY DEF States, With

Grew(T, U) ==
  /\ T.groups <= U.groups
  /\ T.started => U.started
  /\ T.joined => U.joined
  /\ T.members \subseteq U.members /\ T.admins \subseteq U.admins
  /\ \A g \in 1 .. MaxGroups : /\ T.topics[g].logs <= U.topics[g].logs
                               /\ T.topics[g].reactions <= U.topics[g].reactions

LEMMA TelegramFields ==
  ASSUME NEW T \in Telegrams
  PROVE  /\ T.groups \in 0 .. MaxGroups /\ T.groups \in Nat
         /\ T.started \in BOOLEAN /\ T.joined \in BOOLEAN
         /\ T.members \subseteq 1 .. MaxGroups /\ T.admins \subseteq 1 .. MaxGroups
         /\ \A g \in 1 .. MaxGroups : T.topics[g].logs \in Nat /\ T.topics[g].reactions \in Nat
BY WorkspaceAssumption DEF Telegrams

LEMMA GrewSame ==
  ASSUME NEW T \in Telegrams
  PROVE  Grew(T, T)
BY TelegramFields DEF Grew

LEMMA HappenedKept ==
  ASSUME NEW T \in Telegrams, NEW U \in Telegrams, Grew(T, U), NEW st \in States, Happened(st, T)
  PROVE  Happened(st, U)
<1>1. st.group \in 0 .. MaxGroups /\ st.logs \in Nat
  BY DEF States
<1>2. st.group <= U.groups
  BY <1>1, TelegramFields DEF Happened, Grew
<1>3. "forum_topic_created" \in st.flags => st.group # 0 /\ st.logs \in 1 .. U.topics[st.group].logs
  <2> HAVE "forum_topic_created" \in st.flags
  <2>1. st.group # 0 /\ st.logs \in 1 .. T.topics[st.group].logs /\ st.group \in 1 .. MaxGroups
    BY <1>1, WorkspaceAssumption DEF Happened
  <2>2. /\ T.topics[st.group].logs <= U.topics[st.group].logs
        /\ T.topics[st.group].logs \in Nat /\ U.topics[st.group].logs \in Nat
    BY <2>1, TelegramFields DEF Grew
  <2> QED BY <2>1, <2>2, <1>1
<1> QED BY <1>2, <1>3 DEF Happened, Grew

\* What the calls do to Telegram.
LEMMA TelegramSteps ==
  ASSUME NEW T \in Telegrams
  PROVE  /\ [T EXCEPT !.started = TRUE] \in Telegrams /\ Grew(T, [T EXCEPT !.started = TRUE])
         /\ [T EXCEPT !.joined = TRUE] \in Telegrams /\ Grew(T, [T EXCEPT !.joined = TRUE])
         /\ \A g \in 1 .. MaxGroups :
              /\ [T EXCEPT !.members = @ \cup {g}] \in Telegrams /\ Grew(T, [T EXCEPT !.members = @ \cup {g}])
              /\ [T EXCEPT !.admins = @ \cup {g}] \in Telegrams /\ Grew(T, [T EXCEPT !.admins = @ \cup {g}])
         /\ T.groups < MaxGroups =>
              [T EXCEPT !.groups = @ + 1] \in Telegrams /\ Grew(T, [T EXCEPT !.groups = @ + 1])
<1>1. [T EXCEPT !.started = TRUE] \in Telegrams /\ [T EXCEPT !.joined = TRUE] \in Telegrams
  BY DEF Telegrams
<1>2. Grew(T, [T EXCEPT !.started = TRUE]) /\ Grew(T, [T EXCEPT !.joined = TRUE])
  BY TelegramFields DEF Telegrams, Grew
<1>3. ASSUME NEW g \in 1 .. MaxGroups
      PROVE  /\ [T EXCEPT !.members = @ \cup {g}] \in Telegrams
             /\ [T EXCEPT !.admins = @ \cup {g}] \in Telegrams
  BY DEF Telegrams
<1>4. ASSUME NEW g \in 1 .. MaxGroups
      PROVE  Grew(T, [T EXCEPT !.members = @ \cup {g}]) /\ Grew(T, [T EXCEPT !.admins = @ \cup {g}])
  BY TelegramFields DEF Telegrams, Grew
<1>5. ASSUME T.groups < MaxGroups
      PROVE  [T EXCEPT !.groups = @ + 1] \in Telegrams /\ Grew(T, [T EXCEPT !.groups = @ + 1])
  <2>1. T.groups + 1 \in 0 .. MaxGroups /\ T.groups <= T.groups + 1
    BY <1>5, TelegramFields, WorkspaceAssumption
  <2>2. [T EXCEPT !.groups = @ + 1] \in Telegrams
    BY <2>1 DEF Telegrams
  <2>3. Grew(T, [T EXCEPT !.groups = @ + 1])
    BY <2>1, TelegramFields DEF Telegrams, Grew
  <2> QED BY <2>2, <2>3
<1> QED BY <1>1, <1>2, <1>3, <1>4, <1>5

LEMMA TopicAdded ==
  ASSUME NEW T \in Telegrams, NEW g \in 1 .. MaxGroups, NEW n \in {"logs", "reactions"}, NEW k \in Nat,
         k = T.topics[g][n] + 1
  PROVE  /\ [T EXCEPT !.topics[g][n] = k] \in Telegrams
         /\ Grew(T, [T EXCEPT !.topics[g][n] = k])
         /\ [T EXCEPT !.topics[g][n] = k].topics[g][n] = k
         /\ [T EXCEPT !.topics[g][n] = k].groups = T.groups
<1> DEFINE U == [T EXCEPT !.topics[g][n] = k]
           top == [T.topics EXCEPT ![g][n] = k]
<1>1. T.topics \in [1 .. MaxGroups -> [logs : Nat, reactions : Nat]]
  BY DEF Telegrams
<1>2. top \in [1 .. MaxGroups -> [logs : Nat, reactions : Nat]]
  BY <1>1
<1>3. /\ U.topics = top /\ U.groups = T.groups /\ U.started = T.started /\ U.joined = T.joined
      /\ U.members = T.members /\ U.admins = T.admins
  BY DEF Telegrams
<1>4. U \in Telegrams
  BY <1>2 DEF Telegrams
<1>5. top[g][n] = k
  BY <1>1
<1>6. \A h \in 1 .. MaxGroups : T.topics[h].logs <= top[h].logs /\ T.topics[h].reactions <= top[h].reactions
  <2> TAKE h \in 1 .. MaxGroups
  <2>1. CASE h = g
    <3>1. top[h] = [T.topics[h] EXCEPT ![n] = k] /\ T.topics[h] \in [logs : Nat, reactions : Nat]
      BY <1>1, <2>1
    <3>2. CASE n = "logs"
      BY <3>1, <3>2, <2>1
    <3>3. CASE n = "reactions"
      BY <3>1, <3>3, <2>1
    <3> QED BY <3>2, <3>3
  <2>2. CASE h # g
    <3>1. top[h] = T.topics[h] /\ T.topics[h].logs \in Nat /\ T.topics[h].reactions \in Nat
      BY <1>1, <2>2
    <3> QED BY <3>1
  <2> QED BY <2>1, <2>2
<1> HIDE DEF U, top
<1>7. Grew(T, U)
  BY <1>3, <1>6, TelegramFields DEF Grew
<1> QED BY <1>3, <1>4, <1>5, <1>7 DEF U

-----------------------------------------------------------------------------
(* Steps of a run.                                                           *)

RunAts == Stages \cup {"save", "update", "verify"}
Nexts == Stages \cup {"update", "end"}

LEMMA RunFields ==
  ASSUME NEW fs, NEW r \in Runs(fs)
  PROVE  /\ r # Stopped /\ r.at \in RunAts /\ r.next \in Nexts /\ r.st \in States /\ r.seen = fs
         /\ r.community \in BOOLEAN /\ r.folder \in Plans
BY DEF Runs, Stopped, RunAts, Nexts, Stages

WS == WorkspaceTypeOK /\ WorkspaceSteady

LEMMA RunTyped ==
  ASSUME WorkspaceTypeOK, run # Stopped
  PROVE  /\ run \in Runs(run.seen) /\ IsFilters(run.seen)
         /\ run.at \in RunAts /\ run.next \in Nexts /\ run.st \in States /\ run.folder \in Plans
         /\ run.st.group \in 0 .. MaxGroups
<1>1. run \in Runs(run.seen) /\ IsFilters(run.seen)
  BY DEF WorkspaceTypeOK
<1>2. run.at \in RunAts /\ run.next \in Nexts /\ run.st \in States /\ run.folder \in Plans
  BY <1>1, RunFields
<1> QED BY <1>1, <1>2 DEF States

LEMMA TaskKept ==
  ASSUME NEW t \in Topics, NEW k \in Tasks, NEW g \in 0 .. MaxGroups,
         NEW T \in Telegrams, NEW U \in Telegrams, Grew(T, U), TaskSettled(t, k, g, T)
  PROVE  TaskSettled(t, k, g, U)
<1>1. CASE k.at = "load"
  <2>1. g \in 1 .. MaxGroups
    BY <1>1, WorkspaceAssumption DEF TaskSettled
  <2>2. k.id \in Nat /\ k.id <= T.topics[g][NameOf(t)]
    BY <1>1 DEF TaskSettled, Tasks
  <2>3. /\ T.topics[g].logs <= U.topics[g].logs /\ T.topics[g].reactions <= U.topics[g].reactions
        /\ T.topics[g].logs \in Nat /\ T.topics[g].reactions \in Nat
        /\ U.topics[g].logs \in Nat /\ U.topics[g].reactions \in Nat
    BY <2>1, TelegramFields DEF Grew
  <2>4. k.id <= U.topics[g][NameOf(t)]
    <3>1. CASE NameOf(t) = "logs"
      BY <2>2, <2>3, <3>1
    <3>2. CASE NameOf(t) = "reactions"
      BY <2>2, <2>3, <3>2
    <3> QED BY <3>1, <3>2 DEF NameOf
  <2> QED BY <1>1, <2>1, <2>4 DEF TaskSettled
<1>2. CASE k.at = "save"
  <2>1. k.st \in States /\ Happened(k.st, T)
    BY <1>2 DEF TaskSettled, Tasks
  <2>2. Happened(k.st, U)
    BY <2>1, HappenedKept
  <2> QED BY <1>2, <2>2 DEF TaskSettled
<1>3. CASE k.at \notin {"load", "save"}
  BY <1>3 DEF TaskSettled
<1> QED BY <1>1, <1>2, <1>3

\* Tasks see Telegram grow under an unchanged file.
LEMMA TasksKept ==
  ASSUME WorkspaceTypeOK, TasksSettled, tg' \in Telegrams, Grew(tg, tg'), UNCHANGED <<stateFile, task>>
  PROVE  TasksSettled'
<1>1. stateFile.group \in 0 .. MaxGroups /\ tg \in Telegrams /\ \A t \in Topics : task[t] \in Tasks
  BY DEF WorkspaceTypeOK, States
<1>2. \A t \in Topics : TaskSettled(t, task[t], stateFile.group, tg')
  BY <1>1, TaskKept DEF TasksSettled
<1> QED BY <1>2 DEF TasksSettled

\* A run ends: nothing it held is needed any more, or it is counted as lost.
LEMMA RunEnds ==
  ASSUME WS, run # Stopped, run' = Stopped, tg' \in Telegrams, Grew(tg, tg'), IsFilters(filters'),
         lost' \in BOOLEAN, lost => lost', UNCHANGED <<stateFile, task>>,
         lost' \/ (tg'.groups = tg.groups /\ run.st.group = stateFile.group)
  PROVE  WS'
<1>1. stateFile \in States /\ tg \in Telegrams /\ task \in [Topics -> Tasks]
  BY DEF WS, WorkspaceTypeOK
<1>2. WorkspaceTypeOK'
  BY <1>1 DEF WorkspaceTypeOK
<1>3. RecordedStagesHappened'
  BY <1>1, HappenedKept DEF WS, WorkspaceSteady, RecordedStagesHappened
<1>4. TasksSettled'
  BY TasksKept DEF WS, WorkspaceSteady
<1>5. OneGroup'
  BY DEF WS, WorkspaceSteady, OneGroup
<1> QED
  BY <1>2, <1>3, <1>4, <1>5 DEF WS, WorkspaceSteady, RunHappened, GroupAgrees, GroupPending

\* A run goes on with the group that the file names.
LEMMA RunGoes ==
  ASSUME WS, run # Stopped, NEW fs, run' \in Runs(fs), IsFilters(fs),
         tg' \in Telegrams, Grew(tg, tg'), tg'.groups = tg.groups, IsFilters(filters'),
         UNCHANGED <<stateFile, task, lost>>,
         run.st.group = stateFile.group, run'.st.group = run.st.group,
         Happened(run'.st, tg'), GroupKnown(run'), FolderPlanned(run')
  PROVE  WS'
<1>1. stateFile \in States /\ tg \in Telegrams /\ task \in [Topics -> Tasks] /\ lost \in BOOLEAN
  BY DEF WS, WorkspaceTypeOK
<1>2. run' # Stopped /\ run'.seen = fs
  BY RunFields
<1>3. WorkspaceTypeOK'
  BY <1>1, <1>2 DEF WorkspaceTypeOK
<1>4. RecordedStagesHappened'
  BY <1>1, HappenedKept DEF WS, WorkspaceSteady, RecordedStagesHappened
<1>5. TasksSettled'
  BY TasksKept DEF WS, WorkspaceSteady
<1>6. OneGroup' /\ GroupAgrees' /\ GroupPending'
  BY <1>2 DEF WS, WorkspaceSteady, OneGroup, GroupAgrees, GroupPending
<1> QED
  BY <1>3, <1>4, <1>5, <1>6 DEF WS, WorkspaceSteady, RunHappened

\* The facts of a run at a stage.
LEMMA StageFacts ==
  ASSUME WS, NEW stage \in RunAts \ {"save"}, At(stage)
  PROVE  /\ run # Stopped /\ run.at = stage /\ run \in Runs(run.seen) /\ IsFilters(run.seen) /\ run.st \in States
         /\ run.st.group = stateFile.group /\ run.st.group \in 0 .. MaxGroups
         /\ stage \in Late => run.st.group \in 1 .. MaxGroups
         /\ Happened(run.st, tg) /\ tg \in Telegrams /\ IsFilters(filters) /\ lost \in BOOLEAN
         /\ GroupKnown(run) /\ FolderPlanned(run)
<1>1. run # Stopped /\ run.at = stage
  BY DEF At
<1>2. /\ run \in Runs(run.seen) /\ IsFilters(run.seen) /\ run.st \in States /\ run.st.group \in 0 .. MaxGroups
      /\ GroupKnown(run) /\ FolderPlanned(run)
  BY <1>1, RunTyped DEF WS, WorkspaceSteady
<1>3. run.st.group = stateFile.group
  BY <1>1 DEF WS, WorkspaceSteady, GroupPending
<1>4. stage \in Late => run.st.group \in 1 .. MaxGroups
  BY <1>1, <1>2, WorkspaceAssumption DEF GroupKnown
<1>5. Happened(run.st, tg) /\ tg \in Telegrams /\ IsFilters(filters) /\ lost \in BOOLEAN
  BY <1>1 DEF WS, WorkspaceSteady, RunHappened, WorkspaceTypeOK
<1> QED BY <1>1, <1>2, <1>3, <1>4, <1>5

LEMMA RecordStep ==
  ASSUME WS, NEW stage \in Stages \ {"plan"}, At(stage), NEW st \in States, st.group = run.st.group,
         stage = "group" => run.st.group # 0,
         tg' \in Telegrams, Grew(tg, tg'), tg'.groups = tg.groups, Happened(st, tg'),
         UNCHANGED <<stateFile, task, filters, lost>>, Record(st, stage)
  PROVE  WS'
<1> DEFINE n == After(st, IndexOf(stage))
<1>1. n \in Nexts /\ n # "update" /\ (stage \in {"bot", "start", "config"} => n \notin Late)
  BY NextStage DEF Nexts, Stages, Early, Late
<1>2. /\ run # Stopped /\ run \in Runs(run.seen) /\ IsFilters(run.seen) /\ run.st.group = stateFile.group
      /\ stage \in Late => run.st.group # 0
  BY StageFacts DEF RunAts, Stages
<1>3. run' = [run EXCEPT !.st = st, !.at = "save", !.next = n]
  BY DEF Record
<1> HIDE DEF n
<1>4. run' \in Runs(run.seen) /\ run'.st = st /\ run'.at = "save" /\ run'.next = n
  BY <1>1, <1>2, <1>3 DEF Runs, Nexts
<1>5. GroupKnown(run')
  BY <1>1, <1>2, <1>4 DEF GroupKnown, Late, Stages
<1>6. FolderPlanned(run')
  BY <1>1, <1>4 DEF FolderPlanned
<1>7. IsFilters(filters')
  BY DEF WS, WorkspaceTypeOK
<1> QED BY <1>2, <1>4, <1>5, <1>6, <1>7, RunGoes

LEMMA ProceedStep ==
  ASSUME WS, NEW stage \in {"group", "community"}, At(stage), run.st.group # 0,
         UNCHANGED <<stateFile, task, filters, lost, tg>>,
         Proceed(run.st, After(run.st, IndexOf(stage)))
  PROVE  WS'
<1> DEFINE n == After(run.st, IndexOf(stage))
<1>1. stage \in RunAts \ {"save"} /\ stage \in Stages \ {"plan"}
  BY DEF RunAts, Stages
<1>2. n \in Stages
  BY <1>1, NextStage
<1>3. /\ run # Stopped /\ run \in Runs(run.seen) /\ IsFilters(run.seen) /\ run.st.group = stateFile.group
      /\ run.st \in States /\ Happened(run.st, tg) /\ tg \in Telegrams /\ IsFilters(filters)
  BY <1>1, StageFacts
<1>4. run' = [run EXCEPT !.st = run.st, !.at = n]
  BY DEF Proceed
<1> HIDE DEF n
<1>5. run' \in Runs(run.seen) /\ run'.st = run.st /\ run'.at = n
  BY <1>2, <1>3, <1>4 DEF Runs
<1>6. GroupKnown(run') /\ FolderPlanned(run')
  BY <1>2, <1>5 DEF GroupKnown, FolderPlanned, Stages
<1>7. Grew(tg, tg') /\ tg' \in Telegrams
  BY <1>3, GrewSame
<1> QED BY <1>3, <1>5, <1>6, <1>7, RunGoes

\* The community is given up, and the run goes on with the folder.
LEMMA SkipStep ==
  ASSUME WS, NEW stage \in {"community", "join"}, At(stage),
         tg' \in Telegrams, Grew(tg, tg'), tg'.groups = tg.groups,
         UNCHANGED <<stateFile, task, filters, lost>>,
         run' = [run EXCEPT !.at = "plan", !.community = FALSE]
  PROVE  WS'
<1>1. stage \in RunAts \ {"save"} /\ stage \in Late
  BY DEF RunAts, Stages, Late
<1>2. /\ run # Stopped /\ run \in Runs(run.seen) /\ IsFilters(run.seen) /\ run.st.group = stateFile.group
      /\ run.st \in States /\ Happened(run.st, tg) /\ tg \in Telegrams /\ IsFilters(filters)
      /\ run.st.group \in 1 .. MaxGroups
  BY <1>1, StageFacts
<1>3. run' \in Runs(run.seen) /\ run'.st = run.st /\ run'.at = "plan"
  BY <1>2 DEF Runs, Stages
<1>4. GroupKnown(run') /\ FolderPlanned(run')
  BY <1>2, <1>3 DEF GroupKnown, FolderPlanned
<1>5. Happened(run'.st, tg')
  BY <1>2, <1>3, HappenedKept
<1> QED BY <1>2, <1>3, <1>4, <1>5, RunGoes

LEMMA EndStep ==
  ASSUME WS, NEW stage \in RunAts \ {"save"}, At(stage), Fails,
         tg' \in Telegrams, Grew(tg, tg'), tg'.groups = tg.groups, IsFilters(filters'),
         UNCHANGED <<stateFile, task, lost>>
  PROVE  WS'
<1>1. run # Stopped /\ run.st.group = stateFile.group /\ lost \in BOOLEAN
  BY StageFacts
<1> QED BY <1>1, RunEnds DEF Fails

\* A stage that is done once.
LEMMA StageStep ==
  ASSUME WS, NEW stage \in {"bot", "start", "config", "invite", "rights"}, NEW flag \in Flags,
         NEW after \in Telegrams, Grew(tg, after), after.groups = tg.groups,
         run # Stopped /\ run.at = stage => Happened(With(run.st, flag), after),
         Stage(stage, flag, Call(after))
  PROVE  WS'
<1>1. stage \in RunAts \ {"save"} /\ stage \in Stages \ {"plan"} /\ At(stage)
  BY DEF RunAts, Stages, Stage
<1>2. /\ run # Stopped /\ run.at = stage /\ run.st \in States /\ tg \in Telegrams /\ IsFilters(filters)
  BY <1>1, StageFacts
<1>3. UNCHANGED <<stateFile, task, filters, lost>>
  BY DEF Stage
<1>4. \/ tg' = after /\ Record(With(run.st, flag), stage)
      \/ tg' \in {tg, after} /\ Fails
  <2>1. PICK o \in Call(after) : tg' = o[2] /\ IF o[1] THEN Record(With(run.st, flag), stage) ELSE Fails
    BY DEF Stage
  <2>2. o = <<TRUE, after>> \/ o = <<FALSE, tg>> \/ o = <<FALSE, after>>
    BY DEF Call
  <2>3. CASE o = <<TRUE, after>>
    BY <2>1, <2>3
  <2>4. CASE o = <<FALSE, tg>>
    BY <2>1, <2>4
  <2>5. CASE o = <<FALSE, after>>
    BY <2>1, <2>5
  <2> QED BY <2>2, <2>3, <2>4, <2>5
<1>5. CASE tg' = after /\ Record(With(run.st, flag), stage)
  <2>1. With(run.st, flag) \in States /\ With(run.st, flag).group = run.st.group
    BY <1>2, WithFacts
  <2>2. Happened(With(run.st, flag), tg') /\ stage # "group"
    BY <1>2, <1>5
  <2> QED BY <1>1, <1>3, <1>5, <2>1, <2>2, RecordStep
<1>6. CASE tg' \in {tg, after} /\ Fails
  <2>1. tg' \in Telegrams /\ Grew(tg, tg') /\ tg'.groups = tg.groups
    BY <1>2, <1>6, GrewSame
  <2> QED BY <1>1, <1>2, <1>3, <1>6, <2>1, EndStep
<1> QED BY <1>4, <1>5, <1>6

LEMMA OnceStages ==
  ASSUME WS, Resolve \/ StartBot \/ AppConfig \/ Invite \/ Rights
  PROVE  WS'
<1>1. tg \in Telegrams /\ Grew(tg, tg)
  BY GrewSame DEF WS, WorkspaceTypeOK
<1>2. run # Stopped => Happened(run.st, tg) /\ run.st \in States
  BY RunTyped DEF WS, WorkspaceSteady, RunHappened
<1>3. CASE Resolve
  <2>1. run # Stopped => Happened(With(run.st, "bot"), tg)
    BY <1>2, WithFacts DEF Happened, Flags
  <2> QED BY <1>1, <1>3, <2>1, StageStep DEF Resolve, resolve_bot, Flags
<1>4. CASE AppConfig
  <2>1. run # Stopped => Happened(With(run.st, "app_config_checked"), tg)
    BY <1>2, WithFacts DEF Happened, Flags
  <2> QED BY <1>1, <1>4, <2>1, StageStep DEF AppConfig, get_app_config, Flags
<1>5. CASE StartBot
  <2> DEFINE after == [tg EXCEPT !.started = TRUE]
  <2>1. after \in Telegrams /\ Grew(tg, after) /\ after.groups = tg.groups /\ after.started
    BY <1>1, TelegramSteps DEF Telegrams
  <2>2. Stage("start", "bot_dialog_initialized", Call(after))
    BY <1>5 DEF StartBot, start_bot
  <2> HIDE DEF after
  <2>3. run # Stopped => Happened(With(run.st, "bot_dialog_initialized"), after)
    <3>1. run # Stopped => Happened(run.st, after)
      BY <1>1, <1>2, <2>1, HappenedKept
    <3> QED BY <1>2, <2>1, <3>1, WithFacts DEF Happened, Flags
  <2> QED BY <2>1, <2>2, <2>3, StageStep DEF Flags
<1>6. CASE Invite
  <2> DEFINE g == run.st.group
             after == [tg EXCEPT !.members = @ \cup {g}]
  <2>1. g \in 1 .. MaxGroups
    BY <1>6, StageFacts DEF Invite, Stage, RunAts, Stages, Late
  <2>2. after \in Telegrams /\ Grew(tg, after) /\ after.groups = tg.groups /\ g \in after.members
    BY <1>1, <2>1, TelegramSteps DEF Telegrams
  <2>3. Stage("invite", "bot_invited", Call(after))
    BY <1>6 DEF Invite, invite_to_channel
  <2> HIDE DEF after
  <2>4. run # Stopped => Happened(With(run.st, "bot_invited"), after)
    <3>1. run # Stopped => Happened(run.st, after)
      BY <1>1, <1>2, <2>2, HappenedKept
    <3> QED BY <1>2, <2>2, <3>1, WithFacts DEF Happened, Flags
  <2> QED BY <2>2, <2>3, <2>4, StageStep DEF Flags
<1>7. CASE Rights
  <2> DEFINE g == run.st.group
             after == [tg EXCEPT !.admins = @ \cup {g}]
  <2>1. g \in 1 .. MaxGroups
    BY <1>7, StageFacts DEF Rights, Stage, RunAts, Stages, Late
  <2>2. after \in Telegrams /\ Grew(tg, after) /\ after.groups = tg.groups /\ g \in after.admins
    BY <1>1, <2>1, TelegramSteps DEF Telegrams
  <2>3. Stage("rights", "bot_rights_configured", Call(after))
    BY <1>7 DEF Rights, edit_admin
  <2> HIDE DEF after
  <2>4. run # Stopped => Happened(With(run.st, "bot_rights_configured"), after)
    <3>1. run # Stopped => Happened(run.st, after)
      BY <1>1, <1>2, <2>2, HappenedKept
    <3> QED BY <1>2, <2>2, <3>1, WithFacts DEF Happened, Flags
  <2> QED BY <2>2, <2>3, <2>4, StageStep DEF Flags
<1> QED BY <1>3, <1>4, <1>5, <1>6, <1>7

LEMMA CallOutcomes ==
  ASSUME NEW after, NEW o \in Call(after)
  PROVE  \/ o = <<TRUE, after>> /\ o[1] = TRUE /\ o[2] = after
         \/ o = <<FALSE, tg>> /\ o[1] = FALSE /\ o[2] = tg
         \/ o = <<FALSE, after>> /\ o[1] = FALSE /\ o[2] = after
<1>1. o = <<TRUE, after>> \/ o = <<FALSE, tg>> \/ o = <<FALSE, after>>
  BY DEF Call
<1>2. CASE o = <<TRUE, after>>
  BY <1>2
<1>3. CASE o = <<FALSE, tg>>
  BY <1>3
<1>4. CASE o = <<FALSE, after>>
  BY <1>4
<1> QED BY <1>1, <1>2, <1>3, <1>4

\* The group is created once, as long as no run was lost before it recorded one.
LEMMA GroupCreated ==
  ASSUME WS, At("group"), ~GroupRecorded(run.st), tg.groups < MaxGroups,
         UNCHANGED <<stateFile, task, filters>>, NEW o \in create_forum_group,
         tg' = o[2], lost' = (lost \/ (~o[1] /\ o[2] # tg)),
         IF o[1] THEN Record([With(run.st, "forum_group_created") EXCEPT !.group = tg'.groups], "group")
         ELSE Fails
  PROVE  WS'
<1> DEFINE after == [tg EXCEPT !.groups = @ + 1]
<1>1. "group" \in RunAts \ {"save"} /\ "group" \in Stages \ {"plan"}
  BY DEF RunAts, Stages
<1>2. /\ run # Stopped /\ run \in Runs(run.seen) /\ IsFilters(run.seen) /\ run.st \in States
      /\ run.st.group = 0 /\ stateFile.group = 0
      /\ Happened(run.st, tg) /\ tg \in Telegrams /\ IsFilters(filters) /\ lost \in BOOLEAN
      /\ tg.groups \in 0 .. MaxGroups
  BY <1>1, StageFacts, TelegramFields DEF GroupRecorded
<1>3. after \in Telegrams /\ Grew(tg, after) /\ after.groups = tg.groups + 1
  <2>1. after.groups = tg.groups + 1
    BY <1>2 DEF Telegrams
  <2> QED BY <1>2, <2>1, TelegramSteps
<1>4. \/ o[1] = TRUE /\ o[2] = after
      \/ o[1] = FALSE /\ o[2] = tg
      \/ o[1] = FALSE /\ o[2] = after
  BY CallOutcomes DEF create_forum_group
<1> HIDE DEF after
<1>5. CASE o[1] = TRUE /\ o[2] = after
  <2> DEFINE w == With(run.st, "forum_group_created")
             st == [w EXCEPT !.group = tg'.groups]
  <2>1. tg' = after /\ lost' = lost /\ tg'.groups \in 1 .. MaxGroups
    BY <1>2, <1>3, <1>5, WorkspaceAssumption
  <2>2. w \in States /\ w.flags = run.st.flags \cup {"forum_group_created"} /\ w.logs = run.st.logs
    BY <1>2, WithFacts DEF Flags
  <2>3. Record(st, "group")
    BY <1>5
  <2> HIDE DEF w
  <2>4. st \in States /\ st.group = tg'.groups /\ st.flags = run.st.flags \cup {"forum_group_created"}
    BY <2>1, <2>2 DEF States
  <2> HIDE DEF st
  <2>5. Happened(st, tg')
    <3>1. "forum_topic_created" \notin run.st.flags /\ "bot_invited" \notin run.st.flags
          /\ "bot_rights_configured" \notin run.st.flags
      BY <1>2, TelegramFields DEF Happened
    <3>2. st.group <= tg'.groups
      BY <2>1, <2>4
    <3> QED BY <1>2, <1>3, <2>1, <2>4, <3>1, <3>2 DEF Happened, Grew
  <2>6. run' \in Runs(run.seen) /\ run'.st = st /\ run'.at = "save" /\ run'.next = "topics"
    <3>1. After(st, IndexOf("group")) = "topics"
      BY <1>1, NextStage
    <3>2. run' = [run EXCEPT !.st = st, !.at = "save", !.next = "topics"]
      BY <2>3, <3>1 DEF Record
    <3> QED BY <1>2, <2>4, <3>2 DEF Runs, Stages
  <2>7. run' # Stopped /\ run'.seen = run.seen
    BY <2>6, RunFields
  <2>8. WorkspaceTypeOK'
    BY <1>2, <1>3, <2>1, <2>6, <2>7 DEF WS, WorkspaceTypeOK
  <2>9. RecordedStagesHappened' /\ TasksSettled'
    <3>1. stateFile \in States
      BY DEF WS, WorkspaceTypeOK
    <3> QED BY <1>2, <1>3, <2>1, <3>1, HappenedKept, TasksKept DEF WS, WorkspaceSteady, RecordedStagesHappened
  <2>10. RunHappened' /\ GroupAgrees' /\ GroupPending'
    BY <1>2, <2>5, <2>6 DEF RunHappened, GroupAgrees, GroupPending
  <2>11. OneGroup'
    <3>1. ~lost => tg.groups = 0
      BY <1>2 DEF WS, WorkspaceSteady, OneGroup
    <3> QED BY <1>2, <1>3, <2>1, <2>4, <2>6, <2>7, <3>1 DEF OneGroup
  <2>12. GroupKnown(run') /\ FolderPlanned(run')
    BY <2>1, <2>4, <2>6 DEF GroupKnown, FolderPlanned, Late
  <2> QED BY <2>8, <2>9, <2>10, <2>11, <2>12 DEF WS, WorkspaceSteady
<1>6. CASE o[1] = FALSE /\ o[2] = tg
  BY <1>1, <1>2, <1>6, GrewSame, EndStep
<1>7. CASE o[1] = FALSE /\ o[2] = after
  <2>1. tg' = after /\ lost' = TRUE
    <3>1. after # tg
      BY <1>2, <1>3
    <3>2. tg' = after /\ o[2] # tg /\ ~o[1]
      BY <1>7, <3>1
    <3> QED BY <3>2
  <2> QED BY <1>2, <1>3, <1>7, <2>1, RunEnds DEF Fails
<1> QED BY <1>4, <1>5, <1>6, <1>7

LEMMA GroupStep ==
  ASSUME WS, Group
  PROVE  WS'
<1>1. /\ "group" \in RunAts \ {"save"} /\ "group" \in Stages \ {"plan"} /\ At("group")
      /\ UNCHANGED <<stateFile, task, filters>>
  BY DEF RunAts, Stages, Group
<1>2. /\ run # Stopped /\ run.st \in States /\ Happened(run.st, tg) /\ tg \in Telegrams /\ IsFilters(filters)
      /\ Grew(tg, tg)
  BY <1>1, StageFacts, GrewSame
<1>3. CASE /\ GroupRecorded(run.st) /\ UNCHANGED <<tg, lost>>
           /\ \E o \in get_forum_group(run.st.group) :
                IF ~o[1] THEN Fails
                ELSE IF "forum_group_created" \in run.st.flags
                THEN Proceed(run.st, After(run.st, IndexOf("group")))
                ELSE Record(With(run.st, "forum_group_created"), "group")
  <2>1. \/ Fails
        \/ Proceed(run.st, After(run.st, IndexOf("group")))
        \/ Record(With(run.st, "forum_group_created"), "group")
    BY <1>3
  <2>2. CASE Fails
    BY <1>1, <1>2, <1>3, <2>2, EndStep
  <2>3. CASE Proceed(run.st, After(run.st, IndexOf("group")))
    BY <1>1, <1>3, <2>3, ProceedStep DEF GroupRecorded
  <2>4. CASE Record(With(run.st, "forum_group_created"), "group")
    <3> DEFINE st == With(run.st, "forum_group_created")
    <3>1. /\ st \in States /\ st.group = run.st.group /\ st.logs = run.st.logs
          /\ st.flags = run.st.flags \cup {"forum_group_created"}
      BY <1>2, WithFacts DEF Flags
    <3> HIDE DEF st
    <3>2. Happened(st, tg') /\ Grew(tg, tg') /\ tg' \in Telegrams /\ tg'.groups = tg.groups
      BY <1>2, <1>3, <3>1 DEF Happened
    <3>3. run.st.group # 0
      BY <1>3 DEF GroupRecorded
    <3>4. Record(st, "group")
      BY <2>4 DEF st
    <3> QED BY <1>1, <1>3, <3>1, <3>2, <3>3, <3>4, RecordStep
  <2> QED BY <2>1, <2>2, <2>3, <2>4
<1>4. ASSUME ~GroupRecorded(run.st), tg.groups < MaxGroups, NEW o \in create_forum_group,
             tg' = o[2], lost' = (lost \/ (~o[1] /\ o[2] # tg)),
             IF o[1] THEN Record([With(run.st, "forum_group_created") EXCEPT !.group = tg'.groups], "group")
             ELSE Fails
      PROVE  WS'
  BY <1>1, <1>4, GroupCreated
<1> QED BY <1>3, <1>4 DEF Group

LEMMA TopicsStep ==
  ASSUME WS, ForumTopics
  PROVE  WS'
<1> DEFINE g == run.st.group
           w == With(run.st, "forum_topic_created")
<1>1. /\ "topics" \in RunAts \ {"save"} /\ "topics" \in Stages \ {"plan"} /\ At("topics") /\ "topics" \in Late
      /\ UNCHANGED <<stateFile, task, filters, lost>>
  BY DEF RunAts, Stages, Late, ForumTopics
<1>2. /\ run # Stopped /\ run.st \in States /\ Happened(run.st, tg) /\ tg \in Telegrams /\ IsFilters(filters)
      /\ g \in 1 .. MaxGroups /\ Grew(tg, tg) /\ tg.topics[g].logs \in Nat
  BY <1>1, StageFacts, GrewSame, TelegramFields
<1>3. w \in States /\ w.flags = run.st.flags \cup {"forum_topic_created"} /\ w.group = g
  BY <1>2, WithFacts DEF Flags
<1> HIDE DEF w
\* A recorded topic is one the group has.
<1>4. ASSUME NEW id \in Nat, tg' \in Telegrams, Grew(tg, tg'), tg'.groups = tg.groups,
             id \in 1 .. tg'.topics[g].logs, Record([w EXCEPT !.logs = id], "topics")
      PROVE  WS'
  <2> DEFINE st == [w EXCEPT !.logs = id]
  <2>1. st \in States /\ st.group = g /\ st.logs = id /\ st.flags = run.st.flags \cup {"forum_topic_created"}
    BY <1>3 DEF States
  <2>2. Record(st, "topics")
    BY <1>4
  <2> HIDE DEF st
  <2>3. Happened(run.st, tg')
    BY <1>2, <1>4, HappenedKept
  <2>4. g # 0
    BY <1>2, WorkspaceAssumption
  <2>5. Happened(st, tg')
    BY <1>4, <2>1, <2>3, <2>4 DEF Happened
  <2> QED BY <1>1, <1>4, <2>1, <2>2, <2>5, RecordStep
<1>5. ASSUME Fails, tg' \in Telegrams, Grew(tg, tg'), tg'.groups = tg.groups
      PROVE  WS'
  BY <1>1, <1>2, <1>5, EndStep
<1>6. CASE \E o \in get_forum_topic(g) :
             /\ IF o[1] THEN Record([w EXCEPT !.logs = o[2]], "topics") ELSE Fails
             /\ UNCHANGED tg
  <2>1. PICK o \in get_forum_topic(g) :
               /\ IF o[1] THEN Record([w EXCEPT !.logs = o[2]], "topics") ELSE Fails
               /\ UNCHANGED tg
    BY <1>6
  <2>2. \/ \E id \in 1 .. tg.topics[g].logs : o = <<TRUE, id>>
        \/ o = <<FALSE, 0>>
    BY DEF get_forum_topic
  <2>3. CASE o = <<FALSE, 0>>
    <3>1. Fails
      BY <2>1, <2>3
    <3> QED BY <1>2, <1>5, <2>1, <3>1
  <2>4. ASSUME NEW id \in 1 .. tg.topics[g].logs, o = <<TRUE, id>>
        PROVE  WS'
    <3>1. o[1] = TRUE /\ o[2] = id
      BY <2>4
    <3>2. Record([w EXCEPT !.logs = id], "topics")
      BY <2>1, <3>1
    <3>3. id \in Nat
      BY <2>4, <1>2
    <3> QED BY <1>2, <1>4, <2>1, <3>2, <3>3
  <2> QED BY <2>2, <2>3, <2>4
<1>7. CASE /\ tg.topics[g].logs = 0
           /\ \E o \in create_forum_topic(g) :
                /\ tg' = o[2]
                /\ IF o[1] THEN Record([w EXCEPT !.logs = 1], "topics") ELSE Fails
  <2> DEFINE after == [tg EXCEPT !.topics[g].logs = @ + 1]
  <2>1. after \in Telegrams /\ Grew(tg, after) /\ after.groups = tg.groups /\ after.topics[g].logs = 1
    <3> DEFINE u == [tg EXCEPT !.topics[g]["logs"] = 1]
    <3>1. u \in Telegrams /\ Grew(tg, u) /\ u.topics[g]["logs"] = 1 /\ u.groups = tg.groups
      BY <1>2, <1>7, TopicAdded
    <3>2. after = u
      BY <1>2, <1>7
    <3> QED BY <3>1, <3>2
  <2>2. PICK o \in Call(after) :
                /\ tg' = o[2]
                /\ IF o[1] THEN Record([w EXCEPT !.logs = 1], "topics") ELSE Fails
    BY <1>7 DEF create_forum_topic
  <2> HIDE DEF after
  <2>3. CASE o[1] = TRUE /\ o[2] = after
    <3>1. Record([w EXCEPT !.logs = 1], "topics") /\ tg' = after
      BY <2>2, <2>3
    <3>2. 1 \in 1 .. tg'.topics[g].logs
      BY <2>1, <3>1
    <3> QED BY <1>4, <2>1, <3>1, <3>2
  <2>4. CASE o[1] = FALSE /\ o[2] \in {tg, after}
    <3>1. Fails /\ tg' \in {tg, after}
      BY <2>2, <2>4
    <3> QED BY <1>2, <1>5, <2>1, <3>1
  <2> QED BY <2>3, <2>4, CallOutcomes
<1> QED BY <1>6, <1>7 DEF ForumTopics, w

LEMMA CommunityStep ==
  ASSUME WS, Community
  PROVE  WS'
<1>1. /\ "community" \in RunAts \ {"save"} /\ "community" \in Stages \ {"plan"} /\ At("community")
      /\ "community" \in Late /\ UNCHANGED <<stateFile, task, tg, filters, lost>>
  BY DEF RunAts, Stages, Late, Community
<1>2. /\ run # Stopped /\ run.st \in States /\ Happened(run.st, tg) /\ tg \in Telegrams
      /\ run.st.group \in 1 .. MaxGroups /\ Grew(tg, tg)
  BY <1>1, StageFacts, GrewSame
<1>3. \/ Proceed(run.st, After(run.st, IndexOf("community")))
      \/ Record(With(run.st, "community"), "community")
      \/ run' = [run EXCEPT !.at = "plan", !.community = FALSE]
  BY DEF Community, Onboard
<1>4. CASE Proceed(run.st, After(run.st, IndexOf("community")))
  <2>1. run.st.group # 0
    BY <1>2, WorkspaceAssumption
  <2> QED BY <1>1, <1>4, <2>1, ProceedStep
<1>5. CASE Record(With(run.st, "community"), "community")
  <2> DEFINE st == With(run.st, "community")
  <2>1. /\ st \in States /\ st.group = run.st.group /\ st.logs = run.st.logs
        /\ st.flags = run.st.flags \cup {"community"}
    BY <1>2, WithFacts DEF Flags
  <2>2. Record(st, "community")
    BY <1>5
  <2> HIDE DEF st
  <2>3. Happened(st, tg') /\ Grew(tg, tg') /\ tg' \in Telegrams /\ tg'.groups = tg.groups
    BY <1>1, <1>2, <2>1 DEF Happened
  <2> QED BY <1>1, <2>1, <2>2, <2>3, RecordStep
<1>6. CASE run' = [run EXCEPT !.at = "plan", !.community = FALSE]
  BY <1>1, <1>2, <1>6, SkipStep
<1> QED BY <1>3, <1>4, <1>5, <1>6

LEMMA JoinStep ==
  ASSUME WS, Join
  PROVE  WS'
<1> DEFINE after == [tg EXCEPT !.joined = TRUE]
<1>1. /\ "join" \in RunAts \ {"save"} /\ "join" \in Stages \ {"plan"} /\ At("join")
      /\ UNCHANGED <<stateFile, task, filters, lost>>
  BY DEF RunAts, Stages, Join
<1>2. run # Stopped /\ run.st \in States /\ Happened(run.st, tg) /\ tg \in Telegrams /\ Grew(tg, tg)
  BY <1>1, StageFacts, GrewSame
<1>3. after \in Telegrams /\ Grew(tg, after) /\ after.groups = tg.groups /\ after.joined
  BY <1>2, TelegramSteps DEF Telegrams
<1>4. PICK o \in Call(after) : tg' = o[2] /\ Onboard(o, Record(With(run.st, "community_joined"), "join"))
  BY DEF Join, join_community
<1> HIDE DEF after
<1>5. CASE o[1] = TRUE /\ o[2] = after
  <2> DEFINE st == With(run.st, "community_joined")
  <2>1. /\ st \in States /\ st.group = run.st.group /\ st.logs = run.st.logs
        /\ st.flags = run.st.flags \cup {"community_joined"}
    BY <1>2, WithFacts DEF Flags
  <2>2. Record(st, "join") /\ tg' = after
    BY <1>4, <1>5 DEF Onboard
  <2> HIDE DEF st
  <2>3. Happened(run.st, tg')
    BY <1>2, <1>3, <2>2, HappenedKept
  <2>4. Happened(st, tg')
    BY <1>3, <2>1, <2>2, <2>3 DEF Happened
  <2> QED BY <1>1, <1>3, <2>1, <2>2, <2>4, RecordStep
<1>6. CASE o[1] = FALSE /\ o[2] \in {tg, after}
  <2>1. run' = [run EXCEPT !.at = "plan", !.community = FALSE] /\ tg' \in {tg, after}
    BY <1>4, <1>6 DEF Onboard
  <2> QED BY <1>1, <1>2, <1>3, <2>1, SkipStep
<1> QED BY <1>5, <1>6, CallOutcomes

-----------------------------------------------------------------------------
(* The folder.                                                               *)

LEMMA FreshFolder == Folder("lavis", {}, {}) \in Folders
BY DEF Folder, Folders

\* A planned folder is the account's folder of the companion's name, or a new one.
LEMMA PlanForms ==
  ASSUME NEW fs, IsFilters(fs), NEW g, NEW recorded \in FolderIds \cup {0}
  PROVE  \/ PlanFolder(fs, g, recorded) \in {Conflict, Full}
         \/ \E id \in DOMAIN fs : fs[id].title = "lavis" /\ PlanFolder(fs, g, recorded) = Use(id, fs[id])
         \/ \E id \in FolderIds \ DOMAIN fs : PlanFolder(fs, g, recorded) = Fresh(id)
<1> DEFINE named == {i \in DOMAIN fs : fs[i].title = "lavis"}
           owned == {i \in named : {GroupPeer(g), BotPeer} \subseteq fs[i].inc}
           full == Cardinality(DOMAIN fs) >= Capacity
           taken == \E i \in DOMAIN fs : fs[i].inc \cap {GroupPeer(g), BotPeer} # {}
           p == PlanFolder(fs, g, recorded)
<1>1. DOMAIN fs \subseteq FolderIds /\ 0 \notin FolderIds /\ FolderIds \subseteq Nat
  BY WorkspaceAssumption DEF IsFilters
<1>2. CASE recorded # 0 /\ recorded \in DOMAIN fs
  <2>1. p = IF fs[recorded].regular /\ named = {recorded} THEN Use(recorded, fs[recorded]) ELSE Conflict
    BY <1>2 DEF PlanFolder
  <2>2. named = {recorded} => fs[recorded].title = "lavis"
    OBVIOUS
  <2> HIDE DEF p, named
  <2> QED BY <1>2, <2>1, <2>2 DEF p
<1>3. CASE recorded # 0 /\ recorded \notin DOMAIN fs
  <2>1. p = IF named # {} \/ full THEN Conflict ELSE Fresh(recorded)
    BY <1>3 DEF PlanFolder
  <2> HIDE DEF p, named, full
  <2> QED BY <1>3, <2>1 DEF p
<1>4. CASE recorded = 0
  <2>1. CASE \E i \in named : ~fs[i].regular
    <3>1. p = Conflict
      BY <1>1, <1>4, <2>1 DEF PlanFolder
    <3> HIDE DEF p
    <3> QED BY <3>1 DEF p
  <2>2. CASE (\A i \in named : fs[i].regular) /\ Cardinality(owned) = 1
    <3>1. p = Use(Min(owned), fs[Min(owned)])
      BY <1>1, <1>4, <2>2 DEF PlanFolder
    <3>2. owned # {}
      <4>1. Cardinality({}) = 0
        BY FS_EmptySet
      <4> HIDE DEF owned
      <4> QED BY <2>2, <4>1
    <3>3. owned \in SUBSET Nat
      BY <1>1
    <3>4. Min(owned) \in owned
      <4> HIDE DEF owned
      <4> QED BY <3>2, <3>3, MinFacts
    <3>5. Min(owned) \in DOMAIN fs /\ fs[Min(owned)].title = "lavis"
      BY <3>4
    <3> HIDE DEF p, owned
    <3> QED BY <3>1, <3>5 DEF p
  <2>3. CASE (\A i \in named : fs[i].regular) /\ Cardinality(owned) # 1
    <3>1. p = IF named # {} \/ taken THEN Conflict
              ELSE IF full \/ FolderIds \subseteq DOMAIN fs THEN Full
              ELSE Fresh(FreeId(fs))
      BY <1>1, <1>4, <2>3 DEF PlanFolder
    <3>2. ~(FolderIds \subseteq DOMAIN fs) => FreeId(fs) \in FolderIds \ DOMAIN fs
      <4>1. FolderIds \ DOMAIN fs \in SUBSET Nat
        BY <1>1
      <4> QED BY <4>1, MinFacts DEF FreeId
    <3> HIDE DEF p, named, full, taken
    <3> QED BY <3>1, <3>2 DEF p
  <2> HIDE DEF p, named, owned
  <2> QED BY <2>1, <2>2, <2>3
<1> HIDE DEF p
<1> QED BY <1>2, <1>3, <1>4 DEF p

LEMMA PlanFacts ==
  ASSUME NEW fs, IsFilters(fs), NEW g, NEW recorded \in FolderIds \cup {0}, NEW p,
         p = PlanFolder(fs, g, recorded)
  PROVE  /\ p \in Plans
         /\ p.plan = "use" => /\ p.id \in FolderIds
                              /\ p.id \in DOMAIN fs => fs[p.id] = p.folder /\ p.folder.title = "lavis"
<1>1. CASE p \in {Conflict, Full}
  <2>1. p.plan # "use"
    BY <1>1 DEF Conflict, Full
  <2>2. p \in Plans
    BY <1>1 DEF Conflict, Full, Plans
  <2> QED BY <2>1, <2>2
<1>2. ASSUME NEW id \in DOMAIN fs, fs[id].title = "lavis", p = Use(id, fs[id])
      PROVE  p \in Plans /\ p.id \in FolderIds /\ fs[p.id] = p.folder /\ p.folder.title = "lavis"
  <2>1. id \in FolderIds /\ fs[id] \in Folders
    BY DEF IsFilters
  <2>2. p.plan = "use" /\ p.id = id /\ p.folder = fs[id]
    BY <1>2 DEF Use
  <2>3. p \in Plans
    BY <1>2, <2>1 DEF Use, Plans
  <2> QED BY <1>2, <2>1, <2>2, <2>3
<1>3. ASSUME NEW id \in FolderIds \ DOMAIN fs, p = Fresh(id)
      PROVE  p \in Plans /\ p.id \in FolderIds \ DOMAIN fs
  BY <1>3, FreshFolder DEF Fresh, Use, Plans
<1>4. \/ p \in {Conflict, Full}
      \/ \E id \in DOMAIN fs : fs[id].title = "lavis" /\ p = Use(id, fs[id])
      \/ \E id \in FolderIds \ DOMAIN fs : p = Fresh(id)
  BY PlanForms
<1> QED BY <1>1, <1>2, <1>3, <1>4

\* A planned update, by its id and the folder it starts from.
LEMMA PlannedUse ==
  ASSUME NEW p \in Plans, p.plan = "use"
  PROVE  p.id \in FolderIds /\ p.folder \in Folders
BY DEF Plans

LEMMA ReadFilters ==
  ASSUME NEW o \in get_dialog_filters
  PROVE  \/ o[1] = TRUE /\ o[2] = filters
         \/ o[1] = FALSE
<1>1. o = <<TRUE, filters>> \/ o = <<FALSE, NoFolders>>
  BY DEF get_dialog_filters
<1>2. CASE o = <<TRUE, filters>>
  BY <1>2
<1>3. CASE o = <<FALSE, NoFolders>>
  BY <1>3
<1> QED BY <1>1, <1>2, <1>3

LEMMA PlanStep ==
  ASSUME WS, Plan
  PROVE  WS'
<1>1. /\ "plan" \in RunAts \ {"save"} /\ At("plan") /\ "plan" \in Late
      /\ UNCHANGED <<stateFile, task, tg, filters, lost>>
  BY DEF RunAts, Stages, Late, Plan
<1>2. /\ run # Stopped /\ run \in Runs(run.seen) /\ IsFilters(run.seen) /\ run.st \in States
      /\ Happened(run.st, tg) /\ tg \in Telegrams /\ IsFilters(filters)
      /\ run.st.group \in 1 .. MaxGroups /\ Grew(tg, tg) /\ run.st.group = stateFile.group
  BY <1>1, StageFacts, GrewSame
<1>3. run.st.folder \in FolderIds \cup {0} /\ run.st.group # 0
  BY <1>2, WorkspaceAssumption DEF States
<1> PICK o \in get_dialog_filters :
      LET p == PlanFolder(o[2], run.st.group, run.st.folder) IN
      IF ~o[1] THEN Fails
      ELSE IF p.plan = "use"
      THEN run' = [run EXCEPT !.at = "save", !.next = "update", !.seen = o[2], !.folder = p,
                     !.st = [run.st EXCEPT !.folder = p.id, !.flags = @ \ {"folder_configured"}]]
      ELSE run' = [run EXCEPT !.at = "save", !.next = "end", !.folder = p,
                     !.st = With(run.st, "companion_configured")]
  BY DEF Plan
<1>4. CASE o[1] = FALSE
  <2>1. Fails
    BY <1>4
  <2> QED BY <1>1, <1>2, <2>1, EndStep
<1>5. CASE o[1] = TRUE /\ o[2] = filters
  <2> DEFINE p == PlanFolder(filters, run.st.group, run.st.folder)
  <2>1. /\ p \in Plans
        /\ p.plan = "use" => /\ p.id \in FolderIds
                             /\ p.id \in DOMAIN filters => filters[p.id] = p.folder /\ p.folder.title = "lavis"
    <3> HIDE DEF p
    <3>1. p = PlanFolder(filters, run.st.group, run.st.folder)
      BY DEF p
    <3> QED BY <1>2, <1>3, <3>1, PlanFacts
  <2>2. IF p.plan = "use"
        THEN run' = [run EXCEPT !.at = "save", !.next = "update", !.seen = filters, !.folder = p,
                       !.st = [run.st EXCEPT !.folder = p.id, !.flags = @ \ {"folder_configured"}]]
        ELSE run' = [run EXCEPT !.at = "save", !.next = "end", !.folder = p,
                       !.st = With(run.st, "companion_configured")]
    BY <1>5
  <2> HIDE DEF p
  <2>3. CASE p.plan = "use"
    <3> DEFINE st == [run.st EXCEPT !.folder = p.id, !.flags = @ \ {"folder_configured"}]
    <3>1. st \in States /\ st.group = run.st.group /\ st.logs = run.st.logs /\ st.flags \subseteq run.st.flags
      BY <1>2, <2>1, <2>3 DEF States
    <3>2. run' = [run EXCEPT !.at = "save", !.next = "update", !.seen = filters, !.folder = p, !.st = st]
      BY <2>2, <2>3
    <3> HIDE DEF st
    <3>3. run' \in Runs(filters)
      BY <1>2, <2>1, <3>1, <3>2 DEF Runs
    <3>4. /\ run'.st = st /\ run'.at = "save" /\ run'.next = "update" /\ run'.folder = p /\ run'.seen = filters
      BY <1>2, <3>2 DEF Runs
    <3>5. Happened(run'.st, tg')
      BY <1>1, <1>2, <3>1, <3>4 DEF Happened
    <3>6. GroupKnown(run') /\ FolderPlanned(run')
      BY <1>3, <2>1, <2>3, <3>1, <3>4 DEF GroupKnown, FolderPlanned
    <3> QED BY <1>1, <1>2, <3>1, <3>3, <3>4, <3>5, <3>6, RunGoes
  <2>4. CASE p.plan # "use"
    <3> DEFINE st == With(run.st, "companion_configured")
    <3>1. /\ st \in States /\ st.group = run.st.group /\ st.logs = run.st.logs
          /\ st.flags = run.st.flags \cup {"companion_configured"}
      BY <1>2, WithFacts DEF Flags
    <3>2. run' = [run EXCEPT !.at = "save", !.next = "end", !.folder = p, !.st = st]
      BY <2>2, <2>4
    <3> HIDE DEF st
    <3>3. run' \in Runs(run.seen)
      BY <1>2, <2>1, <3>1, <3>2 DEF Runs
    <3>4. /\ run'.st = st /\ run'.at = "save" /\ run'.next = "end"
      BY <1>2, <3>2 DEF Runs
    <3>5. Happened(run'.st, tg')
      BY <1>1, <1>2, <3>1, <3>4 DEF Happened
    <3>6. GroupKnown(run') /\ FolderPlanned(run')
      BY <1>3, <3>1, <3>4 DEF GroupKnown, FolderPlanned
    <3> QED BY <1>1, <1>2, <3>1, <3>3, <3>4, <3>5, <3>6, RunGoes
  <2> QED BY <2>3, <2>4
<1> QED BY <1>4, <1>5, ReadFilters

LEMMA ManagedPeers ==
  ASSUME run.st.group \in 0 .. MaxGroups
  PROVE  Managed \subseteq Peers
BY DEF Managed, Peers

\* Merging adds peers and takes none away.
LEMMA MergeFacts ==
  ASSUME NEW f \in Folders, NEW managed \in SUBSET Peers
  PROVE  MergePeers(f, managed) \in Folders /\ f.inc \subseteq MergePeers(f, managed).inc
BY DEF Folders, MergePeers

LEMMA FolderSet ==
  ASSUME NEW fs, IsFilters(fs), NEW id \in FolderIds, NEW f \in Folders, NEW gs,
         gs = [i \in DOMAIN fs \cup {id} |-> IF i = id THEN f ELSE fs[i]]
  PROVE  /\ IsFilters(gs) /\ DOMAIN gs = DOMAIN fs \cup {id} /\ gs[id] = f
         /\ \A i \in DOMAIN fs : i # id => gs[i] = fs[i]
BY DEF IsFilters

\* What an update does to the folders, whatever the account holds by now.
LEMMA UpdateFacts ==
  ASSUME WS, UpdateFilter
  PROVE  /\ At("update") /\ UNCHANGED <<stateFile, task, tg, lost>>
         /\ IsFilters(filters') /\ DOMAIN filters \subseteq DOMAIN filters'
         /\ Fails \/ Proceed(run.st, "verify")
         /\ filters' # filters =>
              \A id \in DOMAIN filters :
                /\ id # run.folder.id => filters'[id] = filters[id]
                /\ run.folder.folder = filters[id] => filters[id].inc \subseteq filters'[id].inc
<1>1. "update" \in RunAts \ {"save"} /\ At("update") /\ "update" \in Late
  BY DEF RunAts, Late, UpdateFilter
<1>2. /\ run # Stopped /\ run.at = "update" /\ run \in Runs(run.seen) /\ IsFilters(filters)
      /\ run.st.group \in 0 .. MaxGroups /\ FolderPlanned(run)
  BY <1>1, StageFacts
<1>3. run.folder.id \in FolderIds /\ run.folder.folder \in Folders
  BY <1>2, RunFields, PlannedUse DEF FolderPlanned
<1> DEFINE f == MergePeers(run.folder.folder, Managed)
           set == [i \in DOMAIN filters \cup {run.folder.id} |-> IF i = run.folder.id THEN f ELSE filters[i]]
<1>4. f \in Folders /\ run.folder.folder.inc \subseteq f.inc
  BY <1>2, <1>3, ManagedPeers, MergeFacts
<1>5. PICK o \in {<<TRUE, set>>, <<FALSE, filters>>, <<FALSE, set>>} :
        filters' = o[2] /\ IF o[1] THEN Proceed(run.st, "verify") ELSE Fails
  BY DEF UpdateFilter, update_dialog_filter
<1> HIDE DEF f
<1>6. /\ IsFilters(set) /\ DOMAIN set = DOMAIN filters \cup {run.folder.id} /\ set[run.folder.id] = f
      /\ \A i \in DOMAIN filters : i # run.folder.id => set[i] = filters[i]
  BY <1>2, <1>3, <1>4, FolderSet
<1> HIDE DEF set
<1>7. /\ filters' \in {filters, set}
      /\ Fails \/ Proceed(run.st, "verify")
  <2>1. CASE o = <<TRUE, set>>
    BY <1>5, <2>1
  <2>2. CASE o = <<FALSE, filters>>
    BY <1>5, <2>2
  <2>3. CASE o = <<FALSE, set>>
    BY <1>5, <2>3
  <2> QED BY <1>5, <2>1, <2>2, <2>3
<1>8. IsFilters(filters') /\ DOMAIN filters \subseteq DOMAIN filters'
  BY <1>2, <1>6, <1>7
<1>9. ASSUME filters' # filters, NEW id \in DOMAIN filters
      PROVE  /\ id # run.folder.id => filters'[id] = filters[id]
             /\ run.folder.folder = filters[id] => filters[id].inc \subseteq filters'[id].inc
  <2>1. filters' = set
    BY <1>7, <1>9
  <2>2. CASE id = run.folder.id
    BY <1>4, <1>6, <2>1, <2>2
  <2>3. CASE id # run.folder.id
    BY <1>6, <2>1, <2>3
  <2> QED BY <2>2, <2>3
<1> QED BY <1>1, <1>7, <1>8, <1>9 DEF UpdateFilter

LEMMA UpdateStep ==
  ASSUME WS, UpdateFilter
  PROVE  WS'
<1>1. "update" \in RunAts \ {"save"} /\ "update" \in Late
  BY DEF RunAts, Late
<1>2. /\ At("update") /\ UNCHANGED <<stateFile, task, tg, lost>> /\ IsFilters(filters')
      /\ Fails \/ Proceed(run.st, "verify")
  BY UpdateFacts
<1>3. /\ run # Stopped /\ run.at = "update" /\ run \in Runs(run.seen) /\ IsFilters(run.seen) /\ run.st \in States
      /\ Happened(run.st, tg) /\ tg \in Telegrams /\ FolderPlanned(run)
      /\ run.st.group \in 1 .. MaxGroups /\ Grew(tg, tg) /\ run.st.group = stateFile.group
  BY <1>1, <1>2, StageFacts, GrewSame
<1>4. CASE Fails
  BY <1>1, <1>2, <1>3, <1>4, EndStep
<1>5. CASE Proceed(run.st, "verify")
  <2>1. run' = [run EXCEPT !.st = run.st, !.at = "verify"]
    BY <1>5 DEF Proceed
  <2>2. /\ run' \in Runs(run.seen) /\ run'.st = run.st /\ run'.at = "verify" /\ run'.seen = run.seen
        /\ run'.folder = run.folder
    BY <1>3, <2>1 DEF Runs
  <2>3. run.st.group # 0
    BY <1>3, WorkspaceAssumption
  <2>4. GroupKnown(run') /\ FolderPlanned(run')
    BY <1>3, <2>2, <2>3 DEF GroupKnown, FolderPlanned
  <2> QED BY <1>2, <1>3, <2>2, <2>4, RunGoes
<1> QED BY <1>2, <1>4, <1>5

LEMMA VerifyStep ==
  ASSUME WS, Verify
  PROVE  WS'
<1>1. /\ "verify" \in RunAts \ {"save"} /\ At("verify") /\ "verify" \in Late
      /\ UNCHANGED <<stateFile, task, tg, filters, lost>>
  BY DEF RunAts, Late, Verify
<1>2. /\ run # Stopped /\ run \in Runs(run.seen) /\ IsFilters(run.seen) /\ run.st \in States
      /\ Happened(run.st, tg) /\ tg \in Telegrams /\ IsFilters(filters)
      /\ run.st.group \in 1 .. MaxGroups /\ Grew(tg, tg) /\ run.st.group = stateFile.group
  BY <1>1, StageFacts, GrewSame
<1> DEFINE w == With(run.st, "folder_configured")
           st == With(w, "companion_configured")
<1>3. Fails \/ run' = [run EXCEPT !.at = "save", !.next = "end", !.st = st]
  BY DEF Verify
<1>4. CASE Fails
  BY <1>1, <1>2, <1>4, EndStep
<1>5. CASE run' = [run EXCEPT !.at = "save", !.next = "end", !.st = st]
  <2>1. /\ w \in States /\ w.group = run.st.group /\ w.logs = run.st.logs
        /\ w.flags = run.st.flags \cup {"folder_configured"}
    BY <1>2, WithFacts DEF Flags
  <2> HIDE DEF w
  <2>2. /\ st \in States /\ st.group = run.st.group /\ st.logs = run.st.logs
        /\ st.flags = run.st.flags \cup {"folder_configured", "companion_configured"}
    BY <2>1, WithFacts DEF Flags
  <2>3. run' \in Runs(run.seen) /\ run'.st = st /\ run'.at = "save" /\ run'.next = "end"
    <3> HIDE DEF st
    <3> QED BY <1>2, <1>5, <2>2 DEF Runs
  <2> HIDE DEF st
  <2>4. run.st.group # 0
    BY <1>2, WorkspaceAssumption
  <2>5. Happened(run'.st, tg') /\ GroupKnown(run') /\ FolderPlanned(run')
    BY <1>1, <1>2, <2>2, <2>3, <2>4 DEF Happened, GroupKnown, FolderPlanned
  <2> QED BY <1>1, <1>2, <2>2, <2>3, <2>5, RunGoes
<1> QED BY <1>3, <1>4, <1>5

-----------------------------------------------------------------------------
(* Saves, starts and stops of a run.                                         *)

\* What becomes of a pending save: the run goes on with the file written, or
\* gives up the community, or ends with the file written or not.
LEMMA SaveOutcome ==
  ASSUME WS, At("save"), UNCHANGED <<task, tg, filters>>,
         \/ /\ stateFile' = run.st /\ UNCHANGED lost
            /\ run' = IF run.next = "end" THEN Stopped ELSE [run EXCEPT !.at = run.next]
         \/ /\ stateFile' \in {stateFile, run.st} /\ run.next \in {"join", "plan"}
            /\ run' = [run EXCEPT !.at = "plan", !.community = FALSE] /\ UNCHANGED lost
         \/ /\ stateFile' \in {stateFile, run.st} /\ Fails
            /\ lost' = (lost \/ run.st.group # stateFile'.group)
  PROVE  WS'
<1>1. run # Stopped /\ run.at = "save"
  BY DEF At
<1>2. /\ run \in Runs(run.seen) /\ IsFilters(run.seen) /\ run.st \in States /\ run.next \in Nexts
      /\ stateFile \in States /\ task \in [Topics -> Tasks] /\ IsFilters(filters) /\ tg \in Telegrams
      /\ lost \in BOOLEAN /\ tg.groups \in Nat
  BY <1>1, RunTyped, TelegramFields DEF WS, WorkspaceTypeOK
<1>3. /\ Happened(run.st, tg) /\ Happened(stateFile, tg) /\ GroupKnown(run) /\ FolderPlanned(run)
      /\ GroupAgrees /\ GroupPending /\ OneGroup /\ TasksSettled
  BY <1>1 DEF WS, WorkspaceSteady, RunHappened, RecordedStagesHappened
\* Whichever copy the file holds then, the tasks' group is the same.
<1>4. ASSUME stateFile' \in {stateFile, run.st}
      PROVE  /\ stateFile' \in States /\ RecordedStagesHappened' /\ TasksSettled'
             /\ stateFile'.group = 0 => stateFile.group = 0
             /\ stateFile.group # 0 => stateFile'.group = stateFile.group
  <2>1. stateFile.group # 0 => run.st.group = stateFile.group
    BY <1>1, <1>3 DEF GroupAgrees
  <2>2. RecordedStagesHappened'
    BY <1>1, <1>3, <1>4 DEF RecordedStagesHappened
  <2>3. TasksSettled'
    <3> SUFFICES ASSUME NEW t \in Topics
                 PROVE  TaskSettled(t, task[t], stateFile'.group, tg)
      BY <1>1 DEF TasksSettled
    <3>1. TaskSettled(t, task[t], stateFile.group, tg)
      BY <1>3 DEF TasksSettled
    <3>2. CASE stateFile.group # 0
      BY <1>4, <2>1, <3>1, <3>2
    <3>3. CASE stateFile.group = 0
      BY <3>1, <3>3 DEF TaskSettled
    <3> QED BY <3>2, <3>3
  <2> QED BY <1>2, <1>4, <2>1, <2>2, <2>3
<1>5. CASE /\ stateFile' = run.st /\ UNCHANGED lost
           /\ run' = IF run.next = "end" THEN Stopped ELSE [run EXCEPT !.at = run.next]
  <2>1. OneGroup' \/ lost
    <3>1. ~lost => tg.groups <= 1 /\ (tg.groups = 1 => run.st.group = 1)
      BY <1>1, <1>3 DEF OneGroup, GroupAgrees
    <3> QED BY <1>1, <1>5, <3>1 DEF OneGroup
  <2>2. OneGroup'
    BY <1>5, <2>1 DEF OneGroup
  <2>3. CASE run.next = "end"
    <3>1. run' = Stopped
      BY <1>5, <2>3
    <3>2. WorkspaceTypeOK'
      BY <1>1, <1>2, <1>5, <3>1 DEF WorkspaceTypeOK
    <3> QED BY <1>4, <1>5, <2>2, <3>1, <3>2 DEF WS, WorkspaceSteady, RunHappened, GroupAgrees, GroupPending
  <2>4. CASE run.next # "end"
    <3>1. run' = [run EXCEPT !.at = run.next] /\ run.next \in RunAts
      BY <1>2, <1>5, <2>4 DEF Nexts, RunAts
    <3>2. /\ run' \in Runs(run.seen) /\ run'.st = run.st /\ run'.at = run.next /\ run'.next = run.next
          /\ run'.folder = run.folder
      BY <1>2, <3>1 DEF Runs, RunAts
    <3>3. run' # Stopped /\ run'.seen = run.seen
      BY <3>2, RunFields
    <3>4. WorkspaceTypeOK'
      BY <1>1, <1>2, <1>5, <3>2, <3>3 DEF WorkspaceTypeOK
    <3>5. RunHappened' /\ GroupAgrees' /\ GroupPending'
      BY <1>1, <1>3, <1>5, <3>2 DEF RunHappened, GroupAgrees, GroupPending
    <3>6. GroupKnown(run')
      BY <1>1, <1>3, <2>4, <3>2 DEF GroupKnown
    <3>7. FolderPlanned(run')
      <4>1. run.next # "verify" /\ run.next # "save"
        BY <1>2 DEF Nexts, Stages
      <4> QED BY <1>1, <1>3, <3>2, <3>3, <4>1 DEF FolderPlanned
    <3> QED BY <1>4, <1>5, <2>2, <3>3, <3>4, <3>5, <3>6, <3>7 DEF WS, WorkspaceSteady
  <2> QED BY <2>3, <2>4
<1>6. CASE /\ stateFile' \in {stateFile, run.st} /\ run.next \in {"join", "plan"}
           /\ run' = [run EXCEPT !.at = "plan", !.community = FALSE] /\ UNCHANGED lost
  <2>1. run.st.group = stateFile.group /\ run.st.group # 0
    BY <1>1, <1>3, <1>6 DEF GroupPending, GroupKnown, Late
  <2>2. run' \in Runs(run.seen) /\ run'.st = run.st /\ run'.at = "plan"
    BY <1>2, <1>6 DEF Runs, Stages
  <2>3. run' # Stopped /\ run'.seen = run.seen
    BY <2>2, RunFields
  <2>4. WorkspaceTypeOK'
    BY <1>1, <1>2, <1>4, <1>6, <2>2, <2>3 DEF WorkspaceTypeOK
  <2>5. stateFile'.group = stateFile.group
    BY <1>6, <2>1
  <2>6. RunHappened' /\ GroupAgrees' /\ GroupPending'
    BY <1>1, <1>3, <2>1, <2>2, <2>5 DEF RunHappened, GroupAgrees, GroupPending
  <2>7. OneGroup'
    BY <1>1, <1>3, <1>6, <2>1, <2>2, <2>3, <2>5 DEF OneGroup
  <2>8. GroupKnown(run') /\ FolderPlanned(run')
    BY <2>1, <2>2 DEF GroupKnown, FolderPlanned
  <2> QED BY <1>4, <1>6, <2>3, <2>4, <2>6, <2>7, <2>8 DEF WS, WorkspaceSteady
<1>7. CASE /\ stateFile' \in {stateFile, run.st} /\ Fails
           /\ lost' = (lost \/ run.st.group # stateFile'.group)
  <2>1. run' = Stopped /\ lost' \in BOOLEAN
    BY <1>2, <1>7 DEF Fails
  <2>2. WorkspaceTypeOK'
    BY <1>1, <1>2, <1>4, <1>7, <2>1 DEF WorkspaceTypeOK
  <2>3. OneGroup'
    <3>1. CASE lost'
      BY <3>1 DEF OneGroup
    <3>2. CASE ~lost'
      <4>1. ~lost /\ run.st.group = stateFile'.group
        BY <1>2, <1>7, <3>2
      <4>2. tg.groups <= 1 /\ (tg.groups = 1 => stateFile.group = 1 \/ run.st.group = 1)
        BY <1>3, <4>1 DEF OneGroup
      <4>3. tg.groups = 1 => stateFile'.group = 1
        BY <1>4, <1>7, <4>1, <4>2
      <4> QED BY <1>1, <4>2, <4>3 DEF OneGroup
    <3> QED BY <3>1, <3>2
  <2> QED BY <1>4, <1>7, <2>1, <2>2, <2>3 DEF WS, WorkspaceSteady, RunHappened, GroupAgrees, GroupPending
<1> QED BY <1>5, <1>6, <1>7

LEMMA SaveStep ==
  ASSUME WS, Save
  PROVE  WS'
<1>1. At("save") /\ UNCHANGED <<task, tg, filters>>
  BY DEF Save
<1>2. CASE /\ stateFile' = run.st /\ UNCHANGED lost
           /\ run' = IF run.next = "end" THEN Stopped ELSE [run EXCEPT !.at = run.next]
  BY <1>1, <1>2, SaveOutcome
<1>3. CASE /\ StorageFails /\ stateFile' \in {stateFile, run.st}
           /\ IF run.next \in {"join", "plan"}
              THEN run' = [run EXCEPT !.at = "plan", !.community = FALSE] /\ UNCHANGED lost
              ELSE Fails /\ lost' = (lost \/ run.st.group # stateFile'.group)
  BY <1>1, <1>3, SaveOutcome
<1> QED BY <1>2, <1>3 DEF Save

LEMMA StopStep ==
  ASSUME WS, Stop
  PROVE  WS'
<1>1. /\ run # Stopped /\ Fails /\ UNCHANGED <<task, tg, filters>>
      /\ stateFile' = stateFile \/ (At("save") /\ stateFile' = run.st)
      /\ lost' = (lost \/ (At("save") /\ run.st.group # stateFile'.group))
  BY DEF Stop
<1>2. tg \in Telegrams /\ IsFilters(filters) /\ lost \in BOOLEAN /\ Grew(tg, tg)
  BY GrewSame DEF WS, WorkspaceTypeOK
<1>3. CASE At("save")
  <2>1. stateFile' \in {stateFile, run.st} /\ lost' = (lost \/ run.st.group # stateFile'.group)
    BY <1>1, <1>3
  <2> QED BY <1>1, <1>3, <2>1, SaveOutcome
<1>4. CASE ~At("save")
  <2>1. run.st.group = stateFile.group
    BY <1>1, <1>4 DEF WS, WorkspaceSteady, GroupPending, At
  <2>2. stateFile' = stateFile /\ lost' \in BOOLEAN /\ (lost => lost')
    BY <1>1, <1>2, <1>4
  <2> QED BY <1>1, <1>2, <2>1, <2>2, RunEnds DEF Fails
<1> QED BY <1>3, <1>4

LEMMA NoFoldersFacts == IsFilters(NoFolders)
BY DEF IsFilters, NoFolders

LEMMA StartStep ==
  ASSUME WS, ProvisionStart
  PROVE  WS'
<1> DEFINE first == After(stateFile, 0)
<1>1. run = Stopped /\ UNCHANGED <<stateFile, task, tg, filters, lost>>
  BY DEF ProvisionStart
<1>2. first \in Early
  BY AfterFacts DEF Early
<1>3. run' = [at |-> first, next |-> "plan", st |-> stateFile, community |-> TRUE,
              seen |-> NoFolders, folder |-> [plan |-> "none"]]
  BY DEF ProvisionStart
<1> HIDE DEF first
<1>4. stateFile \in States
  BY DEF WS, WorkspaceTypeOK
<1>5. run'.st = stateFile /\ run'.at = first /\ run'.seen = NoFolders
  BY <1>3
<1>6. run' \in Runs(NoFolders)
  <2>1. [plan |-> "none"] \in Plans
    BY DEF Plans
  <2> QED BY <1>2, <1>3, <1>4, <2>1 DEF Runs, Early, Stages
<1>7. run' # Stopped
  BY <1>6, RunFields
<1>8. WorkspaceTypeOK'
  BY <1>1, <1>5, <1>6, NoFoldersFacts DEF WS, WorkspaceTypeOK
<1>9. RecordedStagesHappened' /\ TasksSettled'
  BY <1>1 DEF WS, WorkspaceSteady, RecordedStagesHappened, TasksSettled
<1>10. RunHappened' /\ GroupAgrees' /\ GroupPending' /\ OneGroup'
  BY <1>1, <1>5, <1>7 DEF WS, WorkspaceSteady, RecordedStagesHappened, RunHappened, GroupAgrees, GroupPending,
     OneGroup
<1>11. GroupKnown(run') /\ FolderPlanned(run')
  BY <1>2, <1>5 DEF GroupKnown, FolderPlanned, Early, Late
<1> QED BY <1>8, <1>9, <1>10, <1>11 DEF WS, WorkspaceSteady

LEMMA UserStep ==
  ASSUME WS, UserEdits
  PROVE  WS'
<1>1. UNCHANGED <<stateFile, run, task, tg, lost>> /\ IsFilters(filters)
  BY DEF UserEdits, WS, WorkspaceTypeOK
<1>2. IsFilters(filters')
  <2> PICK id \in FolderIds :
        \/ \E title \in {"lavis", "other"} :
             filters' = [i \in DOMAIN filters \cup {id} |->
                           IF i = id THEN Folder(title, {Other}, {}) ELSE filters[i]]
        \/ filters' = [i \in DOMAIN filters \ {id} |-> filters[i]]
    BY DEF UserEdits
  <2>1. ASSUME NEW title \in {"lavis", "other"},
               filters' = [i \in DOMAIN filters \cup {id} |->
                             IF i = id THEN Folder(title, {Other}, {}) ELSE filters[i]]
        PROVE  IsFilters(filters')
    <3> DEFINE f == Folder(title, {Other}, {})
    <3>1. f \in Folders
      BY DEF Folder, Folders, Peers
    <3> HIDE DEF f
    <3>2. filters' = [i \in DOMAIN filters \cup {id} |-> IF i = id THEN f ELSE filters[i]]
      BY <2>1 DEF f
    <3> QED BY <1>1, <3>1, <3>2 DEF IsFilters
  <2>2. CASE filters' = [i \in DOMAIN filters \ {id} |-> filters[i]]
    BY <1>1, <2>2 DEF IsFilters
  <2> QED BY <2>1, <2>2
<1>3. WorkspaceTypeOK'
  BY <1>1, <1>2 DEF WS, WorkspaceTypeOK
<1>4. WorkspaceSteady'
  BY <1>1 DEF WS, WorkspaceSteady, RecordedStagesHappened, RunHappened, TasksSettled, GroupAgrees, GroupPending,
     OneGroup
<1> QED BY <1>3, <1>4 DEF WS

-----------------------------------------------------------------------------
(* ensure_forum_topic.                                                       *)

LEMMA TaskStep ==
  ASSUME WS, NEW t \in Topics, NEW k \in Tasks, Set(t, k),
         tg' \in Telegrams, Grew(tg, tg'), tg'.groups = tg.groups,
         stateFile' \in States, stateFile'.group = stateFile.group, Happened(stateFile', tg'),
         TaskSettled(t, k, stateFile.group, tg'),
         UNCHANGED <<run, filters, lost>>
  PROVE  WS'
<1>1. /\ stateFile \in States /\ task \in [Topics -> Tasks] /\ tg \in Telegrams /\ IsFilters(filters)
      /\ stateFile.group \in 0 .. MaxGroups
  BY DEF WS, WorkspaceTypeOK, States
<1>2. task' \in [Topics -> Tasks] /\ task'[t] = k /\ \A u \in Topics : u # t => task'[u] = task[u]
  BY <1>1 DEF Set
<1>3. WorkspaceTypeOK'
  BY <1>1, <1>2 DEF WS, WorkspaceTypeOK
<1>4. TasksSettled'
  <2> SUFFICES ASSUME NEW u \in Topics
               PROVE  TaskSettled(u, task'[u], stateFile.group, tg')
    BY DEF TasksSettled
  <2>1. CASE u = t
    BY <1>2, <2>1
  <2>2. CASE u # t
    <3>1. TaskSettled(u, task[u], stateFile.group, tg) /\ task[u] \in Tasks
      BY <1>1 DEF WS, WorkspaceSteady, TasksSettled
    <3> QED BY <1>1, <1>2, <2>2, <3>1, TaskKept
  <2> QED BY <2>1, <2>2
<1>5. RecordedStagesHappened'
  BY DEF RecordedStagesHappened
<1>6. RunHappened'
  <2>1. run # Stopped => run.st \in States /\ Happened(run.st, tg)
    BY RunTyped DEF WS, WorkspaceSteady, RunHappened
  <2> QED BY <1>1, <2>1, HappenedKept DEF RunHappened
<1>7. GroupAgrees' /\ GroupPending' /\ OneGroup'
  BY DEF WS, WorkspaceSteady, GroupAgrees, GroupPending, OneGroup
<1> QED BY <1>3, <1>4, <1>5, <1>6, <1>7 DEF WS, WorkspaceSteady

LEMMA DoneSettled ==
  ASSUME NEW t \in Topics, NEW k, k.at = "done", NEW g, NEW T
  PROVE  TaskSettled(t, k, g, T)
BY DEF TaskSettled

LEMMA EnsureStep ==
  ASSUME WS, NEW t \in Topics,
         EnsureStart(t) \/ EnsureCreate(t) \/ EnsureLoad(t) \/ EnsureSave(t)
  PROVE  WS'
<1> DEFINE g == stateFile.group
<1>1. /\ stateFile \in States /\ task[t] \in Tasks /\ tg \in Telegrams /\ g \in 0 .. MaxGroups
      /\ Grew(tg, tg) /\ Happened(stateFile, tg) /\ TaskSettled(t, task[t], g, tg)
  BY GrewSame DEF WS, WorkspaceTypeOK, States, WorkspaceSteady, RecordedStagesHappened, TasksSettled
<1>2. task[t].at \in {"create", "load", "save"} => g # 0 /\ g \in 1 .. MaxGroups
  BY <1>1, WorkspaceAssumption DEF TaskSettled
<1>3. NameOf(t) \in {"logs", "reactions"}
  BY DEF NameOf
<1>4. [at |-> "done"] \in Tasks /\ [at |-> "done"].at = "done"
  BY DEF Tasks
<1>5. CASE EnsureStart(t)
  <2> DEFINE k == [at |-> IF stateFile[NameOf(t)] # 0 THEN "done" ELSE "create", group |-> g]
  <2>1. g # 0 /\ g \in 1 .. MaxGroups
    BY <1>1, <1>5, WorkspaceAssumption DEF EnsureStart
  <2>2. k \in Tasks /\ k.at \in {"create", "done"} /\ k.group = g
    BY <2>1 DEF Tasks
  <2>3. Set(t, k) /\ UNCHANGED <<stateFile, run, tg, filters, lost>>
    BY <1>5 DEF EnsureStart
  <2> HIDE DEF k
  <2>4. TaskSettled(t, k, g, tg)
    BY <2>1, <2>2 DEF TaskSettled
  <2> QED BY <1>1, <2>2, <2>3, <2>4, TaskStep
<1>6. CASE EnsureCreate(t)
  <2>1. task[t].at = "create" /\ task[t].group = g /\ UNCHANGED <<stateFile, run, filters, lost>>
    BY <1>1, <1>6 DEF EnsureCreate, TaskSettled
  <2> DEFINE n == NameOf(t)
             id == tg.topics[g][n] + 1
             U == [tg EXCEPT !.topics[g][n] = id]
             k == [at |-> "load", id |-> id]
  <2>2. (tg' = U /\ Set(t, k)) \/ (Set(t, [at |-> "done"]) /\ UNCHANGED tg)
    BY <1>6, <2>1 DEF EnsureCreate
  <2>3. CASE tg' = U /\ Set(t, k)
    <3>1. id \in Nat \ {0}
      <4>1. tg.topics[g].logs \in Nat /\ tg.topics[g].reactions \in Nat
        BY <1>1, <1>2, <2>1, TelegramFields
      <4>2. tg.topics[g][n] \in Nat
        BY <1>3, <4>1
      <4> QED BY <4>2
    <3>2. U \in Telegrams /\ Grew(tg, U) /\ U.topics[g][n] = id /\ U.groups = tg.groups
      <4> HIDE DEF n
      <4>1. n \in {"logs", "reactions"}
        BY <1>3 DEF n
      <4> QED BY <1>1, <1>2, <2>1, <3>1, <4>1, TopicAdded
    <3>3. k \in Tasks /\ k.at = "load" /\ k.id = id
      BY <3>1 DEF Tasks
    <3> HIDE DEF U, k, id
    <3>4. TaskSettled(t, k, g, U)
      BY <1>2, <2>1, <3>1, <3>2, <3>3 DEF TaskSettled
    <3>5. Happened(stateFile, U)
      BY <1>1, <3>2, HappenedKept
    <3> QED BY <1>1, <2>1, <2>3, <3>2, <3>3, <3>4, <3>5, TaskStep
  <2>4. CASE Set(t, [at |-> "done"]) /\ UNCHANGED tg
    BY <1>1, <1>4, <2>1, <2>4, DoneSettled, TaskStep
  <2> QED BY <2>2, <2>3, <2>4
<1>7. CASE EnsureLoad(t)
  <2>1. task[t].at = "load" /\ UNCHANGED <<stateFile, run, tg, filters, lost>>
    BY <1>7 DEF EnsureLoad
  <2>2. task[t].id \in Nat \ {0} /\ task[t].id <= tg.topics[g][NameOf(t)]
    BY <1>1, <2>1 DEF Tasks, TaskSettled
  <2> DEFINE st == [stateFile EXCEPT ![NameOf(t)] = task[t].id]
             k == [at |-> "save", st |-> st]
  <2>3. Set(t, k)
    BY <1>7 DEF EnsureLoad
  <2>4. /\ st \in States /\ st.group = g /\ st.flags = stateFile.flags
        /\ st.logs = stateFile.logs \/ (NameOf(t) = "logs" /\ st.logs = task[t].id)
    <3>1. CASE NameOf(t) = "logs"
      BY <1>1, <2>2, <3>1 DEF States
    <3>2. CASE NameOf(t) = "reactions"
      BY <1>1, <2>2, <3>2 DEF States
    <3> QED BY <1>3, <3>1, <3>2
  <2> HIDE DEF st
  <2>5. Happened(st, tg)
    <3>1. "forum_topic_created" \in st.flags => st.logs \in 1 .. tg.topics[g].logs
      <4>1. tg.topics[g].logs \in Nat
        BY <1>1, <1>2, <2>1, TelegramFields
      <4>2. CASE st.logs = stateFile.logs
        BY <1>1, <2>4, <4>2 DEF Happened
      <4>3. CASE NameOf(t) = "logs" /\ st.logs = task[t].id
        BY <2>2, <4>1, <4>3
      <4> QED BY <2>4, <4>2, <4>3
    <3> QED BY <1>1, <2>4, <3>1 DEF Happened
  <2>6. k \in Tasks /\ k.at = "save" /\ k.st = st
    BY <2>4 DEF Tasks
  <2> HIDE DEF k
  <2>7. TaskSettled(t, k, g, tg)
    BY <1>2, <2>1, <2>4, <2>5, <2>6 DEF TaskSettled
  <2> QED BY <1>1, <2>1, <2>3, <2>6, <2>7, TaskStep
<1>8. CASE EnsureSave(t)
  <2>1. /\ task[t].at = "save" /\ UNCHANGED <<run, tg, filters, lost>> /\ Set(t, [at |-> "done"])
        /\ stateFile' \in {task[t].st, stateFile}
    BY <1>8 DEF EnsureSave
  <2>2. task[t].st \in States /\ task[t].st.group = g /\ Happened(task[t].st, tg)
    BY <1>1, <2>1 DEF TaskSettled, Tasks
  <2>3. stateFile' \in States /\ stateFile'.group = g /\ Happened(stateFile', tg')
    BY <1>1, <2>1, <2>2
  <2> QED BY <1>1, <1>4, <2>1, <2>3, DoneSettled, TaskStep
<1> QED BY <1>5, <1>6, <1>7, <1>8

-----------------------------------------------------------------------------
LEMMA WorkspaceInitStrong ==
  ASSUME WorkspaceInit
  PROVE  WS
<1>1. /\ stateFile.flags = {} /\ stateFile.group = 0
      /\ run = Stopped /\ tg.groups = 0 /\ lost = FALSE
      /\ \A t \in Topics : task[t].at = "idle"
  BY DEF WorkspaceInit
<1>2. stateFile \in States
  BY WorkspaceAssumption DEF WorkspaceInit, States
<1>3. task \in [Topics -> Tasks]
  BY DEF WorkspaceInit, Tasks
<1>4. tg \in Telegrams
  BY WorkspaceAssumption DEF WorkspaceInit, Telegrams
<1>5. IsFilters(filters)
  <2> DEFINE id == Min(FolderIds)
             first == {[title |-> "other", regular |-> TRUE, inc |-> {Other}, pin |-> {}],
                       [title |-> "lavis", regular |-> FALSE, inc |-> {}, pin |-> {}]}
  <2>1. id \in FolderIds
    BY MinFacts, WorkspaceAssumption
  <2>2. first \subseteq Folders
    BY DEF Folders, Peers
  <2>3. filters = NoFolders \/ filters \in [{id} -> first]
    BY DEF WorkspaceInit
  <2> HIDE DEF id, first
  <2>4. filters \in [{id} -> first] => IsFilters(filters)
    BY <2>1, <2>2 DEF IsFilters
  <2> QED BY <2>3, <2>4, NoFoldersFacts
<1>6. WorkspaceTypeOK
  BY <1>1, <1>2, <1>3, <1>4, <1>5 DEF WorkspaceTypeOK
<1>7. RecordedStagesHappened /\ TasksSettled
  BY <1>1 DEF RecordedStagesHappened, Happened, TasksSettled, TaskSettled
<1> QED
  BY <1>1, <1>6, <1>7 DEF WS, WorkspaceSteady, RunHappened, GroupAgrees, GroupPending, OneGroup

LEMMA WorkspaceStep ==
  ASSUME WS, [WorkspaceNext]_workspaceVars
  PROVE  WS'
<1>1. CASE UNCHANGED workspaceVars
  <2>1. UNCHANGED <<stateFile, run, task, tg, filters, lost>>
    BY <1>1 DEF workspaceVars
  <2>2. WorkspaceTypeOK'
    BY <2>1 DEF WS, WorkspaceTypeOK
  <2>3. WorkspaceSteady'
    BY <2>1 DEF WS, WorkspaceSteady, RecordedStagesHappened, RunHappened, TasksSettled, GroupAgrees,
       GroupPending, OneGroup
  <2> QED BY <2>2, <2>3 DEF WS
<1>2. CASE Provision
  BY <1>2, StartStep, SaveStep, OnceStages, GroupStep, TopicsStep, CommunityStep, JoinStep, PlanStep, UpdateStep,
     VerifyStep, StopStep DEF Provision
<1>3. CASE UserEdits
  BY <1>3, UserStep
<1>4. ASSUME NEW t \in Topics, EnsureStart(t) \/ EnsureCreate(t) \/ EnsureLoad(t) \/ EnsureSave(t)
      PROVE  WS'
  BY <1>4, EnsureStep
<1> QED BY <1>1, <1>2, <1>3, <1>4 DEF WorkspaceNext

\* Provisioning, for any number of runs, groups, folders, edits of the user and
\* tasks that write the same file: wherever a run is stopped and whichever save
\* fails, what the file records has happened in the group it names, and a second
\* group is created only after a run was lost before it recorded the first.
THEOREM WorkspaceTellsTheTruth == WorkspaceSpec => []WorkspaceInv
<1>1. WorkspaceInit => WS
  BY WorkspaceInitStrong
<1>2. WS /\ [WorkspaceNext]_workspaceVars => WS'
  BY WorkspaceStep
<1>3. WS => WorkspaceInv
  BY DEF WS, WorkspaceSteady, WorkspaceInv, OneGroup, SecondGroupOnlyIfLost, WorkspaceTypeOK, Telegrams
<1> QED BY <1>1, <1>2, <1>3, PTL DEF WorkspaceSpec

FoldersKept ==
  \A id \in FolderIds :
    At("update") /\ run' # run /\ id \in DOMAIN run.seen /\ filters' # filters
      => /\ id \in DOMAIN filters => id \in DOMAIN filters'
         /\ run.seen[id].title # "lavis" /\ id \in DOMAIN filters => filters'[id] = filters[id]
         /\ id \in DOMAIN filters /\ filters[id] = run.seen[id] => filters[id].inc \subseteq filters'[id].inc

LEMMA FoldersStep ==
  ASSUME WS, [WorkspaceNext]_workspaceVars
  PROVE  FoldersKept
<1> SUFFICES ASSUME NEW id \in FolderIds, At("update"), run' # run, id \in DOMAIN run.seen, filters' # filters
             PROVE  /\ id \in DOMAIN filters => id \in DOMAIN filters'
                    /\ run.seen[id].title # "lavis" /\ id \in DOMAIN filters => filters'[id] = filters[id]
                    /\ id \in DOMAIN filters /\ filters[id] = run.seen[id] =>
                         filters[id].inc \subseteq filters'[id].inc
  BY DEF FoldersKept
\* Only the update itself changes the folders and moves the run.
<1>1. UpdateFilter
  <2>1. \/ UNCHANGED filters
        \/ UNCHANGED run
        \/ UpdateFilter
    BY DEF workspaceVars, WorkspaceNext, Provision, ProvisionStart, Save, Resolve, StartBot, AppConfig, Stage,
       Group, ForumTopics, Invite, Rights, Community, Join, Plan, Verify, Stop, UserEdits, EnsureStart,
       EnsureCreate, EnsureLoad, EnsureSave
  <2> QED BY <2>1
<1>2. "update" \in RunAts \ {"save"}
  BY DEF RunAts
<1>3. run.at = "update" /\ FolderPlanned(run)
  BY <1>2, StageFacts
<1>4. /\ DOMAIN filters \subseteq DOMAIN filters'
      /\ \A i \in DOMAIN filters :
           /\ i # run.folder.id => filters'[i] = filters[i]
           /\ run.folder.folder = filters[i] => filters[i].inc \subseteq filters'[i].inc
  BY <1>1, UpdateFacts
<1>5. id = run.folder.id => run.seen[id] = run.folder.folder /\ run.seen[id].title = "lavis"
  BY <1>3 DEF FolderPlanned
<1> QED BY <1>4, <1>5

\* The update of the folder, whatever the user has made of the folders since they
\* were read and whichever id is free: a folder of another name is left as it is,
\* and the companion's folder loses no peer.
THEOREM FoldersOfTheUserKept == WorkspaceSpec => ForeignFoldersKept
<1>1. WorkspaceInit => WS
  BY WorkspaceInitStrong
<1>2. WS /\ [WorkspaceNext]_workspaceVars => WS'
  BY WorkspaceStep
<1>3. WS /\ [WorkspaceNext]_workspaceVars => [FoldersKept]_workspaceVars
  BY FoldersStep
<1> QED BY <1>1, <1>2, <1>3, PTL DEF WorkspaceSpec, ForeignFoldersKept, FoldersKept

-----------------------------------------------------------------------------
(* The run, which shows one of the three models in each behaviour.           *)

\* A behaviour of the run is one of each model: the models that rest take no step.
LEMMA RestartsShowEachModel == RestartsSpec => Spec /\ SetupSpec /\ WorkspaceSpec
<1>1. RestartsInit => Init /\ SetupInit /\ WorkspaceInit
  BY DEF RestartsInit
<1>2. [RestartsNext]_<<which, vars, setupVars, workspaceVars>>
        => [Next]_vars /\ [SetupNext]_setupVars /\ [WorkspaceNext]_workspaceVars
  BY DEF RestartsNext
<1> QED BY <1>1, <1>2, PTL DEF RestartsSpec, Spec, SetupSpec, WorkspaceSpec

\* No step of a restart, a setup or a provisioning, whatever it overlaps with, overwrites a
\* receipt, provisions with another bot's token or changes a folder of the user.
THEOREM StepsOfRestartsAreSafe == RestartsSpec => RestartsSteps
BY RestartsShowEachModel, ReceiptsNeverOverwritten, ProvisioningOwnsItsToken, FoldersOfTheUserKept, PTL
   DEF RestartsSteps

=============================================================================
