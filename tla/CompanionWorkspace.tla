-------------------------- MODULE CompanionWorkspace --------------------------
(***************************************************************************)
(* Provisioning of the companion workspace: the staged provisioner of      *)
(* setup_provision.rs over its Grammers transport, and the two other       *)
(* writers of the same state file, the log forwarder and the reactions     *)
(* audit, which create their forum topics on first use                     *)
(* (companion_forum.rs).                                                   *)
(*                                                                         *)
(* A provision run loads the state file once and then saves its copy after *)
(* every stage.  It may be stopped anywhere: by an error, by its deadline, *)
(* by the end of the process.  Telegram is external; a call that creates   *)
(* something may succeed and still be reported as failed.                  *)
(*                                                                         *)
(* A definition X_Y that precedes X is a faulty variant of X.              *)
(***************************************************************************)
EXTENDS Integers, Sequences, FiniteSets, FiniteSetsExt

CONSTANTS
  Topics,        \* users of ensure_forum_topic, by the name of their task
  LogTask,       \* the log forwarder's task; the others audit reactions
  FolderIds,     \* dialog filter ids
  Capacity,      \* the folder limit of the account
  Other,         \* a peer of the user's own folders
  MaxGroups,     \* bound on the groups created
  MaxRuns,       \* bound on provision runs
  MaxEdits,      \* bound on the folders the user edits
  StorageFails   \* whether saving the state file may fail

ASSUME WorkspaceAssumption ==
  /\ LogTask \in Topics /\ Capacity \in Nat
  /\ FolderIds \subseteq Nat \ {0} /\ FolderIds # {}
  /\ MaxGroups \in Nat /\ MaxRuns \in Nat /\ MaxEdits \in Nat /\ StorageFails \in BOOLEAN

VARIABLES
  stateFile,      \* the setup state file
  run,       \* the provision task
  task,      \* [Topics -> state of ensure_forum_topic]
  tg,        \* Telegram: started, groups, topics, members, admins, joined
  filters,   \* dialog filters of the account: id -> folder
  lost,      \* history: a run ended between creating a group and recording it
  spent      \* [runs, edits]

workspaceVars == <<stateFile, run, task, tg, filters, lost, spent>>

\* SetupStages, with the bot's access hash and the community's identity, which
\* are looked up only once.
Flags == {"bot", "bot_dialog_initialized", "app_config_checked", "forum_group_created",
          "forum_topic_created", "bot_invited", "bot_rights_configured", "community",
          "community_joined", "folder_configured", "companion_configured"}

\* 0 is None.
States == [flags : SUBSET Flags, group : 0 .. MaxGroups, logs : Nat, reactions : Nat,
           folder : FolderIds \cup {0}]

Stopped == [at |-> "none"]
NoFolders == [i \in {} |-> 0]

BotPeer == <<"user", 0>>
CommunityPeer == <<"channel", 0>>
GroupPeer(g) == <<"channel", g>>
Peers == {Other, BotPeer, CommunityPeer} \cup {GroupPeer(g) : g \in 0 .. MaxGroups}

Folders == [title : {"lavis", "other"}, regular : BOOLEAN, inc : SUBSET Peers, pin : SUBSET Peers]
IsFilters(fs) == DOMAIN fs \subseteq FolderIds /\ fs \in [DOMAIN fs -> Folders]
Plans == [plan : {"none", "conflict", "capacity"}] \cup [plan : {"use"}, id : FolderIds, folder : Folders]

Stages == {"bot", "start", "config", "group", "topics", "invite", "rights", "community", "join", "plan"}

\* A run that has read the folders as seen.
Runs(seen) ==
  [at : Stages \cup {"save", "update", "verify"}, next : Stages \cup {"update", "end"},
   st : States, community : BOOLEAN, seen : {seen}, folder : Plans]

Tasks == [at : {"idle", "done"}]
         \cup [at : {"create", "done"}, group : 1 .. MaxGroups]
         \cup [at : {"load"}, id : Nat \ {0}]
         \cup [at : {"save"}, st : States]

Telegrams == [started : BOOLEAN, groups : 0 .. MaxGroups, joined : BOOLEAN,
              members : SUBSET (1 .. MaxGroups), admins : SUBSET (1 .. MaxGroups),
              topics : [1 .. MaxGroups -> [logs : Nat, reactions : Nat]]]

WorkspaceTypeOK ==
  /\ stateFile \in States /\ lost \in BOOLEAN
  /\ run # Stopped => run \in Runs(run.seen) /\ IsFilters(run.seen)
  /\ task \in [Topics -> Tasks]
  /\ IsFilters(filters)
  /\ tg \in Telegrams

\* After validate_and_persist: the bot is recorded, the workspace is not.
WorkspaceInit ==
  /\ stateFile = [flags |-> {}, group |-> 0, logs |-> 0, reactions |-> 0, folder |-> 0]
  /\ run = Stopped
  /\ task = [t \in Topics |-> [at |-> "idle"]]
  /\ tg = [started |-> FALSE, groups |-> 0, joined |-> FALSE, members |-> {}, admins |-> {},
           topics |-> [g \in 1 .. MaxGroups |-> [logs |-> 0, reactions |-> 0]]]
  /\ filters \in {NoFolders} \cup
       [{Min(FolderIds)} -> {[title |-> "other", regular |-> TRUE, inc |-> {Other}, pin |-> {}],
                             [title |-> "lavis", regular |-> FALSE, inc |-> {}, pin |-> {}]}]
  /\ lost = FALSE /\ spent = [runs |-> 0, edits |-> 0]

-----------------------------------------------------------------------------
(* plan_folder, merge_peers, verify_folder.                                  *)

Folder(title, inc, pin) == [title |-> title, regular |-> TRUE, inc |-> inc, pin |-> pin]

Conflict == [plan |-> "conflict"]
Full == [plan |-> "capacity"]
Use(id, f) == [plan |-> "use", id |-> id, folder |-> f]
Fresh(id) == Use(id, Folder("lavis", {}, {}))

\* The search begins at first_valid_id: smaller ids are the client's own.
FreeId(fs) == Min(FolderIds \ DOMAIN fs)

PlanFolder_ByName(fs, g, recorded) ==
  LET named == {i \in DOMAIN fs : fs[i].title = "lavis"}
  IN CASE recorded # 0 /\ recorded \in DOMAIN fs -> Use(recorded, fs[recorded])
       [] named # {} -> Use(Min(named), fs[Min(named)])
       [] OTHER -> IF FolderIds \subseteq DOMAIN fs THEN Full ELSE Fresh(FreeId(fs))

PlanFolder(fs, g, recorded) ==
  LET named == {i \in DOMAIN fs : fs[i].title = "lavis"}
      full == Cardinality(DOMAIN fs) >= Capacity
      owned == {i \in named : {GroupPeer(g), BotPeer} \subseteq fs[i].inc}
      taken == \E i \in DOMAIN fs : fs[i].inc \cap {GroupPeer(g), BotPeer} # {}
  IN CASE recorded # 0 /\ recorded \in DOMAIN fs ->
            IF fs[recorded].regular /\ named = {recorded} THEN Use(recorded, fs[recorded]) ELSE Conflict
       [] recorded # 0 /\ recorded \notin DOMAIN fs ->
            IF named # {} \/ full THEN Conflict ELSE Fresh(recorded)
       [] recorded = 0 ->
            CASE \E i \in named : ~fs[i].regular -> Conflict
              [] (\A i \in named : fs[i].regular) /\ Cardinality(owned) = 1 ->
                   Use(Min(owned), fs[Min(owned)])
              [] (\A i \in named : fs[i].regular) /\ Cardinality(owned) # 1 ->
                   IF named # {} \/ taken THEN Conflict
                   ELSE IF full \/ FolderIds \subseteq DOMAIN fs THEN Full
                   ELSE Fresh(FreeId(fs))

MergePeers(f, managed) == [f EXCEPT !.inc = @ \cup managed, !.pin = @ \cup managed]

VerifyFolder(fs, id, managed) ==
  /\ id \in DOMAIN fs /\ fs[id].title = "lavis" /\ fs[id].regular
  /\ managed \subseteq fs[id].inc \cup fs[id].pin /\ managed \subseteq fs[id].pin

-----------------------------------------------------------------------------
(* The transport (setup_grammers.rs).  A call yields <<succeeded, Telegram>>; *)
(* one that fails may still have taken effect.                               *)

Call(after) == {<<TRUE, after>>, <<FALSE, tg>>, <<FALSE, after>>}
resolve_bot == Call(tg)
start_bot == Call([tg EXCEPT !.started = TRUE])
get_app_config == Call(tg)
get_forum_group(g) == Call(tg)
create_forum_group == Call([tg EXCEPT !.groups = @ + 1])
\* The group's topics of that title are searched; when there is none, one is
\* created and searched for again.
get_forum_topic(g) == {<<TRUE, id>> : id \in 1 .. tg.topics[g].logs} \cup {<<FALSE, 0>>}
create_forum_topic(g) == Call([tg EXCEPT !.topics[g].logs = @ + 1])
\* USER_ALREADY_PARTICIPANT counts as success.
invite_to_channel(g) == Call([tg EXCEPT !.members = @ \cup {g}])
edit_admin(g) == Call([tg EXCEPT !.admins = @ \cup {g}])
resolve_community == Call(tg)
get_community == Call(tg)
join_community == Call([tg EXCEPT !.joined = TRUE])
\* A peer that is neither user, channel nor chat makes the read fail.
get_dialog_filters == {<<TRUE, filters>>, <<FALSE, NoFolders>>}
update_dialog_filter(id, f) ==
  LET set == [i \in DOMAIN filters \cup {id} |-> IF i = id THEN f ELSE filters[i]]
  IN {<<TRUE, set>>, <<FALSE, filters>>, <<FALSE, set>>}

-----------------------------------------------------------------------------
(* The stages.  run.next is the stage to do after the pending save.          *)

Order == <<"bot", "start", "config", "group", "topics", "invite", "rights", "community", "join",
           "plan">>

\* Stages recorded as done are not repeated; the group and the topics are
\* looked up in every run, and the folder is always planned.
Done(st, stage) ==
  CASE stage = "bot" -> "bot" \in st.flags
    [] stage = "start" -> "bot_dialog_initialized" \in st.flags
    [] stage = "config" -> "app_config_checked" \in st.flags
    [] stage = "invite" -> "bot_invited" \in st.flags
    [] stage = "rights" -> "bot_rights_configured" \in st.flags
    [] stage = "join" -> "community_joined" \in st.flags
    [] OTHER -> FALSE

After(st, i) == Order[Min({j \in i + 1 .. Len(Order) : ~Done(st, Order[j])})]
IndexOf(stage) == CHOOSE i \in 1 .. Len(Order) : Order[i] = stage

At(stage) == run # Stopped /\ run.at = stage
Proceed(st, stage) == run' = [run EXCEPT !.st = st, !.at = stage]

\* The stage's call has returned: record it in the run's copy and save.
Record(st, stage) == run' = [run EXCEPT !.st = st, !.at = "save", !.next = After(st, IndexOf(stage))]
With(st, flag) == [st EXCEPT !.flags = @ \cup {flag}]

Fails == run' = Stopped

\* production_provision: one task at a time; the file is loaded once.
ProvisionStart ==
  /\ run = Stopped /\ spent.runs < MaxRuns
  /\ spent' = [spent EXCEPT !.runs = @ + 1]
  /\ run' = [at |-> After(stateFile, 0), next |-> "plan", st |-> stateFile, community |-> TRUE,
             seen |-> NoFolders, folder |-> [plan |-> "none"]]
  /\ UNCHANGED <<stateFile, task, tg, filters, lost>>

\* transport.save_state: a failure, which may come after the file was replaced, ends the run, except in onboard_community,
\* whose error is only remembered.
Save ==
  /\ At("save")
  /\ \/ /\ stateFile' = run.st
        /\ run' = IF run.next = "end" THEN Stopped ELSE [run EXCEPT !.at = run.next]
        /\ UNCHANGED lost
     \/ /\ StorageFails /\ stateFile' \in {stateFile, run.st}
        /\ IF run.next \in {"join", "plan"}
           THEN run' = [run EXCEPT !.at = "plan", !.community = FALSE] /\ UNCHANGED lost
           ELSE Fails /\ lost' = (lost \/ run.st.group # stateFile'.group)
  /\ UNCHANGED <<task, tg, filters, spent>>

\* A stage done once: its call, then its flag.
Stage(stage, flag, outcomes) ==
  /\ At(stage)
  /\ \E o \in outcomes :
       tg' = o[2] /\ IF o[1] THEN Record(With(run.st, flag), stage) ELSE Fails
  /\ UNCHANGED <<stateFile, task, filters, lost, spent>>

Resolve == Stage("bot", "bot", resolve_bot)
StartBot == Stage("start", "bot_dialog_initialized", start_bot)
AppConfig == Stage("config", "app_config_checked", get_app_config)

\* A recorded group is looked up; otherwise one is created, and recorded after.
\* The avatar is set at best effort and changes nothing here.
GroupRecorded_Flag(st) == "forum_topic_created" \in st.flags
GroupRecorded(st) == st.group # 0

Group ==
  /\ At("group")
  /\ \/ /\ GroupRecorded(run.st)
        /\ \E o \in get_forum_group(run.st.group) :
             IF ~o[1] THEN Fails
             ELSE IF "forum_group_created" \in run.st.flags
             THEN Proceed(run.st, After(run.st, IndexOf("group")))
             ELSE Record(With(run.st, "forum_group_created"), "group")
        /\ UNCHANGED <<tg, lost>>
     \/ /\ ~GroupRecorded(run.st) /\ tg.groups < MaxGroups
        /\ \E o \in create_forum_group :
             /\ tg' = o[2] /\ lost' = (lost \/ (~o[1] /\ o[2] # tg))
             /\ IF o[1] THEN Record([With(run.st, "forum_group_created") EXCEPT !.group = tg'.groups], "group")
                ELSE Fails
  /\ UNCHANGED <<stateFile, task, filters, spent>>

\* General must exist; Logs and Backups are looked up by title or created.
ForumTopics ==
  /\ At("topics")
  /\ LET g == run.st.group IN
     \/ \E o \in get_forum_topic(g) :
          /\ IF o[1] THEN Record([With(run.st, "forum_topic_created") EXCEPT !.logs = o[2]], "topics")
             ELSE Fails
          /\ UNCHANGED tg
     \/ /\ tg.topics[g].logs = 0
        /\ \E o \in create_forum_topic(g) :
             /\ tg' = o[2]
             /\ IF o[1] THEN Record([With(run.st, "forum_topic_created") EXCEPT !.logs = 1], "topics")
                ELSE Fails
  /\ UNCHANGED <<stateFile, task, filters, lost, spent>>

Invite == Stage("invite", "bot_invited", invite_to_channel(run.st.group))
Rights == Stage("rights", "bot_rights_configured", edit_admin(run.st.group))

\* onboard_community: an error is remembered and the run goes on.
Onboard(o, next) == IF o[1] THEN next ELSE run' = [run EXCEPT !.at = "plan", !.community = FALSE]

Community ==
  /\ At("community")
  /\ \/ /\ "community" \in run.st.flags
        /\ \E o \in get_community :
             Onboard(o, Proceed(run.st, After(run.st, IndexOf("community"))))
     \/ /\ "community" \notin run.st.flags
        /\ \E o \in resolve_community :
             Onboard(o, Record(With(run.st, "community"), "community"))
  /\ UNCHANGED <<stateFile, task, tg, filters, lost, spent>>

Join ==
  /\ At("join")
  /\ \E o \in join_community :
       tg' = o[2] /\ Onboard(o, Record(With(run.st, "community_joined"), "join"))
  /\ UNCHANGED <<stateFile, task, filters, lost, spent>>

Managed == {GroupPeer(run.st.group), BotPeer}
           \cup (IF run.community /\ "community_joined" \in run.st.flags THEN {CommunityPeer} ELSE {})

\* The folder: read, plan, record its id as not configured yet.
Plan ==
  /\ At("plan")
  /\ \E o \in get_dialog_filters :
       LET p == PlanFolder(o[2], run.st.group, run.st.folder) IN
       IF ~o[1] THEN Fails
       ELSE IF p.plan = "use"
       THEN run' = [run EXCEPT !.at = "save", !.next = "update", !.seen = o[2], !.folder = p,
                      !.st = [run.st EXCEPT !.folder = p.id, !.flags = @ \ {"folder_configured"}]]
       ELSE run' = [run EXCEPT !.at = "save", !.next = "end", !.folder = p,
                      !.st = With(run.st, "companion_configured")]
  /\ UNCHANGED <<stateFile, task, tg, filters, lost, spent>>

UpdateFilter ==
  /\ At("update")
  /\ \E o \in update_dialog_filter(run.folder.id, MergePeers(run.folder.folder, Managed)) :
       filters' = o[2] /\ IF o[1] THEN Proceed(run.st, "verify") ELSE Fails
  /\ UNCHANGED <<stateFile, task, tg, lost, spent>>

\* The order is updated, the filters are read again and verified.
Verify ==
  /\ At("verify")
  /\ \E o \in get_dialog_filters :
       IF o[1] /\ VerifyFolder(o[2], run.folder.id, Managed)
       THEN run' = [run EXCEPT !.at = "save", !.next = "end",
                      !.st = With(With(run.st, "folder_configured"), "companion_configured")]
       ELSE Fails
  /\ UNCHANGED <<stateFile, task, tg, filters, lost, spent>>

\* The 90 s timeout, abort_and_drain, or the end of the process.  The blocking
\* closure of a pending save is not stopped with the run: its write may be the
\* last thing that happens, and then it is there before the next step.
Stop ==
  /\ run # Stopped /\ Fails
  /\ stateFile' = stateFile \/ (At("save") /\ stateFile' = run.st)
  /\ lost' = (lost \/ (At("save") /\ run.st.group # stateFile'.group))
  /\ UNCHANGED <<task, tg, filters, spent>>

-----------------------------------------------------------------------------
(* ensure_forum_topic, by the log forwarder and the audit tasks.             *)

NameOf(t) == IF t = LogTask THEN "logs" ELSE "reactions"
Set(t, s) == task' = [task EXCEPT ![t] = s]

\* The worker and the audit take the group from the state file.
EnsureStart(t) ==
  /\ task[t].at = "idle" /\ stateFile.group # 0
  /\ Set(t, [at |-> IF stateFile[NameOf(t)] # 0 THEN "done" ELSE "create", group |-> stateFile.group])
  /\ UNCHANGED <<stateFile, run, tg, filters, lost, spent>>

\* createForumTopic needs the bot to be an administrator of the group.
EnsureCreate(t) ==
  /\ task[t].at = "create"
  /\ LET g == task[t].group
         id == tg.topics[g][NameOf(t)] + 1
     IN \/ /\ g \in tg.admins
           /\ tg' = [tg EXCEPT !.topics[g][NameOf(t)] = id]
           /\ Set(t, [at |-> "load", id |-> id])
        \/ Set(t, [at |-> "done"]) /\ UNCHANGED tg
  /\ UNCHANGED <<stateFile, run, filters, lost, spent>>

\* The blocking closure loads the file, sets the id and saves it.
EnsureLoad(t) ==
  /\ task[t].at = "load"
  /\ Set(t, [at |-> "save", st |-> [stateFile EXCEPT ![NameOf(t)] = task[t].id]])
  /\ UNCHANGED <<stateFile, run, tg, filters, lost, spent>>

EnsureSave(t) ==
  /\ task[t].at = "save"
  /\ stateFile' = task[t].st \/ (StorageFails /\ UNCHANGED stateFile)
  /\ Set(t, [at |-> "done"])
  /\ UNCHANGED <<run, tg, filters, lost, spent>>

-----------------------------------------------------------------------------
\* The user makes, renames, empties or deletes folders in another client, at a moment
\* that matters: the folders are read by the plan and by the verification, which may fail
\* anyway, so an edit at any other time can be put off to the next plan.
UserEdits ==
  /\ run.at \in {"plan", "update"}
  /\ spent.edits < MaxEdits /\ spent' = [spent EXCEPT !.edits = @ + 1]
  /\ \E id \in FolderIds :
       \/ \E title \in {"lavis", "other"} :
            filters' = [i \in DOMAIN filters \cup {id} |->
                          IF i = id THEN Folder(title, {Other}, {}) ELSE filters[i]]
       \/ filters' = [i \in DOMAIN filters \ {id} |-> filters[i]]
  /\ UNCHANGED <<stateFile, run, task, tg, lost>>

Provision ==
  \/ ProvisionStart \/ Save \/ Resolve \/ StartBot \/ AppConfig \/ Group \/ ForumTopics
  \/ Invite \/ Rights \/ Community \/ Join \/ Plan \/ UpdateFilter \/ Verify \/ Stop

WorkspaceNext ==
  \/ Provision \/ UserEdits
  \/ \E t \in Topics : EnsureStart(t) \/ EnsureCreate(t) \/ EnsureLoad(t) \/ EnsureSave(t)

WorkspaceSpec == WorkspaceInit /\ [][WorkspaceNext]_workspaceVars

-----------------------------------------------------------------------------
\* What a copy of the state file claims has happened, in the group it names.
Happened(st, telegram) ==
  /\ st.group <= telegram.groups
  /\ "bot_dialog_initialized" \in st.flags => telegram.started
  /\ "forum_topic_created" \in st.flags =>
       st.group # 0 /\ st.logs \in 1 .. telegram.topics[st.group].logs
  /\ "bot_invited" \in st.flags => st.group \in telegram.members
  /\ "bot_rights_configured" \in st.flags => st.group \in telegram.admins
  /\ "community_joined" \in st.flags => telegram.joined

\* What the state file records has happened in Telegram, in the group it names:
\* a stage is saved only after its call has succeeded, and a later run or a
\* concurrent writer of the file cannot record what never was.
RecordedStagesHappened == Happened(stateFile, tg)

\* A second group is created only when a run was lost between creating a group
\* and recording it.
SecondGroupOnlyIfLost == tg.groups > 1 => lost

\* Updating the folder never touches a folder the user had for something else,
\* and keeps every peer the companion folder had when it was read.
ForeignFoldersKept ==
  [][\A id \in FolderIds :
       At("update") /\ run' # run /\ id \in DOMAIN run.seen /\ filters' # filters
         => /\ id \in DOMAIN filters => id \in DOMAIN filters'
            /\ run.seen[id].title # "lavis" /\ id \in DOMAIN filters => filters'[id] = filters[id]
            /\ id \in DOMAIN filters /\ filters[id] = run.seen[id] => filters[id].inc \subseteq filters'[id].inc
     ]_workspaceVars

\* The invariant of the provisioner: a recorded stage happened, and a second group is created only
\* after the id of the first was lost.
WorkspaceInv == WorkspaceTypeOK /\ RecordedStagesHappened /\ SecondGroupOnlyIfLost

=============================================================================
