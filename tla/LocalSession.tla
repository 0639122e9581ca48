------------------------------- MODULE LocalSession -------------------------------
(***************************************************************************)
(* The commands of the program and the local Telegram session they share:  *)
(* `run` and `auth` open it, `auth reset --backup` moves it into a backup,  *)
(* `logout` removes it, `auth doctor` looks at it (app.rs, session.rs,      *)
(* client.rs, auth.rs, credentials.rs).  Commands run in processes of       *)
(* their own, kept apart by an advisory lock that the system gives back     *)
(* when its holder dies.  A process may be killed between any two steps,    *)
(* and every file operation may fail.                                       *)
(*                                                                         *)
(* A session is a number, counted as they are created; live[f] says whose   *)
(* file f is, 0 if there is none.  A definition X_Y that precedes X is a    *)
(* faulty variant of X.                                                     *)
(***************************************************************************)
EXTENDS Integers, Sequences, SequencesExt, FiniteSets

CONSTANTS
  Procs,          \* processes
  FileOrder,      \* the session's files in the order the code visits them, the database first
  MaxSessions, MaxDirs, MaxLaunches, MaxKills   \* bounds

Files == Range(FileOrder)
Db == FileOrder[1]

ASSUME SessionAssumption ==
  /\ FileOrder \in Seq(Files) /\ FileOrder # <<>> /\ IsInjective(FileOrder)
  /\ "free" \notin Procs
  /\ {MaxSessions, MaxDirs, MaxLaunches, MaxKills} \subseteq Nat

VARIABLES
  program,     \* [Procs -> its command and where it is]
  lock,        \* the process that holds the flock, or "free"
  live,        \* [Files -> session], 0: no such file
  dirs,        \* backup directories, in the order of their creation
  sessions,    \* sessions created so far
  erased,      \* sessions whose database was removed by logout
  stored,      \* the credentials file: "absent", "whole"
  diagnostic,  \* the last authorization diagnostic
  launched, kills

fileVars == <<live, dirs, sessions, erased>>
noteVars == <<stored, diagnostic>>
sessionVars == <<program, lock, fileVars, noteVars, launched, kills>>

Nothing == [f \in Files |-> 0]
NoCommand == [cmd |-> "none", at |-> "idle", n |-> 1, client |-> FALSE, modules |-> FALSE,
         result |-> "none", moved |-> <<>>, before |-> Nothing]

\* run_command after the session is open, in the order of the code.  The steps in
\* Lenient log their failure and go on.
Startup == <<"settings", "authorize", "stream", "aliases", "external_state", "module_root", "staging_root",
             "wrappers", "discover", "manager", "startup_enabled", "runtime", "loop">>
Lenient == {"external_state", "discover", "startup_enabled"}
\* `auth` returns after authorization.
LastStep(cmd) == IF cmd = "auth" THEN 2 ELSE Len(Startup)

SessionInit ==
  /\ program = [p \in Procs |-> NoCommand] /\ lock = "free"
  /\ live = Nothing /\ dirs = <<>> /\ sessions = 0 /\ erased = {}
  /\ stored \in {"absent", "whole"} /\ diagnostic = "absent" /\ launched = 0 /\ kills = 0

-----------------------------------------------------------------------------
(* Commands, credentials and the lock.                                       *)

GoTo(p, stage) == program' = [program EXCEPT ![p].at = stage]
End(p) == program' = [program EXCEPT ![p] = NoCommand]

ParseCli(p) ==
  /\ program[p].at = "idle" /\ launched < MaxLaunches /\ launched' = launched + 1
  /\ \E cmd \in {"run", "auth", "reset", "logout", "doctor"} :
       program' = [program EXCEPT ![p] =
         [NoCommand EXCEPT !.cmd = cmd, !.at = IF cmd \in {"run", "auth"} THEN "credentials" ELSE "lock"]]
  /\ UNCHANGED <<lock, fileVars, noteVars, kills>>

\* `credentials reset` takes no lock.
CredentialsReset ==
  /\ launched < MaxLaunches /\ launched' = launched + 1
  /\ stored = "whole" /\ stored' = "absent"
  /\ UNCHANGED <<program, lock, fileVars, diagnostic, kills>>

\* The credentials file as a command finds it, and the answers of the owner on a terminal:
\* they replace the file in one step, and an error may come after that step.
ReadCredentials == IF stored = "absent" THEN {"not_found"} ELSE {"found", "unusable"}
SaveCredentials(p) == stored' = "whole" /\ (GoTo(p, "lock") \/ End(p))
Onboard(p) == SaveCredentials(p) \/ (End(p) /\ UNCHANGED stored)

ResolveOrOnboard(p) ==
  /\ program[p].at = "credentials"
  /\ \/ GoTo(p, "lock") /\ UNCHANGED stored       \* both variables are set
     \/ End(p) /\ UNCHANGED stored                \* one of them is
     \/ \E read \in ReadCredentials :
          CASE read = "found" -> GoTo(p, "lock") /\ UNCHANGED stored
            [] read = "unusable" -> End(p) /\ UNCHANGED stored
            [] OTHER -> Onboard(p)
  /\ UNCHANGED <<lock, fileVars, diagnostic, launched, kills>>

AfterLock(cmd) ==
  CASE cmd \in {"run", "auth"} -> "open" [] cmd = "reset" -> "recover" [] cmd = "logout" -> "remove" [] OTHER -> "release"

LockFree == lock = "free"

\* SessionLock::acquire; the holder's line in the file is for people only.
Acquire(p) ==
  /\ program[p].at = "lock"
  /\ \/ LockFree /\ lock' = p /\ GoTo(p, AfterLock(program[p].cmd))
     \/ End(p) /\ UNCHANGED lock                         \* held, or an error
  /\ UNCHANGED <<fileVars, noteVars, launched, kills>>

Release(p) ==
  /\ program[p].at = "release" /\ lock' = "free" /\ End(p)
  /\ UNCHANGED <<fileVars, noteVars, launched, kills>>

-----------------------------------------------------------------------------
(* run and auth.                                                             *)

\* TelegramClient::connect: SQLite opens the database or makes a new one.
Connect(p) ==
  /\ program[p].at = "open"
  /\ IF live[Db] = 0
     THEN sessions < MaxSessions /\ sessions' = sessions + 1 /\ live' = [live EXCEPT ![Db] = sessions + 1]
     ELSE UNCHANGED <<sessions, live>>
  /\ program' = [program EXCEPT ![p].at = "startup", ![p].client = TRUE]
  /\ UNCHANGED <<lock, dirs, erased, noteVars, launched, kills>>

\* A malformed session is noted and leads to exit status 78; other errors are not.
ConnectFails(p) ==
  /\ program[p].at = "open" /\ GoTo(p, "release")
  /\ \/ live[Db] # 0 /\ diagnostic' = "malformed_local_session"
     \/ UNCHANGED diagnostic
  /\ UNCHANGED <<lock, fileVars, stored, launched, kills>>

\* SQLite makes and removes its sidecars while it has the database open.
Sidecar(p) ==
  /\ program[p].client
  /\ \E f \in Files \ {Db} : live' = [live EXCEPT ![f] = IF @ = live[Db] THEN 0 ELSE live[Db]]
  /\ UNCHANGED <<program, lock, dirs, sessions, erased, noteVars, launched, kills>>

\* Module processes run from startup_enabled on.
StartupStep(p) ==
  /\ program[p].at = "startup" /\ program[p].n < LastStep(program[p].cmd)
  /\ program' = [program EXCEPT ![p].n = @ + 1, ![p].modules = @ \/ Startup[program[p].n] = "startup_enabled"]
  /\ diagnostic' = IF Startup[program[p].n] = "authorize" THEN "resolved" ELSE diagnostic
  /\ UNCHANGED <<lock, fileVars, stored, launched, kills>>

\* authorize: its errors are classified for the doctor.
Diagnostics == {"auth_key_duplicated", "rpc_error", "timeout", "interactive_auth", "unknown"}
Authorize(result) == IF result = "exit" THEN {"resolved"} ELSE Diagnostics

\* An error, at any step that is not lenient, or the end of the last step.
ApplicationEnds(p) ==
  /\ program[p].at = "startup"
  /\ LET step == Startup[program[p].n]
         last == program[p].n = LastStep(program[p].cmd) IN
     /\ \E result \in (IF step \in Lenient THEN {} ELSE {"error"})
                      \cup (IF last THEN {"exit"} ELSE {})
                      \cup (IF last /\ step = "loop" THEN {"restart"} ELSE {}) :
          /\ program' = [program EXCEPT ![p].at = "stopping", ![p].result = result]
          /\ IF step = "authorize" THEN diagnostic' \in Authorize(result) ELSE UNCHANGED diagnostic
  /\ UNCHANGED <<lock, fileVars, stored, launched, kills>>

\* shutdown_all, then TelegramClientGuard::shutdown.
ShutdownOrder == <<"modules", "client">>

\* combine_application_and_shutdown: only a clean shutdown is followed by a restart.
Combine(result, clean) == IF clean THEN result ELSE "error"

ShutdownStep(p) ==
  /\ program[p].at = "stopping"
  /\ LET open == {i \in DOMAIN ShutdownOrder : IF ShutdownOrder[i] = "client" THEN program[p].client
                                                ELSE program[p].modules} IN
     IF open = {} THEN GoTo(p, "unlock")
     ELSE IF ShutdownOrder[Min(open)] = "modules" THEN program' = [program EXCEPT ![p].modules = FALSE]
     ELSE \E clean \in BOOLEAN :
            program' = [program EXCEPT ![p].client = FALSE, ![p].result = Combine(@, clean)]
  /\ UNCHANGED <<lock, fileVars, noteVars, launched, kills>>

\* The lock goes with the client; a restart replaces the image with the same arguments.
Unlock(p) ==
  /\ program[p].at = "unlock" /\ lock' = "free"
  /\ IF program[p].result = "restart" /\ launched < MaxLaunches
     THEN /\ launched' = launched + 1
          /\ program' = [program EXCEPT ![p] = [NoCommand EXCEPT !.cmd = program[p].cmd, !.at = "credentials"]]
     ELSE End(p) /\ UNCHANGED launched
  /\ UNCHANGED <<fileVars, noteVars, kills>>

-----------------------------------------------------------------------------
(* auth reset --backup.  A directory is [state, files].                      *)

Staged == {d \in DOMAIN dirs : dirs[d].state = "staging"}
Current == Len(dirs)
FirstOf(files) == FileOrder[Min({i \in DOMAIN FileOrder : files[FileOrder[i]] # 0})]
MoveOut(d, f) == /\ live' = [live EXCEPT ![f] = dirs[d].files[f]]
                 /\ dirs' = [dirs EXCEPT ![d].files[f] = 0]
MoveIn(d, f) == /\ dirs' = [dirs EXCEPT ![d].files[f] = live[f]]
                /\ live' = [live EXCEPT ![f] = 0]
Drop(d) == dirs' = [dirs EXCEPT ![d].state = "gone"]
Finish(p, result) == program' = [program EXCEPT ![p].at = "release", ![p].result = result]
StagingDirectory == [state |-> "staging", files |-> Nothing]

\* The preflight of recover_staged_session_backups: no staged file has a live one.
Conflict == \E d \in Staged, f \in Files : dirs[d].files[f] # 0 /\ live[f] # 0

RecoverPreflight(p) ==
  /\ program[p].at = "recover"
  /\ IF Conflict THEN Finish(p, "conflict") ELSE GoTo(p, "recovering")
  /\ UNCHANGED <<lock, fileVars, noteVars, launched, kills>>

\* One rename, in the order the directory lists its files, or the removal of an emptied directory.
RecoverStep(p) ==
  /\ program[p].at = "recovering"
  /\ \/ Staged = {} /\ GoTo(p, "list") /\ UNCHANGED <<live, dirs>>
     \/ \E d \in Staged : /\ dirs[d].files = Nothing /\ Drop(d) /\ UNCHANGED live
                          /\ program' = [program EXCEPT ![p].moved = <<>>]
     \/ \E d \in Staged, f \in Files : /\ dirs[d].files[f] # 0 /\ MoveOut(d, f)
                                     /\ program' = [program EXCEPT ![p].moved = Append(@, <<d, f>>)]
  /\ UNCHANGED <<lock, sessions, erased, noteVars, launched, kills>>

\* A rename fails: what was moved out of this directory goes back, as far as it can.
RecoverFails(p) ==
  /\ program[p].at = "recovering" /\ Staged # {}
  /\ \E k \in 0 .. Len(program[p].moved) :
       LET back == {program[p].moved[i] : i \in Len(program[p].moved) - k + 1 .. Len(program[p].moved)} IN
       /\ dirs' = [d \in DOMAIN dirs |-> [dirs[d] EXCEPT !.files =
                     [f \in Files |-> IF <<d, f>> \in back THEN live[f] ELSE dirs[d].files[f]]]]
       /\ live' = [f \in Files |-> IF \E b \in back : b[2] = f THEN 0 ELSE live[f]]
  /\ Finish(p, "unrecovered")
  /\ UNCHANGED <<lock, sessions, erased, noteVars, launched, kills>>

\* session_files_for_backup and create_session_backup_directory.
BeginBackup(p) ==
  /\ program[p].at = "list"
  /\ \/ /\ live # Nothing /\ Len(dirs) < MaxDirs
        /\ dirs' = Append(dirs, StagingDirectory)
        /\ program' = [program EXCEPT ![p].at = "moving", ![p].before = live, ![p].moved = <<>>]
     \/ Finish(p, "none") /\ UNCHANGED dirs               \* no files, or an error
  /\ UNCHANGED <<lock, live, sessions, erased, noteVars, launched, kills>>

\* move_live_file; the rename is recorded before the directories are synced.
MoveLiveFile(p) ==
  /\ program[p].at = "moving" /\ live # Nothing
  /\ LET f == FirstOf(live) IN
     \/ /\ MoveIn(Current, f)
        /\ \E stage \in {"moving", "rollback"} :
             program' = [program EXCEPT ![p].at = stage, ![p].moved = Append(@, f)]
     \/ GoTo(p, "rollback") /\ UNCHANGED <<live, dirs>>
  /\ UNCHANGED <<lock, sessions, erased, noteVars, launched, kills>>

\* The rename to the published name is the commit point.
CommitReset(p) ==
  /\ program[p].at = "moving" /\ live = Nothing
  /\ \/ dirs' = [dirs EXCEPT ![Current].state = "published"] /\ Finish(p, "published")
     \/ GoTo(p, "rollback") /\ UNCHANGED dirs
  /\ UNCHANGED <<lock, live, sessions, erased, noteVars, launched, kills>>

RollbackOrder_First(moved) == Tail(moved)

RollbackOrder(moved) == Front(moved)

Rollback(p) ==
  /\ program[p].at = "rollback"
  /\ LET moved == program[p].moved IN
     IF moved # <<>>
     THEN \/ MoveOut(Current, Last(moved)) /\ program' = [program EXCEPT ![p].moved = RollbackOrder(moved)]
          \/ Finish(p, "incomplete") /\ UNCHANGED <<live, dirs>>
     ELSE /\ Finish(p, "undone") /\ UNCHANGED live
          /\ Drop(Current) \/ UNCHANGED dirs             \* the empty directory may remain
  /\ UNCHANGED <<lock, sessions, erased, noteVars, launched, kills>>

-----------------------------------------------------------------------------
(* logout, and the death of a process.                                       *)

RemoveSessionFile(p) ==
  /\ program[p].at = "remove"
  /\ IF live = Nothing THEN GoTo(p, "release") /\ UNCHANGED <<live, erased>>
     ELSE LET f == FirstOf(live) IN
          \/ /\ live' = [live EXCEPT ![f] = 0] /\ UNCHANGED program
             /\ erased' = IF f = Db THEN erased \cup {live[f]} ELSE erased
          \/ Finish(p, "error") /\ UNCHANGED <<live, erased>>
  /\ UNCHANGED <<lock, dirs, sessions, noteVars, launched, kills>>

Killed(p) ==
  /\ program[p].at # "idle" /\ kills < MaxKills /\ kills' = kills + 1
  /\ End(p) /\ lock' = IF lock = p THEN "free" ELSE lock
  /\ UNCHANGED <<fileVars, noteVars, launched>>

Step(p) ==
  \/ ResolveOrOnboard(p) \/ Acquire(p) \/ Release(p) \/ Connect(p) \/ ConnectFails(p) \/ StartupStep(p)
  \/ ApplicationEnds(p) \/ ShutdownStep(p) \/ Unlock(p) \/ RecoverPreflight(p) \/ RecoverStep(p)
  \/ RecoverFails(p) \/ BeginBackup(p) \/ MoveLiveFile(p) \/ CommitReset(p) \/ Rollback(p) \/ RemoveSessionFile(p)

SessionNext ==
  CredentialsReset \/ \E p \in Procs : ParseCli(p) \/ Step(p) \/ Sidecar(p) \/ Killed(p)

SessionSpec == SessionInit /\ [][SessionNext]_sessionVars

-----------------------------------------------------------------------------
(* Properties.                                                               *)

Uses(p) == program[p].client \/ program[p].modules
           \/ program[p].at \in {"open", "recovering", "list", "moving", "rollback", "remove"}

\* Types; and whoever has the session open or moves its files holds the lock, so no two
\* processes do, whichever of them fail or are killed.
SessionTypeOK ==
  /\ lock \in Procs \cup {"free"} /\ live \in [Files -> 0 .. MaxSessions]
  /\ sessions \in 0 .. MaxSessions /\ erased \subseteq 1 .. sessions
  /\ dirs \in Seq([state : {"staging", "published", "gone"}, files : [Files -> 0 .. MaxSessions]])
  /\ stored \in {"absent", "whole"}
  /\ \A p \in Procs : Uses(p) => lock = p

\* A session's database is never lost: until logout removes it, it is live or in a backup
\* directory, through failed renames, failed rollbacks, recoveries and kills.
SessionNeverLost ==
  \A s \in (1 .. sessions) \ erased : live[Db] = s \/ \E d \in DOMAIN dirs : dirs[d].files[Db] = s

\* A reset is all or nothing: once published, no live file is left and the backup has every
\* file; if it failed and says so no more than that, every file is where it was.
ResetAllOrNothing ==
  \A p \in Procs : program[p].at = "release" =>
    /\ program[p].result = "published" => live = Nothing /\ dirs[Current].files = program[p].before
    /\ program[p].result = "undone" => live = program[p].before

\* Module processes are stopped before the connection they act through is closed, on every
\* path through startup and shutdown.
ModulesStopFirst == \A p \in Procs : program[p].modules => program[p].client

\* At most one staging directory holds files, so a recovery never renames two files onto
\* one path.
OneStagedSession == Cardinality({d \in Staged : dirs[d].files # Nothing}) <= 1

\* "The next reset run recovers it": the staging directory that an interrupted reset left
\* behind never makes a later reset refuse.
NextResetRecovers == \A p \in Procs : program[p].at = "release" => program[p].result # "conflict"

\* The invariant of the session's files and lock: no session is lost or torn apart, and modules
\* stop before the client.
SessionInv == SessionTypeOK /\ SessionNeverLost /\ ResetAllOrNothing /\ ModulesStopFirst /\ OneStagedSession

=============================================================================
