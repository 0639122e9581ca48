------------------------------- MODULE OwnerStores -------------------------------
(***************************************************************************)
(* The owner's settings and aliases: commands that change them, the files  *)
(* they are kept in, and the tutorial whose progress is one of the         *)
(* settings.                                                               *)
(*                                                                         *)
(* The update loop runs one handler at a time.  A handler awaits a         *)
(* blocking write and changes memory only when the write has succeeded.    *)
(* The setup deadline can drop a handler; its blocking write goes on.      *)
(* Process ids are reused across restarts, as in a container.  A           *)
(* definition X_Y that precedes X is a faulty variant of X.                *)
(***************************************************************************)
EXTENDS Naturals, FiniteSets, Sequences, FiniteSetsExt, Functions

CONSTANTS Names,        \* words used as alias and command names
          Builtin,      \* the built-in command names among them
          Aliasable,    \* the built-in commands an alias may stand for
          PrefixTexts,  \* strings tried as prefixes
          ValidPrefixes,\* those validate_prefix accepts
          MaxAliases,   \* MAX_ALIASES
          MaxArgs,      \* MAX_ARGS
          MaxCommands,  \* bound: commands in a behaviour
          MaxCrashes    \* bound: crashes in a behaviour

DEFAULT_PREFIX == ","
ASSUME ConstantsAssumption ==
  /\ DEFAULT_PREFIX \in ValidPrefixes /\ ValidPrefixes \subseteq PrefixTexts
  /\ Aliasable \subseteq Builtin /\ Builtin \subseteq Names
  /\ {MaxAliases, MaxArgs, MaxCommands, MaxCrashes} \subseteq Nat

Locales == {"en", "ru"}
Stores == {"settings", "aliases"}
None == "none"

VARIABLES up,        \* the process runs
          memory,    \* what the process holds: settings and aliases
          file,      \* the two files
          counter,   \* temporary_counter of each store
          temps,     \* temporary files on disk
          writes,    \* blocking writes under way
          handler,   \* the command being handled
          delivered, \* history: tutorial pages Telegram accepted
          strayed,   \* history: a dropped handler left a write behind since the start
          collisions,\* history: commits since the start that met a file of an earlier process
          commands, crashes

storeVars == <<up, memory, file, counter, temps, writes, handler, delivered, strayed, collisions, commands, crashes>>

(***************************************************************************)
(* Tutorial pages.                                                         *)
(***************************************************************************)
Pages == <<"Intro", "Prefix", "Ping", "Help", "Modules", "ExternalModules", "Companion", "Completion", "Complete">>
Progress == Range(Pages) \cup {"NotStarted", "Skipped"}
PageIndex(page) == CHOOSE i \in DOMAIN Pages : Pages[i] = page
NextPage(page) ==
  IF page \in {"NotStarted", "Skipped", "Complete"} THEN page ELSE Pages[PageIndex(page) + 1]
PageForStart(page) == IF page \in {"NotStarted", "Complete", "Skipped"} THEN "Intro" ELSE page

(***************************************************************************)
(* Validation.                                                             *)
(***************************************************************************)
ValidatePrefix(prefix) == prefix \in ValidPrefixes
ValidateArgs(args) == args <= MaxArgs
CanonicalCommand(name) == name \in Builtin
ValidateAlias(name, alias) == ~CanonicalCommand(name) /\ alias.target \in Aliasable /\ ValidateArgs(alias.args)
ValidateAliases(aliases) ==
  Cardinality(DOMAIN aliases) <= MaxAliases /\ \A name \in DOMAIN aliases : ValidateAlias(name, aliases[name])

\* Version 1 held the prefix alone.
LoadSettings(f) ==
  CASE f.version = 0 -> [prefix |-> DEFAULT_PREFIX, locale |-> None, page |-> "NotStarted"]
    [] f.version = 1 -> [prefix |-> f.prefix, locale |-> None, page |-> "NotStarted"]
    [] OTHER -> [prefix |-> f.prefix, locale |-> f.locale, page |-> f.page]
SettingsLoad(f) == f.version \in 0 .. 2 /\ ValidatePrefix(LoadSettings(f).prefix)

SettingsFile(s) == [version |-> 2, prefix |-> s.prefix, locale |-> s.locale, page |-> s.page]
\* What a file holds for a value of a store.
Serialize(store, value) == IF store = "settings" THEN SettingsFile(value) ELSE value

(***************************************************************************)
(* Commits: one blocking write for one candidate value.                    *)
(***************************************************************************)
Idle == [step |-> "idle"]
Awaiting(store, value, then) == [step |-> "awaiting", store |-> store, value |-> value, then |-> then]

\* Raised before the write, so that a name is never tried twice in one process.
TakeCounter(store) == [counter EXCEPT ![store] = @ + 1]

Commit(store, value, then) ==
  LET n == counter[store] + 1 IN
  /\ counter' = TakeCounter(store)
  /\ writes' = writes \cup {[store |-> store, value |-> value, n |-> n, at |-> "create", owned |-> TRUE]}
  /\ handler' = Awaiting(store, value, then)

Reply == handler' = Idle /\ UNCHANGED <<counter, writes>>

(***************************************************************************)
(* Command handlers.                                                       *)
(***************************************************************************)
SetPrefix(prefix) ==
  IF ValidatePrefix(prefix) THEN Commit("settings", [memory.settings EXCEPT !.prefix = prefix], "reply") ELSE Reply
ExecutePrefix == \/ \E prefix \in PrefixTexts : SetPrefix(prefix)
                 \/ SetPrefix(DEFAULT_PREFIX)
                 \/ Reply

ExecuteLanguage == \/ \E locale \in Locales : Commit("settings", [memory.settings EXCEPT !.locale = locale], "reply")
                   \/ Reply

ShowPage(settings, page) == Commit("settings", [settings EXCEPT !.page = page], "page")
StartBegin == IF memory.settings.locale = None THEN Reply
              ELSE ShowPage(memory.settings, PageForStart(memory.settings.page))
StartLocale(locale) == Commit("settings", [memory.settings EXCEPT !.locale = locale], "restart")
StartSkip == IF memory.settings.locale = None THEN Reply
             ELSE Commit("settings", [memory.settings EXCEPT !.page = "Skipped"], "reply")
ExecuteStart == \/ StartBegin \/ StartSkip
                \/ \E locale \in Locales : StartLocale(locale)
                \/ Reply

AliasAdd(name, alias) ==
  LET candidate == [n \in DOMAIN memory.aliases \cup {name} |-> IF n = name THEN alias ELSE memory.aliases[n]] IN
  IF name \notin DOMAIN memory.aliases /\ ValidateAlias(name, alias) /\ ValidateAliases(candidate)
  THEN Commit("aliases", candidate, "reply") ELSE Reply
AliasDelete(name) ==
  IF name \in DOMAIN memory.aliases
  THEN Commit("aliases", Restrict(memory.aliases, DOMAIN memory.aliases \ {name}), "reply") ELSE Reply
ExecuteAlias ==
  \/ \E name \in Names, target \in Names, args \in {0, MaxArgs + 1} :
       AliasAdd(name, [target |-> target, args |-> args])
  \/ \E name \in Names : AliasDelete(name)
  \/ Reply

Command ==
  /\ up /\ handler = Idle /\ commands < MaxCommands
  /\ commands' = commands + 1
  /\ ExecutePrefix \/ ExecuteLanguage \/ ExecuteStart \/ ExecuteAlias
  /\ UNCHANGED <<up, memory, file, temps, delivered, strayed, collisions, crashes>>

(***************************************************************************)
(* The blocking write: temporary file, contents, rename.                   *)
(***************************************************************************)
Temp(w) == [store |-> w.store, n |-> w.n]
Advance(w, at) == writes' = (writes \ {w}) \cup {[w EXCEPT !.at = at]}

CreateTemp(w) ==
  /\ w.at = "create"
  /\ IF Temp(w) \in temps
     THEN Advance(w, "failed") /\ collisions' = collisions + 1 /\ UNCHANGED temps
     ELSE /\ \/ Advance(w, "written") /\ temps' = temps \cup {Temp(w)}
             \/ Advance(w, "failed") /\ UNCHANGED temps      \* no directory, no space
          /\ UNCHANGED collisions
  /\ UNCHANGED <<up, memory, file, counter, handler, delivered, strayed, commands, crashes>>

\* A failed write, sync or rename removes the file again when it can.
CleanupAfterFailure(w) ==
  /\ w.at = "written" /\ Advance(w, "failed")
  /\ temps' \in {temps, temps \ {Temp(w)}}
  /\ UNCHANGED <<up, memory, file, counter, handler, delivered, strayed, collisions, commands, crashes>>

Replace(w) ==
  /\ w.at = "written" /\ Advance(w, "done")
  /\ temps' = temps \ {Temp(w)}
  /\ file' = [file EXCEPT ![w.store] = Serialize(w.store, w.value)]
  /\ UNCHANGED <<up, memory, counter, handler, delivered, strayed, collisions, commands, crashes>>

(***************************************************************************)
(* The handler goes on.                                                    *)
(***************************************************************************)
Finished(at) == {w \in writes : w.owned /\ w.at = at}

Committed ==
  /\ handler.step = "awaiting"
  /\ \E w \in Finished("done") :
       /\ LET now == [memory EXCEPT ![handler.store] = handler.value] IN
          /\ memory' = now
          /\ IF handler.then = "restart"
             THEN LET next == [now.settings EXCEPT !.page = "Intro"] IN
                  /\ counter' = TakeCounter("settings")
                  /\ writes' = (writes \ {w}) \cup {[store |-> "settings", value |-> next, n |-> counter.settings + 1,
                                                     at |-> "create", owned |-> TRUE]}
                  /\ handler' = Awaiting("settings", next, "page")
             ELSE /\ writes' = writes \ {w} /\ UNCHANGED counter
                  /\ handler' = IF handler.then = "page" THEN [step |-> "edit", page |-> now.settings.page] ELSE Idle
  /\ UNCHANGED <<up, file, temps, delivered, strayed, collisions, commands, crashes>>

CommitFailed ==
  /\ handler.step = "awaiting"
  /\ \E w \in Finished("failed") : writes' = writes \ {w}
  /\ handler' = Idle
  /\ UNCHANGED <<up, memory, file, counter, temps, delivered, strayed, collisions, commands, crashes>>

MarkOnboardingDelivered ==
  Commit("settings", [memory.settings EXCEPT !.page = NextPage(memory.settings.page)], "reply")

AfterEdit_Always(ok) == MarkOnboardingDelivered
AfterEdit(ok) == IF ok THEN MarkOnboardingDelivered ELSE Reply

\* message.edit of the rendered page.
EditPage ==
  /\ handler.step = "edit"
  /\ \E ok \in BOOLEAN :
       /\ delivered' = IF ok THEN delivered \cup {handler.page} ELSE delivered
       /\ AfterEdit(ok)
  /\ UNCHANGED <<up, memory, file, temps, strayed, collisions, commands, crashes>>

\* The setup deadline drops the handler; its write is not the handler's any more.
HandlerDropped ==
  /\ handler # Idle /\ ~strayed
  /\ handler' = Idle
  /\ writes' = {[w EXCEPT !.owned = FALSE] : w \in writes}
  /\ strayed' = TRUE
  /\ UNCHANGED <<up, memory, file, counter, temps, delivered, collisions, commands, crashes>>

AbandonedEnds == /\ \E w \in writes : ~w.owned /\ w.at \in {"done", "failed"} /\ writes' = writes \ {w}
                 /\ UNCHANGED <<up, memory, file, counter, temps, handler, delivered, strayed, collisions, commands, crashes>>

(***************************************************************************)
(* The end of the process, and the next start.                             *)
(***************************************************************************)
StoresCrash ==
  /\ up /\ crashes < MaxCrashes /\ crashes' = crashes + 1
  /\ up' = FALSE /\ handler' = Idle /\ writes' = {}
  /\ UNCHANGED <<memory, file, counter, temps, delivered, strayed, collisions, commands>>

\* A file that does not load ends the start.
StoresLoad ==
  /\ ~up /\ SettingsLoad(file.settings) /\ ValidateAliases(file.aliases)
  /\ up' = TRUE
  /\ memory' = [settings |-> LoadSettings(file.settings), aliases |-> file.aliases]
  /\ counter' = [s \in Stores |-> 0] /\ collisions' = 0 /\ strayed' = FALSE
  /\ UNCHANGED <<file, temps, writes, handler, delivered, commands, crashes>>

StoresInit ==
  /\ up = FALSE /\ handler = Idle /\ writes = {} /\ temps = {} /\ delivered = {} /\ strayed = FALSE
  /\ collisions = 0 /\ commands = 0 /\ crashes = 0
  /\ counter = [s \in Stores |-> 0]
  /\ file \in {[settings |-> [version |-> v, prefix |-> p, locale |-> None, page |-> "NotStarted"],
                aliases |-> [n \in {} |-> None]] : v \in {0, 1}, p \in ValidPrefixes}
  /\ memory = [settings |-> LoadSettings(file.settings), aliases |-> file.aliases]

BlockingStep == \E w \in writes : CreateTemp(w) \/ CleanupAfterFailure(w) \/ Replace(w)
Resume == Committed \/ CommitFailed \/ EditPage

StoresNext == \/ Command \/ BlockingStep \/ Resume \/ HandlerDropped \/ AbandonedEnds
              \/ StoresCrash \/ StoresLoad

\* Blocking threads run and awaited work resumes; nothing forces commands, deadlines or crashes.
StoresFairness == WF_storeVars(BlockingStep) /\ WF_storeVars(Resume)
StoresSpec == StoresInit /\ [][StoresNext]_storeVars /\ StoresFairness

(***************************************************************************)
(* Properties.                                                             *)
(***************************************************************************)
Settings == [prefix : PrefixTexts, locale : Locales \cup {None}, page : Progress]

\* Types of the stores; a handler that is awaiting has its write.
StoresTypeOK ==
  /\ memory.settings \in Settings /\ LoadSettings(file.settings) \in Settings
  /\ DOMAIN memory.aliases \subseteq Names /\ DOMAIN file.aliases \subseteq Names
  /\ \A w \in writes : w.at \in {"create", "written", "done", "failed"}
  /\ handler.step = "awaiting" => Cardinality({w \in writes : w.owned}) = 1

\* Between commands the process holds exactly what a restart would read back, whatever failed on the
\* way: a setter changes memory only after its file was replaced.  (A handler dropped by the setup
\* deadline leaves a write behind; from then to the next start the two may differ.)
MemoryDurable ==
  up /\ handler = Idle /\ ~strayed =>
    memory = [settings |-> LoadSettings(file.settings), aliases |-> file.aliases]

\* No sequence of commands, failures, dropped handlers and crashes leaves a file the next start
\* refuses (load_settings and load_aliases end the start with an error).
FilesReload == SettingsLoad(file.settings) /\ ValidateAliases(file.aliases)

\* The recorded page never runs ahead of what Telegram accepted: a tutorial page may be shown twice
\* after a crash or a failed save, and is never skipped.
TutorialNeverSkips ==
  \A page \in {memory.settings.page, LoadSettings(file.settings).page} \cap Range(Pages) :
    \A i \in 1 .. PageIndex(page) - 1 : Pages[i] \in delivered

\* A temporary file left by a process of the same id fails one commit, not every later one.
CollisionsBounded == collisions <= Cardinality(temps)

\* A handler that has started a write or an edit ends.
HandlerEnds == (handler # Idle) ~> (handler = Idle)

\* The invariant of the settings, aliases and tutorial stores: what memory holds the files hold,
\* the files load again, and no tutorial page is skipped.
StoresInv == StoresTypeOK /\ MemoryDurable /\ FilesReload /\ TutorialNeverSkips /\ CollisionsBounded

=============================================================================
