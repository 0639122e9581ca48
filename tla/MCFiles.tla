--------------------------- MODULE MCFiles ---------------------------
(* What Lavis keeps in its directories: the owner's settings and aliases,   *)
(* the installed modules and the Telegram session.  The three models share  *)
(* no variable; "which" chooses one of them for a whole behaviour and the   *)
(* other two stay in one initial state, so the run explores their union.    *)
EXTENDS OwnerStores, ModuleInstall, LocalSession

VARIABLE which

MCFileOrder == <<"db", "wal">>

FilesInit ==
  /\ which \in {"stores", "install", "session"}
  /\ StoresInit /\ InstallInit /\ SessionInit
  /\ which # "stores" => file.settings.version = 1 /\ file.settings.prefix = ","
  /\ which # "install" => ~declared
  /\ which # "session" => stored = "absent"

FilesNext ==
  \/ which = "stores" /\ StoresNext /\ UNCHANGED <<which, installVars, sessionVars>>
  \/ which = "install" /\ InstallNext /\ UNCHANGED <<which, storeVars, sessionVars>>
  \/ which = "session" /\ SessionNext /\ UNCHANGED <<which, storeVars, installVars>>

\* StoresFairness asks nothing of the other behaviours: no write is under way in
\* the stores' initial state.
FilesSpec ==
  FilesInit /\ [][FilesNext]_<<which, storeVars, installVars, sessionVars>> /\ StoresFairness

\* What the steps of a command owe: every owner command ends, an approval is redeemed in time, and
\* a declared module is left alone.
FilesSteps == HandlerEnds /\ RedeemedInTime /\ DeclarativeUntouched

=============================================================================
