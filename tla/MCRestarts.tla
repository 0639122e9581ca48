--------------------------- MODULE MCRestarts ---------------------------
(* What restarts find on disk: the reboot receipt, the companion bot's      *)
(* identity and token, and its workspace.  The three models share no        *)
(* variable; "which" chooses one of them for a whole behaviour and the      *)
(* other two stay in one initial state, so the run explores their union.    *)
EXTENDS RebootReceipt, CompanionSetup, CompanionWorkspace

CONSTANTS m1, m2, t1, t2, u1, u2, log, a1

VARIABLE which

PrivatePeer == <<"user", 9>>

RestartsInit ==
  /\ which \in {"receipt", "setup", "workspace"}
  /\ Init /\ SetupInit /\ WorkspaceInit
  /\ which # "setup" => bots = {}
  /\ which # "workspace" => filters = NoFolders

RestartsNext ==
  \/ which = "receipt" /\ Next /\ UNCHANGED <<which, setupVars, workspaceVars>>
  \/ which = "setup" /\ SetupNext /\ UNCHANGED <<which, vars, workspaceVars>>
  \/ which = "workspace" /\ WorkspaceNext /\ UNCHANGED <<which, vars, setupVars>>

RestartsSpec ==
  RestartsInit /\ [][RestartsNext]_<<which, vars, setupVars, workspaceVars>>

\* What no step of a restart, a setup or a provisioning may do: overwrite a receipt, provision with
\* another bot's token, or change a folder of the user.
RestartsSteps == NeverOverwritten /\ ProvisionOwnsToken /\ ForeignFoldersKept

=============================================================================
