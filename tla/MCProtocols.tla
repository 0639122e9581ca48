--------------------------- MODULE MCProtocols ---------------------------
(* What crosses Lavis's boundaries: the line protocol of v2-v5 modules in    *)
(* time, and the codecs and parsers input by input.  The two share no        *)
(* variable; "which" chooses one of them for a whole behaviour while the     *)
(* other stays as it is, so the run explores their union.                    *)
EXTENDS MCInputs, LegacyProcess

VARIABLE which

NoJob == [kind |-> "none"]

ProtocolsInit ==
  \/ which = "inputs" /\ Init /\ LegacyInit /\ version = 5
  \/ which = "process" /\ LegacyInit /\ job = NoJob /\ out = Pending

ProtocolsNext ==
  \/ which = "inputs" /\ Next /\ UNCHANGED <<which, legacyVars>>
  \/ which = "process" /\ LegacyNext /\ UNCHANGED <<which, vars>>

\* LegacyFairness asks nothing of the other behaviours: in the process's initial
\* state none of its actions is enabled.
ProtocolsSpec ==
  ProtocolsInit /\ [][ProtocolsNext]_<<which, vars, legacyVars>> /\ LegacyFairness
=============================================================================
