--------------------------- MODULE MCV6Scenarios ---------------------------
(* Several small instances of V6Process in one run.  A scenario bounds what *)
(* the callers and the module do; nothing Lavis owes is bounded, so the     *)
(* fairness of FairSpec is that of the full specification.                  *)
EXTENDS MCV6Process

CONSTANT Scenarios   \* each the requests, stoppers, calls and frames of its behaviours

\* Some scenario has all that callers and module have done so far.
Within ==
  \E s \in Scenarios :
    /\ \A r \in Requests \ s.requests : reply[r] = "idle"
    /\ \A p \in Stoppers \ s.stoppers : stop[p] = "idle"
    /\ \A c \in Calls \ s.calls : invoked[c] = 0 /\ \A i \in DOMAIN readerQ : readerQ[i].x # c
    /\ emits <= s.emits

ScenarioNext ==
  \/ (CallerNext \/ ModuleNext) /\ Within'
  \/ SupervisorNext
  \/ TaskNext

ScenarioSpec == Init /\ [][ScenarioNext]_vars
FairScenarioSpec == ScenarioSpec /\ Fairness

\* The lifecycle: three requests, two of them with one id, and no calls.  The
\* shutdown: a request, a call and two stoppers that race.
LifecycleAndShutdown ==
  {[requests |-> Requests, stoppers |-> {}, calls |-> {}, emits |-> MaxEmits],
   [requests |-> {r1}, stoppers |-> Stoppers, calls |-> Calls, emits |-> MaxEmits]}

\* A request behind another while a stopper acts; a call beside a request and a
\* stopper; and two stoppers.
LivenessScenarios ==
  {[requests |-> {r1, r2}, stoppers |-> {s1}, calls |-> {}, emits |-> 1],
   [requests |-> {r1}, stoppers |-> {s1}, calls |-> Calls, emits |-> 1],
   [requests |-> {}, stoppers |-> {s1, s2}, calls |-> {}, emits |-> 1]}
=============================================================================
