--------------------------- MODULE SequentialService ---------------------------
(***************************************************************************)
(* What a module process promises its callers: requests are served one at  *)
(* a time, each ends exactly once (answered, failed or abandoned), and     *)
(* after a failure or a stop none is accepted.                             *)
(***************************************************************************)
EXTENDS Naturals

CONSTANT MaxRequest     \* bound on the requests made

VARIABLES
  svc,      \* "off", "up" or "down"
  cur,      \* the request being served, 0 for none
  ended     \* [1 .. MaxRequest -> how the request ended]

svcVars == <<svc, cur, ended>>

SvcInit ==
  /\ svc = "off" /\ cur = 0
  /\ ended = [r \in 1 .. MaxRequest |-> "none"]

Up == svc = "off" /\ svc' = "up" /\ UNCHANGED <<cur, ended>>
Down == svc # "down" /\ cur = 0 /\ svc' = "down" /\ UNCHANGED <<cur, ended>>

Begin(r) ==
  /\ svc = "up" /\ cur = 0
  /\ ended[r] = "none" /\ \A q \in 1 .. MaxRequest : q < r => ended[q] # "none"
  /\ cur' = r /\ UNCHANGED <<svc, ended>>

End(how) ==
  /\ cur # 0
  /\ ended' = [ended EXCEPT ![cur] = how] /\ cur' = 0
  /\ svc' = IF how = "failed" THEN "down" ELSE svc

SvcNext ==
  \/ Up \/ Down \/ \E r \in 1 .. MaxRequest : Begin(r)
  \/ \E how \in {"answered", "failed", "dropped"} : End(how)

SvcSpec == SvcInit /\ [][SvcNext]_svcVars
================================================================================
