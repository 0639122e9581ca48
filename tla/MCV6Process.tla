---------------------------- MODULE MCV6Process ----------------------------
(* Small instances of V6Process for TLC.                                    *)
EXTENDS V6Process

CONSTANTS r1, r2, r3, i1, i2, i3, s1, s2, c1, c2, h1

\* Distinct ids, as protocol::request_id draws them from its counter.
DistinctIds == [r \in Requests |-> CASE r = r1 -> i1 [] r = r2 -> i2 [] r = r3 -> i3]

\* Two of three requests carry the same id.
ReusedId == [r \in Requests |-> IF r = r2 THEN i2 ELSE i1]

NoRequestIds == [r \in {} |-> i1]

\* initialize, then an execute, then an event.
Lifecycle == [r \in Requests |-> CASE r = r1 -> "Initialized" [] r = r2 -> "Result"
                                   [] r = r3 -> "EventResult"]
HealthFirst == [r \in Requests |-> IF r = r1 THEN "Health" ELSE "Result"]
NoExpected == [r \in {} |-> "Health"]
=============================================================================
