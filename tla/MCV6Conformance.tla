-------------------------- MODULE MCV6Conformance --------------------------
(* Small instances of V6Conformance for TLC.                                *)
EXTENDS V6Conformance

CONSTANTS r1, r2, i1, i2, s1, c1, c2

DistinctIds == [r \in Requests |-> IF r = r1 THEN i1 ELSE i2]
Kinds == [r \in Requests |-> IF r = r1 THEN "Initialized" ELSE "Result"]
=============================================================================
