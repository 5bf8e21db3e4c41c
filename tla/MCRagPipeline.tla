------------------------------ MODULE MCRagPipeline ------------------------------
(* Two requests for a mild alert and one for a grave alert of the same fingerprint, and
   so of one service and tier: they differ in blast, deviation, cause and certificate. *)
EXTENDS RagPipeline

CONSTANTS r1, r2, r3, mild, grave, k

AlertNamed == [r \in {r1, r2, r3} |-> IF r = r3 THEN grave ELSE mild]
Mild == [tier |-> 3, critical |-> FALSE, blast |-> 2, deviation |-> 5, induced |-> FALSE, hours |-> 24]
Grave == [tier |-> 3, critical |-> FALSE, blast |-> 10, deviation |-> 10, induced |-> TRUE, hours |-> 5]
FactsOf == [a \in {mild, grave} |-> IF a = mild THEN Mild ELSE Grave]
OneKey == [a \in {mild, grave} |-> k]
SomeEvidence == {[average |-> 4, count |-> 1], [average |-> 10, count |-> 10]}
===============================================================================
