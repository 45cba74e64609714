--------------------------- MODULE MCSendToIcms ---------------------------
(* Instances of SendToIcms for TLC. *)
EXTENDS SendToIcms

CONSTANTS s1, s2, r1, r2

TwoSenders == {s1, s2}
TwoRefs == {r1, r2}

(* The task does the same for all replies that it cannot pass on: one      *)
(* class stands for them.                                                  *)
MainOutcomes == {"valid", "partial", "invalid"}

(* Payloads 1 and 2 are for different cases; 3 repeats the case of 1. *)
Refs == [p \in Payload |-> IF p = 2 THEN r2 ELSE r1]

=============================================================================
