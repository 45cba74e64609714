-------------------------- MODULE MCLicencePipeline --------------------------
(* Instances of LicencePipeline for TLC: every payload has a reference of   *)
(* its own, so that the stage of a request can be told from the replies.    *)
EXTENDS LicencePipeline

CONSTANTS w1, w2, s1, s2

TwoWorkers == {w1, w2}
OneWorker == {w1}
OneSender == {s1}
TwoSenders == {s1, s2}
NoneUnsendable == {}
SomeOutcomes == {"valid", "partial", "invalid"}
OwnRef == [p \in Payload |-> p]

=============================================================================
