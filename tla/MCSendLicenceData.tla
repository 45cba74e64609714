------------------------- MODULE MCSendLicenceData -------------------------
(* Instances of SendLicenceData for TLC. *)
EXTENDS SendLicenceData, TLC

CONSTANTS w1, w2

OneWorker == {w1}
TwoWorkers == {w1, w2}
NonePayload == {}
LastPayload == {MaxPayload}

(* Workers are interchangeable; payloads and mails are ordered. *)
WorkerSymmetry == Permutations(Worker)

=============================================================================
