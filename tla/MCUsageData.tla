----------------------------- MODULE MCUsageData -----------------------------
(* Instances of UsageData for TLC: reports of up to two transactions.      *)
EXTENDS UsageData

CONSTANTS s1, s2, l1, l2

TwoSenders == {s1, s2}
TwoLicences == {l1, l2}
SmallReports == {<<>>, <<l1>>, <<l1, l2>>}

=============================================================================
