CONSTANTS
    s1 = s1
    s2 = s2
    l1 = l1
    l2 = l2
    MaxUsage = 2
    MaxLost = 2
    MaxDamaged = 1
    MaxFailures = 1
    Sender <- TwoSenders
    Licence <- TwoLicences
    Reports <- SmallReports
SPECIFICATION FairSpec
INVARIANTS UsageInv WholeReportTold
PROPERTIES PostedInOrder WholeFileIsClosed
CHECK_DEADLOCK FALSE
