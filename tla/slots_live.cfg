\* Two scans, one cancel request at a time, a crash and a
\* database failure, under the fairness of the scheduler.
CONSTANTS
    j1 = j1
    j2 = j2
    c1 = c1
    Jobs = {j1, j2}
    NoJob = NoJob
    Cancels = {c1}
    KindOf <- TwoScans
    MaxItems = 1
    MaxCrashes = 1
    MaxDbErrors = 1
SPECIFICATION SlotFairSpec
PROPERTY LoneJobIsGuarded
PROPERTY SlotReopens
CHECK_DEADLOCK FALSE
