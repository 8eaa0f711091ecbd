\* One job with up to two items, two overlapping cancel requests, a crash and
\* two failing database calls, under the fairness of the scheduler.
CONSTANTS
    j1 = j1
    c1 = c1
    c2 = c2
    Jobs = {j1}
    NoJob = NoJob
    Cancels = {c1, c2}
    MaxItems = 2
    MaxCrashes = 1
    MaxDbErrors = 2
SPECIFICATION FairSpec
INVARIANT TypeOK
INVARIANT OutcomeMatchesStatus
INVARIANT UnfinishedHasThread
PROPERTY CancelFlagSticks
PROPERTY OutcomeLostOnlyToEarlierCancel
PROPERTY CancelledLostOnlyInWindow
PROPERTY CancelHonoured
PROPERTY CancelStopsLoop
PROPERTY JobsEnd
CHECK_DEADLOCK FALSE
