\* Two transcode jobs, one cancel request at a time.
CONSTANTS
    j1 = j1
    j2 = j2
    c1 = c1
    Jobs = {j1, j2}
    NoJob = NoJob
    Cancels = {c1}
    KindOf <- TwoTranscodes
    MaxItems = 1
    MaxCrashes = 0
    MaxDbErrors = 0
SPECIFICATION SlotSpec
SYMMETRY JobSymmetry
INVARIANT SlotTypeOK
PROPERTY LoneJobIsGuarded
PROPERTY LoneJobPollsItself
PROPERTY ProgressLostOnlyToStart
CHECK_DEADLOCK FALSE
