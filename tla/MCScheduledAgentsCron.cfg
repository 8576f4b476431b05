SPECIFICATION FairScheduledSpec
CONSTANTS
    a = a
    b = b
    None = None
    Never = Never
    NumRuns = 2
    Payloads = {p1}
    Replicas = {a}
    MaxAttempts = 1
    MaxFaults = 1
    Scenarios <- MCTwoOccurrences
PROPERTY
    CronDispatchIsRecorded
CHECK_DEADLOCK FALSE
