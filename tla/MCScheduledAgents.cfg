SPECIFICATION FairOutcomeSpec
CONSTANTS
    a = a
    b = b
    None = None
    Never = Never
    NumRuns = 1
    Payloads = {p1}
    Replicas = {a, b}
    MaxAttempts = 2
    MaxFaults = 1
    Scenarios <- MCScenarios
INVARIANTS
    ScheduledTypeOK
    OnceIsDispatchedOnce
    RecordedRunsHaveJobs
    RunMatchesJob
    DeliveredWasAccepted
PROPERTIES
    EnvelopeIsFinal
    SettledDeliveryStays
    PromiseSpec
    EndedRunsConclude
\* With every run concluded nothing is due.
CHECK_DEADLOCK FALSE
