SPECIFICATION ControlSpec
CONSTANTS
    MaxSeq = 2
    Block = 1
    Jobs = {j1}
    Workers = {w1}
    Claims = {k1, k2}
    Channels = {c1}
    MaxRetries = 0
    LegacyRows = 0
    Asks = {a1}
    PlanningJobs = {j1}
    LogChannel = c1
    NoJob = NoJob
    NoWorker = NoWorker
    NoClaim = NoClaim
    NoRow = NoRow
    NoIntent = NoIntent
INVARIANT HeldIntentStaysFinalizing
CHECK_DEADLOCK FALSE
