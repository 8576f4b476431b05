SPECIFICATION FairSpec
CONSTANTS
    MaxSeq = 2
    Block = 1
    Jobs = {j1}
    Workers = {w1}
    Claims = {k1, k2}
    Channels = {c1}
    MaxRetries = 1
    LegacyRows = 0
    NoJob = NoJob
    NoWorker = NoWorker
    NoClaim = NoClaim
    NoRow = NoRow
    NoIntent = NoIntent
PROPERTIES
    HeldIntentIsApplied
    QuotaPauseEnds
CHECK_DEADLOCK FALSE
