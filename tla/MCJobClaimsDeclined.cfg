SPECIFICATION FairSpec
CONSTANTS
    MaxSeq = 1
    Block = 1
    Jobs = {j1}
    Workers = {w1}
    Claims = {k1}
    Channels = {c1}
    MaxRetries = 0
    LegacyRows = 0
    NoJob = NoJob
    NoWorker = NoWorker
    NoClaim = NoClaim
    NoRow = NoRow
    NoIntent = NoIntent
PROPERTY DeclinedJobReturnsToQueue
CHECK_DEADLOCK FALSE
