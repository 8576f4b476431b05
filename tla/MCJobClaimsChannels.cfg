SPECIFICATION Spec
CONSTANTS
    MaxSeq = 3
    Block = 2
    Jobs = {j1}
    Workers = {w1, w2}
    Claims = {k1, k2}
    Channels = {c1, c2}
    MaxRetries = 1
    LegacyRows = 0
    NoJob = NoJob
    NoWorker = NoWorker
    NoClaim = NoClaim
    NoRow = NoRow
    NoIntent = NoIntent
SYMMETRY Symmetry
INVARIANT HandedOverComplete
CHECK_DEADLOCK FALSE
