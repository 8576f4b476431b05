SPECIFICATION Spec
CONSTANTS
    MaxSeq = 3
    Block = 1
    Jobs = {j1}
    Workers = {w1, w2}
    Claims = {k1, k2, k3}
    Channels = {c1}
    MaxRetries = 1
    LegacyRows = 1
    NoJob = NoJob
    NoWorker = NoWorker
    NoClaim = NoClaim
    NoRow = NoRow
    NoIntent = NoIntent
SYMMETRY Symmetry
INVARIANTS
    TypeOK
    OpenReceiptHoldsJob
    LeasedJobHasOpenReceipt
    HeldIntentStaysFinalizing
    ReservationsDisjoint
    ReservedRowsAreOwn
    CountsAreExact
    HandedOverComplete
    SweepIsNeverRefused
PROPERTY LeaseSpec
\* A runner that left its job, and a finished job, stop.
CHECK_DEADLOCK FALSE
