SPECIFICATION FairStreamSpec
CONSTANTS
    w1 = w1
    w2 = w2
    d1 = d1
    NumEntries = 2
    Web = Web
    Discord = Discord
    Consumers = {w1, w2, d1}
    Cleaners = {d1}
    Steady = {w1, d1}
    BatchSize = 3
    MaxDeliveries = 2
    MaxFaults = 1
    NativeSets <- MCNativeSets
    JobOf <- MCJobOf
    Deployments <- MCDeployments
    GroupOf <- MCGroupOf
    Refused <- MCRefused
    PageConcurrency <- MCPageConcurrency
INVARIANTS
    StreamTypeOK
    
    RenderedAtMostOnce
    TrimmedIsSettled
    RenderInPageOrder
    LossIsEarned
    SomebodyHoldsTurn
    IdleIsReclaimable
\* With every entry settled the readers wait for more.
CHECK_DEADLOCK FALSE
PROPERTIES
    
    EntriesSettle
