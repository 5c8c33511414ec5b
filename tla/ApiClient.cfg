SPECIFICATION FairSpec
CONSTANTS
    publish = publish
    t1 = t1
    t2 = t2
    Threads = {t1, t2}
    Operations <- OneOperation
    None = None
    MaxRetry = 1
    Lifetime = 2
    Lead = 1
    Burst = 1
    Cost = 2
    MaxTime = 1
    MaxCalls = 3
    MaxRevocations = 1
INVARIANTS
    AdmissionsLimited
    ReadRefusalIsFinal
PROPERTIES
    CallsReturn
CHECK_DEADLOCK FALSE
