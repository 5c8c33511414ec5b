SPECIFICATION FairSpec
CONSTANTS
    collect = collect
    research = research
    listing = listing
    Jobs <- MCJobs
    Registered <- MCRegistered
    DependsOn <- MCDependsOn
    LockKey <- MCLockKey
    Schedule <- MCSchedule
    Interval <- MCInterval
    Loop = loop
    Operators = {o1}
    Overrides = {few}
    None = None
    MaxTime = 1
    MaxTriggers = 1
    MaxFaults = 1
INVARIANTS
    MutualExclusion
    LocksHeld
    DependenciesFirst
    LimitRestored
PROPERTIES
    DueJobRuns
CHECK_DEADLOCK FALSE
