SPECIFICATION Spec
CONSTANTS
    collect = collect
    research = research
    listing = listing
    Jobs <- MCJobs
    Registered <- MCRegistered
    DependsOn <- MCDependsOn
    LockKey <- MCLockKey
    Schedule <- MCSchedule
    Interval <- MCInterval
    Loop = loop
    Operators = {o1}
    Overrides = {few}
    None = None
    MaxTime = 1
    MaxTriggers = 1
    MaxFaults = 0
INVARIANTS
    OverridesTemporary
CHECK_DEADLOCK FALSE
