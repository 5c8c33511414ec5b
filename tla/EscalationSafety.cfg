SPECIFICATION Spec
CONSTANTS
    s1 = s1
    sandbox = sandbox
    collect = collect
    r1 = r1
    Keys <- MCKeys
    Runners = {r1}
    None = None
    JobOf <- JobNames
    Policy <- MCPolicy
    Lookback = 2
    Period = 2
    SilenceFor = {1}
    MaxTime = 3
    MaxActions = 2
    MaxFaults = 1
INVARIANTS
    StatusAgrees
    ReminderCap
    EscalationEarned
    SystemCloseJustified
PROPERTIES
    LevelOnlyRises
    EscalationsSpaced
    RemindersSpaced
    LastSeenAdvances
CHECK_DEADLOCK FALSE
