SPECIFICATION Spec
CONSTANTS
    s1 = s1
    sandbox = sandbox
    collect = collect
    r1 = r1
    Keys <- MCKeys
    Runners = {r1}
    None = None
    JobOf <- JobNames
    Policy <- MCPolicy
    Lookback = 2
    Period = 2
    SilenceFor = {1}
    MaxTime = 3
    MaxActions = 1
    MaxFaults = 0
PROPERTIES
    OperatorResolveSticks
CHECK_DEADLOCK FALSE
