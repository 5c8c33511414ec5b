SPECIFICATION Spec
CONSTANTS
    s1 = s1
    m1 = m1
    Syncs <- OneSync
    Monitors <- OneMonitor
    Prices = {1, 2}
    None = None
    MaxEdits = 1
    MaxFaults = 1
PROPERTIES
    EndedIsNoticed
CHECK_DEADLOCK FALSE
