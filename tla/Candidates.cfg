SPECIFICATION FocusSpec
CONSTANTS
    Operators = {o1, o2}
    Crashes = {"dispatch", "save"}
    Window = 2
    Recent = 2
    MaxPerSeller = 1
    None = None
    MaxNow = 4
    MaxRows = 4
    Items <- FiveItems
    Capacities = {"64gb", "128gb"}
    Colors = {"red"}
    Listings <- ThreeKinds
    Counts = {0, 3}
    MaxEvaluations = 2
    MaxElapsed = 3
    Sources <- NineSources
    Workers = {w1, w2}
INVARIANTS
    AutoLaunchEarned
    AllowedEarned
PROPERTIES
    AcceptedApart
    FlagsSurvive
CHECK_DEADLOCK FALSE
