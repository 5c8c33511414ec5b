SPECIFICATION Spec
CONSTANTS
    Signals = {"alert_burst", "failure_spike"}
    MaxIncidents = 1
    Requests = {r1, r2}
    Actions = {"block_live_execution", "force_dry_run"}
    MaxPolicies = 1
    Keys = {k1}
    MaxVersions = 2
    Processes = {p1, p2}
    EventTypes = {"auth_refresh_failed"}
    Profile = {"slack"}
    MaxNow = 6
    Components = {"final_value_fee", "ad_fee"}
    MaxConditions = 1
    MaxRules = 3
    MaxOptions = 2
    Sellers = {s1, s2}
    Environments = {e1, e2}
    MaxBindings = 2
    None = None
INVARIANT CredentialsTrue
INVARIANT StrongReviewed
INVARIANT AlertSeen
INVARIANT SpecificRuleWins
INVARIANT SparedIsExact
INVARIANT StrictHonest
PROPERTY BreachKept
PROPERTY OverridesHold
\* A closed incident, a policy that ended and a total stay as they are.
CHECK_DEADLOCK FALSE
