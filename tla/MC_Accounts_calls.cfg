SPECIFICATION MCSpec
CONSTANTS
    u1 = u1
    Users = {u1}
    MaxAttempts = 1
    MaxSessions = 3
    MaxResets = 1
    MaxChallenges = 1
    MaxSecrets = 1
    MaxOpen = 2
    MaxFaults = 1
    None = None
    tab1 = tab1
    Tabs = {tab1, tab2}
    MaxLogins = 2
    MaxRequests = 3
    MaxFlight = 2
    MaxRow = 1
INVARIANTS
    Inv WorkbenchInv
PROPERTIES
    RevokedForEver SessionKept
CHECK_DEADLOCK FALSE
