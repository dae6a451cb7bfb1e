CONSTANTS
    s1 = s1
    b1 = b1
    c1 = c1
    Robots = {}
    Scanners = {s1}
    Bins = {b1}
    Clients = {c1}
    MaxValue = 2
    MaxChange = 2
    MaxQueue = 2
    MaxFaults = 1
SPECIFICATION Spec
INVARIANTS
    Inv
PROPERTIES
    ShowsTwin
    FleetGone
CHECK_DEADLOCK FALSE
