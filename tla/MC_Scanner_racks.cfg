CONSTANTS
    r1 = r1
    r2 = r2
    c1 = c1
    Racks = {r1, r2}
    Route <- MCRoute
    Unreadable = {}
    Codes = {c1}
    At <- MCAt
    Sheet <- MCSheet
    First <- MCFirst
    Home <- MCPark
    ScanPose <- MCScan
    ParkPose <- MCPark
    MaxAngle = 2
    Margin = 0
    MaxSent = 1
    MaxDepth = 2
    PitchStep = 1
    Sweep = 1
    MaxTries = 1
    MaxFaults = 1
SPECIFICATION Spec
INVARIANTS
    Inv
PROPERTIES
    Answered
    StopDrains
CHECK_DEADLOCK FALSE
