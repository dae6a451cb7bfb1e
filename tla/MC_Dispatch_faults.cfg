CONSTANTS
    r1 = r1
    r2 = r2
    s1 = s1
    s2 = s2
    s3 = s3
    Robots = {r1, r2}
    NumMissions = 1
    Priorities = {5}
    Sessions = {s1, s2, s3}
    Mortal = {}
    Draining = {}
    NoRobot = NoRobot
    NoSession = NoSession
    MaxOperatorCalls = 1
    MaxFaults = 1
    MaxRestarts = 1
SPECIFICATION Spec
SYMMETRY Symmetry
INVARIANTS
    Inv
    RowNamesExecutor
    DedicatedMission
PROPERTIES
    OwnerIsFinal
\* Every agent may be lost or dead and every operator call spent.
CHECK_DEADLOCK FALSE
