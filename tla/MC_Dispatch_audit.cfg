CONSTANTS
    r1 = r1
    s1 = s1
    s2 = s2
    Robots = {r1}
    NumMissions = 1
    Priorities = {5}
    Sessions = {s1, s2}
    Mortal = {r1}
    Draining = {r1}
    NoRobot = NoRobot
    NoSession = NoSession
    MaxOperatorCalls = 1
    MaxFaults = 1
    MaxRestarts = 0
SPECIFICATION FairSpec
PROPERTIES
    AuditCompletes
    PolledUntilStuck
    RowConverges
\* Every agent may be lost or dead and every operator call spent.
CHECK_DEADLOCK FALSE
