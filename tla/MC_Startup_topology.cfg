SPECIFICATION Spec
CONSTANTS
    None = None  Main = Main  s1 = s1  b1 = b1
    Readers = {w1, r1}  Robots = {r1}  Callers = {c1, c2}
    Codes = {z1}  DemoZone = z1  Skus = {s1}  Places = {b1}
    SheetPlace <- MCSheet
    MaxFaults = 1  MaxTables = 2  MaxPings = 2  MaxRestarts = 1
INVARIANTS Inv RobotsKnowSheet
PROPERTIES CacheConverges StartEnds
CHECK_DEADLOCK FALSE
