CONSTANTS
    t1 = t1
    t2 = t2
    NumScans = 3
    BatchSize = 2
    Main = Main
    Syncs = {t1, t2}
    MaxFaults = 1
SPECIFICATION FairSpec
INVARIANTS
    Inv
    DuplicatesBounded
PROPERTIES
    BufferKeeps
    DeletedOnlyIfStored
    BufferDrains
