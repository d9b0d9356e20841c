SPECIFICATION BatchFairSpec
CONSTANTS
    NAnchors = 3
    WorkerCounts = {1, 2}
    InitialFiles = {"none", "unreadable", "other_geometry"}
    MaxFaults = 2
INVARIANTS
    ExitZeroMeansDone
    FailClosedIsResumable
PROPERTIES
    BatchEnds
CHECK_DEADLOCK FALSE
