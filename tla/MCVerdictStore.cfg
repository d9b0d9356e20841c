SPECIFICATION Spec
CONSTANTS
    Threads = {t1, t2}
    Contents = {x, y, z}
    p1 = p1
    p2 = p2
    p3 = p3
    Batches <- MCBatches
    Answers = {yes}
    Failed = Failed
    None = None
    Junk = Junk
    Split = Split
    MaxLines = 4
    MaxFaults = 1
SYMMETRY Symmetry
CHECK_DEADLOCK FALSE
INVARIANTS
    VerdictOfItsPixels
    LossPerFault
