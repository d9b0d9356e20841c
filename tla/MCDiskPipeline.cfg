SPECIFICATION Spec
CONSTANTS
    w1 = w1
    w2 = w2
    a = a
    b = b
    Waves = {w1, w2}
    Anchors = {a, b}
    WaveOf <- MCWaveOf
    Shells = {s1, s2}
    MaxHot = 1
    MaxDownloads <- MCMaxDownloads
SYMMETRY MCSymmetry
INVARIANTS
    NoScanWithoutChip
    
PROPERTIES
    DeletedIsRecorded
    DeletedWasArchived
CHECK_DEADLOCK FALSE
