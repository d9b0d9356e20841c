SPECIFICATION Spec
CONSTANTS
    w1 = w1
    w2 = w2
    a = a
    b = b
    Waves = {w1}
    Anchors = {a, b}
    WaveOf <- MCOneWave
    Shells = {s1}
    MaxHot = 1
    MaxDownloads <- MCMaxDownloads
INVARIANT ReleasedIsInArchive
CHECK_DEADLOCK FALSE
