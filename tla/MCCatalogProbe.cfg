SPECIFICATION ProbeSpec
CONSTANTS
    Anchors = {1}
    Routes = {r1, r2}
    Required <- MCRequired
    Dates <- MCDates
    MinDate = 2
    MaxDate = 4
    Census = 2
    PostFrames = 1
    MaxAttempts = 2
    Histories <- MCHistories
    MaxKills = 1
INVARIANTS
    ShortCostsKills
PROPERTIES
    MergeIsFaithful
SYMMETRY Symmetry
CHECK_DEADLOCK FALSE
