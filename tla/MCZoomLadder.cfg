SPECIFICATION FairSpec
CONSTANTS
    Readers = {scan, other}
    Scan = scan
    Zooms = {19, 20}
    Ladder <- MCLadder
    Found <- MCFound
    Listing <- MCListing
    Modes <- MCModes
    Browsed = {20}
    MaxAge = 0
    LastVersion = 1
    LastDay = 2
    MaxRuns = 2
    MaxFaults = 1
INVARIANT
    ServedIsWhole
PROPERTIES
    CatalogAge
    ChipOnDiskIsUsed
    CallEnds
CHECK_DEADLOCK FALSE
