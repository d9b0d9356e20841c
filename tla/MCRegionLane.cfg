SPECIFICATION FairSpec
CONSTANTS
    dense = dense
    single = single
    a = a
    b = b
    c = c
    Tasks = {dense, single}
    Members = {a, b, c}
    TaskOf <- MCTaskOf
    Order <- MCOrder
    Covered = {a, c}
    Scopes <- MCScopes
    MaxByHand = 1
    MaxKills = 2
INVARIANTS
    OkRowIsWhole
    EveryMemberHasRow
    IntermediatesPurged
PROPERTY
    LaneFinishes
CHECK_DEADLOCK FALSE
