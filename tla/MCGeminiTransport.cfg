SPECIFICATION FairSpec
CONSTANTS
    Workers = {w1, w2}
    Chunks = {a, b}
    NoCall = NoCall
    NoChunk = NoChunk
    LastWindow = 1
    Gross = 5
    Work = 3
    TripAfter = 2
    MaxFaults = 1
    NChips = 2
    MaxAttempts = 2
    PoolAttempts = 2
    MaxInFlight = 1
INVARIANTS
    SlotsBalanced
    VerdictHasLedgerRow
    TriesBounded
PROPERTIES
    ImplementsBreaker
    ChunkEnds
CHECK_DEADLOCK FALSE
