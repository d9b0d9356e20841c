SPECIFICATION FairSpec
CONSTANTS
    Dates <- MCDates
    Census <- MCCensus
    YearOf <- MCYearOf
    Catalogs <- MCCatalogs
    Redrawn <- MCRedrawn
    FloorYear = 12
    WalkBackYears = 1
    PicksPerRound = 3
    TailThreshold = 1
    FailurePct = 50
    ReferenceSlots = 1
    MaxRecovery = 2
    MaxIter = 8
    MaxInterrupts = 1
    FlightDates = {0, 3, 7}
INVARIANTS
    EveryRoundIsNew
    TerminalIsBacked
    IntervalIsExact
PROPERTIES
    CheckpointOnlyGrows
    ScanEnds
CHECK_DEADLOCK FALSE
