SPECIFICATION Spec
CONSTANTS
    Workers = {w1, w2}
    Logical = {a, b}
    NoCall = NoCall
    LastWindow = 2
    Gross = 3
    Work = 1
    TripAfter = 2
    MaxFaults = 2
SYMMETRY Symmetry
CHECK_DEADLOCK FALSE
INVARIANTS
    SpendBounded
    NewWorkBounded
    LedgerMatchesCalls
    AtMostOneAnswerWasted
PROPERTY
    NoCallPastMarker
