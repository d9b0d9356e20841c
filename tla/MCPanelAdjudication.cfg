SPECIFICATION PanelSpec
CONSTANTS
    Panel = {p1, p2}
    SmokeAnchors = {p1}
    Remainder = {q1}
    Workers = 2
    Versions = {v1, v2}
    NoVersion = none
    MaxMishaps = 1
INVARIANTS
    ArmIsOneModel
    PublishedByTheWinner
SYMMETRY Symmetry
CHECK_DEADLOCK FALSE
